--------------------------- MODULE BtSessionProofs ---------------------------
(***************************************************************************)
(* A registered download is found, for any number of downloads and of      *)
(* incoming connections and any capacity of their channels.                *)
(***************************************************************************)
EXTENDS BtSession, TLAPS

Places == {"start", "register", "running", "closing", "waiting", "gone", "failed"}
Stages == {"none", "new", "handshake", "lookup", "deliver", "send", "queued",
           "joined", "closed"}
Registration == [closed : BOOLEAN, lock : {None, "close"}, step : 0 .. 3,
                 c : SUBSET Conns, shut : BOOLEAN]

Typed ==
    /\ registry \in Regs \cup {None}
    /\ reg \in [Regs -> Registration]
    /\ owner \in [Regs -> Places]
    /\ conn \in [Conns -> [at : Stages, reg : Regs \cup {None}]]

\* A registration is closed by its download, which has left "running" by
\* then, or by the session, which is closed by then.
ClosedForAReason ==
    /\ closing # "no" => closed
    /\ \A r \in Regs : reg[r].step # 0 =>
          closed \/ owner[r] \in {"closing", "waiting", "gone"}

\* Who delivers has a registration.
Addressed ==
    \A k \in Conns : conn[k].at \in {"deliver", "send"} => conn[k].reg \in Regs

IInv == Typed /\ ClosedForAReason /\ Addressed /\ RegisteredIsFound

-----------------------------------------------------------------------------

\* BsInit: nothing is registered and no connection has come.
LEMMA InitFound == BsInit => IInv
  BY DEF BsInit, IInv, Typed, Places, Stages, Registration, ClosedForAReason, Addressed,
         RegisteredIsFound, NewReg, None

\* The first and the last section of btInboundRegistration.Close leave a
\* registration a registration.
LEMMA MarksClosed ==
    ASSUME NEW x \in Registration
    PROVE  [x EXCEPT !.closed = TRUE, !.lock = "close", !.step = 1] \in Registration
<1> DEFINE y == [x EXCEPT !.closed = TRUE]
           z == [y EXCEPT !.lock = "close"]
<1>1. y \in Registration
  BY DEF Registration
<1> HIDE DEF y
<1>2. z \in Registration
  BY <1>1 DEF Registration
<1> HIDE DEF z
<1>3. [z EXCEPT !.step = 1] \in Registration
  BY <1>2 DEF Registration
<1>4. QED
  BY <1>3 DEF y, z

LEMMA ShutsChannel ==
    ASSUME NEW x \in Registration
    PROVE  [x EXCEPT !.step = 3, !.lock = None, !.shut = TRUE] \in Registration
<1> DEFINE y == [x EXCEPT !.step = 3]
           z == [y EXCEPT !.lock = None]
<1>1. y \in Registration
  BY DEF Registration
<1> HIDE DEF y
<1>2. z \in Registration
  BY <1>1 DEF Registration
<1> HIDE DEF z
<1>3. [z EXCEPT !.shut = TRUE] \in Registration
  BY <1>2 DEF Registration
<1>4. QED
  BY <1>3 DEF y, z

\* Every step of downloads, closers, session and connections keeps IInv
\* (Register refuses a second registration, closeFn removes only its own).
LEMMA StepFound ==
    ASSUME None \notin Regs, IInv, [BsNext]_bsVars
    PROVE  IInv'
<1> USE DEF IInv, Typed, Places, Stages, Registration, ClosedForAReason, Addressed,
            RegisteredIsFound, None
<1>1. ASSUME NEW r \in Regs, EnsureListening(r) PROVE IInv'
  <2>1. /\ UNCHANGED <<registry, closed, closing, reg, conn>>
        /\ owner[r] = "start"
        /\ \E p \in {"failed", "register"} : owner' = [owner EXCEPT ![r] = p]
    BY <1>1 DEF EnsureListening
  <2>2. QED
    BY <2>1
<1>2. ASSUME NEW r \in Regs, Register(r) PROVE IInv'
  BY <1>2 DEF Register
<1>3. ASSUME NEW r \in Regs, Bridge(r) PROVE IInv'
  <2>0. PICK k \in reg[r].c : /\ reg' = [reg EXCEPT ![r].c = @ \ {k}]
                              /\ conn' = [conn EXCEPT ![k].at = "joined"]
    BY <1>3 DEF Bridge
  <2>1. Typed'
    <3>1. k \in Conns
      OBVIOUS
    <3>2. reg' \in [Regs -> Registration]
      <4>1. reg[r] \in Registration /\ reg[r].c \ {k} \in SUBSET Conns
        OBVIOUS
      <4>2. [reg[r] EXCEPT !.c = @ \ {k}] \in Registration
        BY <4>1
      <4>3. QED
        BY <2>0, <4>2
    <3>3. conn' \in [Conns -> [at : Stages, reg : Regs \cup {None}]]
      BY <2>0, <3>1
    <3>4. QED
      BY <1>3, <3>2, <3>3 DEF Bridge
  <2>2. ClosedForAReason'
    BY <1>3 DEF Bridge
  <2>3. Addressed'
    BY <1>3 DEF Bridge
  <2>4. RegisteredIsFound'
    BY <1>3 DEF Bridge
  <2>5. QED
    BY <2>1, <2>2, <2>3, <2>4
<1>4. ASSUME NEW r \in Regs, DownloadEnds(r) PROVE IInv'
  <2>1. Typed'
    BY <1>4 DEF DownloadEnds
  <2>2. ClosedForAReason'
    BY <1>4 DEF DownloadEnds
  <2>3. Addressed'
    BY <1>4 DEF DownloadEnds
  <2>4. RegisteredIsFound'
    BY <1>4 DEF DownloadEnds
  <2>5. QED
    BY <2>1, <2>2, <2>3, <2>4
<1>5. ASSUME NEW r \in Regs, RegClose(r) PROVE IInv'
  <2>1. UNCHANGED <<closed, closing, owner, conn>>
    BY <1>5 DEF RegClose
  <2>2. /\ registry' \in {registry, None}
        /\ registry' # registry => registry = r /\ reg[r].step = 1
    BY <1>5 DEF RegClose
  <2>3. /\ reg' \in [Regs -> Registration]
        /\ \A q \in Regs : reg'[q].c = reg[q].c
    <3>0. reg[r] \in Registration
      OBVIOUS
    <3>1. CASE reg' = [reg EXCEPT ![r].closed = TRUE, ![r].lock = "close",
                                  ![r].step = 1]
      <4> DEFINE n == [reg[r] EXCEPT !.closed = TRUE, !.lock = "close", !.step = 1]
      <4>1. reg' = [reg EXCEPT ![r] = n]
        BY <3>1
      <4>2. n.c = reg[r].c
        BY <3>0
      <4>3. n \in Registration
        BY <3>0, MarksClosed
      <4> HIDE DEF n, Registration
      <4>4. QED
        BY <4>1, <4>2, <4>3
    <3>2. CASE reg' = [reg EXCEPT ![r].step = 2]
      BY <3>0, <3>2
    <3>3. CASE reg' = [reg EXCEPT ![r].step = 3, ![r].lock = None, ![r].shut = TRUE]
      <4> DEFINE n == [reg[r] EXCEPT !.step = 3, !.lock = None, !.shut = TRUE]
      <4>1. reg' = [reg EXCEPT ![r] = n]
        BY <3>3
      <4>2. n.c = reg[r].c
        BY <3>0
      <4>3. n \in Registration
        BY <3>0, ShutsChannel
      <4> HIDE DEF n, Registration
      <4>4. QED
        BY <4>1, <4>2, <4>3
    <3>4. QED
      BY <1>5, <3>1, <3>2, <3>3 DEF RegClose
  <2>4. \A q \in Regs : reg'[q].step # 0 => reg[q].step # 0 \/ Closers(q) # {}
    BY <1>5 DEF RegClose
  <2>5. \A q \in Regs : Closers(q) # {} => closed \/ owner[q] = "closing"
    BY DEF Closers
  <2>6. ClosedForAReason'
    BY <2>1, <2>4, <2>5
  <2>7. RegisteredIsFound'
    <3>1. \A q \in Regs : (owner'[q] = "running" /\ ~closed') => registry' = q
      BY <2>1, <2>2
    <3>2. \A q \in Regs : \A k \in reg'[q].c :
             conn'[k].at = "queued" /\ conn'[k].reg = q
      BY <2>1, <2>3
    <3>3. QED
      BY <3>1, <3>2
  <2>8. Typed' /\ Addressed'
    BY <2>1, <2>2, <2>3
  <2>9. QED
    BY <2>6, <2>7, <2>8
<1>6. CASE CloseSwaps
  BY <1>6 DEF CloseSwaps
<1>7. CASE CloseStops
  BY <1>7 DEF CloseStops
<1>8. CASE CloseReturns
  BY <1>8 DEF CloseReturns
<1>9. CASE acceptTCP
  <2>1. Typed'
    BY <1>9 DEF acceptTCP
  <2>2. ClosedForAReason'
    BY <1>9 DEF acceptTCP
  <2>3. Addressed'
    BY <1>9 DEF acceptTCP
  <2>4. RegisteredIsFound'
    BY <1>9 DEF acceptTCP
  <2>5. QED
    BY <2>1, <2>2, <2>3, <2>4
<1>10. ASSUME NEW k \in Conns, handleIncoming(k) PROVE IInv'
  <2>1. Typed'
    BY <1>10 DEF handleIncoming, To
  <2>2. ClosedForAReason'
    BY <1>10 DEF handleIncoming, To
  <2>3. Addressed'
    BY <1>10 DEF handleIncoming, To
  <2>4. RegisteredIsFound'
    BY <1>10 DEF handleIncoming, To
  <2>5. QED
    BY <2>1, <2>2, <2>3, <2>4
<1>11. ASSUME NEW k \in Conns, deliver(k) PROVE IInv'
  <2> DEFINE r == conn[k].reg
  <2> SUFFICES ASSUME r \in Regs, UNCHANGED <<registry, closed, closing, owner>>
               PROVE  IInv'
    BY <1>11 DEF deliver
  <2>1. CASE UNCHANGED reg /\ \E at \in Stages, x \in Regs \cup {None} :
               /\ at \in {"deliver", "send"} => x \in Regs
               /\ conn[k].at # "queued" /\ To(k, at, x)
    BY <2>1 DEF To
  <2>2. CASE /\ conn[k].at = "send" /\ To(k, "queued", r)
             /\ reg' = [reg EXCEPT ![r].c = @ \cup {k}]
    <3>1. conn'[k].at = "queued" /\ conn'[k].reg = r
      BY <2>2 DEF To
    <3>2. \A j \in Conns : j # k => conn'[j] = conn[j]
      BY <2>2 DEF To
    <3>3. \A q \in Regs : /\ reg'[q].step = reg[q].step
                          /\ reg'[q].c = IF q = r THEN reg[r].c \cup {k} ELSE reg[q].c
      BY <2>2
    <3>4. k \notin UNION {reg[q].c : q \in Regs}
      BY <2>2
    <3>5. Typed'
      <4>1. reg' \in [Regs -> Registration]
        BY <2>2
      <4>2. conn' \in [Conns -> [at : Stages, reg : Regs \cup {None}]]
        BY <2>2 DEF To
      <4>3. QED
        BY <4>1, <4>2
    <3>6. ClosedForAReason' /\ Addressed'
      BY <3>1, <3>2, <3>3
    <3>7. RegisteredIsFound'
      BY <3>1, <3>2, <3>3, <3>4
    <3>8. QED
      BY <3>5, <3>6, <3>7
  <2>3. QED
    BY <1>11, <2>1, <2>2 DEF deliver
<1>12. CASE UNCHANGED bsVars
  BY <1>12 DEF bsVars
<1>13. QED
  BY <1>1, <1>2, <1>3, <1>4, <1>5, <1>6, <1>7, <1>8, <1>9, <1>10, <1>11, <1>12
     DEF BsNext, Steps

\* While the session is open, a registered download is the one incoming
\* connections find, and a connection waits only where it was looked up
\* (Register, btInboundRegistration.Close, BtSession.Close, deliver).
THEOREM RegisteredHolds ==
    ASSUME None \notin Regs
    PROVE  BsSpec => []RegisteredIsFound
<1>1. IInv => RegisteredIsFound
  BY DEF IInv
<1>2. QED
  BY <1>1, InitFound, StepFound, PTL DEF BsSpec
=============================================================================
