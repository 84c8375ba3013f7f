------------------------------ MODULE BtSession ------------------------------
(***************************************************************************)
(* The BitTorrent session shared by the downloads                          *)
(* (internal/engine/bt_session.go): the listeners and their accept loops,  *)
(* the registry of the torrents that take incoming connections, one        *)
(* goroutine per incoming connection, and the close of a registration and  *)
(* of the session.  Sections under s.mu are single steps; r.mu is held     *)
(* over several.  All registrations are for one info hash: different       *)
(* hashes share nothing but the locks.                                     *)
(***************************************************************************)
EXTENDS Naturals, FiniteSets

CONSTANTS Regs,     \* downloads of the torrent that register, in any order
          Conns,    \* incoming connections
          RegCap    \* capacity of a registration's channel C

None == "none"

VARIABLES registry,  \* the registration of the info hash, or None
          closed,    \* the session's closed flag
          ln,        \* the listener: "none", "open" or "closed"
          done,      \* the accept loop's context is cancelled
          accept,    \* the accept loop: "off", "on" or "returned"
          closing,   \* Close: "no", "swapped", "stopped", "regs", "returned"
          toClose,   \* the registrations Close has still to close
          reg,       \* per download: its registration's fields
          owner,     \* per download: where it is
          conn,      \* per incoming connection: where its handler is
          panicked   \* a send on a closed channel

bsVars == <<registry, closed, ln, done, accept, closing, toClose, reg, owner,
            conn, panicked>>

NewReg == [closed |-> FALSE, lock |-> None, step |-> 0, c |-> {}, shut |-> FALSE]

(***************************************************************************)
(* A download: listen, register, bridge the connections, close, wait.      *)
(***************************************************************************)
EnsureListening(r) ==
    /\ owner[r] = "start"
    /\ \/ /\ closed
          /\ owner' = [owner EXCEPT ![r] = "failed"]
          /\ UNCHANGED <<ln, accept>>
       \/ /\ ~closed /\ ln = "none"
          /\ \/ /\ ln' = "open" /\ accept' = "on"
                /\ owner' = [owner EXCEPT ![r] = "register"]
             \/ /\ owner' = [owner EXCEPT ![r] = "failed"]  \* port in use
                /\ UNCHANGED <<ln, accept>>
       \/ /\ ~closed /\ ln = "open"
          /\ owner' = [owner EXCEPT ![r] = "register"]
          /\ UNCHANGED <<ln, accept>>
    /\ UNCHANGED <<registry, closed, done, closing, toClose, reg, conn,
                   panicked>>

RegisterReplaces(r) ==                                             \* mutant
    /\ owner[r] = "register"
    /\ IF closed
       THEN owner' = [owner EXCEPT ![r] = "failed"] /\ UNCHANGED registry
       ELSE /\ registry' = r
            /\ owner' = [owner EXCEPT ![r] = "running"]
    /\ UNCHANGED <<closed, ln, done, accept, closing, toClose, reg, conn,
                   panicked>>

Register(r) ==
    /\ owner[r] = "register"
    /\ IF closed \/ registry # None
       THEN owner' = [owner EXCEPT ![r] = "failed"] /\ UNCHANGED registry
       ELSE /\ registry' = r
            /\ owner' = [owner EXCEPT ![r] = "running"]
    /\ UNCHANGED <<closed, ln, done, accept, closing, toClose, reg, conn,
                   panicked>>

\* runInboundPeerBridge hands a connection to the download.
Bridge(r) ==
    /\ owner[r] \in {"running", "closing", "waiting"}
    /\ \E k \in reg[r].c :
          /\ reg' = [reg EXCEPT ![r].c = @ \ {k}]
          /\ conn' = [conn EXCEPT ![k].at = "joined"]
    /\ UNCHANGED <<registry, closed, ln, done, accept, closing, toClose, owner,
                   panicked>>

\* The deferred inboundReg.Close and inboundWG.Wait of the download.
DownloadEnds(r) ==
    /\ \/ /\ owner[r] = "running" /\ owner' = [owner EXCEPT ![r] = "closing"]
       \/ /\ owner[r] = "closing" /\ reg[r].shut
          /\ owner' = [owner EXCEPT ![r] = "waiting"]
       \/ /\ owner[r] = "waiting"  \* C is drained unless ctx was cancelled
          /\ owner' = [owner EXCEPT ![r] = "gone"]
    /\ UNCHANGED <<registry, closed, ln, done, accept, closing, toClose, reg,
                   conn, panicked>>

(***************************************************************************)
(* btInboundRegistration.Close, by the download or by the session, once:   *)
(* closed under r.mu, then closeFn under s.mu, then close(C).              *)
(***************************************************************************)
Closers(r) ==
    {w \in {"download", "session"} :
        \/ w = "download" /\ owner[r] = "closing"
        \/ w = "session" /\ closing = "regs" /\ r \in toClose}

RegClose(r) ==
    /\ \/ /\ reg[r].step = 0 /\ Closers(r) # {} /\ reg[r].lock = None
          /\ reg' = [reg EXCEPT ![r].closed = TRUE, ![r].lock = "close",
                                ![r].step = 1]
          /\ UNCHANGED registry
       \/ /\ reg[r].step = 1
          /\ registry' = IF registry = r THEN None ELSE registry
          /\ reg' = [reg EXCEPT ![r].step = 2]
       \/ /\ reg[r].step = 2
          /\ reg' = [reg EXCEPT ![r].step = 3, ![r].lock = None,
                                ![r].shut = TRUE]
          /\ UNCHANGED registry
    /\ UNCHANGED <<closed, ln, done, accept, closing, toClose, owner, conn,
                   panicked>>

(***************************************************************************)
(* BtSession.Close.                                                        *)
(***************************************************************************)
CloseSwaps ==
    /\ closing = "no"
    /\ closed' = TRUE
    /\ toClose' = {r \in Regs : registry = r}
    /\ registry' = None
    /\ closing' = "swapped"
    /\ UNCHANGED <<ln, done, accept, reg, owner, conn, panicked>>

CloseStops ==
    /\ closing = "swapped"
    /\ done' = (ln # "none")
    /\ ln' = IF ln = "none" THEN ln ELSE "closed"
    /\ closing' = "regs"
    /\ UNCHANGED <<registry, closed, accept, toClose, reg, owner, conn,
                   panicked>>

CloseReturns ==
    /\ closing = "regs"
    /\ \A r \in toClose : reg[r].shut
    /\ accept # "on"
    /\ closing' = "returned"
    /\ UNCHANGED <<registry, closed, ln, done, accept, toClose, reg, owner,
                   conn, panicked>>

(***************************************************************************)
(* The accept loop and the handler of one incoming connection.             *)
(***************************************************************************)
acceptTCP ==
    /\ accept = "on"
    /\ \/ /\ ln = "closed" /\ done
          /\ accept' = "returned" /\ UNCHANGED conn
       \/ \E k \in Conns :
             /\ ln = "open" /\ conn[k].at = "none"
             /\ conn' = [conn EXCEPT ![k].at = "new"]
             /\ UNCHANGED accept
    /\ UNCHANGED <<registry, closed, ln, done, closing, toClose, reg, owner,
                   panicked>>

To(k, at, r) == conn' = [conn EXCEPT ![k] = [at |-> at, reg |-> r]]

handleIncoming(k) ==
    /\ \/ /\ conn[k].at = "new"                          \* snapshotConfigs
          /\ To(k, IF registry = None THEN "closed" ELSE "handshake", None)
       \/ /\ conn[k].at = "handshake"                    \* AcceptAny
          /\ \E at \in {"lookup", "closed"} : To(k, at, None)
       \/ /\ conn[k].at = "lookup"                       \* registration
          /\ To(k, IF registry = None THEN "closed" ELSE "deliver", registry)
    /\ UNCHANGED <<registry, closed, ln, done, accept, closing, toClose, reg,
                   owner, panicked>>

\* The closed flag is read under r.mu; the send happens outside of it.
deliver(k) ==
    LET r == conn[k].reg
    IN  /\ \/ /\ conn[k].at = "deliver" /\ reg[r].lock = None
              /\ To(k, IF reg[r].closed THEN "closed" ELSE "send", r)
              /\ UNCHANGED <<reg, panicked>>
           \/ /\ conn[k].at = "send"
              /\ panicked' = (panicked \/ reg[r].shut)
              /\ IF ~reg[r].shut /\ Cardinality(reg[r].c) < RegCap
                 THEN /\ reg' = [reg EXCEPT ![r].c = @ \union {k}]
                      /\ To(k, "queued", r)
                 ELSE To(k, "closed", None) /\ UNCHANGED reg
        /\ UNCHANGED <<registry, closed, ln, done, accept, closing, toClose,
                       owner>>

BsInit ==
    /\ registry = None /\ closed = FALSE /\ ln = "none" /\ done = FALSE
    /\ accept = "off" /\ closing = "no" /\ toClose = {} /\ panicked = FALSE
    /\ reg = [r \in Regs |-> NewReg]
    /\ owner = [r \in Regs |-> "start"]
    /\ conn = [k \in Conns |-> [at |-> "none", reg |-> None]]

Steps ==
    \/ \E r \in Regs : EnsureListening(r) \/ Register(r) \/ Bridge(r)
                       \/ DownloadEnds(r) \/ RegClose(r)
    \/ CloseSwaps \/ CloseStops \/ CloseReturns \/ acceptTCP
    \/ \E k \in Conns : handleIncoming(k) \/ deliver(k)

BsNext == ~panicked /\ Steps

\* The goroutines run, downloads end and the engine shuts down.
BsSpec == BsInit /\ [][BsNext]_bsVars /\ WF_bsVars(BsNext)

(***************************************************************************)
(* Properties.                                                             *)
(***************************************************************************)
(***************************************************************************)
(* While the session is open, a download that has registered and whose     *)
(* registration is not being closed is the one incoming connections find   *)
(* (Register refuses a second one; closeFn removes only its own), and a    *)
(* connection waits only in the channel of the registration it was looked  *)
(* up in.                                                                  *)
(***************************************************************************)
RegisteredIsFound ==
    /\ \A r \in Regs : (owner[r] = "running" /\ ~closed) => registry = r
    /\ \A r \in Regs : \A k \in reg[r].c :
          conn[k].at = "queued" /\ conn[k].reg = r

(***************************************************************************)
(* Close returns and every download has ended: no closer waits for a lock  *)
(* another one holds.  A panic ends the process.                           *)
(***************************************************************************)
AtRest == panicked \/ (/\ closing = "returned"
                       /\ \A r \in Regs : owner[r] \in {"failed", "gone"})
=============================================================================
