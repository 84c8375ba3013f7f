-------------------------------- MODULE Utp --------------------------------
(***************************************************************************)
(* A uTP connection (internal/protocol/bittorrent/utp/utp.go): a byte      *)
(* stream over UDP.  The two ends are the one that dials, "ini", and the   *)
(* one that accepts, "acc"; one of them writes and the other reads.  Each  *)
(* end's incoming packets are handled by two goroutines, its tickLoop and  *)
(* its reader.  The network may lose, duplicate and reorder packets.       *)
(*                                                                         *)
(* Sequence numbers are SeqRange-valued counters, as in the 16-bit header.   *)
(***************************************************************************)
EXTENDS Integers, Sequences, FiniteSets, SequencesExt

CONSTANTS
    Writers,      \* which end writes, one of the two
    FirstSeqs,    \* what rand gives the accepting end
    SeqRange,       \* 2^16
    Cwnd,         \* packets in flight, the smallest the congestion window allows
    IncomingCap,  \* capacity of incoming
    MaxWrites,
    MaxFaults     \* bound on faults of the network, foreign packets, closes
                  \* and retransmissions

VARIABLES
    ends,      \* per end: its Conn
    inNet,     \* per end: the packets on their way to it
    written,   \* what the writer has written
    taken,     \* what the reader has been given
    faulty,    \* what has gone wrong: "no", a packet lost or out of order in the
               \* "net" or at a full queue, a reply "stolen" from the handshake
    spent,     \* of MaxFaults
    writes     \* the end that writes

utpVars == <<ends, inNet, written, taken, faulty, spent, writes>>

Ends == {"ini", "acc"}
Other(e) == IF e = "ini" THEN "acc" ELSE "ini"
Up(n) == (n + 1) % SeqRange
seqDiff(a, b) == (a - b + SeqRange) % SeqRange
Behind(a, b) == seqDiff(a, b) > SeqRange \div 2 - 1

Packet(typ, seq, ack, data) == [typ |-> typ, seq |-> seq, ack |-> ack, data |-> data]

\* newConn; rand picks the first sequence number of the accepting end.
newConn(state, seq) ==
    [state |-> state, seq |-> seq, ack |-> 0, next |-> 0, incoming |-> <<>>,
     recvBuf |-> <<>>, ready |-> <<>>, sendBuf |-> <<>>, closed |-> FALSE,
     eof |-> FALSE, waiting |-> FALSE, panicked |-> FALSE]

Init ==
    /\ ends = [ini |-> newConn("idle", 1), acc |-> newConn("none", 0)]
    /\ inNet = [e \in Ends |-> <<>>]
    /\ written = <<>> /\ taken = <<>>
    /\ faulty = "no" /\ spent = 0
    /\ writes \in Writers

Worse(f) == IF faulty = "stolen" THEN faulty ELSE f

Panicked == \E e \in Ends : ends[e].panicked

\* sendRaw: a closed connection sends nothing.
SendRaw(net, e, p) ==
    IF ends[e].closed THEN net ELSE [net EXCEPT ![Other(e)] = Append(@, p)]

-----------------------------------------------------------------------------
(* The handshake.                                                          *)

dialHandshake ==
    /\ ends["ini"].state = "idle"
    /\ inNet' = SendRaw(inNet, "ini", Packet("syn", ends["ini"].seq, 0, 0))
    /\ ends' = [ends EXCEPT !["ini"].state = "synSent", !["ini"].seq = Up(@)]
    /\ UNCHANGED <<written, taken, faulty, spent, writes>>

\* The reply reaches the dialing goroutine; the tickLoop may take it first.
DialAnswered ==
    LET c == ends["ini"]
    IN /\ c.state = "synSent" /\ c.incoming # <<>>
       /\ LET p == Head(c.incoming)
          IN IF p.typ # "state"
             THEN ends' = [ends EXCEPT !["ini"].state = "failed"] /\ faulty' = Worse("net")
             ELSE /\ ends' = [ends EXCEPT !["ini"].state = "connected",
                                 !["ini"].ack = p.seq, !["ini"].next = Up(p.seq),
                                 !["ini"].incoming = Tail(@)]
                  /\ UNCHANGED faulty
       /\ UNCHANGED <<inNet, written, taken, spent, writes>>

DialTimesOut ==
    /\ ends["ini"].state = "synSent"
    /\ ends' = [ends EXCEPT !["ini"].state = "failed"]
    /\ UNCHANGED <<inNet, written, taken, faulty, spent, writes>>

\* readLoop on a SYN: a fresh connection takes the place of any other with the
\* same address and number, and answers.
acceptHandshake(p) ==
    \E s \in FirstSeqs :
      /\ ends' = [ends EXCEPT !["acc"] =
                     [newConn("connected", Up(s)) EXCEPT !.ack = p.seq, !.next = Up(p.seq)]]
      /\ inNet' = [inNet EXCEPT !["acc"] = Remove(@, p),
                                !["ini"] = Append(@, Packet("state", s, p.seq, 0))]
      /\ written' = IF writes = "acc" THEN <<>> ELSE written
      /\ taken' = IF writes = "ini" THEN <<>> ELSE taken
      /\ UNCHANGED <<faulty, spent, writes>>

\* deliverPacket: a full queue drops the packet.
deliverPacket(e, p) ==
    LET c == ends[e]
        room == Len(c.incoming) < IncomingCap
    IN /\ inNet' = [inNet EXCEPT ![e] = Remove(@, p)]
       /\ ends' = IF c.closed \/ ~room THEN ends
                  ELSE [ends EXCEPT ![e].incoming = Append(@, p)]
       /\ faulty' = IF room THEN faulty ELSE Worse("net")
       /\ UNCHANGED <<written, taken, spent, writes>>

Arrives(e, p) ==
    IF e = "acc" /\ p.typ = "syn" THEN acceptHandshake(p)
    ELSE deliverPacket(e, p)

readLoop(e) == inNet[e] # <<>> /\ Arrives(e, Head(inNet[e]))

-----------------------------------------------------------------------------
(* Handling a packet.                                                      *)

Stored(buf, seq, d) == SelectSeq(buf, LAMBDA x : x.seq # seq) \o <<[seq |-> seq, d |-> d]>>

Has(buf, seq) == \E i \in DOMAIN buf : buf[i].seq = seq

\* The consecutive packets from the next expected one on: how many there are.
Run(buf, next) ==
    CHOOSE n \in 0..Len(buf) :
        /\ \A k \in 0..(n - 1) : Has(buf, (next + k) % SeqRange)
        /\ ~Has(buf, (next + n) % SeqRange)

DataOf(buf, seq) == LET i == SelectInSeq(buf, LAMBDA x : x.seq = seq) IN buf[i].d

DeliverAnything(c, seq, d) == [c EXCEPT !.ready = Append(@, d), !.next = Up(seq)]

\* A packet ahead of the next expected one waits in recvBuf until the gap is
\* filled; one behind it is a duplicate.
deliverData(c, seq, d) ==
    IF Behind(seq, c.next) THEN c
    ELSE LET buf == Stored(c.recvBuf, seq, d)
             n == Run(buf, c.next)
             order == [k \in 1..n |-> (c.next + k - 1) % SeqRange]
         IN [c EXCEPT !.recvBuf = SelectSeq(buf, LAMBDA x : x.seq \notin ToSet(order)),
                      !.ready = @ \o [k \in 1..n |-> DataOf(buf, order[k])],
                      !.next = (@ + n) % SeqRange]

\* Everything before the acknowledged number leaves sendBuf, received or not.
processAcks(c, p) ==
    [c EXCEPT !.sendBuf = SelectSeq(@, LAMBDA s : ~Behind(s.seq, p.ack))]

\* handleReset closes closeCh without the Once that Close uses.
handleReset(c) ==
    IF c.closed THEN [c EXCEPT !.panicked = TRUE] ELSE [c EXCEPT !.closed = TRUE]

Handled(c, p) ==
    CASE p.typ = "data" -> deliverData([c EXCEPT !.ack = p.seq], p.seq, p.data)
      [] p.typ = "fin" -> [c EXCEPT !.ack = p.seq, !.eof = TRUE,
                             !.state = IF c.state = "finSent" THEN "closed" ELSE @]
      [] p.typ = "reset" -> handleReset(c)
      [] OTHER -> c

\* processIncoming takes one packet, in the tickLoop or in Read; a packet
\* with a number is acknowledged with the number of the last one that came.
\* In a connection that still dials it is the tickLoop, and the reply it takes
\* is lost to the dialing goroutine.
handlePacket(e) ==
    LET c == ends[e]
        p == Head(c.incoming)
        d == processAcks(Handled([c EXCEPT !.incoming = Tail(@)], p), p)
    IN /\ c.incoming # <<>> /\ c.state # "failed"
       /\ ends' = [ends EXCEPT ![e] = d]
       /\ inNet' = IF p.seq # 0 /\ ~d.closed /\ d.state # "closed"
                   THEN SendRaw(inNet, e, Packet("state", 0, d.ack, 0)) ELSE inNet
       /\ faulty' = IF c.state = "synSent" THEN "stolen" ELSE faulty
       /\ UNCHANGED <<written, taken, spent, writes>>

\* checkTimeouts: a packet is sent again once, with the current ack.
checkTimeouts(e) ==
    LET c == ends[e]
    IN /\ ~c.closed /\ spent < MaxFaults /\ spent' = spent + 1
       /\ \E i \in DOMAIN c.sendBuf :
            /\ c.sendBuf[i].sent = 1
            /\ ends' = [ends EXCEPT ![e].sendBuf[i].sent = 2]
            /\ inNet' = SendRaw(inNet, e, Packet("data", c.sendBuf[i].seq, c.ack,
                                                 c.sendBuf[i].d))
       /\ UNCHANGED <<written, taken, faulty, writes>>

-----------------------------------------------------------------------------
(* Read, Write and Close.                                                  *)

Write ==
    LET c == ends[writes]
        d == Len(written) + 1
    IN /\ c.state = "connected" /\ ~c.closed /\ d <= MaxWrites
       /\ IF Len(c.sendBuf) >= Cwnd
          THEN /\ ~c.waiting
               /\ ends' = [ends EXCEPT ![writes].waiting = TRUE]
               /\ UNCHANGED <<inNet, written>>
          ELSE /\ ends' = [ends EXCEPT ![writes].seq = Up(@), ![writes].waiting = FALSE,
                              ![writes].sendBuf =
                                  Append(@, [seq |-> c.seq, d |-> d, sent |-> 1])]
               /\ inNet' = SendRaw(inNet, writes, Packet("data", c.seq, c.ack, d))
               /\ written' = Append(written, d)
       /\ UNCHANGED <<taken, faulty, spent, writes>>

Read ==
    LET r == Other(writes)
    IN /\ ~ends[r].closed /\ ends[r].ready # <<>>
       /\ taken' = taken \o ends[r].ready
       /\ ends' = [ends EXCEPT ![r].ready = <<>>]
       /\ UNCHANGED <<inNet, written, faulty, spent, writes>>

\* Close marks the connection closed before it sends its FIN, so sendRaw
\* sends none.
Close(e) ==
    /\ ~ends[e].closed /\ ends[e].state = "connected"
    /\ spent < MaxFaults /\ spent' = spent + 1
    /\ ends' = [ends EXCEPT ![e].closed = TRUE, ![e].state = "finSent"]
    /\ UNCHANGED <<inNet, written, taken, faulty, writes>>

-----------------------------------------------------------------------------
(* The network, and what a peer of another make may send.                  *)

Fault ==
    /\ spent < MaxFaults
    /\ \E e \in Ends, i \in 1..2 :
         /\ i \in DOMAIN inNet[e]
         /\ inNet' \in {[inNet EXCEPT ![e] = RemoveAt(@, i)],
                        [inNet EXCEPT ![e] = Append(@, inNet[e][i])],
                        [inNet EXCEPT ![e] = Append(RemoveAt(@, i), inNet[e][i])]}
    /\ faulty' = Worse("net")
    /\ spent' = spent + 1
    /\ UNCHANGED <<ends, written, taken, writes>>

Foreign ==
    /\ spent < MaxFaults
    /\ ends["ini"].state = "connected"
    /\ \E t \in {"fin", "reset"} :
         inNet' = [inNet EXCEPT !["acc"] = Append(@, Packet(t, ends["ini"].seq, 0, 0))]
    /\ faulty' = Worse("net")
    /\ spent' = spent + 1
    /\ UNCHANGED <<ends, written, taken, writes>>

Transport == dialHandshake \/ (\E e \in Ends : readLoop(e))

Application == Write \/ Read

Next ==
    /\ ~Panicked
    /\ \/ Transport \/ DialAnswered \/ DialTimesOut \/ Application \/ Fault \/ Foreign
       \/ \E e \in Ends : handlePacket(e) \/ checkTimeouts(e) \/ Close(e)

Progress ==
    /\ ~Panicked
    /\ \/ Transport \/ DialAnswered \/ Application
       \/ \E e \in Ends : handlePacket(e)

Spec == Init /\ [][Next]_utpVars /\ WF_utpVars(Progress)

-----------------------------------------------------------------------------

\* What the reader is given is what the writer wrote, in order and without a
\* gap or a repetition, whatever the network does to the packets; except that
\* a packet the tickLoop handles before the handshake has fixed the first
\* sequence number may be taken for the first one.
UtpInOrder == faulty # "stolen" => IsPrefix(taken, written)

\* Where neither the network nor a queue has cost a packet and nobody has
\* closed the connection, all that is written reaches the reader and the
\* writer is not held up.
AtRest ==
    \/ faulty # "no" \/ Panicked
    \/ \E e \in Ends : ends[e].closed \/ ends[e].state = "failed"
    \/ Len(taken) = MaxWrites
=============================================================================
