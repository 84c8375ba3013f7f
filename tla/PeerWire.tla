------------------------------ MODULE PeerWire ------------------------------
(***************************************************************************)
(* An established peer connection (Conn in                                 *)
(* internal/protocol/bittorrent/peer: peer.go, session.go, message.go).    *)
(*                                                                         *)
(* The actors are Run, the reader and the writer goroutines it starts, the *)
(* timer of the keep-alive, the owner of the connection, and the peer at   *)
(* the other end of the socket.  A message is two symbols on the wire, so  *)
(* that a read may end inside it; a keep-alive is one.                     *)
(***************************************************************************)
EXTENDS Integers, Sequences, FiniteSets, SequencesExt

CONSTANTS
    Incoming,    \* the messages the peer may send: [k, i] with i the pieces named
    NumPieces,
    QueueSize,   \* defaultSendQueueSize
    MaxIn,       \* bound on the messages of the peer
    MaxOut       \* bound on the messages of the owner

VARIABLES
    life,      \* Run, reader and writer, the socket, done, closed, the context
    peerIn,    \* what the peer has sent and the reader has not read
    readBuf,   \* the reader's undecoded bytes
    recvCh, sendCh,
    peerSt,    \* what handleIncoming keeps about the peer
    ka,        \* the keep-alive timer and its channel
    budget

pwVars == <<life, peerIn, readBuf, recvCh, sendCh, peerSt, ka, budget>>

Pieces == 0..(NumPieces - 1)

KeepAlive == [k |-> "keepAlive", i |-> {}, half |-> 2]
Halves(m) == [h \in 1..2 |-> [k |-> m.k, i |-> m.i, half |-> h]]

Init ==
    /\ life = [run |-> "running", reader |-> "check", writer |-> "select",
               sock |-> "open", done |-> FALSE, closed |-> FALSE, ctx |-> "live",
               recvClosed |-> FALSE, panicked |-> FALSE,
               readErr |-> FALSE, behind |-> FALSE]
    /\ peerIn = <<>> /\ readBuf = <<>> /\ recvCh = <<>> /\ sendCh = <<>>
    /\ peerSt = [choking |-> TRUE, interested |-> FALSE, known |-> FALSE, bits |-> {},
                 all |-> FALSE, slots |-> {}, fast |-> {}, changes |-> 0, alives |-> 0]
    /\ ka = [scheduled |-> TRUE, firing |-> FALSE, ch |-> FALSE]
    /\ budget = [in |-> MaxIn, out |-> MaxOut]

-----------------------------------------------------------------------------
(* Close and the end of the goroutines.                          *)

\* Close: done is closed once and the socket is shut.
Close(l) ==
    IF l.closed THEN l
    ELSE [l EXCEPT !.closed = TRUE, !.done = TRUE, !.sock = "shut"]

\* The deferred function of the writer.
WriterExit(l) ==
    [l EXCEPT !.writer = "ended", !.sock = "shut", !.done = IF l.closed THEN @ ELSE TRUE]

\* The deferred calls of Run: its context ends, recvCh is closed, then the
\* socket.
RunExit(l) ==
    [l EXCEPT !.run = "returned", !.recvClosed = TRUE, !.sock = "shut", !.ctx = "over"]

Run ==
    /\ life.run = "running"
    /\ \/ /\ life.readErr
          /\ life' = RunExit(Close(life))
       \/ /\ life.done
          /\ life' = RunExit(life)
       \/ /\ life.ctx = "over"
          /\ life' = RunExit(Close(life))
    /\ UNCHANGED <<peerIn, readBuf, recvCh, sendCh, peerSt, ka, budget>>

ReaderExit(l) == [l EXCEPT !.reader = "ended", !.readErr = TRUE]

-----------------------------------------------------------------------------
(* The reader.                                                             *)

\* The head of the loop, before it waits for the socket.
ReaderCheck ==
    /\ life.reader = "check"
    /\ life' = IF life.ctx = "over" \/ life.closed THEN ReaderExit(life)
               ELSE [life EXCEPT !.reader = "read"]
    /\ UNCHANGED <<peerIn, readBuf, recvCh, sendCh, peerSt, ka, budget>>

ReaderReads ==
    /\ life.reader = "read"
    /\ \/ \E n \in 1..Len(peerIn) :
             /\ life.sock # "shut"
             /\ readBuf' = readBuf \o SubSeq(peerIn, 1, n)
             /\ peerIn' = SubSeq(peerIn, n + 1, Len(peerIn))
             /\ life' = [life EXCEPT !.reader = "decode", !.behind = FALSE]
       \/ /\ life.sock = "shut" \/ (life.sock = "eof" /\ peerIn = <<>>)
          /\ life' = ReaderExit(life)
          /\ UNCHANGED <<peerIn, readBuf>>
    /\ UNCHANGED <<recvCh, sendCh, peerSt, ka, budget>>

HasMessage(buf) == buf # <<>> /\ (Len(buf) >= 2 \/ Head(buf) = KeepAlive)

\* tryDecodeMessage and the validation of what it returns: the message at the
\* head, or a protocol violation.
Malformed(m) ==
    \/ m.k = "badShape"
    \/ m.k \in {"have", "request", "piece", "bitfield"} /\ NumPieces > 0
       /\ ~(m.i \subseteq Pieces)

ChangesChoke(m) == \/ m.k = "choke" /\ ~peerSt.choking
                   \/ m.k = "unchoke" /\ peerSt.choking

\* What a message does to the state of the peer (handleIncoming with
\* doChokedAction, markSeeder, updateBitfield and handleBitfield).
handleIncoming(m) ==
    LET s == [peerSt EXCEPT !.changes = @ + IF ChangesChoke(m) THEN 1 ELSE 0]
    IN CASE m.k = "choke" -> [s EXCEPT !.choking = TRUE, !.slots = @ \cap s.fast]
         [] m.k = "unchoke" -> [s EXCEPT !.choking = FALSE]
         [] m.k = "interested" -> [s EXCEPT !.interested = TRUE]
         [] m.k = "notInterested" -> [s EXCEPT !.interested = FALSE]
         [] m.k = "bitfield" -> [s EXCEPT !.known = TRUE, !.bits = m.i, !.all = FALSE]
         [] m.k = "haveAll" /\ s.known -> [s EXCEPT !.bits = Pieces, !.all = TRUE]
         [] m.k = "haveNone" /\ s.known -> [s EXCEPT !.bits = {}, !.all = FALSE]
         [] m.k = "have" /\ s.known -> [s EXCEPT !.bits = @ \cup m.i, !.all = FALSE]
         [] OTHER -> s

\* One turn of the decoding loop.  A keep-alive ends the loop even when
\* messages follow it in the buffer; the offer to recvCh is dropped when the
\* channel is full, and it is the one thing the end of Run can spoil: a send
\* on the channel that Run has closed.
ReaderDecodes ==
    /\ life.reader = "decode"
    /\ IF ~HasMessage(readBuf)
       THEN /\ life' = [life EXCEPT !.reader = "check"]
            /\ UNCHANGED <<readBuf, recvCh, peerSt>>
       ELSE IF Head(readBuf) = KeepAlive
       THEN /\ readBuf' = Tail(readBuf)
            /\ peerSt' = [peerSt EXCEPT !.alives = @ + 1]
            /\ life' = [life EXCEPT !.reader = "check", !.behind = HasMessage(Tail(readBuf))]
            /\ UNCHANGED recvCh
       ELSE LET m == [k |-> Head(readBuf).k, i |-> Head(readBuf).i]
            IN /\ readBuf' = SubSeq(readBuf, 3, Len(readBuf))
               /\ IF Malformed(m)
                  THEN life' = ReaderExit(life) /\ UNCHANGED <<recvCh, peerSt>>
                  ELSE /\ peerSt' = handleIncoming(m)
                       /\ \/ /\ life.recvClosed
                             /\ life' = [life EXCEPT !.panicked = TRUE]
                             /\ UNCHANGED recvCh
                          \/ /\ ~life.recvClosed /\ Len(recvCh) < QueueSize
                             /\ recvCh' = Append(recvCh, m)
                             /\ UNCHANGED life
                          \/ /\ life.done \/ life.ctx = "over"
                             /\ life' = ReaderExit(life)
                             /\ UNCHANGED recvCh
                          \/ /\ ~life.recvClosed /\ Len(recvCh) >= QueueSize
                             /\ ~life.done /\ life.ctx = "live"
                             /\ UNCHANGED <<life, recvCh>>
    /\ UNCHANGED <<peerIn, sendCh, ka, budget>>

-----------------------------------------------------------------------------
(* The writer and its keep-alive.                                          *)

scheduleKeepAlive(k) == [k EXCEPT !.scheduled = TRUE]

\* The select of the writer: the end of the context or of the connection, a
\* queued message, or the keep-alive; a failed write ends it.
WriterSteps ==
    /\ life.writer = "select"
    /\ \/ /\ life.ctx = "over" \/ life.done
          /\ life' = WriterExit(life)
          /\ UNCHANGED <<sendCh, ka>>
       \/ /\ sendCh # <<>>
          /\ sendCh' = Tail(sendCh)
          /\ IF life.sock = "open"
             THEN ka' = scheduleKeepAlive(ka) /\ UNCHANGED life
             ELSE /\ life' = WriterExit(life)
                  /\ UNCHANGED ka
       \/ /\ ka.ch
          /\ IF life.sock = "open"
             THEN ka' = scheduleKeepAlive([ka EXCEPT !.ch = FALSE]) /\ UNCHANGED life
             ELSE /\ life' = WriterExit(life)
                  /\ ka' = [ka EXCEPT !.ch = FALSE]
          /\ UNCHANGED sendCh
    /\ UNCHANGED <<peerIn, readBuf, recvCh, peerSt, budget>>

FireTellsFirst(k) ==
    IF k.firing THEN [k EXCEPT !.firing = FALSE, !.scheduled = FALSE]
    ELSE [k EXCEPT !.firing = TRUE, !.ch = TRUE]

\* The two steps of the timer's function: the flag goes down first, then the
\* writer is told.
Fire(k) ==
    IF k.firing THEN [k EXCEPT !.firing = FALSE, !.ch = TRUE]
    ELSE [k EXCEPT !.firing = TRUE, !.scheduled = FALSE]

KeepAliveFires ==
    /\ ka.scheduled \/ ka.firing
    /\ ka' = Fire(ka)
    /\ life.writer # "ended"
    /\ UNCHANGED <<life, peerIn, readBuf, recvCh, sendCh, peerSt, budget>>

-----------------------------------------------------------------------------
(* The owner of the connection, and the peer.                              *)

\* Request, Cancel and the other senders: the slot is booked before the queue
\* is tried, and a full queue is an error to the caller.
Send ==
    /\ budget.out > 0
    /\ budget' = [budget EXCEPT !.out = @ - 1]
    /\ \E k \in {"request", "cancel"}, i \in Pieces :
          /\ peerSt' = [peerSt EXCEPT !.slots = IF k = "request" THEN @ \cup {i} ELSE @ \ {i}]
          /\ sendCh' = IF Len(sendCh) < QueueSize THEN Append(sendCh, k) ELSE sendCh
    /\ UNCHANGED <<life, peerIn, readBuf, recvCh, ka>>

\* CheckFlooding when its interval is over: more than one change of mind or
\* keep-alive is flooding, and the counts start again.
CheckFlooding ==
    /\ peerSt.changes + peerSt.alives > 0
    /\ peerSt' = [peerSt EXCEPT !.changes = 0, !.alives = 0]
    /\ life' = IF peerSt.changes >= 2 \/ peerSt.alives >= 2 THEN Close(life) ELSE life
    /\ UNCHANGED <<peerIn, readBuf, recvCh, sendCh, ka, budget>>

Receive ==
    /\ recvCh # <<>>
    /\ recvCh' = Tail(recvCh)
    /\ UNCHANGED <<life, peerIn, readBuf, sendCh, peerSt, ka, budget>>

OwnerCloses ==
    /\ ~life.closed
    /\ life' = Close(life)
    /\ UNCHANGED <<peerIn, readBuf, recvCh, sendCh, peerSt, ka, budget>>

ContextEnds ==
    /\ life.ctx = "live"
    /\ life' = [life EXCEPT !.ctx = "over"]
    /\ UNCHANGED <<peerIn, readBuf, recvCh, sendCh, peerSt, ka, budget>>

PeerSends ==
    /\ life.sock = "open" /\ budget.in > 0
    /\ \E m \in Incoming :
          peerIn' = peerIn \o IF m.k = "keepAlive" THEN <<KeepAlive>> ELSE Halves(m)
    /\ budget' = [budget EXCEPT !.in = @ - 1]
    /\ UNCHANGED <<life, readBuf, recvCh, sendCh, peerSt, ka>>

PeerCloses ==
    /\ life.sock = "open"
    /\ life' = [life EXCEPT !.sock = "eof"]
    /\ UNCHANGED <<peerIn, readBuf, recvCh, sendCh, peerSt, ka, budget>>

Alive == ~life.panicked

Reader == ReaderCheck \/ ReaderReads \/ ReaderDecodes

Next ==
    Alive /\ (\/ Run \/ Reader \/ WriterSteps \/ KeepAliveFires \/ Send \/ Receive
              \/ CheckFlooding \/ OwnerCloses \/ ContextEnds \/ PeerSends \/ PeerCloses)

\* The writer must run only once there is an end to notice.
LastWrites == (life.done \/ life.ctx = "over") /\ WriterSteps

pwFairness ==
    /\ WF_pwVars(Alive /\ Run) /\ WF_pwVars(Alive /\ Reader)
    /\ WF_pwVars(Alive /\ LastWrites)

Spec == Init /\ [][Next]_pwVars /\ pwFairness

-----------------------------------------------------------------------------

\* As long as the writer runs a keep-alive is on its way: the timer is set,
\* its function is running, or the writer has been told.  The writer sets the
\* timer again only if the flag says it is not set, so the order of the two
\* steps of the timer's function matters.
KeepAliveArmed ==
    life.writer = "select" => ka.scheduled \/ ka.ch \/ ka.firing

AllEnded ==
    /\ life.run = "returned" /\ life.reader = "ended" /\ life.writer = "ended"
    /\ life.sock = "shut" /\ life.recvClosed

\* Either nothing has ended yet, and the reader has no complete message left
\* that is not behind a keep-alive, or all of it has: Run, the reader and the
\* writer, the socket, and the channel that the owner reads until it is closed.
AtRest ==
    \/ life.panicked \/ AllEnded
    \/ /\ life.run = "running" /\ life.reader = "read" /\ life.writer = "select"
       /\ ~life.done /\ life.ctx = "live" /\ life.sock # "shut"
       /\ HasMessage(readBuf) => life.behind
=============================================================================
