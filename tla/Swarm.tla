------------------------------- MODULE Swarm -------------------------------
(***************************************************************************)
(* The BitTorrent download of one torrent (runBTDownload, downloadLoop,    *)
(* seedLoop, readPeer, handleMsg, handlePiece, requestPieces and           *)
(* downloadWebSeeds in internal/engine/bt_download.go, the feeders of      *)
(* newPeers in bt_discovery.go).                                           *)
(*                                                                         *)
(* The actors are the goroutine of the download, one reader per peer, and  *)
(* the peers themselves.  Two bounded channels lie between a peer and the  *)
(* download: recvCh of its connection, which drops what does not fit, and  *)
(* msgCh of the loop, on which a reader blocks.  A block of a piece is the *)
(* unit of data; what a peer sends for it is the right bytes or not.       *)
(***************************************************************************)
EXTENDS Integers, Sequences, FiniteSets, FiniteSetsExt, SequencesExt

CONSTANTS
    Peers,
    Reliable,          \* the peers that answer every request, in order
    NumPieces,
    NumBlocks,         \* blocks of a piece; the last piece has one
    Wanted,            \* the pieces of the selected files
    Starts,            \* what the control file says is there, and whether the
                       \* torrent has web seeds
    MsgCap, RecvCap,   \* capacity of msgCh and of a connection's recvCh
    MaxPending,        \* btMaxPendingRequests
    EndgameThreshold,  \* btEndgameThreshold
    SeedUnverified,    \* the bt-seed-unverified option
    SeedTime,          \* whether seed-time is set: it may be over at any moment
    ShareRatio,        \* seed-ratio, in uploaded blocks
    MaxNoise           \* bound on what peers send or do of their own accord

VARIABLES
    loop,      \* where runBTDownload is
    result,    \* what it ended with
    canceled,  \* the context of the download
    webSeeds,
    have, disk,
    peers,     \* btSwarm.peers, in the order they joined
    conn,      \* per peer: its connection
    bits,      \* per peer: its bitfield, as the swarm knows it
    out,       \* per peer: outstanding
    asked,     \* per peer: the requests on their way to it
    inbox,     \* per peer: recvCh
    hand,      \* per peer: what its reader is about to put on msgCh
    msgCh,
    uploaded,  \* blocks uploaded
    seeder, noise

net == <<asked, inbox, noise>>
content == <<have, disk>>
flags == <<seeder, webSeeds>>
swarm == <<peers, bits, out, uploaded>>
vars == <<loop, result, canceled, have, disk, peers, conn, bits, out, asked,
          inbox, hand, msgCh, uploaded, seeder, noise, webSeeds>>

Pieces == 0..(NumPieces - 1)
BlocksOf(i) == IF i = NumPieces - 1 THEN 1..1 ELSE 1..NumBlocks
None == <<"none">>

\* The adaptor is open, the pieces of unselected files count as present and
\* the rest is what the control file says.
Init ==
    /\ loop = "start" /\ result = "none" /\ canceled = FALSE
    /\ seeder = FALSE /\ uploaded = 0
    /\ \E s \in Starts :
         /\ webSeeds = s.webSeeds
         /\ have = s.have \cup (Pieces \ Wanted)
         /\ disk = [i \in Pieces |-> [b \in BlocksOf(i) |->
                      IF i \in s.have THEN "good" ELSE "none"]]
    /\ peers = <<>> /\ msgCh = <<>> /\ noise = 0
    /\ conn = [p \in Peers |-> "off"]
    /\ bits = [p \in Peers |-> {}]
    /\ out = [p \in Peers |-> 0]
    /\ asked = [p \in Peers |-> <<>>]
    /\ inbox = [p \in Peers |-> <<>>]
    /\ hand = [p \in Peers |-> None]

Complete == have = Pieces
Missing == Pieces \ have
endgameMode == Missing # {} /\ Cardinality(Missing) <= EndgameThreshold
Verifies(d, i) == \A b \in BlocksOf(i) : d[i][b] = "good"

(***************************************************************************)
(* Peers.  A connection that the connector or the listener has set up is   *)
(* queued on newPeers; the loop takes it from there.                       *)
(***************************************************************************)
PeerReady(p) ==
    /\ conn[p] = "off" /\ loop \notin {"start", "done"}
    /\ conn' = [conn EXCEPT ![p] = "queued"]
    /\ UNCHANGED <<loop, result, canceled, content, swarm, net, hand,
                   msgCh, flags>>

Join(p) ==
    /\ conn[p] = "queued"
    /\ conn' = [conn EXCEPT ![p] = "on"]
    /\ peers' = Append(peers, p)

\* The reader of the connection drops a message that recvCh has no room for.
\* A reliable peer is one whose messages find room.
Arrive(p, m) ==
    /\ conn[p] = "on"
    /\ p \in Reliable => Len(inbox[p]) < RecvCap
    /\ inbox' = IF Len(inbox[p]) < RecvCap
                THEN [inbox EXCEPT ![p] = Append(@, m)] ELSE inbox

\* What a peer announces after the handshake: bitfield, have-all or have.
Announce(p) ==
    /\ \E S \in IF p \in Reliable THEN {Pieces} ELSE {{0}} :
         /\ ~(S \subseteq bits[p])
         /\ <<"bitfield", S>> \notin ToSet(inbox[p]) \cup {hand[p]}
         /\ <<p, <<"bitfield", S>>>> \notin ToSet(msgCh)
         /\ Arrive(p, <<"bitfield", S>>)
    /\ UNCHANGED <<loop, result, canceled, content, swarm, conn, asked,
                   hand, msgCh, noise, flags>>

Answer(p) ==
    /\ asked[p] # <<>>
    /\ asked' = [asked EXCEPT ![p] = Tail(@)]
    /\ \/ /\ Arrive(p, <<"piece">> \o Head(asked[p]) \o <<"good">>)
          /\ noise' = noise
       \/ /\ p \notin Reliable /\ noise < MaxNoise
          /\ Arrive(p, <<"piece">> \o Head(asked[p]) \o <<"bad">>)
          /\ noise' = noise + 1
       \/ /\ p \notin Reliable        \* it chokes us, or a queue was full
          /\ UNCHANGED <<inbox, noise>>
    /\ UNCHANGED <<loop, result, canceled, content, swarm, conn, hand,
                   msgCh, flags>>

\* A late duplicate, as in the end game, or a request of the peer.
Unasked(p) ==
    /\ p \notin Reliable /\ noise < MaxNoise
    /\ noise' = noise + 1
    /\ \/ \E i \in Pieces : Arrive(p, <<"piece", i, 1, "bad">>)
       \/ \E m \in {<<"choke">>, <<"have", 1>>, <<"request", 0>>} : Arrive(p, m)
    /\ UNCHANGED <<loop, result, canceled, content, swarm, conn, asked,
                   hand, msgCh, flags>>

ConnFails(p) ==
    /\ p \notin Reliable /\ conn[p] = "on" /\ noise < MaxNoise
    /\ noise' = noise + 1
    /\ conn' = [conn EXCEPT ![p] = "closed"]
    /\ UNCHANGED <<loop, result, canceled, content, swarm, asked, inbox,
                   hand, msgCh, flags>>

(***************************************************************************)
(* readPeer: moves messages from recvCh to msgCh and blocks when that is   *)
(* full.  It ends when Run has returned, or with the context.              *)
(***************************************************************************)
Reads(p) == conn[p] \in {"on", "closed"}

readPeer(p) ==
    /\ Reads(p) /\ hand[p] = None /\ inbox[p] # <<>>
    /\ inbox' = [inbox EXCEPT ![p] = Tail(@)]
    /\ IF Len(msgCh) < MsgCap
       THEN msgCh' = Append(msgCh, <<p, Head(inbox[p])>>) /\ hand' = hand
       ELSE hand' = [hand EXCEPT ![p] = Head(inbox[p])] /\ msgCh' = msgCh
    /\ UNCHANGED <<loop, result, canceled, content, swarm, conn, asked,
                   noise, flags>>

Forward(p) ==
    /\ Reads(p) /\ hand[p] # None /\ Len(msgCh) < MsgCap
    /\ msgCh' = Append(msgCh, <<p, hand[p]>>)
    /\ hand' = [hand EXCEPT ![p] = None]
    /\ UNCHANGED <<loop, result, canceled, content, swarm, conn, net, flags>>

ReaderQuitsWhenClosed(p) == conn[p] = "closed"
ReaderMayQuit(p) == canceled \/ (conn[p] = "closed" /\ hand[p] = None)

\* The deferred removePeer and wg.Done.
removePeer(p) ==
    /\ Reads(p) /\ ReaderMayQuit(p)
    /\ conn' = [conn EXCEPT ![p] = "gone"]
    /\ peers' = SelectSeq(peers, LAMBDA x : x # p)
    /\ inbox' = [inbox EXCEPT ![p] = <<>>]
    /\ asked' = [asked EXCEPT ![p] = <<>>]
    /\ hand' = [hand EXCEPT ![p] = None]
    /\ bits' = [bits EXCEPT ![p] = {}]
    /\ out' = [out EXCEPT ![p] = 0]
    /\ UNCHANGED <<loop, result, canceled, content, uploaded, msgCh, noise,
                   flags>>

(***************************************************************************)
(* The goroutine of the download.  With nothing on newPeers yet it takes   *)
(* the web seeds, if there are any, and otherwise waits for a peer.        *)
(***************************************************************************)
\* The torrent is parsed, the path chosen, the files opened, the control file
\* applied and the torrent registered for inbound peers; or one of these fails.
Prepare ==
    /\ loop = "start"
    /\ \/ loop' = "wait" /\ result' = result
       \/ loop' = "done" /\ result' = "setupError"
    /\ UNCHANGED <<canceled, content, swarm, conn, net, hand, msgCh, flags>>

waitForInitialPeer ==
    /\ loop = "wait"
    /\ \/ \E p \in Peers : Join(p)
          /\ loop' = "download" /\ result' = result
       \/ /\ webSeeds /\ \A p \in Peers : conn[p] # "queued"
          /\ loop' = "webseed"
          /\ UNCHANGED <<result, conn, peers>>
       \/ /\ ~webSeeds                \* the timeout, or the context
          /\ loop' = "done" /\ result' = "noPeers"
          /\ UNCHANGED <<conn, peers>>
    /\ UNCHANGED <<canceled, content, bits, out, uploaded, net, hand, msgCh,
                   flags>>

addPeer(p) ==
    /\ loop = "seeding" \/ (loop = "download" /\ ~Complete)
    /\ Join(p)
    /\ UNCHANGED <<loop, result, canceled, content, bits, out, uploaded, net, hand,
                   msgCh, flags>>

\* Appends a request to what is on its way to p.
Request(r, p, i, b) ==
    [out |-> [r.out EXCEPT ![p] = @ + 1],
     asked |-> IF conn[p] # "on" THEN r.asked
               ELSE [r.asked EXCEPT ![p] = Append(@, <<i, b>>)]]

\* A block is written wherever it comes from; the one at the end of its piece
\* makes the whole piece be read back, any other is followed by a request for
\* the next block.
handlePiece(p, i, b, q) ==
    LET d == [disk EXCEPT ![i][b] = q] IN
    /\ disk' = d
    /\ IF b = Max(BlocksOf(i))
       THEN /\ have' = IF Verifies(d, i) THEN have \cup {i} ELSE have \ {i}
            /\ out' = [out EXCEPT ![p] = @ - 1]
            /\ asked' = asked
       ELSE LET r == Request([out |-> [out EXCEPT ![p] = @ - 1],
                              asked |-> asked], p, i, b + 1) IN
            out' = r.out /\ asked' = r.asked /\ have' = have
    /\ UNCHANGED <<bits, uploaded>>

\* A block of a piece that is there is read and sent, to a choked peer too.
handleRequest(i) ==
    /\ uploaded' = IF i \in have THEN uploaded + 1 ELSE uploaded
    /\ UNCHANGED <<have, disk, bits, out, asked>>

handleMsg(p, m) ==
    \/ m[1] = "request" /\ handleRequest(m[2])
    \/ /\ m[1] = "bitfield"
       /\ bits' = [bits EXCEPT ![p] = m[2]]
       /\ UNCHANGED <<have, disk, out, uploaded, asked>>
    \/ /\ m[1] = "have"
       /\ bits' = [bits EXCEPT ![p] = @ \cup {m[2]}]
       /\ UNCHANGED <<have, disk, out, uploaded, asked>>
    \/ /\ m[1] = "choke"              \* peerChoking is a matter of status
       /\ UNCHANGED <<have, disk, bits, out, uploaded, asked>>
    \/ /\ m[1] = "piece" /\ loop = "download"
       /\ handlePiece(p, m[2], m[3], m[4])
    \/ /\ m[1] = "piece" /\ loop = "seeding"
       /\ UNCHANGED <<have, disk, bits, out, uploaded, asked>>

Receive ==
    /\ loop = "seeding" \/ (loop = "download" /\ ~Complete)
    /\ msgCh # <<>>
    /\ handleMsg(Head(msgCh)[1], Head(msgCh)[2])
    /\ msgCh' = Tail(msgCh)
    /\ UNCHANGED <<loop, result, canceled, peers, conn, inbox, hand, noise,
                   flags>>

\* The rarest of the missing pieces that p has; the first of these.
Avail(p, i) == Cardinality({x \in ToSet(peers) \ {p} : i \in bits[x]})
Candidates(p) == {i \in Missing : i \in bits[p]}
choosePiece(p) ==
    Min({i \in Candidates(p) :
           \A j \in Candidates(p) : Avail(p, i) <= Avail(p, j)})

EndgameRequest(r, p, i) ==
    FoldLeft(LAMBDA acc, x :
               IF x = p \/ acc.out[x] >= 2 * MaxPending \/ i \notin bits[x]
               THEN acc ELSE Request(acc, x, i, 1),
             r, peers)

\* One turn of requestPieces: asks p for the first block of its rarest piece,
\* again if it was asked before.
RequestFrom(r, p) ==
    IF r.out[p] >= MaxPending \/ Candidates(p) = {} THEN r
    ELSE LET i == choosePiece(p)
             s == Request(r, p, i, 1) IN
         IF endgameMode THEN EndgameRequest(s, p, i) ELSE s

requestPieces ==
    /\ loop = "download" /\ ~Complete
    /\ LET r == FoldLeft(RequestFrom, [out |-> out, asked |-> asked], peers) IN
         out' = r.out /\ asked' = r.asked
    /\ UNCHANGED <<loop, result, canceled, content, peers, conn, bits, uploaded,
                   inbox, hand, msgCh, noise, flags>>

closeAll == conn' = [p \in Peers |->
                       IF conn[p] = "on" THEN "closed" ELSE conn[p]]

\* The loop is left: all connections are closed and the readers waited for.
DownloadComplete ==
    /\ loop = "download" /\ Complete
    /\ loop' = "closing"
    /\ closeAll
    /\ UNCHANGED <<result, canceled, content, swarm, net, hand, msgCh, flags>>

Waited ==
    /\ loop = "closing" /\ \A p \in Peers : ~Reads(p)
    /\ loop' = "verify" /\ msgCh' = <<>>
    /\ UNCHANGED <<result, canceled, content, swarm, conn, net, hand, flags>>

downloadWebSeedPiece(i) ==
    /\ loop = "webseed" /\ ~canceled
    /\ i \in Missing /\ \A j \in Missing : i <= j
    /\ \/ /\ disk' = [disk EXCEPT ![i] = [b \in BlocksOf(i) |-> "good"]]
          /\ have' = have \cup {i}
          /\ UNCHANGED <<loop, result>>
       \/ /\ loop' = "done" /\ result' = "hashError"
          /\ \/ UNCHANGED disk        \* no source answered
             \/ disk' = [disk EXCEPT ![i] = [b \in BlocksOf(i) |-> "bad"]]
          /\ UNCHANGED have
    /\ UNCHANGED <<canceled, swarm, conn, net, hand, msgCh, flags>>

WebSeedsDone ==
    /\ loop = "webseed" /\ Complete
    /\ loop' = "verify"
    /\ UNCHANGED <<result, canceled, content, swarm, conn, net, hand, msgCh,
                   flags>>

\* The check of everything that was asked for, before the seeding.
VerifyNothing == TRUE
verifySelectedPieces == \A i \in Wanted : Verifies(disk, i)

Verify ==
    /\ loop = "verify"
    /\ IF SeedUnverified \/ (verifySelectedPieces /\ ~canceled)
       THEN loop' = "seeding" /\ seeder' = TRUE /\ UNCHANGED result
       ELSE loop' = "done" /\ result' = "hashError" /\ UNCHANGED seeder
    /\ UNCHANGED <<canceled, content, swarm, conn, net, hand, msgCh, webSeeds>>

shouldStop == SeedTime \/ uploaded >= ShareRatio

seedLoopStops ==
    /\ loop = "seeding" /\ shouldStop
    /\ loop' = "seedClosing"
    /\ closeAll
    /\ UNCHANGED <<result, canceled, content, swarm, net, hand, msgCh, flags>>

SeedWaited ==
    /\ loop = "seedClosing" /\ \A p \in Peers : ~Reads(p)
    /\ loop' = "done" /\ result' = "ok"
    /\ UNCHANGED <<canceled, content, swarm, conn, net, hand, msgCh, flags>>

\* The loops notice the context at their select and wait for the readers,
\* which notice it as well.
Canceled ==
    /\ canceled
    /\ \/ loop \in {"download", "seeding"} /\ \A p \in Peers : ~Reads(p)
       \/ loop = "webseed"
    /\ loop' = "done" /\ result' = "canceled"
    /\ UNCHANGED <<canceled, content, swarm, conn, net, hand, msgCh, flags>>

Cancel ==
    /\ ~canceled /\ loop # "done"
    /\ canceled' = TRUE
    /\ UNCHANGED <<loop, result, content, swarm, conn, net, hand, msgCh,
                   flags>>

Done == loop = "done" /\ UNCHANGED vars

Reader(p) == readPeer(p) \/ Forward(p) \/ removePeer(p)
\* The steps from one phase of the download to the next, and new peers.
Proceed ==
    \/ \E p \in Peers : addPeer(p)
    \/ Prepare \/ waitForInitialPeer \/ DownloadComplete \/ Waited \/ WebSeedsDone
    \/ Verify \/ SeedWaited \/ Canceled
    \/ \E i \in Pieces : downloadWebSeedPiece(i)

Next ==
    \/ \E p \in Peers : PeerReady(p) \/ Announce(p) \/ Answer(p) \/ Unasked(p)
                          \/ ConnFails(p)
    \/ \E p \in Peers : Reader(p)
    \/ Receive \/ requestPieces \/ seedLoopStops \/ Proceed \/ Cancel \/ Done

(***************************************************************************)
(* The download's goroutines and the peers that answer.  As long as one of *)
(* them can take a step, one of them does; the end of the seeding and the  *)
(* other peers are not bound to do anything.                               *)
(***************************************************************************)
Progress ==
    \/ \E p \in Peers : Reader(p)
    \/ Receive \/ requestPieces \/ Proceed
    \/ \E p \in Reliable : PeerReady(p) \/ Announce(p) \/ Answer(p)

Spec == Init /\ [][Next]_vars /\ WF_vars(Progress)

\* A download that is seeding offers the bytes that the torrent describes,
\* whatever late or wrong blocks were written into verified pieces meanwhile.
SeedsVerified ==
    seeder /\ ~SeedUnverified => \A i \in Wanted : Verifies(disk, i)

\* The one way not to come back from the wait for the readers.
ReaderStuck ==
    /\ loop \in {"closing", "seedClosing"} /\ Len(msgCh) = MsgCap
    /\ \E p \in Peers : Reads(p) /\ hand[p] # None

\* The download comes to an end.  A cancelled one does in any case, even with
\* readers that block on a full msgCh.  One that is not cancelled comes to its
\* seeding or to an error if one peer answers what it is asked: requests that
\* the others swallow, blocks they spoil and messages that are dropped do not
\* stop it.  Excepted is the wait for the reader of a full msgCh from which
\* nobody receives any more.
AtRest == loop = "done" \/ (~canceled /\ (loop = "seeding" \/ ReaderStuck))
=============================================================================
