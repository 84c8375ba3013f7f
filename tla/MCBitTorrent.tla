---------------------------- MODULE MCBitTorrent ----------------------------
(***************************************************************************)
(* The parts of the BitTorrent side, each on an instance of its own.  They *)
(* meet in the code through channels and callbacks that each model keeps   *)
(* at its border, so a behaviour here is a behaviour of one part, chosen   *)
(* at the start; the parts take turns with the same variables x1, x2, ...  *)
(***************************************************************************)
EXTENDS Naturals, Sequences, TLC

CONSTANT Parts

VARIABLES part, x1, x2, x3, x4, x5, x6, x7, x8, x9, x10, x11, x12, x13, x14,
          x15, x16, x17

all == <<part, x1, x2, x3, x4, x5, x6, x7, x8, x9, x10, x11, x12, x13, x14,
         x15, x16, x17>>

\* One download with a peer that answers and one that may do anything; or
\* it is already there.
Swarm == INSTANCE Swarm WITH
    Peers <- {"reliable", "other"}, Reliable <- {"reliable"}, NumPieces <- 2,
    NumBlocks <- 2, Wanted <- {0, 1},
    Starts <- {[have |-> {0}, webSeeds |-> TRUE],
               [have |-> {0, 1}, webSeeds |-> FALSE]},
    MsgCap <- 1, RecvCap <- 1, MaxPending <- 1, EndgameThreshold <- 1,
    SeedUnverified <- FALSE, SeedTime <- FALSE, ShareRatio <- 1, MaxNoise <- 1,
    loop <- x1, result <- x2, canceled <- x3, webSeeds <- x4, have <- x5,
    disk <- x6, peers <- x7, conn <- x8, bits <- x9, out <- x10, asked <- x11,
    inbox <- x12, hand <- x13, msgCh <- x14, uploaded <- x15, seeder <- x16,
    noise <- x17

Mode(m, c) == [mode |-> m, hash |-> "h1", configs |-> c]
Modes == {Mode("off", "h1" :> "require"), Mode("require", "h1" :> "off"),
          Mode("allow", "h1" :> "allow"), Mode("allow", "h2" :> "allow")}

\* The dialling end by its option, the accepting one by its torrents.
Handshake == INSTANCE PeerHandshake WITH
    Policies <- Modes,
    MaxPad <- 1, MaxData <- 1,
    ini <- x1, acc <- x2, toAcc <- x3, toIni <- x4, cut <- x5, policy <- x6

\* A connection whose owner sends one message and whose peer sends two.
Wire == INSTANCE PeerWire WITH
    Incoming <- {[k |-> "keepAlive", i |-> {}], [k |-> "badShape", i |-> {}],
                 [k |-> "bitfield", i |-> {0}]},
    NumPieces <- 1, QueueSize <- 1, MaxIn <- 2, MaxOut <- 1,
    life <- x1, peerIn <- x2, readBuf <- x3, recvCh <- x4, sendCh <- x5,
    peerSt <- x6, ka <- x7, budget <- x8

\* Three packets from the accepting end; the sequence numbers wrap.
Utp == INSTANCE Utp WITH
    Writers <- {"acc"}, FirstSeqs <- {5}, SeqRange <- 8, Cwnd <- 2,
    IncomingCap <- 2, MaxWrites <- 3, MaxFaults <- 1,
    ends <- x1, inNet <- x2, written <- x3, taken <- x4, faulty <- x5,
    spent <- x6, writes <- x7

\* Two tiers, the first with two URLs, and a URL of a scheme not supported.
Trackers == INSTANCE Trackers WITH
    Announce <- "", AnnounceTiers <- << <<"h1", "u1">>, <<"u2">> >>,
    Exclude <- {}, Add <- <<"x">>,
    Scheme <- ("h1" :> "http" @@ "u1" :> "udp" @@ "u2" :> "udp"
               @@ "x" :> "other"),
    Intervals <- {0, 1}, DefaultWait <- 2, MaxRounds <- 2,
    list <- x1, job <- x2, phase <- x3, stopping <- x4, call <- x5,
    mail <- x6, heard <- x7, told <- x8, pace <- x9, rounds <- x10

Supply == INSTANCE PeerSupply WITH
    Addrs <- {"a", "b"}, FoundCap <- 1, LimitCap <- 1, ResultCap <- 1,
    PeersCap <- 1, DropCap <- 1, MaxPeers <- 1, Transports <- 2,
    MaxIncoming <- 1,
    stopped <- x1, found <- x2, ctl <- x3, pending <- x4, connected <- x5,
    dial <- x6, resultCh <- x7, newPeers <- x8, dropCh <- x9, swarm <- x10,
    incoming <- x11

Session == INSTANCE BtSession WITH
    Regs <- {"r1", "r2"}, Conns <- {"k1"}, RegCap <- 1,
    registry <- x1, closed <- x2, ln <- x3, done <- x4, accept <- x5,
    closing <- x6, toClose <- x7, reg <- x8, owner <- x9, conn <- x10,
    panicked <- x11

\* A peer may claim a size that is wrong, too large or nothing.
Magnet == INSTANCE MagnetMetadata WITH
    MetaPeers <- {"p", "q"}, Sizes <- 0 .. 3, RealSize <- 2, MaxSize <- 2,
    stage <- x1, saved <- x2, size <- x3, got <- x4, inflight <- x5, mp <- x6

\* The whole space of three-bit node IDs.
Routing == INSTANCE DhtRouting WITH
    W <- 3, Local <- 0, K <- 2, CacheCap <- 1, BadCondition <- 1, table <- x1

Dht == INSTANCE DhtServer WITH
    Queries <- {"q1", "q2"}, TxObjs <- {"o1", "o2"}, RingCap <- 1,
    query <- x1, tx <- x2, pool <- x3, txs <- x4, ring <- x5, wire <- x6,
    heap <- x7, cancelled <- x8, signal <- x9, loop <- x10, reading <- x11,
    calls <- x12, found <- x13, panicked <- x14, stopped <- x15

Store == INSTANCE DhtStore WITH
    Nodes <- {"a", "b"}, Ports <- {0, 1}, Rotations <- 2,
    secrets <- x1, turns <- x2, peers <- x3, peerTokens <- x4, job <- x5,
    judged <- x6, result <- x7

\* The variables from xn on are not used by the part.
Pad(n) ==
    /\ IF n <= 2 THEN x2 = 0 ELSE TRUE
    /\ IF n <= 3 THEN x3 = 0 ELSE TRUE
    /\ IF n <= 4 THEN x4 = 0 ELSE TRUE
    /\ IF n <= 5 THEN x5 = 0 ELSE TRUE
    /\ IF n <= 6 THEN x6 = 0 ELSE TRUE
    /\ IF n <= 7 THEN x7 = 0 ELSE TRUE
    /\ IF n <= 8 THEN x8 = 0 ELSE TRUE
    /\ IF n <= 9 THEN x9 = 0 ELSE TRUE
    /\ IF n <= 10 THEN x10 = 0 ELSE TRUE
    /\ IF n <= 11 THEN x11 = 0 ELSE TRUE
    /\ IF n <= 12 THEN x12 = 0 ELSE TRUE
    /\ IF n <= 13 THEN x13 = 0 ELSE TRUE
    /\ IF n <= 14 THEN x14 = 0 ELSE TRUE
    /\ IF n <= 15 THEN x15 = 0 ELSE TRUE
    /\ IF n <= 16 THEN x16 = 0 ELSE TRUE
    /\ IF n <= 17 THEN x17 = 0 ELSE TRUE

Keep(n) ==
    /\ IF n <= 2 THEN x2' = x2 ELSE TRUE
    /\ IF n <= 3 THEN x3' = x3 ELSE TRUE
    /\ IF n <= 4 THEN x4' = x4 ELSE TRUE
    /\ IF n <= 5 THEN x5' = x5 ELSE TRUE
    /\ IF n <= 6 THEN x6' = x6 ELSE TRUE
    /\ IF n <= 7 THEN x7' = x7 ELSE TRUE
    /\ IF n <= 8 THEN x8' = x8 ELSE TRUE
    /\ IF n <= 9 THEN x9' = x9 ELSE TRUE
    /\ IF n <= 10 THEN x10' = x10 ELSE TRUE
    /\ IF n <= 11 THEN x11' = x11 ELSE TRUE
    /\ IF n <= 12 THEN x12' = x12 ELSE TRUE
    /\ IF n <= 13 THEN x13' = x13 ELSE TRUE
    /\ IF n <= 14 THEN x14' = x14 ELSE TRUE
    /\ IF n <= 15 THEN x15' = x15 ELSE TRUE
    /\ IF n <= 16 THEN x16' = x16 ELSE TRUE
    /\ IF n <= 17 THEN x17' = x17 ELSE TRUE

Init ==
    /\ part \in Parts
    /\ \/ part = "swarm" /\ Swarm!Init /\ Pad(18)
       \/ part = "handshake" /\ Handshake!Init /\ Pad(7)
       \/ part = "wire" /\ Wire!Init /\ Pad(9)
       \/ part = "utp" /\ Utp!Init /\ Pad(8)
       \/ part = "trackers" /\ Trackers!TrInit /\ Pad(11)
       \/ part = "supply" /\ Supply!PsInit /\ Pad(12)
       \/ part = "session" /\ Session!BsInit /\ Pad(12)
       \/ part = "magnet" /\ Magnet!MmInit /\ Pad(7)
       \/ part = "routing" /\ Routing!RtInit /\ Pad(2)
       \/ part = "dht" /\ Dht!DsInit /\ Pad(16)
       \/ part = "store" /\ Store!StInit /\ Pad(8)

Next ==
    /\ part' = part
    /\ \/ part = "swarm" /\ Swarm!Next /\ Keep(18)
       \/ part = "handshake" /\ Handshake!Next /\ Keep(7)
       \/ part = "wire" /\ Wire!Next /\ Keep(9)
       \/ part = "utp" /\ Utp!Next /\ Keep(8)
       \/ part = "trackers" /\ Trackers!TrNext /\ Keep(11)
       \/ part = "supply" /\ Supply!PsNext /\ Keep(12)
       \/ part = "session" /\ Session!BsNext /\ Keep(12)
       \/ part = "magnet" /\ Magnet!MmNext /\ Keep(7)
       \/ part = "routing" /\ Routing!RtNext /\ Keep(2)
       \/ part = "dht" /\ Dht!DsNext /\ Keep(16)
       \/ part = "store" /\ Store!StNext /\ Keep(8)

(***************************************************************************)
(* What each part's own specification calls weakly fair.  The parts that   *)
(* only have invariants are not among them; the connection has three fair  *)
(* goroutines, the others one condition for all of theirs.                 *)
(***************************************************************************)
Progress ==
    /\ part' = part
    /\ \/ part = "swarm" /\ Swarm!Progress /\ Keep(18)
       \/ part = "handshake" /\ Handshake!Progress /\ Keep(7)
       \/ part = "wire" /\ Wire!Alive /\ Wire!Run /\ Keep(9)
       \/ part = "utp" /\ Utp!Progress /\ Keep(8)
       \/ part = "trackers" /\ Trackers!Progress /\ Keep(11)
       \/ part = "supply" /\ Supply!Progress /\ Keep(12)
       \/ part = "session" /\ Session!BsNext /\ Keep(12)
       \/ part = "dht" /\ Dht!ClientSteps /\ Keep(16)

WireReads ==
    part = "wire" /\ Wire!Alive /\ Wire!Reader /\ Keep(9) /\ part' = part

WireWrites ==
    part = "wire" /\ Wire!Alive /\ Wire!LastWrites /\ Keep(9) /\ part' = part

Spec == /\ Init /\ [][Next]_all
        /\ WF_all(Progress) /\ WF_all(WireReads) /\ WF_all(WireWrites)

\* See Swarm!SeedsVerified: what a seeding download offers (runBTDownload).
SeedsVerified == part = "swarm" => Swarm!SeedsVerified
\* See PeerHandshake!StreamsAgree: the handshakes of mse and the peer wire.
StreamsAgree == part = "handshake" => Handshake!StreamsAgree
\* See PeerWire!KeepAliveArmed: the timer of a peer connection.
KeepAliveArmed == part = "wire" => Wire!KeepAliveArmed
\* See Utp!UtpInOrder: what a reader of a uTP connection is given.
UtpInOrder == part = "utp" => Utp!UtpInOrder
\* See Trackers!TrackerStory: the events a tracker hears.
TrackerStory == part = "trackers" => Trackers!TrackerStory
\* See PeerSupply!DialedOnce: the connector of discovered peers.
DialedOnce == part = "supply" => Supply!DialedOnce
\* See BtSession!RegisteredIsFound: the registry of incoming peers.
RegisteredIsFound == part = "session" => Session!RegisteredIsFound
\* See MagnetMetadata!MetadataSound: metadata taken from peers.
MetadataSound == part = "magnet" => Magnet!MetadataSound
\* See DhtRouting!RoutingSound and DhtServer!DhtAnswers.
DhtSound == /\ part = "routing" => Routing!RoutingSound
            /\ part = "dht" => Dht!DhtAnswers
            /\ part = "store" => Store!AnnounceSound

\* Every part comes to rest again and again: a download ends or seeds, the
\* two ends of a handshake are ready or failed, a connection that ends takes
\* all its goroutines with it, uTP delivers, trackers are told of the end,
\* the connector and the session stop when told, DHT queries are answered
\* or time out.
BitTorrentRests ==
    []<>(CASE part = "swarm"     -> Swarm!AtRest
           [] part = "handshake" -> Handshake!AtRest
           [] part = "wire"      -> Wire!AtRest
           [] part = "utp"       -> Utp!AtRest
           [] part = "trackers"  -> Trackers!AtRest
           [] part = "supply"    -> Supply!AtRest
           [] part = "session"   -> Session!AtRest
           [] part = "dht"       -> Dht!AtRest
           [] OTHER              -> TRUE)
=============================================================================
