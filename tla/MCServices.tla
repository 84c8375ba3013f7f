----------------------------- MODULE MCServices -----------------------------
(***************************************************************************)
(* What a download stands on: the piece map, the files and caches before   *)
(* the disk, the HTTP, FTP and SFTP drivers with the dialer below them,    *)
(* the runs of FTP and SFTP downloads, the RPC server with its WebSocket   *)
(* sessions, the rate limiter and the session file.  The engine uses each  *)
(* through calls that the models keep at their border, so a behaviour is   *)
(* one of one part, chosen at the start; the parts take turns with the     *)
(* variables x1, x2, ...                                                   *)
(***************************************************************************)
EXTENDS Integers, Sequences

CONSTANT Services

VARIABLES part, x1, x2, x3, x4, x5, x6, x7, x8, x9, x10, x11, x12, x13

all == <<part, x1, x2, x3, x4, x5, x6, x7, x8, x9, x10, x11, x12, x13>>

\* Five bytes in blocks of two, the last one short.
Pieces == INSTANCE PieceMap WITH
    ByteBits <- 4, BlockLength <- 2, TotalLength <- 5, Counts <- {0, 2},
    SplitSizes <- {1, 4}, GeomBase <- 2,
    pm <- x1

At(offset, length) == [offset |-> offset, length |-> length]

\* Files with a gap, an empty one and two that overlap.
Storage == INSTANCE DiskFiles WITH
    Layouts <- {<<At(0, 2), At(2, 0), At(3, 2)>>, <<At(0, 3)>>,
                <<At(0, 2), At(1, 2)>>},
    Allocators <- {"none", "full"}, OldSizes <- {0, 1, 3}, PieceLen <- 2,
    MaxWrites <- 2,
    kind <- x1, files <- x2, alloc <- x3, state <- x4, disk <- x5, pieces <-
    x6, verified <- x7, flat <- x8, writes <- x9

\* A cache of two bytes before two files.
Behind == INSTANCE WriteBehind WITH
    Files <- {"f1", "f2"}, Bytes <- {1, 2}, MaxSize <- 2, MaxOffset <- 2,
    MaxAdds <- 3,
    layer <- x1, disk <- x2, latest <- x3, entries <- x4, totalSize <- x5,
    lru <- x6, evicting <- x7, dirty <- x8, lost <- x9, adds <- x10

HttpDriverOf(encoding, useHead, challenge, conditional) ==
    [encoding |-> encoding, useHead |-> useHead, user |-> TRUE,
     challenge |-> challenge, conditional |-> conditional]

HttpDrivers == {HttpDriverOf(FALSE, FALSE, TRUE, FALSE),
                HttpDriverOf(TRUE, FALSE, FALSE, TRUE),
                HttpDriverOf(TRUE, TRUE, TRUE, FALSE)}

HttpServer(range, auth, head, known, encodes, fresh) ==
    [range |-> range, auth |-> auth, head |-> head, known |-> known,
     encodes |-> encodes, fresh |-> fresh]

HttpServers == {HttpServer("exact", "basic", "ok", TRUE, FALSE, FALSE),
                HttpServer("shifted", "digest", "refused", TRUE, FALSE, TRUE),
                HttpServer("longer", "none", "ok", FALSE, FALSE, FALSE),
                HttpServer("none", "basic", "refused", FALSE, TRUE, FALSE),
                HttpServer("refused", "none", "ok", TRUE, FALSE, FALSE)}

\* Two calls on one driver, against five kinds of server.
Http == INSTANCE HttpDriver WITH
    Calls <- {"c1", "c2"}, Size <- 3, Drivers <- HttpDrivers,
    Servers <- HttpServers,
    Ranges <- {[offset |-> 0, size |-> 0], [offset |-> 1, size |-> 1]},
    MaxCalls <- 2,
    drv <- x1, srv <- x2, call <- x3, got <- x4, out <- x5, pending <- x6,
    scope <- x7, challenged <- x8, early <- x9, open <- x10, calls <- x11

Net(proxy, disable6, lookup6) ==
    [proxy |-> proxy, bypass |-> FALSE, disable6 |-> disable6,
     lookup6 |-> lookup6]

\* Two callers that share the resolver's cache.
Dialer == INSTANCE NetDialer WITH
    Callers <- {"c1", "c2"}, MaxDials <- 2,
    Configs <- {Net(TRUE, FALSE, TRUE), Net(FALSE, TRUE, FALSE)},
    cfg <- x1, closed <- x2, cancelled <- x3, pc <- x4, addrs <- x5, conn <-
    x6, out <- x7, cache <- x8, flight <- x9, look <- x10, dials <- x11

FtpSetup(mode, v6, reuse, tls) ==
    [mode |-> mode, v6 |-> v6, reuse |-> reuse, tls |-> tls]

FtpSetups == {FtpSetup("passive", TRUE, TRUE, FALSE),
              FtpSetup("active", FALSE, TRUE, TRUE),
              FtpSetup("passive", FALSE, FALSE, FALSE),
              FtpSetup("proxy", FALSE, FALSE, FALSE)}

\* Two downloads from one server, with a pool for one connection.
Ftp == INSTANCE FtpConn WITH
    Clients <- {"c1", "c2"}, ConnIds <- {1, 2}, Offsets <- {0, 1},
    MaxPooled <- 1, Setups <- FtpSetups,
    setup <- x1, conns <- x2, pool <- x3, cl <- x4, misread <- x5

Known(host, revoked, same) ==
    [host |-> host, revoked |-> revoked, same |-> same]

HostFiles == {<<>>, <<Known(FALSE, FALSE, TRUE)>>,
              <<Known(TRUE, FALSE, FALSE), Known(TRUE, FALSE, TRUE)>>,
              <<Known(TRUE, TRUE, TRUE)>>, <<Known(TRUE, FALSE, FALSE)>>}

CipherOffers == {[cs |-> {"aes128", "aes256"}, sc |-> {"aes256", "aes128"}],
                 [cs |-> {"aes128"}, sc |-> {"aes256"}],
                 [cs |-> {}, sc |-> {"aes128"}]}

\* All the ways an SSH connection is opened.
Ssh == INSTANCE SshOpen WITH
    AuthSets <- {<<"password", "key", "agent">>, <<"agent">>, <<"key", "agent">>},
    Digests <- {"none", "match", "other"}, KnownHosts <- HostFiles,
    Offers <- CipherOffers, MaxStray <- 2,
    opt <- x1, at <- x2, keys <- x3, ciphers <- x4, q <- x5, todo <- x6,
    granted <- x7, agent <- x8, sock <- x9, stray <- x10, out <- x11

\* The reply is longer than the window, which is credited on the way.
Channel == INSTANCE SshChannel WITH
    WindowSize <- 2, MaxPacket <- 2, InitWindows <- {0, 1}, ReplyBytes <- 3,
    RequestBytes <- 2, MaxWrites <- 2,
    win <- x1, buf <- x2, read <- x3, flags <- x4, pc <- x5, left <- x6,
    down <- x7, up <- x8, srv <- x9, writes <- x10

\* Two sessions that share the pool of buffers.
Sftp == INSTANCE SftpSession WITH
    Sessions <- {"s1", "s2"}, Buffers <- {1, 2}, FileLen <- 2, Starts <- {1},
    ReadSize <- 2,
    ss <- x1, pool <- x2, orphan <- x3, canceled <- x4

Option(continue, hashOnly, realtime, metalink) ==
    [continue |-> continue, hashOnly |-> hashOnly, realtime |-> realtime,
     metalink |-> metalink]

StreamOptions == {Option(TRUE, FALSE, FALSE, FALSE),
                  Option(TRUE, FALSE, TRUE, TRUE),
                  Option(FALSE, FALSE, FALSE, TRUE),
                  Option(TRUE, TRUE, FALSE, FALSE)}

\* Right, wrong, short and long files found on disk.
Stream == INSTANCE StreamRuns WITH
    Size <- 2, Mirrors <- {<<"ftp">>, <<"sftp">>, <<"other", "ftp">>},
    Checks <- {"none", "whole", "piece"}, Options <- StreamOptions,
    Disks <- {<<>>, <<"r">>, <<"w", "r">>, <<"r", "r", "w">>},
    Saved <- {{0}, {}, {1}, {2}}, MaxTries <- 2,
    cfg <- x1, at <- x2, mirror <- x3, disk <- x4, done <- x5, saved <- x6,
    length <- x7, offset <- x8, written <- x9, retry <- x10, code <- x11,
    canceled <- x12

\* A session whose outbox and event channel fill up.
Ws == INSTANCE WsSessions WITH
    Sessions <- {"s1"}, OutboxSize <- 2, MaxReqSize <- 2, EventBuf <- 1,
    MaxFrames <- 2, MaxEvents <- 2,
    Messages <- {<<"call">>, <<"call", "noauth">>},
    sess <- x1, frames <- x2, emitted <- x3, bus <- x4, held <- x5, notif <-
    x6, stage <- x7, crashed <- x8

Element(form, method, vals) ==
    [form |-> form, method |-> method, vals |-> vals]

Request(path, verb, els, batch) ==
    [path |-> path, verb |-> verb, basic |-> TRUE, big |-> FALSE,
     readable |-> TRUE, upgrade |-> FALSE,
     body |-> [garbage |-> FALSE, batch |-> batch, els |-> els]]

XmlRequest(method, vals) ==
    Request("xml", "POST", <<Element("ok", method, vals)>>, FALSE)

JsonRequest(form, method, vals) ==
    Request("json", "POST", <<Element(form, method, vals)>>, FALSE)

Batch == Request("json", "POST",
                 <<Element("ok", "change", <<"token", "a">>),
                   Element("nonobject", "list", <<>>),
                   Element("noid", "list", <<>>),
                   Element("ok", "tell", <<"secret", "a">>)>>, TRUE)

RpcRequests ==
    {XmlRequest("tell", <<"token", "a">>),
     XmlRequest("change", <<"badtoken", "a">>),
     XmlRequest("upload", <<"token", "a">>), XmlRequest("list", <<>>),
     Batch, [Batch EXCEPT !.verb = "GET"],
     [Batch EXCEPT !.verb = "GET", !.upgrade = TRUE],
     [Batch EXCEPT !.verb = "OPTIONS"], [Batch EXCEPT !.basic = FALSE],
     [Batch EXCEPT !.big = TRUE], [Batch EXCEPT !.body.garbage = TRUE],
     JsonRequest("nonobject", "list", <<>>),
     JsonRequest("badparams", "tell", <<>>), JsonRequest("ok", "tell", <<"a">>),
     Request("root", "GET", <<>>, FALSE)}

\* Two requests at a time, of every kind the server tells apart.
Rpc == INSTANCE RpcHttp WITH
    Clients <- {1, 2}, Parsers <- {1, 2}, Requests <- RpcRequests,
    Setups <- {[secret |-> TRUE, user |-> TRUE, readOnly |-> FALSE],
               [secret |-> FALSE, user |-> FALSE, readOnly |-> TRUE]},
    setup <- x1, cl <- x2, room <- x3

RpcMethods ==
    <<{"pauseAll", "tellStatus", "getUris", "getServers", "getPeers",
       "getOption", "multicall", "position", "tellWaiting", "addMetalink",
       "shutdown"},
      {"add", "remove", "pause", "unpause", "changeOption", "removeResult",
       "purge", "shutdown", "unpauseAll", "changeUri"}>>

\* A client that reads while another changes two running downloads.
Methods == INSTANCE RpcCalls WITH
    Gids <- {1, 2, 3}, Clients <- {1, 2}, Ops <- RpcMethods, Started <- 2,
    Specs <- <<"pause", "noauth", "addUri">>, MaxInt <- 7,
    Moves <- {<<1, "POS_SET">>, <<5, "POS_SET">>, <<-1, "POS_CUR">>,
              <<0, "POS_END">>},
    Pages <- {<<0, 1>>, <<1, 7>>, <<0, 7>>, <<-1, 2>>, <<-2, 1>>},
    queue <- x1, act <- x2, ring <- x3, purged <- x4, flags <- x5, uris <-
    x6, closing <- x7, cl <- x8

XmlValue(kind, text, elems, members) ==
    [kind |-> kind, text |-> text, elems |-> elems, members |-> members]

Scalar(kind, text) == XmlValue(kind, text, <<>>, {})
Nil == Scalar("nil", <<>>)
Str == Scalar("string", <<"x">>)
Pair(v, w) == XmlValue("array", <<>>, <<v, w>>, {})
Record(v, w) == XmlValue("struct", <<>>, <<>>, {<<"a", v>>, <<"b", w>>})
NoMembers == XmlValue("struct", <<>>, <<>>, {})

Flat == {Str, Scalar("string", <<>>), Scalar("untyped", <<"y">>),
         Scalar("untyped", <<>>), Scalar("i4", <<"1">>),
         Scalar("boolean", <<"0">>), Scalar("base64", <<"eA==">>),
         Scalar("double", <<"1">>), Nil}

Inner == {Str, Scalar("untyped", <<>>), Pair(Str, Nil), Record(Str, Nil),
          NoMembers}

XmlValues ==
    Flat \cup {XmlValue("array", <<>>, <<>>, {}), NoMembers}
    \cup {Pair(v, w) : v \in Flat, w \in {Str, Nil}}
    \cup {Record(v, w) : v \in Flat, w \in {Str, Nil}}
    \cup {Pair(v, Str) : v \in Inner} \cup {Record(v, Str) : v \in Inner}

\* Every kind of value, alone and two levels deep.
Xml == INSTANCE XmlRpc WITH
    Values <- XmlValues,
    sent <- x1, input <- x2, p <- x3, out <- x4

\* Two transfers under a rate that a second's ticks do not divide.
Throttle == INSTANCE Throttle WITH
    Waiters <- {1, 2}, Need <- <<1, 2>>, Rates <- {0, 3}, TicksPerSecond <- 2,
    MaxTicks <- 2, MaxSets <- 1, MaxStops <- 1,
    rate <- x1, bucket <- x2, carryover <- x3, waiters <- x4, signal <- x5,
    done <- x6, runner <- x7, wait <- x8, due <- x9, raced <- x10, taken <-
    x11, setting <- x12, used <- x13

\* One transfer, while the limit is lifted, stopped and set again.
Restart == INSTANCE Throttle WITH
    Waiters <- {1}, Need <- <<1>>, Rates <- {0, 3}, TicksPerSecond <- 2,
    MaxTicks <- 2, MaxSets <- 2, MaxStops <- 1,
    rate <- x1, bucket <- x2, carryover <- x3, waiters <- x4, signal <- x5,
    done <- x6, runner <- x7, wait <- x8, due <- x9, raced <- x10, taken <-
    x11, setting <- x12, used <- x13

Entry(gid, uris, paused, dir, header) ==
    [gid |-> gid, uris |-> uris, paused |-> paused, dir |-> dir,
     header |-> header]

Versions == << <<Entry("g1", <<"u", "v">>, FALSE, "", <<"h1", "h2">>)>>,
               <<Entry("g1", <<"u", "v">>, TRUE, "d", <<"h1", "h2">>),
                 Entry("g2", <<>>, FALSE, "", <<>>)>> >>

\* Two saves, one of them before and one after a change.
Saves == INSTANCE SessionFile WITH
    Savers <- {1, 2}, Downloads <- Versions, MaxSaves <- 2, MaxFaults <- 1,
    live <- x1, phase <- x2, kept <- x3, hash <- x4, disk <- x5, sv <- x6,
    count <- x7, tried <- x8, upset <- x9

\* The variables from xn on are not used by the part.
Pad(n) ==
    /\ IF n <= 2 THEN x2 = 0 ELSE TRUE
    /\ IF n <= 3 THEN x3 = 0 ELSE TRUE
    /\ IF n <= 4 THEN x4 = 0 ELSE TRUE
    /\ IF n <= 5 THEN x5 = 0 ELSE TRUE
    /\ IF n <= 6 THEN x6 = 0 ELSE TRUE
    /\ IF n <= 7 THEN x7 = 0 ELSE TRUE
    /\ IF n <= 8 THEN x8 = 0 ELSE TRUE
    /\ IF n <= 9 THEN x9 = 0 ELSE TRUE
    /\ IF n <= 10 THEN x10 = 0 ELSE TRUE
    /\ IF n <= 11 THEN x11 = 0 ELSE TRUE
    /\ IF n <= 12 THEN x12 = 0 ELSE TRUE
    /\ IF n <= 13 THEN x13 = 0 ELSE TRUE

Keep(n) ==
    /\ IF n <= 2 THEN x2' = x2 ELSE TRUE
    /\ IF n <= 3 THEN x3' = x3 ELSE TRUE
    /\ IF n <= 4 THEN x4' = x4 ELSE TRUE
    /\ IF n <= 5 THEN x5' = x5 ELSE TRUE
    /\ IF n <= 6 THEN x6' = x6 ELSE TRUE
    /\ IF n <= 7 THEN x7' = x7 ELSE TRUE
    /\ IF n <= 8 THEN x8' = x8 ELSE TRUE
    /\ IF n <= 9 THEN x9' = x9 ELSE TRUE
    /\ IF n <= 10 THEN x10' = x10 ELSE TRUE
    /\ IF n <= 11 THEN x11' = x11 ELSE TRUE
    /\ IF n <= 12 THEN x12' = x12 ELSE TRUE
    /\ IF n <= 13 THEN x13' = x13 ELSE TRUE

Init ==
    /\ part \in Services
    /\ \/ part = "pieces" /\ Pieces!PmInit /\ Pad(2)
       \/ part = "files" /\ Storage!DiskInit /\ Pad(10)
       \/ part = "behind" /\ Behind!WbInit /\ Pad(11)
       \/ part = "http" /\ Http!HttpInit /\ Pad(12)
       \/ part = "dial" /\ Dialer!NetInit /\ Pad(12)
       \/ part = "ftp" /\ Ftp!FtpInit /\ Pad(6)
       \/ part = "ssh" /\ Ssh!SshInit /\ Pad(12)
       \/ part = "channel" /\ Channel!ChInit /\ Pad(11)
       \/ part = "sftp" /\ Sftp!SftpInit /\ Pad(5)
       \/ part = "stream" /\ Stream!SrInit /\ Pad(13)
       \/ part = "ws" /\ Ws!WsInit /\ Pad(9)
       \/ part = "requests" /\ Rpc!RpcInit /\ Pad(4)
       \/ part = "calls" /\ Methods!CallInit /\ Pad(9)
       \/ part = "xml" /\ Xml!XmlInit /\ Pad(5)
       \/ part = "throttle" /\ Throttle!ThrottleInit /\ Pad(14)
       \/ part = "restart" /\ Restart!ThrottleInit /\ Pad(14)
       \/ part = "saves" /\ Saves!SessionInit /\ Pad(10)

Next ==
    /\ part' = part
    /\ \/ part = "pieces" /\ Pieces!PmNext /\ Keep(2)
       \/ part = "files" /\ Storage!DiskNext /\ Keep(10)
       \/ part = "behind" /\ Behind!WbNext /\ Keep(11)
       \/ part = "http" /\ Http!HttpNext /\ Keep(12)
       \/ part = "dial" /\ Dialer!NetNext /\ Keep(12)
       \/ part = "ftp" /\ Ftp!FtpNext /\ Keep(6)
       \/ part = "ssh" /\ Ssh!SshNext /\ Keep(12)
       \/ part = "channel" /\ Channel!ChNext /\ Keep(11)
       \/ part = "sftp" /\ Sftp!SftpNext /\ Keep(5)
       \/ part = "stream" /\ Stream!SrNext /\ Keep(13)
       \/ part = "ws" /\ Ws!WsNext /\ Keep(9)
       \/ part = "requests" /\ Rpc!RpcNext /\ Keep(4)
       \/ part = "calls" /\ Methods!CallNext /\ Keep(9)
       \/ part = "xml" /\ Xml!XmlNext /\ Keep(5)
       \/ part = "throttle" /\ Throttle!ThrottleNext /\ Keep(14)
       \/ part = "restart" /\ Restart!ThrottleNext /\ Keep(14)
       \/ part = "saves" /\ Saves!SessionNext /\ Keep(10)

Spec == Init /\ [][Next]_all

\* See PieceMap!PieceMapSound, DiskStorage!DiskReadsBack and
\* WriteBehind!WriteBehindSound: what is missing, and what is read back.
DiskSound == /\ part = "pieces" => Pieces!PieceMapSound
             /\ part = "files" => Storage!DiskReadsBack
             /\ part = "behind" => Behind!WriteBehindSound
\* See HttpDriver!HttpSound: probes, ranges and credentials of the driver.
HttpSound == part = "http" => Http!HttpSound
\* See NetDialer!DialSound: resolver, dialer and proxies (internal/netx).
DialSound == part = "dial" => Dialer!DialSound
\* See FtpConn!FtpInSync: replies, offsets and the pool of the FTP driver.
FtpInSync == part = "ftp" => Ftp!FtpInSync
\* See SshOpen!OpenSound, SshChannel!ChannelSound and SftpSession!SftpSound.
SshSound == /\ part = "ssh" => Ssh!OpenSound
            /\ part = "channel" => Channel!ChannelSound
            /\ part = "sftp" => Sftp!SftpSound
\* See StreamRuns!StreamRunSound: how an FTP or SFTP download ends.
StreamRunSound == part = "stream" => Stream!StreamRunSound
\* See WsSessions!WsSound: replies and notifications of a session.
WsSound == part = "ws" => Ws!WsSound
\* See RpcHttp!RpcSound and XmlRpc!CallRoundTrip: requests and parameters.
RpcSound == /\ part = "requests" => Rpc!RpcSound
            /\ part = "xml" => Xml!CallRoundTrip
\* See RpcCalls!CallsSound: the methods on an engine that runs.
CallsSound == part = "calls" => Methods!CallsSound
\* See Throttle!ThrottleSound: the bucket of a rate limiter.
ThrottleSound == /\ part = "throttle" => Throttle!ThrottleSound
                 /\ part = "restart" => Restart!ThrottleSound
\* See SessionFile!SessionSound: what a saved session gives back.
SessionSound == part = "saves" => Saves!SessionSound
=============================================================================
