------------------------------ MODULE FtpConn ------------------------------
(***************************************************************************)
(* The FTP driver (internal/protocol/ftp/conn.go): the control connection, *)
(* its commands and replies, the data connection of a retrieval in passive *)
(* and in active mode, and the pool in which control connections wait for  *)
(* the next download of the same server; and the connection that replaces  *)
(* it when FTP is tunnelled with plain GET requests through an HTTP proxy  *)
(* (ftpProxyGETConn of internal/engine/engine.go).                         *)
(*                                                                         *)
(* A control connection carries replies in the order of the commands, with *)
(* nothing that says which command a reply answers.  The hazard is the one *)
(* reply that comes later, the completion of a transfer: a connection left *)
(* with an unread completion answers every later command one reply late.   *)
(* `owed` is the replies the server has sent or will send and the client   *)
(* has not read.                                                           *)
(***************************************************************************)
EXTENDS Naturals, Sequences, FiniteSets

CONSTANTS Clients,     \* the downloads that use the server
          ConnIds,     \* control connections ever dialled
          Setups,      \* [mode, v6, reuse, tls]: options of the downloads
          Offsets,     \* offsets a retrieval may start from
          MaxPooled    \* maxPooledControlConnsPerKey

VARIABLES setup,       \* the setup in force: one pool key
          conns,       \* [sock, closed, broken, owed, rest] per control connection
          pool,        \* ftpControlConnPool: the stack of one key
          cl,          \* [at, conn, data, from, want, gone] per download
          misread      \* some command was answered by another command's reply

ftpVars == <<setup, conns, pool, cl, misread>>

Idle == [at |-> "idle", conn |-> 0, data |-> "none", from |-> 0, want |-> 0, gone |-> FALSE]

Unused == [sock |-> "unused", closed |-> FALSE, broken |-> FALSE, owed |-> <<>>, rest |-> 0]

Live(k) == conns[k].sock = "open"

FtpInit ==
  /\ setup \in Setups
  /\ conns = [k \in ConnIds |-> Unused]
  /\ pool = <<>>
  /\ cl = [c \in Clients |-> Idle]
  /\ misread = FALSE

Goto(c, r) == cl' = [cl EXCEPT ![c] = r]

(* The code a command expects: any other is a protocol error, or a code    *)
(* the caller tests.                                                       *)
Wanted(cmd) ==
  CASE cmd = "NOOP" -> 200
    [] cmd = "PORT" -> 200
    [] cmd \in {"SIZE", "MDTM"} -> 213
    [] cmd = "EPSV" -> 229
    [] cmd = "PASV" -> 227
    [] cmd = "REST" -> 350
    [] cmd = "RETR" -> 150

Codes(cmd) == {Wanted(cmd), 500}

(***************************************************************************)
(* sendAndRead.  The server answers the command with `code`; the client    *)
(* reads the oldest reply it has not read.  The restart marker of the      *)
(* server lives until the next command.                                    *)
(***************************************************************************)
Answered(k, cmd, code) == Append(conns[k].owed, [cmd |-> cmd, code |-> code])

sendAndRead(k, cmd, code, offset, more) ==
  LET replies == Answered(k, cmd, code)
  IN  /\ ~conns[k].closed
      /\ Live(k)
      /\ conns' = [conns EXCEPT ![k].owed = Tail(replies) \o more,
                                ![k].rest = IF cmd = "REST" /\ code = 350 THEN offset ELSE 0]
      /\ misread' = (misread \/ (cmd # "NOOP" /\ Head(replies).cmd # cmd))

Reply(k, cmd, code) == Head(Answered(k, cmd, code)).code

(* A write, a flush or a read that fails other than by a reply: the server *)
(* hung up, or 64 KiB of replies have been read over the connection's life *)
(* (recvLimited).                                                          *)
sendFails(k) ==
  /\ conns' = [conns EXCEPT ![k].sock = "dead", ![k].broken = TRUE]
  /\ UNCHANGED misread

closeUnderlying(k) == [conns EXCEPT ![k].sock = "dead"]

-----------------------------------------------------------------------------
(***************************************************************************)
(* Dial.  With reuse on, the top of the pool is tried first: it is reset   *)
(* for its new owner and must answer a NOOP with 200; otherwise it is      *)
(* closed and a fresh connection is dialled.                               *)
(***************************************************************************)
pop == SubSeq(pool, 1, Len(pool) - 1)

prepareForReuse(k) == [conns EXCEPT ![k].closed = FALSE, ![k].broken = FALSE]

\* mutant of validateReuse: any completion will do
AnySuccess(k, code) == Reply(k, "NOOP", code) < 300

validateReuse(k, code) == Reply(k, "NOOP", code) = 200

Dialing(c) ==
  /\ cl[c].at = "idle"
  /\ setup.mode # "proxy"
  /\ Goto(c, [Idle EXCEPT !.at = "dialing"])
  /\ UNCHANGED <<setup, conns, pool, misread>>

PopPooled(c) ==
  /\ cl[c].at = "dialing" /\ cl[c].conn = 0
  /\ setup.reuse /\ pool # <<>>
  /\ LET k == pool[Len(pool)]
     IN  /\ pool' = pop
         /\ conns' = prepareForReuse(k)
         /\ Goto(c, [cl[c] EXCEPT !.conn = k])
  /\ UNCHANGED <<setup, misread>>

ValidatePooled(c) ==
  /\ cl[c].at = "dialing" /\ cl[c].conn # 0
  /\ LET k == cl[c].conn
     IN  \/ \E code \in Codes("NOOP") :
              IF validateReuse(k, code)
              THEN /\ sendAndRead(k, "NOOP", code, 0, <<>>)
                   /\ Goto(c, [cl[c] EXCEPT !.at = "open"])
              ELSE /\ Live(k)
                   /\ conns' = [closeUnderlying(k) EXCEPT ![k].broken = TRUE]
                   /\ Goto(c, [cl[c] EXCEPT !.at = "fresh", !.conn = 0])
                   /\ UNCHANGED misread
         \/ /\ conns' = [closeUnderlying(k) EXCEPT ![k].broken = TRUE]
            /\ Goto(c, [cl[c] EXCEPT !.at = "fresh", !.conn = 0])
            /\ UNCHANGED misread
  /\ UNCHANGED <<setup, pool>>

(* The steps of a fresh connection: each may fail, and each failure closes *)
(* the socket.                                                             *)
authTLS == IF setup.tls THEN <<"AUTH", "handshake">> ELSE <<>>

login == <<"USER", "PASS">>

Greeting == <<"connect", "banner">> \o authTLS \o login \o <<"TYPE", "PWD">>

DialFresh(c) ==
  /\ \/ cl[c].at = "dialing" /\ cl[c].conn = 0 /\ (pool = <<>> \/ ~setup.reuse)
     \/ cl[c].at = "fresh"
  /\ \E k \in ConnIds, upto \in {1, 2, Len(Greeting) - 1, Len(Greeting)} :
       /\ conns[k].sock = "unused"
       /\ \A j \in ConnIds : conns[j].sock = "unused" => k <= j
       /\ IF upto = Len(Greeting)
          THEN /\ conns' = [conns EXCEPT ![k].sock = "open"]
               /\ Goto(c, [cl[c] EXCEPT !.at = "open", !.conn = k])
          ELSE /\ conns' = [conns EXCEPT ![k].sock = IF upto = 1 THEN "unused" ELSE "dead"]
               /\ Goto(c, Idle)
  /\ UNCHANGED <<setup, pool, misread>>

-----------------------------------------------------------------------------
(* Mdtm and Size.  runFTPDownload goes on without the time, and without    *)
(* the size when the server does not tell it; a Size that failed otherwise *)
(* ends the run.                                                           *)
SizeOrMdtm(c, cmd) ==
  /\ cl[c].at = "open" /\ setup.mode # "proxy"
  /\ LET k == cl[c].conn
     IN  \/ /\ \E code \in Codes(cmd) : sendAndRead(k, cmd, code, 0, <<>>)
            /\ UNCHANGED cl
         \/ /\ Live(k)
            /\ sendFails(k)
            /\ Goto(c, [cl[c] EXCEPT !.at = IF cmd = "SIZE" THEN "failed" ELSE "open"])
         \/ /\ ~Live(k)
            /\ UNCHANGED <<conns, misread>>
            /\ Goto(c, [cl[c] EXCEPT !.at = IF cmd = "SIZE" THEN "failed" ELSE "open"])
  /\ UNCHANGED <<setup, pool>>

Size(c) == SizeOrMdtm(c, "SIZE")

Mdtm(c) == SizeOrMdtm(c, "MDTM")

(***************************************************************************)
(* Retrieve.  Passive: EPSV on an IPv6 control connection, PASV after it   *)
(* or instead of it, then the data connection.  Active: a listener, then   *)
(* PORT.  Then REST, RETR and, in active mode, the accept.  Every failure  *)
(* returns with the data connection or the listener closed.                *)
(***************************************************************************)
Refused(c) == [cl[c] EXCEPT !.at = "failed", !.data = "none"]

FirstCommand == IF setup.mode = "active" THEN "PORT"
                ELSE IF setup.v6 THEN "EPSV" ELSE "PASV"

Retrieve(c) ==
  /\ cl[c].at = "open" /\ setup.mode # "proxy"
  /\ \E offset \in Offsets :
       Goto(c, [cl[c] EXCEPT !.at = FirstCommand, !.want = offset,
                             !.data = IF setup.mode = "active" THEN "listener" ELSE "none"])
  /\ UNCHANGED <<setup, conns, pool, misread>>

(* Whether a positive reply of PASV or EPSV carries a usable port, and     *)
(* whether the data connection to it comes about.                          *)
parsePASV == BOOLEAN

dialData == BOOLEAN

(* prepareActive and dialPassive; only a refused EPSV falls back to PASV,  *)
(* an EPSV reply without a usable port does not.                           *)
Channel(c) ==
  /\ cl[c].at \in {"PORT", "EPSV", "PASV"}
  /\ LET k == cl[c].conn
         cmd == cl[c].at
     IN  \E code \in Codes(cmd), usable \in parsePASV, dialled \in dialData :
           /\ cmd = "PORT" => usable /\ dialled
           /\ sendAndRead(k, cmd, code, 0, <<>>)
           /\ IF Reply(k, cmd, code) # Wanted(cmd)
              THEN Goto(c, IF cmd = "EPSV" THEN [cl[c] EXCEPT !.at = "PASV"]
                           ELSE Refused(c))
              ELSE IF usable /\ dialled
              THEN Goto(c, [cl[c] EXCEPT !.at = "REST",
                                         !.data = IF cmd = "PORT" THEN "listener" ELSE "conn"])
              ELSE Goto(c, Refused(c))
  /\ UNCHANGED <<setup, pool>>

\* mutant of Rest: a refused REST is passed over whatever the offset
RestOptional(c) ==
  /\ cl[c].at = "REST"
  /\ \E code \in Codes("REST") :
       /\ sendAndRead(cl[c].conn, "REST", code, cl[c].want, <<>>)
       /\ Goto(c, [cl[c] EXCEPT !.at = "RETR"])
  /\ UNCHANGED <<setup, pool>>

Rest(c) ==
  /\ cl[c].at = "REST"
  /\ LET k == cl[c].conn
     IN  \E code \in Codes("REST") :
           /\ sendAndRead(k, "REST", code, cl[c].want, <<>>)
           /\ IF Reply(k, "REST", code) # 350 /\ cl[c].want # 0
              THEN Goto(c, Refused(c))
              ELSE Goto(c, [cl[c] EXCEPT !.at = "RETR"])
  /\ UNCHANGED <<setup, pool>>

(* 150 or 125 starts the transfer: its completion is owed from here on.    *)
Retr(c) ==
  /\ cl[c].at = "RETR"
  /\ LET k == cl[c].conn
     IN  \E code \in Codes("RETR"), done \in {226, 426} :
           LET started == Reply(k, "RETR", code) = 150
           IN  /\ sendAndRead(k, "RETR", code, 0,
                              IF code = 150 THEN <<[cmd |-> "RETR", code |-> done]>> ELSE <<>>)
               /\ Goto(c, IF ~started THEN Refused(c)
                          ELSE [cl[c] EXCEPT !.at = IF setup.mode = "active" THEN "accept"
                                                   ELSE "reading",
                                             !.from = conns[k].rest])
  /\ UNCHANGED <<setup, pool>>

RetrieveFails(c) ==
  /\ cl[c].at \in {"PORT", "EPSV", "PASV", "REST", "RETR"}
  /\ IF Live(cl[c].conn) THEN sendFails(cl[c].conn) ELSE UNCHANGED <<conns,
                                                                     misread>>
  /\ Goto(c, IF cl[c].at = "EPSV" THEN [cl[c] EXCEPT !.at = "PASV"] ELSE Refused(c))
  /\ UNCHANGED <<setup, pool>>

(* The listener is closed either way; when the accept fails the reader of  *)
(* the completion does not exist, and the reply stays unread.              *)
acceptActive(c) ==
  /\ cl[c].at = "accept"
  /\ Goto(c, [cl[c] EXCEPT !.at = "reading", !.data = "conn"]) \/ Goto(c, Refused(c))
  /\ UNCHANGED <<setup, conns, pool, misread>>

(* dataReader.Close: the data connection first, then the completion; any   *)
(* reply but 226 spoils the control connection.                            *)
CloseReader(c) ==
  /\ cl[c].at = "reading" /\ setup.mode # "proxy"
  /\ LET k == cl[c].conn
     IN  \/ /\ Live(k) /\ conns[k].owed # <<>>
            /\ LET got == Head(conns[k].owed)
               IN  conns' = [conns EXCEPT ![k].owed = Tail(@), ![k].broken = @ \/ got.code # 226]
            /\ UNCHANGED misread
         \/ sendFails(k)
  /\ Goto(c, [cl[c] EXCEPT !.at = "failed", !.data = "none"])
  /\ UNCHANGED <<setup, pool>>

(***************************************************************************)
(* Close: back to the pool when reuse is on, the connection is not broken  *)
(* and the stack has room; otherwise the socket is closed.                 *)
(***************************************************************************)
push(k) == Append(pool, k)

Reusable(k) == setup.reuse /\ ~conns[k].broken

Close(c) ==
  /\ cl[c].at \in {"open", "failed"} /\ setup.mode # "proxy"
  /\ LET k == cl[c].conn
     IN  IF Reusable(k) /\ Len(pool) < MaxPooled
         THEN /\ conns' = [conns EXCEPT ![k].closed = TRUE]
              /\ pool' = push(k)
         ELSE /\ conns' = [closeUnderlying(k) EXCEPT ![k].closed = TRUE]
              /\ UNCHANGED pool
  /\ Goto(c, Idle)
  /\ UNCHANGED <<setup, misread>>

(* The server drops a control connection, pooled or not.                   *)
ServerHangsUp(k) ==
  /\ Live(k)
  /\ conns' = [conns EXCEPT ![k].sock = "dead"]
  /\ UNCHANGED <<setup, pool, cl, misread>>

-----------------------------------------------------------------------------
(***************************************************************************)
(* ftpProxyGETConn.  Size and Mdtm come from one HEAD, whose result is     *)
(* kept; Retrieve is a GET, which must be answered 206 for a later offset; *)
(* a goroutine closes the connection of a body when the run is cancelled.  *)
(***************************************************************************)
ProxyOpen(c) ==
  /\ cl[c].at = "idle" /\ setup.mode = "proxy"
  /\ Goto(c, [Idle EXCEPT !.at = "open"])
  /\ UNCHANGED <<setup, conns, pool, misread>>

(* do, for a HEAD: the connection is closed before headMetadata returns.   *)
headMetadata(c) ==
  /\ cl[c].at = "open" /\ setup.mode = "proxy" /\ cl[c].conn = 0
  /\ \/ Goto(c, [cl[c] EXCEPT !.conn = 1])
     \/ Goto(c, [cl[c] EXCEPT !.at = "failed"])
     \/ UNCHANGED cl
  /\ UNCHANGED <<setup, conns, pool, misread>>

ProxyStatus == {200, 206, 404}

ProxyAccepts(offset, status) ==
  IF offset > 0 THEN status = 206 ELSE status \in {200, 206}

ProxyRetrieve(c) ==
  /\ cl[c].at = "open" /\ setup.mode = "proxy"
  /\ \E offset \in Offsets, status \in ProxyStatus :
       \/ IF ProxyAccepts(offset, status)
          THEN Goto(c, [cl[c] EXCEPT !.at = "reading", !.data = "conn", !.want = offset,
                                     !.from = IF status = 206 THEN offset ELSE 0])
          ELSE Goto(c, [cl[c] EXCEPT !.at = "failed"])
       \/ Goto(c, [cl[c] EXCEPT !.at = "failed"])
  /\ UNCHANGED <<setup, conns, pool, misread>>

(* The watcher of ctx.Done, and the close of the body, in either order.    *)
ProxyCancel(c) ==
  /\ cl[c].at = "reading" /\ setup.mode = "proxy" /\ ~cl[c].gone
  /\ Goto(c, [cl[c] EXCEPT !.data = "none", !.gone = TRUE])
  /\ UNCHANGED <<setup, conns, pool, misread>>

ProxyBodyClose(c) ==
  /\ setup.mode = "proxy"
  /\ \/ cl[c].at = "reading"
     \/ cl[c].at \in {"open", "failed"}
  /\ Goto(c, Idle)
  /\ UNCHANGED <<setup, conns, pool, misread>>

FtpNext ==
  \/ \E c \in Clients :
       \/ Dialing(c) \/ PopPooled(c) \/ ValidatePooled(c) \/ DialFresh(c)
       \/ Size(c) \/ Mdtm(c)
       \/ Retrieve(c) \/ Channel(c) \/ Rest(c) \/ Retr(c) \/ RetrieveFails(c) \/ acceptActive(c)
       \/ CloseReader(c) \/ Close(c)
       \/ ProxyOpen(c) \/ headMetadata(c) \/ ProxyRetrieve(c) \/ ProxyCancel(c) \/ ProxyBodyClose(c)
  \/ \E k \in ConnIds : ServerHangsUp(k)

FtpSpec == FtpInit /\ [][FtpNext]_ftpVars

-----------------------------------------------------------------------------
Pooled == {pool[i] : i \in 1..Len(pool)}

(* Sharing control connections between downloads is invisible to them:     *)
(* every command is answered by its own reply; a connection has one owner, *)
(* a download or one place of the pool, and the pool holds at most its     *)
(* limit and nothing known to be broken; a stream starts at the offset     *)
(* asked for, on a data connection of its own; and a retrieval that failed *)
(* left no data connection and no listener behind (Dial, sendAndRead,      *)
(* Retrieve, dataReader.Close, Close, ftpProxyGETConn.Retrieve).           *)
FtpInSync ==
  /\ ~misread
  /\ Cardinality(Pooled) = Len(pool) /\ Len(pool) <= MaxPooled
  /\ \A k \in Pooled : conns[k].closed /\ ~conns[k].broken
  /\ \A c, d \in Clients :
       /\ cl[c].conn \notin Pooled
       /\ (c # d /\ cl[c].conn = cl[d].conn) => (cl[c].conn = 0 \/ setup.mode = "proxy")
  /\ \A c \in Clients :
       /\ cl[c].at = "reading" => cl[c].from = cl[c].want
       /\ (cl[c].at = "reading" /\ ~cl[c].gone) => cl[c].data = "conn"
       /\ cl[c].at \in {"idle", "dialing", "fresh", "open", "failed"} => cl[c].data = "none"
=============================================================================
