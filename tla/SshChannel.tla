----------------------------- MODULE SshChannel -----------------------------
(***************************************************************************)
(* The SSH channel an SFTP session runs over (internal/ssh/channel):       *)
(* flow control in both directions, the packets that arrive in between,    *)
(* end of file and close.  The session writes a request and then reads the *)
(* reply, one after the other; a packet that arrives while Write waits for *)
(* window is handled there, so reply bytes may come in before they are     *)
(* asked for.                                                              *)
(*                                                                         *)
(* The bytes the server sends are 1, 2, 3, ...; a data packet is an        *)
(* interval of them.  The window credits the client returns are held back  *)
(* until half a window has been consumed.                                  *)
(***************************************************************************)
EXTENDS Naturals, Sequences

CONSTANTS WindowSize,   \* defaultWindowSize
          MaxPacket,    \* the server's largest data packet
          InitWindows,  \* windows the server may grant at the open
          ReplyBytes,   \* bytes the server sends in all
          RequestBytes, \* bytes the session writes at a time
          MaxWrites     \* requests written

VARIABLES win,      \* [local, remote, pending]: localWindow, remoteWindow, pendingConsumed
          buf,      \* readBuf: bytes received and not yet read
          read,     \* bytes Read has returned
          flags,    \* [sentEOF, receivedEOF, sentClose, rcvdClose]
          pc,       \* "idle" | "writing" | "reading" | "failed" | "closed"
          left,     \* bytes Write has still to send
          down,     \* packets on their way to the client
          up,       \* window credits and data on their way to the server: [credit, data]
          srv,      \* [may, sent, open, room, init]: the server's windows and position
          writes

chVars == <<win, buf, read, flags, pc, left, down, up, srv, writes>>

Least(a, b) == IF a < b THEN a ELSE b

(* parseChannelOpenConfirmation: a window of zero is taken for the         *)
(* default.                                                                *)
Opened(init) == IF init = 0 THEN WindowSize ELSE init

ChInit ==
  \E init \in InitWindows :
    /\ win = [local |-> WindowSize, remote |-> Opened(init), pending |-> 0]
    /\ srv = [may |-> WindowSize, sent |-> 0, open |-> TRUE, room |-> init, init |-> init]
    /\ buf = <<>> /\ read = 0
    /\ flags = [sentEOF |-> FALSE, receivedEOF |-> FALSE, sentClose |-> FALSE, rcvdClose |-> FALSE]
    /\ pc = "idle" /\ left = 0 /\ down = <<>>
    /\ up = [credit |-> 0, data |-> 0]
    /\ writes = 0

-----------------------------------------------------------------------------
(* The server: data within its window, credits, end of file, close, and    *)
(* requests and stray packets.                                             *)
ServerData ==
  /\ srv.open /\ srv.may > 0 /\ srv.sent < ReplyBytes
  /\ \E n \in 1..Least(Least(MaxPacket, srv.may), ReplyBytes - srv.sent) :
       /\ down' = Append(down, [kind |-> "data", n |-> n, from |-> srv.sent + 1])
       /\ srv' = [srv EXCEPT !.may = @ - n, !.sent = @ + n]
  /\ UNCHANGED <<win, buf, read, flags, pc, left, up, writes>>

(* The server reads the client's data, and grants the room again.          *)
ServerGrants ==
  /\ srv.open /\ up.data > 0
  /\ up' = [up EXCEPT !.data = 0]
  /\ srv' = [srv EXCEPT !.room = @ + up.data]
  /\ down' = Append(down, [kind |-> "adjust", n |-> up.data, from |-> 0])
  /\ UNCHANGED <<win, buf, read, flags, pc, left, writes>>

ServerTakesCredit ==
  /\ up.credit > 0
  /\ up' = [up EXCEPT !.credit = 0]
  /\ srv' = [srv EXCEPT !.may = @ + up.credit]
  /\ UNCHANGED <<win, buf, read, flags, pc, left, down, writes>>

ServerSends(kind) ==
  /\ srv.open
  /\ kind \in {"request", "stray"} => \A i \in 1..Len(down) : down[i].kind = "data"
  /\ down' = Append(down, [kind |-> kind, n |-> 0, from |-> 0])
  /\ srv' = [srv EXCEPT !.open = kind \in {"request", "stray"}]
  /\ UNCHANGED <<win, buf, read, flags, pc, left, up, writes>>

-----------------------------------------------------------------------------
(***************************************************************************)
(* handleReadPacket, for a packet received in Read or in Write.            *)
(***************************************************************************)
\* mutant of handleData: the bytes replace what is still buffered
DataReplaces(p) ==
  /\ p.n <= win.local
  /\ buf' = [i \in 1..p.n |-> p.from + i - 1]
  /\ win' = [win EXCEPT !.local = @ - p.n]

handleData(p) ==
  /\ p.n <= win.local
  /\ buf' = buf \o [i \in 1..p.n |-> p.from + i - 1]
  /\ win' = [win EXCEPT !.local = @ - p.n]

handleWindowAdjust(p) ==
  /\ win' = [win EXCEPT !.remote = @ + p.n]
  /\ UNCHANGED buf

Refused(p) == (p.kind = "data" /\ p.n > win.local) \/ p.kind = "stray"

handleReadPacket(p) ==
  /\ CASE Refused(p) -> UNCHANGED <<win, buf>>
       [] p.kind = "data" -> handleData(p)
       [] p.kind = "adjust" -> handleWindowAdjust(p)
       [] OTHER -> UNCHANGED <<win, buf>>
  /\ flags' = [flags EXCEPT !.receivedEOF = @ \/ p.kind = "eof",
                            !.rcvdClose = @ \/ p.kind = "close",
                            !.sentClose = @ \/ p.kind = "close"]
  /\ down' = Tail(down)

-----------------------------------------------------------------------------
(* Read: packets are handled until there is a byte, the end or the close.  *)
StartRead ==
  /\ pc = "idle" /\ writes > 0
  /\ pc' = "reading"
  /\ UNCHANGED <<win, buf, read, flags, left, down, up, srv, writes>>

ReadReceives ==
  /\ pc = "reading" /\ buf = <<>> /\ ~flags.receivedEOF /\ ~flags.rcvdClose
  /\ down # <<>>
  /\ handleReadPacket(Head(down))
  /\ pc' = IF Refused(Head(down)) THEN "failed" ELSE "reading"
  /\ UNCHANGED <<read, left, up, srv, writes>>

ReadEOF ==
  /\ pc = "reading" /\ buf = <<>> /\ (flags.receivedEOF \/ flags.rcvdClose)
  /\ pc' = "failed"
  /\ UNCHANGED <<win, buf, read, flags, left, down, up, srv, writes>>

(* adjustLocalWindow.                                                      *)
Credit(consumed) == IF 2 * consumed >= WindowSize THEN consumed ELSE 0

adjustLocalWindow(n) ==
  LET consumed == win.pending + n
      back == Credit(consumed)
  IN  /\ win' = [win EXCEPT !.pending = consumed - back, !.local = @ + back]
      /\ up' = [up EXCEPT !.credit = @ + back]

ReadReturns ==
  /\ pc = "reading" /\ buf # <<>>
  /\ \E n \in {1, Len(buf)} :
       /\ buf' = SubSeq(buf, n + 1, Len(buf))
       /\ read' = read + n
       /\ adjustLocalWindow(n)
  /\ pc' = "idle"
  /\ UNCHANGED <<flags, left, down, srv, writes>>

-----------------------------------------------------------------------------
(* Write: chunks of at most the packet and the window, waiting for window  *)
(* when there is none; an error of a packet handled while waiting is       *)
(* dropped.  A file that is closed writes once more, also after a failure. *)
StartWrite ==
  /\ pc \in {"idle", "failed"} /\ writes < MaxWrites
  /\ writes' = writes + 1
  /\ IF flags.sentEOF \/ flags.sentClose \/ flags.rcvdClose
     THEN pc' = "failed" /\ UNCHANGED left
     ELSE pc' = "writing" /\ left' = RequestBytes
  /\ UNCHANGED <<win, buf, read, flags, down, up, srv>>

WriteWaits ==
  /\ pc = "writing" /\ left > 0 /\ win.remote = 0 /\ ~flags.sentClose /\ ~flags.rcvdClose
  /\ down # <<>>
  /\ handleReadPacket(Head(down))
  /\ UNCHANGED <<read, pc, left, up, srv, writes>>

WriteChunk ==
  /\ pc = "writing" /\ left > 0 /\ (win.remote > 0 \/ flags.rcvdClose)
  /\ IF flags.rcvdClose \/ flags.sentClose
     THEN pc' = "failed" /\ UNCHANGED <<win, left, up, srv>>
     ELSE LET n == Least(Least(left, MaxPacket), win.remote)
          IN  /\ win' = [win EXCEPT !.remote = @ - n]
              /\ left' = left - n
              /\ pc' = IF left = n THEN "idle" ELSE "writing"
              /\ up' = [up EXCEPT !.data = @ + n]
              /\ srv' = [srv EXCEPT !.room = IF @ >= n THEN @ - n ELSE 0]
  /\ UNCHANGED <<buf, read, flags, down, writes>>

(* A transport that fails ends the operation.                              *)
Lost ==
  /\ pc \in {"reading", "writing"}
  /\ pc' = "failed"
  /\ UNCHANGED <<win, buf, read, flags, left, down, up, srv, writes>>

(* Close: EOF and CLOSE, once each.                                        *)
Close ==
  /\ pc \in {"idle", "failed"}
  /\ flags' = [flags EXCEPT !.sentEOF = TRUE, !.sentClose = TRUE]
  /\ pc' = "closed"
  /\ UNCHANGED <<win, buf, read, left, down, up, srv, writes>>

ChNext ==
  \/ ServerData \/ ServerGrants \/ ServerTakesCredit
  \/ \E kind \in {"eof", "close", "request", "stray"} : ServerSends(kind)
  \/ StartRead \/ ReadReceives \/ ReadEOF \/ ReadReturns
  \/ StartWrite \/ WriteWaits \/ WriteChunk \/ Lost \/ Close

ChSpec == ChInit /\ [][ChNext]_chVars

-----------------------------------------------------------------------------
Data == SelectSeq(down, LAMBDA p : p.kind = "data")

RECURSIVE Total(_)
Total(s) == IF s = <<>> THEN 0 ELSE Head(s).n + Total(Tail(s))

Adjusts == SelectSeq(down, LAMBDA p : p.kind = "adjust")

(* The channel hands over the server's bytes in order with none missing    *)
(* and none twice, also those that came in while Write waited for window;  *)
(* the credits of the receive window are conserved, so a server that keeps *)
(* its window is never refused, and when the client waits for a byte with  *)
(* nothing on its way the server may send one; and Write never sends more  *)
(* than the server has room for, when the server granted any at the open   *)
(* (Read, handleData, adjustLocalWindow, Write, handleWindowAdjust).       *)
ChannelSound ==
  /\ \A i \in 1..Len(buf) : buf[i] = read + i
  /\ (Data # <<>>) => Head(Data).from = read + Len(buf) + 1
  /\ win.local = srv.may + up.credit + Total(Data)
  /\ win.local + Len(buf) + win.pending = WindowSize
  /\ (pc = "reading" /\ buf = <<>> /\ down = <<>> /\ up.credit = 0) => srv.may > 0
  /\ srv.init > 0 => win.remote + Total(Adjusts) = srv.room
=============================================================================
