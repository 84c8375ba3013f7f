----------------------------- MODULE WsSessions -----------------------------
(***************************************************************************)
(* The WebSocket side of the RPC server (internal/rpc/transport), and the  *)
(* way a download event takes to it: EventBus.Emit, the dispatcher's       *)
(* bridge, the sink of rpcAdapter, broadcastNotifications, the outbox of   *)
(* every session and its writeLoop.                                        *)
(*                                                                         *)
(* A frame is what readLoop makes of it; a message is a sequence of        *)
(* requests (one of them, or a batch), each "call", "invalid" (a parse or  *)
(* validation error, or a notification) or "noauth" (its token is wrong).  *)
(***************************************************************************)
EXTENDS Naturals, Sequences

CONSTANTS Sessions,
          Messages,    \* what a message may hold
          MaxReqSize,  \* parts of a message that are kept, 0: all
          OutboxSize,  \* outboxBufferSize
          EventBuf,    \* room of the bridge's channel and of the sink's
          MaxFrames,   \* frames read in all
          MaxEvents    \* events emitted

VARIABLES sess,     \* a record for each session, see NewSession
          frames,   \* frames read so far
          emitted,  \* events emitted so far
          bus,      \* channel the bridge has subscribed
          held,     \* event the bridge is handing to the sink, 0: none
          notif,    \* channel of rpcAdapter.SubscribeNotifications
          stage,    \* the server's context: run, done, canceled, closed
          crashed   \* which send on a closed channel brought the process down

wsVars == <<sess, frames, emitted, bus, held, notif, stage, crashed>>

(* in, typ: messageBytes and messageType; parts, n: what the client has    *)
(* sent of its current message, and how many it began; late: replies that  *)
(* sendTextDelayed holds; last, seen: the last reply and event written;    *)
(* ok: nothing went wrong on the way.                                      *)
NewSession ==
  [at |-> "running", in |-> <<>>, typ |-> FALSE, parts |-> <<>>, n |-> 0,
   out |-> <<>>, closed |-> FALSE, writer |-> TRUE, late |-> {},
   last |-> 0, seen |-> 0, ok |-> TRUE]

NoSession == [NewSession EXCEPT !.at = "none", !.writer = FALSE]

WsInit ==
  /\ sess = [s \in Sessions |-> NoSession]
  /\ frames = 0 /\ emitted = 0
  /\ bus = <<>> /\ held = 0 /\ notif = <<>>
  /\ stage = "run"
  /\ crashed = "no"

Registered == {s \in Sessions : sess[s].at \notin {"none", "gone"}}

Up == crashed = "no"

Set(s, r) == sess' = [sess EXCEPT ![s] = r]

events == <<emitted, bus, held, notif, stage>>

(***************************************************************************)
(* The session.                                                            *)
(***************************************************************************)
(* handleWebSocketUpgrade: the session is registered before it runs.       *)
Upgrade(s) ==
  /\ Up
  /\ sess[s].at = "none"
  /\ Set(s, NewSession)
  /\ UNCHANGED <<frames, crashed>> /\ UNCHANGED events

(* A full outbox drops the message.                                        *)
sendText(r, m) ==
  IF Len(r.out) < OutboxSize THEN [r EXCEPT !.out = Append(@, m)] ELSE r

(* sendClose, handleCloseFrame, a read error or the read deadline: the     *)
(* deferred close of the outbox.                                           *)
LeaveReadLoop(r) == [r EXCEPT !.at = "drain", !.closed = TRUE]

(* processSingle and processBatch: one reply for the whole message, in the *)
(* order of its requests; it is held back when one was not authorized.     *)
Reply(r, msg) ==
  IF \E i \in DOMAIN msg : msg[i] = "noauth"
  THEN [r EXCEPT !.late = @ \cup {[kind |-> "late", n |-> r.n]}]
  ELSE sendText(r, [kind |-> "reply", n |-> r.n])

(* What is kept of a message, and what is decoded: the rest of one that    *)
(* was cut off is a parse error.                                           *)
Kept(parts) ==
  IF MaxReqSize = 0 \/ Len(parts) <= MaxReqSize THEN parts
                                                ELSE SubSeq(parts, 1, MaxReqSize)

Decode(r, msg) == IF r.in = r.parts THEN msg ELSE <<"invalid">>

\* mutant of finishMessage: messageBytes is not emptied
FinishKeepsBytes(r, msg) ==
  Reply([r EXCEPT !.typ = FALSE, !.ok = @ /\ r.in = Kept(r.parts), !.parts = <<>>],
        Decode(r, msg))

finishMessage(r, msg) ==
  Reply([r EXCEPT !.typ = FALSE, !.in = <<>>, !.ok = @ /\ r.in = Kept(r.parts),
                  !.parts = <<>>], Decode(r, msg))

(* A data frame: the first of a message, or one that continues it.         *)
appendMessagePayload(r) ==
  LET part == <<r.n, Len(r.parts)>>
      room == MaxReqSize = 0 \/ Len(r.in) < MaxReqSize
  IN  [r EXCEPT !.in = IF room THEN Append(@, part) ELSE @,
                !.parts = Append(@, part)]

DataFrame(r, fin, msg) ==
  IF fin THEN finishMessage(appendMessagePayload(r), msg)
         ELSE [appendMessagePayload(r) EXCEPT !.typ = TRUE]

readLoop(s) ==
  /\ Up
  /\ sess[s].at = "running"
  /\ frames < MaxFrames
  /\ frames' = frames + 1
  /\ LET r == sess[s]
     IN  \/ \E fin \in BOOLEAN, msg \in Messages :                \* text, binary
              Set(s, IF r.typ THEN LeaveReadLoop(r)
                     ELSE DataFrame([r EXCEPT !.n = @ + 1], fin, msg))
         \/ \E fin \in BOOLEAN, msg \in Messages :                \* continuation
              Set(s, IF r.typ THEN DataFrame(r, fin, msg) ELSE LeaveReadLoop(r))
         \/ UNCHANGED sess                                        \* ping, pong
         \/ Set(s, LeaveReadLoop(r))                              \* close, bad frame
  /\ UNCHANGED crashed /\ UNCHANGED events

(* Read error: the peer is gone or silent for the read deadline.           *)
ReadFails(s) ==
  /\ Up
  /\ sess[s].at = "running"
  /\ Set(s, LeaveReadLoop(sess[s]))
  /\ UNCHANGED <<frames, crashed>> /\ UNCHANGED events

(* The goroutine of sendTextDelayed, a second later.                       *)
sendTextDelayed(s) ==
  /\ Up
  /\ \E m \in sess[s].late :
       IF sess[s].closed
       THEN crashed' = "delayed" /\ UNCHANGED sess
       ELSE /\ Set(s, [sendText(sess[s], m) EXCEPT !.late = @ \ {m}])
            /\ UNCHANGED crashed
  /\ UNCHANGED frames /\ UNCHANGED events

(* What a client sees: events in the order they happened, and the replies  *)
(* that were not held back in the order of its messages.                   *)
Written(r, m) ==
  CASE m.kind = "event" -> [r EXCEPT !.seen = m.n, !.ok = @ /\ m.n > r.seen]
    [] m.kind = "reply" -> [r EXCEPT !.last = m.n, !.ok = @ /\ m.n > r.last]
    [] m.kind = "late" -> r

writeLoop(s) ==
  /\ Up
  /\ sess[s].writer
  /\ LET r == sess[s]
     IN  \/ /\ r.out # <<>>
            /\ Set(s, [Written(r, Head(r.out)) EXCEPT !.out = Tail(@)])
         \/ r.out # <<>> /\ Set(s, [r EXCEPT !.writer = FALSE])     \* write error
         \/ /\ r.out = <<>> /\ r.closed
            /\ Set(s, [r EXCEPT !.writer = FALSE])
  /\ UNCHANGED <<frames, crashed>> /\ UNCHANGED events

(* run: both loops are over; the connection is closed and the session is   *)
(* removed from the manager.                                               *)
RunEnds(s) ==
  /\ Up
  /\ sess[s].at = "drain" /\ ~sess[s].writer
  /\ Set(s, [sess[s] EXCEPT !.at = "gone", !.out = <<>>])
  /\ UNCHANGED <<frames, crashed>> /\ UNCHANGED events

(***************************************************************************)
(* The events.                                                             *)
(***************************************************************************)
(* Emit never blocks.                                                      *)
Emit ==
  /\ Up
  /\ emitted < MaxEvents
  /\ emitted' = emitted + 1
  /\ bus' = IF Len(bus) < EventBuf THEN Append(bus, emitted + 1) ELSE bus
  /\ UNCHANGED <<sess, frames, held, notif, stage, crashed>>

(* OnEvent: the sinks of this moment; none is left once the subscription   *)
(* is cancelled.                                                           *)
OnEvent ==
  /\ Up
  /\ held = 0 /\ bus # <<>>
  /\ bus' = Tail(bus)
  /\ held' = IF stage \in {"run", "done"} THEN Head(bus) ELSE 0
  /\ UNCHANGED <<sess, frames, emitted, notif, stage, crashed>>

(* The sink: it waits for room or for the end of the context, and a select *)
(* with a closed channel may choose to send.                               *)
Sink ==
  /\ Up
  /\ held # 0
  /\ held' = 0
  /\ \/ /\ stage # "closed" /\ Len(notif) < EventBuf
        /\ notif' = Append(notif, held)
        /\ UNCHANGED crashed
     \/ stage # "run" /\ UNCHANGED <<notif, crashed>>
     \/ stage = "closed" /\ crashed' = "sink" /\ UNCHANGED notif
  /\ UNCHANGED <<sess, frames, emitted, bus, stage>>

(* broadcastNotifications: a full outbox drops the event; the session      *)
(* is in the manager until run has returned.                               *)
\* mutant of Notified: the newest event goes out first
NotifiedFirst(r, ev) == [r EXCEPT !.out = <<ev>> \o @]

Notified(r, ev) == sendText(r, ev)

broadcast ==
  /\ Up
  /\ notif # <<>>
  /\ notif' = Tail(notif)
  /\ IF \E s \in Registered : sess[s].closed
     THEN crashed' = "broadcast" /\ UNCHANGED sess
     ELSE /\ sess' = [s \in Sessions |->
                        IF s \in Registered
                        THEN Notified(sess[s], [kind |-> "event", n |-> Head(notif)])
                        ELSE sess[s]]
          /\ UNCHANGED crashed
  /\ UNCHANGED <<frames, emitted, bus, held, stage>>

(* The server's context ends; the subscription is cancelled, and then its  *)
(* channel is closed.                                                      *)
Stop ==
  /\ Up
  /\ \/ stage = "run" /\ stage' = "done"
     \/ stage = "done" /\ stage' = "canceled"
     \/ stage = "canceled" /\ stage' = "closed"
  /\ UNCHANGED <<sess, frames, emitted, bus, held, notif, crashed>>

WsNext ==
  \/ \E s \in Sessions :
       \/ Upgrade(s) \/ readLoop(s) \/ ReadFails(s) \/ sendTextDelayed(s)
       \/ writeLoop(s) \/ RunEnds(s)
  \/ Emit \/ OnEvent \/ Sink \/ broadcast \/ Stop

WsSpec == WsInit /\ [][WsNext]_wsVars

-----------------------------------------------------------------------------
(* A message is dispatched as the client sent it, whatever the frames it   *)
(* was split into; a client sees events in the order they happened and     *)
(* replies in the order of its messages, none twice, also when others were *)
(* dropped; nothing stays queued for a session that is gone; and the       *)
(* process panics with a send on a closed channel only when some session   *)
(* has left its read loop with a reply held back or before it was removed, *)
(* or the server is stopping (readLoop, writeLoop, broadcast).             *)
WsSound ==
  /\ \A s \in Sessions : sess[s].ok /\ (sess[s].at = "gone" => sess[s].out = <<>>)
  /\ crashed = "broadcast" => \E s \in Registered : sess[s].at = "drain"
  /\ crashed = "delayed" => \E s \in Sessions : sess[s].at \in {"drain", "gone"}
  /\ crashed = "sink" => stage = "closed"
=============================================================================
