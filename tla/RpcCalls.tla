------------------------------ MODULE RpcCalls ------------------------------
(***************************************************************************)
(* The RPC methods (internal/rpc/dispatcher) as calls on a live engine:    *)
(* the engine operations a method makes, one after the other, while the    *)
(* queue manager promotes, pauses and finishes downloads between them.     *)
(*                                                                         *)
(* A download is in e.groups, waiting or active, until its result is in    *)
(* the stopped ring.  Reading the statuses of a list of downloads is one   *)
(* step where the order of the reads does not show.                        *)
(***************************************************************************)
EXTENDS Integers, Sequences, FiniteSets, SequencesExt

CONSTANTS Gids,      \* 1..n, handed out in this order
          Clients,   \* calls that are served at the same time
          Ops,       \* the methods each of them may call
          Started,   \* how many downloads there are at the beginning
          Specs,     \* the sub-calls of system.multicall
          Moves,     \* <<pos, how>> of changePosition
          Pages,     \* <<offset, num>> of tellWaiting
          MaxInt     \* the largest value of the code's int

VARIABLES queue,     \* e.waiting
          act,       \* e.active
          ring,      \* stopped results
          purged,    \* downloads and results that a call has removed
          flags,     \* sets of downloads: pauseReq, restartReq, and removed by
                     \* the user while active (haltReason)
          uris,      \* rg.uris
          closing,   \* "no", "scheduled" or "yes": e.shuttingDown
          cl         \* the calls, see NewCall

callVars == <<queue, act, ring, purged, flags, uris, closing, cl>>

engine == <<queue, act, ring, purged, flags, uris, closing>>

(* todo, wait: downloads a call still has to handle; specs, out: sub-calls *)
(* and their results; began: the downloads there were when it began; slip: *)
(* those that went past it; seen: the arguments and result of a pure step. *)
NewCall ==
  [at |-> "idle", op |-> "none", todo |-> <<>>, wait |-> <<>>, specs |-> <<>>,
   out |-> <<>>, began |-> {}, slip |-> {}, seen |-> <<>>, res |-> "none"]

CallInit ==
  /\ queue = [i \in 1..Started |-> i]
  /\ act = {} /\ ring = {} /\ purged = {}
  /\ flags = [pause |-> {}, restart |-> {}, halt |-> {}]
  /\ uris = [g \in Gids |-> <<"a", "b">>]
  /\ closing = "no"
  /\ cl = [c \in Clients |-> NewCall]

Groups == act \cup Range(queue)

Known == Groups \cup ring \cup purged

Call(c, r) == cl' = [cl EXCEPT ![c] = r]

Done(r, res) ==
  [r EXCEPT !.at = "done", !.res = res, !.todo = <<>>, !.wait = <<>>, !.specs = <<>>]

(* The calls of pauseAll that no longer stop download g, when Past says so *)
(* of them.                                                                *)
Slipped(g, Past(_)) ==
  [c \in Clients |-> IF cl[c].op = "pauseAll" /\ Past(cl[c])
                     THEN [cl[c] EXCEPT !.slip = @ \cup {g}] ELSE cl[c]]

(***************************************************************************)
(* The queue manager.                                                      *)
(***************************************************************************)
(* Between the two snapshots of pauseAll, or before its status is read, a  *)
(* download that starts is in neither list.                                *)
Promote ==
  /\ closing # "yes"
  /\ \E g \in Range(queue) \ flags.pause :
       /\ g = SelectSeq(queue, LAMBDA h : h \notin flags.pause)[1]
       /\ queue' = Remove(queue, g)
       /\ act' = act \cup {g}
       /\ cl' = Slipped(g, LAMBDA r : \/ r.at = "waiting"
                                      \/ r.at = "status" /\ g \in Range(r.wait))
  /\ UNCHANGED <<ring, purged, flags, uris, closing>>

(* The worker has stopped: back to the front of the queue when a pause or  *)
(* a restart was requested, else to the results.                           *)
Reap ==
  /\ \E g \in act :
       /\ act' = act \ {g}
       /\ IF g \in flags.pause
          THEN /\ queue' = <<g>> \o queue
               /\ flags' = [pause |-> flags.pause \ (flags.restart \cap {g}),
                            restart |-> flags.restart \ {g},
                            halt |-> flags.halt \ {g}]
               /\ UNCHANGED ring
          ELSE /\ ring' = ring \cup {g}
               /\ flags' = [flags EXCEPT !.halt = @ \ {g}]
               /\ UNCHANGED queue
  /\ UNCHANGED <<purged, uris, closing, cl>>

(* The timer of ShutdownDelayed.                                           *)
Shutdown ==
  /\ closing = "scheduled"
  /\ closing' = "yes"
  /\ UNCHANGED <<queue, act, ring, purged, flags, uris, cl>>

(***************************************************************************)
(* A call begins; or one of its parameters is missing, has the wrong type  *)
(* or names an option that may not be set, a payload does not decode, a    *)
(* position is below zero.                                                 *)
(***************************************************************************)
Unconditional == {"pauseAll", "unpauseAll", "purge", "shutdown"}

Begin(c, op) ==
  /\ cl[c].at = "idle"
  /\ Call(c, [cl[c] EXCEPT !.op = op, !.began = Groups,
                           !.at = IF op = "unpauseAll" THEN "waiting" ELSE "step",
                           !.todo = IF op = "addMetalink" THEN <<0, 1>> ELSE <<>>,
                           !.specs = IF op = "multicall" THEN Specs ELSE <<>>])
  /\ UNCHANGED engine

paramError(c, op) ==
  /\ cl[c].at = "idle" /\ op \notin Unconditional
  /\ Call(c, Done([cl[c] EXCEPT !.op = op], "refused"))
  /\ UNCHANGED engine

At(c, op) == cl[c].at = "step" /\ cl[c].op = op

(***************************************************************************)
(* Methods that are one operation of the engine.                           *)
(***************************************************************************)
Insert(q, pos, g) ==
  LET at == IF pos < 0 \/ pos > Len(q) THEN Len(q) ELSE pos
  IN  SubSeq(q, 1, at) \o <<g>> \o SubSeq(q, at + 1, Len(q))

Fresh(g) == g \in Gids \ Known /\ \A h \in Gids \ Known : g <= h

addUri(c) ==
  /\ At(c, "add")
  /\ IF closing = "yes"
     THEN Call(c, Done(cl[c], "error")) /\ UNCHANGED <<queue, flags>>
     ELSE \E g \in Gids, pos \in {-1, 0, 1}, paused \in BOOLEAN :
            /\ Fresh(g)
            /\ queue' = Insert(queue, pos, g)
            /\ flags' = IF paused THEN [flags EXCEPT !.pause = @ \cup {g}] ELSE flags
            /\ Call(c, Done(cl[c], "ok"))
  /\ UNCHANGED <<act, ring, purged, uris, closing>>

(* One Add for each file, at consecutive positions; the first that fails   *)
(* ends the call, and what was added before it stays.                      *)
addMetalink(c) ==
  LET r == cl[c]
  IN  /\ At(c, "addMetalink")
      /\ IF closing = "yes"
         THEN Call(c, Done(r, "error")) /\ UNCHANGED queue
         ELSE \E g \in Gids :
                /\ Fresh(g)
                /\ queue' = Insert(queue, Head(r.todo), g)
                /\ Call(c, IF Len(r.todo) = 1 THEN Done(r, "ok")
                                              ELSE [r EXCEPT !.todo = Tail(@)])
      /\ UNCHANGED <<act, ring, purged, flags, uris, closing>>

(* remove and forceRemove.                                                 *)
remove(c, g) ==
  /\ At(c, "remove")
  /\ IF g \notin Groups
     THEN Call(c, Done(cl[c], "error")) /\ UNCHANGED <<queue, purged, flags>>
     ELSE /\ Call(c, Done(cl[c], "ok"))
          /\ IF g \in act
             THEN /\ flags' = [pause |-> flags.pause \ {g},
                               restart |-> flags.restart \ {g},
                               halt |-> flags.halt \cup {g}]
                  /\ UNCHANGED <<queue, purged>>
             ELSE /\ queue' = Remove(queue, g)
                  /\ purged' = purged \cup {g}
                  /\ flags' = [flags EXCEPT !.pause = @ \ {g}]
  /\ UNCHANGED <<act, ring, uris, closing>>

Pausable(g) == g \in Groups \ flags.pause

Paused(g) ==
  IF Pausable(g) THEN [flags EXCEPT !.pause = @ \cup {g}] ELSE flags

(* pause and forcePause.                                                   *)
pause(c, g) ==
  /\ At(c, "pause")
  /\ flags' = Paused(g)
  /\ Call(c, Done(cl[c], IF Pausable(g) THEN "ok" ELSE "error"))
  /\ UNCHANGED <<queue, act, ring, purged, uris, closing>>

Resumable(g) == g \in Range(queue) \cap flags.pause

Resumed(g) ==
  IF Resumable(g) THEN [flags EXCEPT !.pause = @ \ {g}] ELSE flags

(* pauseAll has read the status of g, or has paused it, and another call   *)
(* resumes it.                                                             *)
ResumeSlips(g) ==
  IF Resumable(g)
  THEN Slipped(g, LAMBDA r : r.at \in {"status", "each", "done"} /\ g \notin Range(r.wait))
  ELSE cl

unpause(c, g) ==
  /\ At(c, "unpause")
  /\ flags' = Resumed(g)
  /\ cl' = [ResumeSlips(g) EXCEPT ![c] = Done(@, IF Resumable(g) THEN "ok" ELSE "error")]
  /\ UNCHANGED <<queue, act, ring, purged, uris, closing>>

purgeDownloadResult(c) ==
  /\ At(c, "purge")
  /\ ring' = {} /\ purged' = purged \cup ring
  /\ Call(c, Done(cl[c], "ok"))
  /\ UNCHANGED <<queue, act, flags, uris, closing>>

removeDownloadResult(c, g) ==
  /\ At(c, "removeResult")
  /\ ring' = ring \ {g}
  /\ purged' = purged \cup (ring \cap {g})
  /\ Call(c, Done(cl[c], IF g \in ring THEN "ok" ELSE "error"))
  /\ UNCHANGED <<queue, act, flags, uris, closing>>

(* shutdown and forceShutdown.                                             *)
shutdown(c) ==
  /\ At(c, "shutdown")
  /\ closing' = IF closing = "no" THEN "scheduled" ELSE closing
  /\ Call(c, Done(cl[c], "ok"))
  /\ UNCHANGED <<queue, act, ring, purged, flags, uris>>

(***************************************************************************)
(* changeOption: refused for a download that is over; then, as a step of   *)
(* its own, an active download is marked for a restart.  The result of one *)
(* that has ended meanwhile takes the options.                             *)
(***************************************************************************)
ChangeOptionCheck(c, g) ==
  /\ At(c, "changeOption")
  /\ Call(c, IF g \in Groups THEN [cl[c] EXCEPT !.at = "change", !.todo = <<g>>]
                             ELSE Done(cl[c], "error"))
  /\ UNCHANGED engine

(* A restart that is requested after pauseAll has paused g undoes it.      *)
changeOption(c) ==
  LET g == Head(cl[c].todo)
  IN  /\ cl[c].at = "change"
      /\ flags' = IF g \in act THEN [flags EXCEPT !.pause = @ \cup {g}, !.restart = @ \cup {g}]
                               ELSE flags
      /\ cl' = [(IF g \in act
                 THEN Slipped(g, LAMBDA r : r.at \in {"each", "done"} /\ g \notin Range(r.todo))
                 ELSE cl)
                  EXCEPT ![c] = Done(@, IF g \in Groups \cup ring THEN "ok" ELSE "error")]
      /\ UNCHANGED <<queue, act, ring, purged, uris, closing>>

(***************************************************************************)
(* pauseAll and forcePauseAll: the active downloads, then the waiting      *)
(* ones and their statuses, then one Pause for each whose error is         *)
(* ignored.  unpauseAll: the same with the paused ones of the queue.       *)
(***************************************************************************)
TellActive(c) ==
  /\ At(c, "pauseAll")
  /\ Call(c, [cl[c] EXCEPT !.at = "waiting", !.todo = SetToSeq(act)])
  /\ UNCHANGED engine

TellWaiting(c) ==
  /\ cl[c].at = "waiting"
  /\ Call(c, [cl[c] EXCEPT !.at = "status", !.wait = queue])
  /\ UNCHANGED engine

\* mutant of WaitingStatus: the list of the active downloads is overwritten
StatusDropsActive(c) ==
  LET r == cl[c]
      g == Head(r.wait)
      wanted == g \in Range(queue) /\ (g \in flags.pause <=> r.op = "unpauseAll")
  IN  /\ r.at = "status"
      /\ Call(c, IF r.wait = <<>> THEN [r EXCEPT !.at = "each"]
                 ELSE [r EXCEPT !.wait = Tail(@),
                                !.todo = IF wanted THEN <<g>> ELSE @])
      /\ UNCHANGED engine

WaitingStatus(c) ==
  LET r == cl[c]
      g == Head(r.wait)
      wanted == g \in Range(queue) /\ (g \in flags.pause <=> r.op = "unpauseAll")
  IN  /\ r.at = "status"
      /\ Call(c, IF r.wait = <<>> THEN [r EXCEPT !.at = "each"]
                 ELSE [r EXCEPT !.wait = Tail(@),
                                !.todo = IF wanted THEN Append(@, g) ELSE @])
      /\ UNCHANGED engine

(* The pause flag of a download that is to be restarted makes Pause fail,  *)
(* and the restart clears it.                                              *)
pauseAll(c) ==
  LET r == cl[c]
      g == Head(r.todo)
  IN  /\ r.at = "each" /\ r.op = "pauseAll" /\ r.todo # <<>>
      /\ flags' = Paused(g)
      /\ Call(c, [r EXCEPT !.todo = Tail(@), !.slip = @ \cup (flags.restart \cap {g})])
      /\ UNCHANGED <<queue, act, ring, purged, uris, closing>>

unpauseAll(c) ==
  LET g == Head(cl[c].todo)
  IN  /\ cl[c].at = "each" /\ cl[c].op = "unpauseAll" /\ cl[c].todo # <<>>
      /\ flags' = Resumed(g)
      /\ cl' = [ResumeSlips(g) EXCEPT ![c].todo = Tail(@)]
      /\ UNCHANGED <<queue, act, ring, purged, uris, closing>>

AllDone(c) ==
  /\ cl[c].at = "each" /\ cl[c].todo = <<>>
  /\ Call(c, Done(cl[c], "ok"))
  /\ UNCHANGED engine

(***************************************************************************)
(* tellStatus, getFiles, getUris, getServers, getPeers and getOption look  *)
(* for the group of a download and for its result in the ring, each under  *)
(* its own lock.                                                           *)
(***************************************************************************)
\* mutant of Lookups: the ring is asked first
RingFirst(op) ==
  CASE op = "getPeers" -> <<"group", "group", "ring">>
    [] op = "getOption" -> <<"group", "ring", "group", "ring">>
    [] OTHER -> <<"ring", "group">>

Lookups(op) ==
  CASE op = "getPeers" -> <<"group", "group", "ring">>
    [] op = "getOption" -> <<"group", "ring", "group", "ring">>
    [] OTHER -> <<"group", "ring">>

Readers == {"tellStatus", "getUris", "getServers", "getPeers", "getOption"}

TellStatus(c, g) ==
  /\ cl[c].at = "step" /\ cl[c].op \in Readers
  /\ Call(c, [cl[c] EXCEPT !.at = "look", !.todo = <<g>>, !.specs = Lookups(cl[c].op),
                           !.began = {g} \cap (Groups \cup ring)])
  /\ UNCHANGED engine

(* What a method makes of a download that it finds: getUris has no data of *)
(* one that is over, getServers of one that is not active, getPeers and    *)
(* getOption of one that only the second search finds.                     *)
Answer(op, left, g) ==
  CASE op = "getUris" -> IF g \in Groups THEN "found" ELSE "nodata"
    [] op = "getServers" -> IF g \in act THEN "found" ELSE "nodata"
    [] op = "getPeers" -> IF Len(left) = 3 THEN "found" ELSE "nodata"
    [] op = "getOption" -> IF Len(left) >= 3 THEN "found" ELSE "nodata"
    [] OTHER -> "found"

Look(c) ==
  LET r == cl[c]
      g == Head(r.todo)
      there == g \in (IF Head(r.specs) = "group" THEN Groups ELSE ring)
  IN  /\ r.at = "look"
      /\ Call(c, IF there THEN Done(r, Answer(r.op, r.specs, g))
                 ELSE IF Len(r.specs) = 1 THEN Done([r EXCEPT !.slip = purged], "notfound")
                 ELSE [r EXCEPT !.specs = Tail(@)])
      /\ UNCHANGED engine

(***************************************************************************)
(* system.multicall: a sub-call that is refused or fails has its error as  *)
(* its result, and the next one is made all the same.                      *)
(***************************************************************************)
systemMulticall(c) ==
  LET r == cl[c]
      Result(res) ==
        LET out == Append(r.out, <<Head(r.specs), res>>)
        IN  Call(c, IF Len(r.specs) = 1 THEN Done([r EXCEPT !.out = out], "ok")
                    ELSE [r EXCEPT !.specs = Tail(@), !.out = out])
  IN  /\ At(c, "multicall")
      /\ \/ /\ Head(r.specs) \in {"notstruct", "noname", "system.multicall", "noauth"}
            /\ Result("error")
            /\ UNCHANGED <<queue, flags>>
         \/ /\ Head(r.specs) = "pause"
            /\ \E g \in Gids :
                 flags' = Paused(g) /\ Result(IF Pausable(g) THEN "ok" ELSE "error")
            /\ UNCHANGED queue
         \/ /\ Head(r.specs) = "addUri"
            /\ IF closing = "yes"
               THEN Result("error") /\ UNCHANGED queue
               ELSE \E g \in Gids : Fresh(g) /\ queue' = Insert(queue, -1, g) /\ Result("ok")
            /\ UNCHANGED flags
      /\ UNCHANGED <<act, ring, purged, uris, closing>>

(***************************************************************************)
(* changePosition: the destination is clamped, the download is taken out,  *)
(* and a destination behind its place moves with the rest of the queue.    *)
(***************************************************************************)
Placed(n, cur, dest) ==
  LET clamped == IF dest < 0 THEN 0 ELSE IF dest >= n THEN n - 1 ELSE dest
  IN  IF clamped > cur THEN clamped - 1 ELSE clamped

ChangePosition(c, g, pos, how) ==
  LET cur == (CHOOSE i \in DOMAIN queue : queue[i] = g) - 1
      dest == CASE how = "POS_SET" -> pos
                [] how = "POS_CUR" -> cur + pos
                [] how = "POS_END" -> Len(queue) + pos
      at == Placed(Len(queue), cur, dest)
      moved == Insert(Remove(queue, g), at, g)
  IN  /\ At(c, "position")
      /\ IF g \notin Range(queue)
         THEN Call(c, Done(cl[c], "error")) /\ UNCHANGED queue
         ELSE /\ queue' = moved
              /\ Call(c, Done([cl[c] EXCEPT !.seen = <<queue, moved, g, at>>], "ok"))
      /\ UNCHANGED <<act, ring, purged, flags, uris, closing>>

(***************************************************************************)
(* changeUri: the first occurrence of each URI to delete goes, and the     *)
(* valid ones of those to add are inserted from a clamped position on.     *)
(***************************************************************************)
Valid(uri) == uri # "bad"

ChangeURI(old, del, add, pos) ==
  LET kept == FoldLeft(LAMBDA s, u : IF u \in Range(s) THEN Remove(s, u) ELSE s, old, del)
      at == IF pos < 0 \/ pos > Len(kept) THEN Len(kept) ELSE pos
  IN  SubSeq(kept, 1, at) \o SelectSeq(add, Valid) \o SubSeq(kept, at + 1, Len(kept))

changeUri(c, g) ==
  /\ At(c, "changeUri")
  /\ IF g \notin Groups
     THEN Call(c, Done(cl[c], "error")) /\ UNCHANGED uris
     ELSE \E del \in {<<"a">>, <<"a", "x">>}, add \in {<<"c", "bad", "a">>}, pos \in {-1, 0} :
            /\ uris' = [uris EXCEPT ![g] = ChangeURI(@, del, add, pos)]
            /\ Call(c, Done(cl[c], "ok"))
  /\ UNCHANGED <<queue, act, ring, purged, flags, closing>>

(***************************************************************************)
(* tellWaiting and tellStopped: a page of the list, counted from its end   *)
(* and backwards when the offset is negative.  offset + num is an int.     *)
(***************************************************************************)
IntAdd(a, b) == IF a + b > MaxInt THEN a + b - 2 * (MaxInt + 1) ELSE a + b

tellPaginatedForward(maps, offset, num) ==
  LET end == IF IntAdd(offset, num) > Len(maps) THEN Len(maps) ELSE IntAdd(offset, num)
  IN  IF offset >= Len(maps) \/ num <= 0 THEN <<>>
      ELSE IF end < offset THEN <<"slice bounds out of range">>
      ELSE SubSeq(maps, offset + 1, end)

tellPaginatedReverse(maps, offset, num) ==
  LET idx == Len(maps) + offset
      start == IF idx - (num - 1) < 0 THEN 0 ELSE idx - (num - 1)
  IN  IF maps = <<>> \/ num <= 0 \/ idx < 0 THEN <<>>
      ELSE Reverse(SubSeq(maps, start + 1, idx + 1))

tellWaiting(c, offset, num) ==
  /\ At(c, "tellWaiting")
  /\ Call(c, Done([cl[c] EXCEPT
               !.seen = <<queue, offset, num,
                          IF offset < 0 THEN tellPaginatedReverse(queue, offset, num)
                                        ELSE tellPaginatedForward(queue, offset, num)>>],
             "ok"))
  /\ UNCHANGED engine

CallNext ==
  \/ Promote \/ Reap \/ Shutdown
  \/ \E c \in Clients :
       \/ \E op \in Ops[c] : Begin(c, op) \/ paramError(c, op)
       \/ addUri(c) \/ addMetalink(c)
       \/ \E g \in Gids :
            \/ remove(c, g) \/ pause(c, g) \/ unpause(c, g)
            \/ ChangeOptionCheck(c, g) \/ changeUri(c, g)
            \/ removeDownloadResult(c, g) \/ TellStatus(c, g)
            \/ \E move \in Moves : ChangePosition(c, g, move[1], move[2])
       \/ changeOption(c) \/ purgeDownloadResult(c) \/ shutdown(c)
       \/ TellActive(c) \/ TellWaiting(c) \/ WaitingStatus(c)
       \/ pauseAll(c) \/ unpauseAll(c) \/ AllDone(c)
       \/ Look(c) \/ systemMulticall(c)
       \/ \E page \in Pages : tellWaiting(c, page[1], page[2])

CallSpec == CallInit /\ [][CallNext]_callVars

-----------------------------------------------------------------------------
(* The k-th entry of the page at an offset.                                *)
PageEntry(q, offset, k) ==
  IF offset < 0 THEN Len(q) + offset + 2 - k ELSE offset + k

IsPage(q, offset, num, page) ==
  /\ \A k \in DOMAIN page : page[k] = q[PageEntry(q, offset, k)]
  /\ Len(page) <= num
  /\ Len(page) < num => PageEntry(q, offset, Len(page) + 1) \notin DOMAIN q

(* After pauseAll, what was waiting or active when it began is paused, or  *)
(* over, or on its way out, or went past it: started between its           *)
(* snapshots, was being restarted, or was resumed by another call.  A      *)
(* download that was there is reported as not found only when somebody     *)
(* removed its result.  A page is the part of the queue that was asked     *)
(* for, unless offset + num overflows; a move keeps the order of the other *)
(* downloads and reports where the download is; a multicall has one result *)
(* for each of its calls, in their order (pauseAll, TellStatus,            *)
(* tellPaginatedForward and tellPaginatedReverse, ChangePosition,          *)
(* systemMulticall).                                                       *)
CallsSound ==
  \A c \in Clients :
    LET r == cl[c]
    IN  r.at = "done" =>
          /\ r.op = "pauseAll" =>
               r.began \subseteq (r.slip \cup flags.pause \cup flags.halt \cup ring \cup purged)
          /\ r.res = "notfound" => r.began \subseteq r.slip
          /\ (r.op = "tellWaiting" /\ r.res = "ok") =>
               \/ r.seen[2] >= 0 /\ r.seen[2] + r.seen[3] > MaxInt
               \/ IsPage(r.seen[1], r.seen[2], r.seen[3], r.seen[4])
          /\ (r.op = "position" /\ r.res = "ok") =>
               /\ Remove(r.seen[2], r.seen[3]) = Remove(r.seen[1], r.seen[3])
               /\ r.seen[2][r.seen[4] + 1] = r.seen[3]
          /\ (r.op = "multicall" /\ r.res = "ok") =>
               [i \in DOMAIN r.out |-> r.out[i][1]] = Specs
=============================================================================
