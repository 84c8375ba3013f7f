--------------------------- MODULE RequestGroups ---------------------------
(***************************************************************************)
(* The life of a download (a requestGroup) in internal/engine/engine.go:   *)
(* the group map, the active and waiting queues, the client operations     *)
(* Add, Pause, Resume, Remove, ChangeOption and Shutdown, the queue        *)
(* manager goroutine (removeStoppedGroup, fillRequestGroupFromReserver,    *)
(* cancelIfIdle, onEndOfRun), and the worker goroutine that each promotion *)
(* starts (runDownload).                                                   *)
(*                                                                         *)
(* One step is what runs under one acquisition of the locks a handler      *)
(* takes: queuesMu guards the queues, a shard lock guards one group.  The  *)
(* queue manager holds queuesMu over its loops in QReap and QPromote       *)
(* (predicate QueuesHeld), so steps that need queuesMu wait for it, while  *)
(* steps that take only the shard lock of a group interleave.              *)
(*                                                                         *)
(* A context made by context.WithCancel is the number of the run it was    *)
(* made for; 0 is the nil context of a group that was never started.       *)
(***************************************************************************)
EXTENDS Naturals, Sequences, SequencesExt, FiniteSets

CONSTANTS
    GID,        \* download identifiers
    Startup,    \* the downloads named on the command line or in input-file
    Modes,      \* values of keepRunning: TRUE with enable-rpc
    MaxActive,  \* largest value of max-concurrent-downloads
    MaxCalls    \* bound on the calls of clients in one behaviour

ASSUME StartupAssumption == Startup \in Seq(GID) /\ IsInjective(Startup)
ASSUME ModesAssumption == Modes \subseteq BOOLEAN
ASSUME MaxActiveAssumption == MaxActive \in Nat \ {0}
ASSUME MaxCallsAssumption == MaxCalls \in Nat

VARIABLES
    groups,         \* keys of the gidShardMap
    used,           \* usedGIDs
    adding,         \* groups in the map that Add has not queued yet
    dropped,        \* history: left without a result (removed while waiting)
    state, pauseReq, restartReq, haltRequested, forceHaltReq, haltReason,
    errCode,        \* rg.errCode: "none" is 0, which is also ExitSuccess
    gen,            \* rg.ctx and rg.cancel: the run they belong to
    cancelled,      \* the runs whose context has been cancelled
    active, waiting,
    stopped,        \* every result pushed to the stopped ring
    payload,        \* history: downloads whose worker finished the transfer
    wpc, wctx,      \* per run: where its worker is, and the ctx it read
    qpc,            \* where the queue manager is
    todo,           \* activeCopy, stoppedGIDs or promotedGIDs, the rest of it
    batch,          \* stoppedGIDs being collected, or promotedGIDs
    pending,        \* paused groups skipped by the current promotion loop
    input,          \* deferred entries inputParser still holds
    keepRunning, maxActive, shuttingDown,
    engDone,        \* e.ctx is cancelled
    calls           \* client calls so far

flags == <<pauseReq, restartReq, haltRequested, forceHaltReq, haltReason>>
queues == <<active, waiting>>
workers == <<wpc, wctx>>
manager == <<qpc, todo, batch, pending, input>>
engine == <<keepRunning, maxActive, shuttingDown, engDone>>
vars == <<groups, used, adding, dropped, state, flags, errCode, gen, cancelled,
          queues, stopped, payload, workers, manager, engine, calls>>

\* A download runs once, and again at most once per call.
Runs == 1..(MaxCalls + 1)
Status == {"waiting", "active", "complete", "error", "removed"}
ErrorCode == {"none", "removed", "inProgress", "failed"}
Result == [gid : GID, status : Status, code : ErrorCode]

(***************************************************************************)
(* Queue helpers                                                           *)
(***************************************************************************)

\* moveFromActiveLocked and moveFromWaitingLocked: drop the first match.
Without(q, g) == RemoveFirst(q, g)

\* rg.ctx.Done() of the given run; every context is a child of e.ctx.
CtxDone(g, k) == engDone \/ k \in cancelled[g]

\* The queue manager is inside a loop that holds queuesMu.
QueuesHeld == qpc \in {"reap", "promote"}

\* rg.cancel(): whatever run the field belongs to when it is called.
CancelCurrent(g) == cancelled' = [cancelled EXCEPT ![g] = @ \cup {gen[g]}]

\* addStoppedLocked followed by the removal from the group map.
Stop(g, status, code) ==
    /\ state' = [state EXCEPT ![g] = status]
    /\ errCode' = [errCode EXCEPT ![g] = code]
    /\ stopped' = Append(stopped, [gid |-> g, status |-> status, code |-> code])
    /\ groups' = groups \ {g}

(***************************************************************************)
(* Start of Run: k downloads of the startup list are queued, the rest of   *)
(* the first m are left to the deferred input parser.                      *)
(***************************************************************************)

Init ==
    /\ \E k \in 0..Len(Startup) : \E m \in k..Len(Startup) :
         /\ waiting = SubSeq(Startup, 1, k)
         /\ input = SubSeq(Startup, k + 1, m)
    /\ groups = ToSet(waiting) /\ used = groups
    /\ keepRunning \in Modes
    /\ maxActive \in 1..MaxActive
    /\ adding = {} /\ dropped = {} /\ payload = {}
    /\ state = [g \in GID |-> "waiting"]
    /\ pauseReq = [g \in GID |-> FALSE]
    /\ restartReq = [g \in GID |-> FALSE]
    /\ haltRequested = [g \in GID |-> FALSE]
    /\ forceHaltReq = [g \in GID |-> FALSE]
    /\ haltReason = [g \in GID |-> "none"]
    /\ errCode = [g \in GID |-> "none"]
    /\ gen = [g \in GID |-> 0]
    /\ cancelled = [g \in GID |-> {}]
    /\ active = <<>> /\ stopped = <<>>
    /\ wpc = [g \in GID |-> [k \in Runs |-> "none"]]
    /\ wctx = [g \in GID |-> [k \in Runs |-> 0]]
    /\ qpc = "idle" /\ todo = <<>> /\ batch = <<>> /\ pending = <<>>
    /\ shuttingDown = FALSE /\ engDone = FALSE
    /\ calls = 0

(***************************************************************************)
(* Client operations                                                       *)
(***************************************************************************)

\* A client makes one more of the calls the bound allows.
Call == calls < MaxCalls /\ calls' = calls + 1

\* Add up to groups.set: the GID is reserved and the group is in the map.
AddGroup(g, paused) ==
    /\ Call
    /\ ~shuttingDown /\ (paused => keepRunning)
    /\ g \notin used /\ g \notin ToSet(input)
    /\ used' = used \cup {g}
    /\ groups' = groups \cup {g}
    /\ adding' = adding \cup {g}
    /\ pauseReq' = [pauseReq EXCEPT ![g] = paused]
    /\ UNCHANGED <<dropped, state, restartReq, haltRequested, forceHaltReq,
                   haltReason, errCode, gen, cancelled, queues, stopped,
                   payload, workers, manager, engine>>

\* Add when applyRequestGroupRuntimeOptions fails: the GID stays reserved.
AddRejected(g) ==
    /\ Call
    /\ ~shuttingDown
    /\ g \notin used /\ g \notin ToSet(input)
    /\ used' = used \cup {g}
    /\ dropped' = dropped \cup {g}
    /\ UNCHANGED <<groups, adding, state, flags, errCode, gen, cancelled, queues,
                   stopped, payload, workers, manager, engine>>

\* The rest of Add: insertion at the (clamped) position, under queuesMu.
AddToWaiting(g, pos) ==
    /\ g \in adding /\ ~(qpc = "append" /\ g = Head(todo)) /\ ~QueuesHeld
    /\ waiting' = InsertAt(waiting, pos, g)
    /\ adding' = adding \ {g}
    /\ UNCHANGED <<groups, used, dropped, state, flags, errCode, gen, cancelled,
                   active, stopped, payload, workers, manager, engine, calls>>

\* Pause of an active group whose cancel function is set.
PauseActive(g, force) ==
    /\ Call
    /\ g \in groups /\ ~pauseReq[g] /\ state[g] = "active" /\ gen[g] # 0
    /\ pauseReq' = [pauseReq EXCEPT ![g] = TRUE]
    /\ forceHaltReq' = [forceHaltReq EXCEPT ![g] = @ \/ force]
    /\ haltRequested' = [haltRequested EXCEPT ![g] = @ \/ ~force]
    /\ CancelCurrent(g)
    /\ UNCHANGED <<groups, used, adding, dropped, state, restartReq, haltReason,
                   errCode, gen, queues, stopped, payload, workers, manager,
                   engine>>

\* Pause of an active group whose cancel function is still nil.
PauseUnstarted(g) ==
    /\ Call
    /\ g \in groups /\ ~pauseReq[g] /\ state[g] = "active" /\ gen[g] = 0
    /\ ~QueuesHeld
    /\ pauseReq' = [pauseReq EXCEPT ![g] = TRUE]
    /\ active' = Without(active, g)
    /\ waiting' = <<g>> \o waiting
    /\ state' = [state EXCEPT ![g] = "waiting"]
    /\ haltRequested' = [haltRequested EXCEPT ![g] = FALSE]
    /\ forceHaltReq' = [forceHaltReq EXCEPT ![g] = FALSE]
    /\ UNCHANGED <<groups, used, adding, dropped, restartReq, haltReason, errCode,
                   gen, cancelled, stopped, payload, workers, manager, engine>>

PauseWaiting(g) ==
    /\ Call
    /\ g \in groups /\ ~pauseReq[g] /\ state[g] = "waiting"
    /\ pauseReq' = [pauseReq EXCEPT ![g] = TRUE]
    /\ UNCHANGED <<groups, used, adding, dropped, state, restartReq,
                   haltRequested, forceHaltReq, haltReason, errCode, gen,
                   cancelled, queues, stopped, payload, workers, manager, engine>>

Resume(g) ==
    /\ Call
    /\ g \in groups /\ state[g] = "waiting" /\ pauseReq[g]
    /\ pauseReq' = [pauseReq EXCEPT ![g] = FALSE]
    /\ UNCHANGED <<groups, used, adding, dropped, state, restartReq,
                   haltRequested, forceHaltReq, haltReason, errCode, gen,
                   cancelled, queues, stopped, payload, workers, manager, engine>>

\* ChangeOption on an active group: halt the run so that it restarts.
ChangeOption(g) ==
    /\ Call
    /\ g \in groups /\ state[g] = "active"
    /\ restartReq' = [restartReq EXCEPT ![g] = TRUE]
    /\ pauseReq' = [pauseReq EXCEPT ![g] = TRUE]
    /\ IF gen[g] # 0 THEN CancelCurrent(g) ELSE UNCHANGED cancelled
    /\ UNCHANGED <<groups, used, adding, dropped, state, haltRequested,
                   forceHaltReq, haltReason, errCode, gen, queues, stopped,
                   payload, workers, manager, engine>>

\* What every Remove writes before it looks at the state of the group.
RequestRemoval(g, force) ==
    /\ haltRequested' = [haltRequested EXCEPT ![g] = TRUE]
    /\ forceHaltReq' = [forceHaltReq EXCEPT ![g] = force]
    /\ haltReason' = [haltReason EXCEPT ![g] = "user"]

RemoveActive(g, force) ==
    /\ Call
    /\ g \in groups /\ state[g] = "active" /\ gen[g] # 0 /\ ~QueuesHeld
    /\ RequestRemoval(g, force)
    /\ pauseReq' = [pauseReq EXCEPT ![g] = FALSE]
    /\ restartReq' = [restartReq EXCEPT ![g] = FALSE]
    /\ CancelCurrent(g)
    /\ UNCHANGED <<groups, used, adding, dropped, state, errCode, gen, queues,
                   stopped, payload, workers, manager, engine>>

RemoveUnstarted(g, force) ==
    /\ Call
    /\ g \in groups /\ state[g] = "active" /\ gen[g] = 0 /\ ~QueuesHeld
    /\ RequestRemoval(g, force)
    /\ pauseReq' = [pauseReq EXCEPT ![g] = FALSE]
    /\ restartReq' = [restartReq EXCEPT ![g] = FALSE]
    /\ active' = Without(active, g)
    /\ Stop(g, "removed", "removed")
    /\ UNCHANGED <<used, adding, dropped, gen, cancelled, waiting, payload,
                   workers, manager, engine>>

RemoveWaiting(g, force) ==
    /\ Call
    /\ g \in groups /\ state[g] = "waiting" /\ ~QueuesHeld
    /\ RequestRemoval(g, force)
    /\ waiting' = Without(waiting, g)
    /\ groups' = groups \ {g}
    /\ dropped' = dropped \cup {g}
    /\ UNCHANGED <<used, adding, state, pauseReq, restartReq, errCode, gen,
                   cancelled, active, stopped, payload, workers, manager, engine>>

ChangePosition(g, pos) ==
    /\ Call
    /\ g \in groups /\ state[g] = "waiting" /\ g \in ToSet(waiting) /\ ~QueuesHeld
    /\ LET cur == SelectInSeq(waiting, LAMBDA h : h = g)
           dest == IF pos > cur THEN pos - 1 ELSE pos
       IN  waiting' = InsertAt(Without(waiting, g), dest, g)
    /\ UNCHANGED <<groups, used, adding, dropped, state, flags, errCode, gen,
                   cancelled, active, stopped, payload, workers, manager, engine>>

\* Mutant: max-concurrent-downloads is used as it is given, 0 included.
ActiveLimitUnclamped(n) == n

\* The limit that fillRequestGroupFromReserver derives from the option.
ActiveLimit(n) == IF n <= 0 THEN 1 ELSE n

\* ChangeGlobalOption of max-concurrent-downloads.
ChangeMaxActive(n) ==
    /\ Call
    /\ ~QueuesHeld
    /\ maxActive' = ActiveLimit(n)
    /\ UNCHANGED <<groups, used, adding, dropped, state, flags, errCode, gen,
                   cancelled, queues, stopped, payload, workers, manager,
                   keepRunning, shuttingDown, engDone>>

\* Shutdown up to e.cancel(): markActiveShutdown runs under queuesMu.  A second
\* call is accepted only when it is forced.
MarkShutdown(force) ==
    /\ Call
    /\ shuttingDown => force
    /\ ~QueuesHeld
    /\ shuttingDown' = TRUE
    /\ LET marked == ToSet(active) \cap groups IN
       /\ haltRequested' = [g \in GID |-> g \in marked \/ haltRequested[g]]
       /\ haltReason' = [g \in GID |-> IF g \in marked THEN "shutdown"
                                       ELSE haltReason[g]]
       /\ forceHaltReq' = [g \in GID |-> (g \in marked /\ force) \/ forceHaltReq[g]]
    /\ UNCHANGED <<groups, used, adding, dropped, state, pauseReq, restartReq,
                   errCode, gen, cancelled, queues, stopped, payload, workers,
                   manager, keepRunning, maxActive, engDone>>

\* e.cancel() of Shutdown, or the caller of Run cancelling its context.
CancelEngine ==
    /\ ~engDone
    /\ engDone' = TRUE
    /\ UNCHANGED <<groups, used, adding, dropped, state, flags, errCode, gen,
                   cancelled, queues, stopped, payload, workers, manager,
                   keepRunning, maxActive, shuttingDown, calls>>

(***************************************************************************)
(* The queue manager: a pass begins on a wake-up or on the one-second      *)
(* ticker, so it may begin at any time.                                    *)
(***************************************************************************)

\* removeStoppedGroup copies the active queue.
QTick ==
    /\ qpc = "idle"
    /\ qpc' = "check" /\ todo' = active
    /\ UNCHANGED <<groups, used, adding, dropped, state, flags, errCode, gen,
                   cancelled, queues, stopped, payload, workers, batch, pending,
                   input, engine, calls>>

\* It looks at the context of one group of the copy.
QCheck ==
    /\ qpc = "check" /\ todo # <<>>
    /\ LET g == Head(todo) IN
       batch' = IF g \in groups /\ gen[g] # 0 /\ CtxDone(g, gen[g])
                THEN Append(batch, g) ELSE batch
    /\ todo' = Tail(todo)
    /\ UNCHANGED <<groups, used, adding, dropped, state, flags, errCode, gen,
                   cancelled, queues, stopped, payload, workers, qpc, pending,
                   input, engine, calls>>

QChecked ==
    /\ qpc = "check" /\ todo = <<>>
    /\ qpc' = IF batch = <<>> THEN "fill" ELSE "reap"
    /\ todo' = batch /\ batch' = <<>>
    /\ UNCHANGED <<groups, used, adding, dropped, state, flags, errCode, gen,
                   cancelled, queues, stopped, payload, workers, pending, input,
                   engine, calls>>

\* Mutant: the paused group goes to the waiting queue and keeps its slot.
ReapPausedKeepsSlot(g) ==
    /\ state' = [state EXCEPT ![g] = "waiting"]
    /\ waiting' = <<g>> \o waiting
    /\ pauseReq' = [pauseReq EXCEPT ![g] = ~restartReq[g]]
    /\ restartReq' = [restartReq EXCEPT ![g] = FALSE]
    /\ forceHaltReq' = [forceHaltReq EXCEPT ![g] = FALSE]
    /\ haltRequested' = [haltRequested EXCEPT ![g] = FALSE]
    /\ haltReason' = [haltReason EXCEPT ![g] = "none"]
    /\ UNCHANGED <<groups, errCode, stopped, active>>

\* The three ends of a run, in the order removeStoppedGroup tests for them.
ReapPaused(g) ==
    /\ state' = [state EXCEPT ![g] = "waiting"]
    /\ active' = Without(active, g)
    /\ waiting' = <<g>> \o waiting
    /\ pauseReq' = [pauseReq EXCEPT ![g] = ~restartReq[g]]
    /\ restartReq' = [restartReq EXCEPT ![g] = FALSE]
    /\ forceHaltReq' = [forceHaltReq EXCEPT ![g] = FALSE]
    /\ haltRequested' = [haltRequested EXCEPT ![g] = FALSE]
    /\ haltReason' = [haltReason EXCEPT ![g] = "none"]
    /\ UNCHANGED <<groups, errCode, stopped>>

\* The code of a download that was halted: ExitInProgress unless it failed.
HaltCode(g) == IF errCode[g] = "none" THEN "inProgress" ELSE errCode[g]

ReapHalted(g) ==
    /\ active' = Without(active, g)
    /\ IF haltReason[g] = "user" THEN Stop(g, "removed", "removed")
                                 ELSE Stop(g, "error", HaltCode(g))
    /\ UNCHANGED <<flags, waiting>>

ReapFinished(g) ==
    /\ active' = Without(active, g)
    /\ Stop(g, IF errCode[g] = "none" THEN "complete" ELSE "error", errCode[g])
    /\ UNCHANGED <<flags, waiting>>

\* One iteration of the loop over stoppedGIDs, under queuesMu.
QReap(g) ==
    /\ qpc = "reap" /\ todo # <<>> /\ g = Head(todo)
    /\ todo' = Tail(todo)
    /\ qpc' = IF Len(todo) = 1 THEN "fill" ELSE "reap"
    /\ IF g \notin groups THEN UNCHANGED <<groups, state, flags, errCode, queues, stopped>>
       ELSE IF pauseReq[g] THEN ReapPaused(g)
       ELSE IF haltRequested[g] THEN ReapHalted(g)
       ELSE ReapFinished(g)
    /\ UNCHANGED <<used, adding, dropped, gen, cancelled, payload, workers, batch,
                   pending, input, engine, calls>>

\* fillRequestGroupFromReserver: the active queue is full.
QFull ==
    /\ qpc = "fill" /\ Len(active) >= maxActive
    /\ qpc' = "idleCheck"
    /\ UNCHANGED <<groups, used, adding, dropped, state, flags, errCode, gen,
                   cancelled, queues, stopped, payload, workers, todo, batch,
                   pending, input, engine, calls>>

\* Nothing waits and inputParser is open (input # <<>>): the loop releases
\* queuesMu and calls loadNextDeferredInputEntry.
QDeferred ==
    /\ qpc = "fill" /\ Len(active) < maxActive
    /\ waiting = <<>> /\ input # <<>>
    /\ qpc' = "load"
    /\ UNCHANGED <<groups, used, adding, dropped, state, flags, errCode, gen,
                   cancelled, queues, stopped, payload, workers, todo, batch,
                   pending, input, engine, calls>>

\* The entry goes through Add: first into the map ...
QLoad(paused) ==
    /\ qpc = "load" /\ ~shuttingDown /\ (paused => keepRunning)
    /\ LET g == Head(input) IN
       /\ used' = used \cup {g}
       /\ groups' = groups \cup {g}
       /\ adding' = adding \cup {g}
       /\ pauseReq' = [pauseReq EXCEPT ![g] = paused]
       /\ todo' = <<g>>
    /\ input' = Tail(input) /\ qpc' = "append"
    /\ UNCHANGED <<dropped, state, restartReq, haltRequested, forceHaltReq,
                   haltReason, errCode, gen, cancelled, queues, stopped, payload,
                   workers, batch, pending, engine, calls>>

\* ... then to the end of the queue, and the fill loop goes round again.
QLoadAppend ==
    /\ qpc = "append"
    /\ waiting' = Append(waiting, Head(todo))
    /\ adding' = adding \ {Head(todo)}
    /\ todo' = <<>> /\ qpc' = "fill"
    /\ UNCHANGED <<groups, used, dropped, state, flags, errCode, gen, cancelled,
                   active, stopped, payload, workers, batch, pending, input,
                   engine, calls>>

\* The entry cannot be read or added: the parser is closed.
QLoadFails ==
    /\ qpc = "load"
    /\ input' = <<>> /\ qpc' = "idleCheck"
    /\ UNCHANGED <<groups, used, adding, dropped, state, flags, errCode, gen,
                   cancelled, queues, stopped, payload, workers, todo, batch,
                   pending, engine, calls>>

QFill ==
    /\ qpc = "fill" /\ Len(active) < maxActive
    /\ waiting # <<>> \/ input = <<>>
    /\ qpc' = "promote"
    /\ UNCHANGED <<groups, used, adding, dropped, state, flags, errCode, gen,
                   cancelled, queues, stopped, payload, workers, todo, batch,
                   pending, input, engine, calls>>

\* Mutant: one slot is always kept free.
PromoteNextOffByOne(g) ==
    /\ qpc = "promote" /\ Len(active) + 1 < maxActive
    /\ waiting # <<>> /\ g = Head(waiting)
    /\ waiting' = Tail(waiting)
    /\ UNCHANGED <<groups, used, adding, dropped, flags, errCode, gen, cancelled,
                   stopped, payload, workers, qpc, batch, input, engine, calls>>

\* One iteration of the promotion loop, under queuesMu.
PromoteNext(g) ==
    /\ qpc = "promote" /\ Len(active) < maxActive
    /\ waiting # <<>> /\ g = Head(waiting)
    /\ waiting' = Tail(waiting)
    /\ UNCHANGED <<groups, used, adding, dropped, flags, errCode, gen, cancelled,
                   stopped, payload, workers, qpc, batch, input, engine, calls>>

QSkipGone(g) ==
    /\ PromoteNext(g) /\ g \notin groups
    /\ UNCHANGED <<state, active, todo, pending>>

QSkipPaused(g) ==
    /\ PromoteNext(g) /\ g \in groups /\ pauseReq[g]
    /\ pending' = Append(pending, g)
    /\ UNCHANGED <<state, active, todo>>

QPromote(g) ==
    /\ PromoteNext(g) /\ g \in groups /\ ~pauseReq[g]
    /\ state' = [state EXCEPT ![g] = "active"]
    /\ active' = Append(active, g)
    /\ todo' = Append(todo, g)
    /\ UNCHANGED pending

QPromoted ==
    /\ qpc = "promote" /\ (Len(active) >= maxActive \/ waiting = <<>>)
    /\ waiting' = pending \o waiting /\ pending' = <<>>
    /\ qpc' = "start"
    /\ UNCHANGED <<groups, used, adding, dropped, state, flags, errCode, gen,
                   cancelled, active, stopped, payload, workers, todo, batch,
                   input, engine, calls>>

\* Mutant: a promoted group gets a worker even if it was removed meanwhile.
QStartUnchecked(g) ==
    /\ qpc = "start" /\ todo # <<>> /\ g = Head(todo)
    /\ todo' = Tail(todo)
    /\ gen' = [gen EXCEPT ![g] = @ + 1]
    /\ wpc' = [wpc EXCEPT ![g][gen[g] + 1] = "spawned"]
    /\ UNCHANGED <<groups, used, adding, dropped, state, flags, errCode,
                   cancelled, queues, stopped, payload, wctx, qpc, batch, pending,
                   input, engine, calls>>

\* Mutant: a restarted group keeps the context of its first run.
QStartReusesContext(g) ==
    /\ qpc = "start" /\ todo # <<>> /\ g = Head(todo)
    /\ todo' = Tail(todo)
    /\ IF g \in groups
       THEN /\ gen' = [gen EXCEPT ![g] = 1]
            /\ wpc' = [wpc EXCEPT ![g][gen[g] + 1] = "spawned"]
       ELSE UNCHANGED <<gen, wpc>>
    /\ UNCHANGED <<groups, used, adding, dropped, state, flags, errCode,
                   cancelled, queues, stopped, payload, wctx, qpc, batch, pending,
                   input, engine, calls>>

\* A promoted group that is still in the map gets a context and a worker.
QStart(g) ==
    /\ qpc = "start" /\ todo # <<>> /\ g = Head(todo)
    /\ todo' = Tail(todo)
    /\ IF g \in groups
       THEN /\ gen' = [gen EXCEPT ![g] = @ + 1]
            /\ wpc' = [wpc EXCEPT ![g][gen[g] + 1] = "spawned"]
       ELSE UNCHANGED <<gen, wpc>>
    /\ UNCHANGED <<groups, used, adding, dropped, state, flags, errCode,
                   cancelled, queues, stopped, payload, wctx, qpc, batch, pending,
                   input, engine, calls>>

\* cancelIfIdle ends the pass.
QIdle ==
    /\ \/ qpc = "idleCheck"
       \/ qpc = "start" /\ todo = <<>>
    /\ qpc' = "idle"
    /\ engDone' = (engDone \/ (~keepRunning /\ active = <<>> /\ waiting = <<>>
                                            /\ input = <<>>))
    /\ UNCHANGED <<groups, used, adding, dropped, state, flags, errCode, gen,
                   cancelled, queues, stopped, payload, workers, todo, batch,
                   pending, input, keepRunning, maxActive, shuttingDown, calls>>

\* onEndOfRun copies both queues ...
QDrain ==
    /\ qpc = "idle" /\ engDone
    /\ qpc' = "drainActive" /\ todo' = active /\ batch' = waiting
    /\ UNCHANGED <<groups, used, adding, dropped, state, flags, errCode, gen,
                   cancelled, queues, stopped, payload, workers, pending, input,
                   engine, calls>>

\* ... stops what is active ...
QDrainActive(g) ==
    /\ qpc = "drainActive" /\ todo # <<>> /\ g = Head(todo)
    /\ todo' = Tail(todo)
    /\ IF g \in groups /\ state[g] = "active"
       THEN /\ active' = Without(active, g)
            /\ Stop(g, "error", HaltCode(g))
       ELSE UNCHANGED <<active, groups, state, errCode, stopped>>
    /\ UNCHANGED <<used, adding, dropped, flags, gen, cancelled, waiting, payload,
                   workers, qpc, batch, pending, input, engine, calls>>

\* Mutant: a waiting entry is stopped without looking its group up.
QDrainWaitingUnchecked(g) ==
    /\ qpc = "drainActive" /\ todo = <<>> /\ batch # <<>> /\ g = Head(batch)
    /\ batch' = Tail(batch)
    /\ waiting' = Without(waiting, g)
    /\ Stop(g, IF pauseReq[g] THEN "error" ELSE "removed", "removed")
    /\ UNCHANGED <<used, adding, dropped, flags, gen, cancelled, active, payload,
                   workers, qpc, todo, pending, input, engine, calls>>

\* ... and then what waits.
QDrainWaiting(g) ==
    /\ qpc = "drainActive" /\ todo = <<>> /\ batch # <<>> /\ g = Head(batch)
    /\ batch' = Tail(batch)
    /\ IF g \in groups
       THEN /\ waiting' = Without(waiting, g)
            /\ Stop(g, IF pauseReq[g] THEN "error" ELSE "removed", "removed")
       ELSE UNCHANGED <<waiting, groups, state, errCode, stopped>>
    /\ UNCHANGED <<used, adding, dropped, flags, gen, cancelled, active, payload,
                   workers, qpc, todo, pending, input, engine, calls>>

QStopped ==
    /\ qpc = "drainActive" /\ todo = <<>> /\ batch = <<>>
    /\ qpc' = "stopped"
    /\ UNCHANGED <<groups, used, adding, dropped, state, flags, errCode, gen,
                   cancelled, queues, stopped, payload, workers, todo, batch,
                   pending, input, engine, calls>>

(***************************************************************************)
(* The worker goroutine of run k of a group (runDownload)                  *)
(***************************************************************************)

WorkerStep(g, k, from, to) ==
    /\ wpc[g][k] = from
    /\ wpc' = [wpc EXCEPT ![g][k] = to]
    /\ UNCHANGED <<groups, used, adding, dropped, state, flags, gen, queues,
                   stopped, manager, engine, calls>>

\* The goroutine is scheduled and reads rg.ctx.
WorkerBegin(g, k) ==
    /\ WorkerStep(g, k, "spawned", "running")
    /\ wctx' = [wctx EXCEPT ![g][k] = gen[g]]
    /\ UNCHANGED <<errCode, cancelled, payload>>

\* The transfer completes.
WorkerSucceeds(g, k) ==
    /\ WorkerStep(g, k, "running", "ending")
    /\ errCode' = [errCode EXCEPT ![g] = "none"]
    /\ payload' = payload \cup {g}
    /\ UNCHANGED <<wctx, cancelled>>

\* The transfer fails (network, file, checksum, protocol, ...).
WorkerFails(g, k) ==
    /\ WorkerStep(g, k, "running", "ending")
    /\ errCode' = [errCode EXCEPT ![g] = "failed"]
    /\ UNCHANGED <<wctx, cancelled, payload>>

\* Mutant: a worker whose download was force-halted is not interrupted.
WorkerCanceledGracefully(g, k) ==
    /\ WorkerStep(g, k, "running", "ending")
    /\ CtxDone(g, wctx[g][k]) /\ ~forceHaltReq[g]
    /\ errCode' = [errCode EXCEPT ![g] =
                     IF haltReason[g] # "user" /\ haltRequested[g]
                     THEN "none" ELSE "removed"]
    /\ UNCHANGED <<wctx, cancelled, payload>>

\* The transfer sees that its context is done: markTransferCanceled.
WorkerCanceled(g, k) ==
    /\ WorkerStep(g, k, "running", "ending")
    /\ CtxDone(g, wctx[g][k])
    /\ errCode' = [errCode EXCEPT ![g] =
                     IF haltReason[g] # "user" /\ haltRequested[g] /\ ~forceHaltReq[g]
                     THEN "none" ELSE "removed"]
    /\ UNCHANGED <<wctx, cancelled, payload>>

\* Mutant: runDownload returns without calling rg.cancel().
WorkerEndsSilently(g, k) ==
    /\ WorkerStep(g, k, "ending", "done")
    /\ UNCHANGED <<wctx, errCode, payload, cancelled>>

\* The last statement of runDownload: rg.cancel().
WorkerEnds(g, k) ==
    /\ WorkerStep(g, k, "ending", "done")
    /\ CancelCurrent(g)
    /\ UNCHANGED <<wctx, errCode, payload>>

(***************************************************************************)
(* The specification                                                       *)
(***************************************************************************)

Client ==
    \/ \E g \in GID :
        \/ \E paused \in BOOLEAN : AddGroup(g, paused)
        \/ AddRejected(g)
        \/ \E pos \in 1..(Len(waiting) + 1) : AddToWaiting(g, pos)
        \/ \E force \in BOOLEAN :
              \/ PauseActive(g, force)
              \/ RemoveActive(g, force)
              \/ RemoveUnstarted(g, force)
              \/ RemoveWaiting(g, force)
        \/ PauseUnstarted(g)
        \/ PauseWaiting(g)
        \/ Resume(g)
        \/ ChangeOption(g)
        \/ \E pos \in 1..Len(waiting) : ChangePosition(g, pos)
    \/ \E n \in 0..MaxActive : ChangeMaxActive(n)
    \/ \E force \in BOOLEAN : MarkShutdown(force)
    \/ CancelEngine

QueueManager ==
    \/ QTick \/ QCheck \/ QChecked
    \/ \E g \in GID : QReap(g)
    \/ QFull \/ QDeferred \/ QLoadAppend \/ QLoadFails \/ QFill
    \/ \E paused \in BOOLEAN : QLoad(paused)
    \/ \E g \in GID : QSkipGone(g) \/ QSkipPaused(g) \/ QPromote(g)
    \/ QPromoted
    \/ \E g \in GID : QStart(g)
    \/ QIdle
    \/ QDrain
    \/ \E g \in GID : QDrainActive(g) \/ QDrainWaiting(g)
    \/ QStopped

Worker(g, k) ==
    \/ WorkerBegin(g, k) \/ WorkerSucceeds(g, k) \/ WorkerFails(g, k)
    \/ WorkerCanceled(g, k) \/ WorkerEnds(g, k)

Next ==
    \/ Client
    \/ QueueManager
    \/ \E g \in GID, k \in Runs : Worker(g, k)

\* What Shutdown, Add and a worker go on to do: Shutdown to e.cancel(), Add to the
\* queue, a worker to its end.  A transfer need not end unless its context is done.
GoOn ==
    \/ shuttingDown /\ CancelEngine
    \/ \E g \in GID : \E pos \in 1..(Len(waiting) + 1) : AddToWaiting(g, pos)
    \/ \E g \in GID, k \in Runs : WorkerBegin(g, k) \/ WorkerCanceled(g, k) \/ WorkerEnds(g, k)

\* The goroutines are scheduled; the select of queueManager picks at random, so
\* it does not ignore e.ctx.Done() for ever.  Each step of GoOn is taken at most
\* once in a behaviour, so that fairness of all of them is fairness of each.
Fairness == WF_vars(QueueManager) /\ SF_vars(QDrain) /\ WF_vars(GoOn)

Spec == Init /\ [][Next]_vars /\ Fairness

(***************************************************************************)
(* Properties                                                              *)
(***************************************************************************)

ManagerPC == {"idle", "check", "reap", "fill", "load", "append", "promote",
              "start", "idleCheck", "drainActive", "stopped"}
WorkerPC == {"none", "spawned", "running", "ending", "done"}

\* The fields of the engine and of every requestGroup stay in their types; in
\* particular the limit in force is at least one whatever option is set.
TypeOK ==
    /\ groups \subseteq used /\ used \subseteq GID
    /\ adding \subseteq used /\ dropped \subseteq used /\ payload \subseteq GID
    /\ state \in [GID -> Status]
    /\ pauseReq \in [GID -> BOOLEAN] /\ restartReq \in [GID -> BOOLEAN]
    /\ haltRequested \in [GID -> BOOLEAN] /\ forceHaltReq \in [GID -> BOOLEAN]
    /\ haltReason \in [GID -> {"none", "user", "shutdown"}]
    /\ errCode \in [GID -> ErrorCode]
    /\ gen \in [GID -> Nat] /\ cancelled \in [GID -> SUBSET Nat]
    /\ active \in Seq(GID) /\ waiting \in Seq(GID) /\ stopped \in Seq(Result)
    /\ wpc \in [GID -> [Runs -> WorkerPC]] /\ wctx \in [GID -> [Runs -> Nat]]
    /\ qpc \in ManagerPC
    /\ todo \in Seq(GID) /\ batch \in Seq(GID) /\ pending \in Seq(GID)
    /\ input \in Seq(GID)
    /\ keepRunning \in BOOLEAN /\ shuttingDown \in BOOLEAN /\ engDone \in BOOLEAN
    /\ maxActive \in 1..MaxActive
    /\ calls \in 0..MaxCalls

\* No operation of a client and no step of the queue manager, in any order,
\* leaves a group in both queues, twice in one, or in neither: every group of
\* the map that Add has finished with is in exactly the queue its state names.
\* Entries of the waiting queue without a group come only from a Remove that
\* overtakes the second half of Add.
QueueConsistency ==
    /\ IsInjective(active) /\ IsInjective(pending \o waiting)
    /\ ToSet(active) \subseteq groups
    /\ \A g \in groups \ adding :
         /\ state[g] = "active" <=> g \in ToSet(active)
         /\ state[g] = "waiting" <=> g \in ToSet(pending \o waiting)

\* Every download ever accepted has exactly one fate: it is still in the group
\* map, or one result was recorded for it, or it was dropped while waiting.
OneFate ==
    \A g \in used :
      LET results == {i \in DOMAIN stopped : stopped[i].gid = g} IN
      \/ g \in groups /\ g \notin dropped /\ results = {}
      \/ g \notin groups /\ g \in dropped /\ results = {}
      \/ g \notin groups /\ g \notin dropped /\ \E i \in results : results = {i}

\* Once a download has left the group map, no later promotion, deferred load or
\* late worker brings it back, gives it a worker, or writes a second result.
NeverReturns ==
    [][\A g \in used \ groups : g \notin groups' /\ gen'[g] = gen[g]]_vars

\* Every run of a download has its own worker, started by the step that made
\* the context of the run, and no context is cancelled before it exists.
OneWorkerPerRun ==
    \A g \in GID :
      /\ gen[g] \in 0..(MaxCalls + 1)
      /\ \A k \in Runs : wpc[g][k] = "none" <=> k > gen[g]
      /\ cancelled[g] \subseteq 1..gen[g]

\* The worker of the current run has returned, or its context is done.
RunIsOver(g) ==
    gen[g] \in Runs /\ (wpc[g][gen[g]] = "done" \/ CtxDone(g, gen[g]))

\* A worker that has ended, or whose context was cancelled, does not hold its
\* slot in the active queue for ever: the group leaves the queue or has a new
\* run.
SlotIsFreed ==
    \A g \in GID :
      (g \in ToSet(active) /\ RunIsOver(g))
        ~> (g \notin ToSet(active) \/ ~RunIsOver(g))

\* While a slot is free, a download at the head of the waiting queue is started
\* unless it is paused, moved or removed, or the engine stops.
HeadIsStarted ==
    \A g \in GID :
      (waiting # <<>> /\ g = Head(waiting) /\ g \in groups /\ ~pauseReq[g]
         /\ Len(active) < maxActive)
        ~> (state[g] = "active" \/ g \notin groups \/ pauseReq[g] \/ engDone
              \/ Len(active) >= maxActive \/ (waiting # <<>> /\ g # Head(waiting)))

\* Nothing is left to do: no group in a queue, no entry to load, no Add under way.
Idle == active = <<>> /\ waiting = <<>> /\ pending = <<>> /\ input = <<>> /\ adding = {}

\* The queue manager and every worker have returned, which is what Run waits for.
Ended == qpc = "stopped" /\ \A g \in GID, k \in Runs : wpc[g][k] \in {"none", "done"}

\* After a shutdown Run returns, whatever was running or being added.  Without
\* enable-rpc it also returns by itself once nothing is left to do, unless a
\* client adds a download before cancelIfIdle looks.
EngineEnds ==
    (shuttingDown \/ (~keepRunning /\ Idle)) ~> (Ended \/ (~shuttingDown /\ ~Idle))

\* types.go calls StatusComplete "download finished successfully": a complete
\* result is recorded only for a download whose transfer finished.
CompleteMeansDownloaded ==
    \A i \in DOMAIN stopped : stopped[i].status = "complete" => stopped[i].gid \in payload
=============================================================================
