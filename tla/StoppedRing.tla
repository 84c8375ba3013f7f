----------------------------- MODULE StoppedRing -----------------------------
(***************************************************************************)
(* internal/engine/stopped_ring.go and the part of internal/engine/        *)
(* engine.go that uses it: the ring of results, its index by GID, the      *)
(* account of evicted failures and the copy of it that the exit status is  *)
(* computed from.  Any number of goroutines stop downloads at the same     *)
(* time, each under the lock of its own group; only the ring has a lock.   *)
(***************************************************************************)
EXTENDS Integers, FiniteSets, Sequences

CONSTANTS
    GID,              \* downloads that will stop
    Caller,           \* goroutines: the queue manager and clients
    Outcome,          \* how a download can stop
    Setting,          \* values of max-download-result
    DefaultResults,   \* 1000 in the code
    Keeps,            \* "none", "unfinished" or, with force-save, "all"
    MaxChanges,       \* bound: calls of ChangeGlobalOption
    MaxEvicted,       \* bound: results evicted by the loop of addStoppedLocked
    None

\* core.ErrorCode: success, in progress, removed, and one for all the others.
ErrorCode == {"success", "inProgress", "removed", "unknown"}

ASSUME SettingAssumption == Setting \subseteq Nat
ASSUME DefaultAssumption == DefaultResults \in Nat \ {0}
ASSUME OutcomeAssumption ==
    Outcome \subseteq [state : {"complete", "error", "removed"},
                       errCode : ErrorCode, child : BOOLEAN]
ASSUME BoundAssumption == MaxChanges \in Nat /\ MaxEvicted \in Nat
ASSUME NoneAssumption == None \notin Caller /\ None \notin [gid : GID, outcome : Outcome]

\* downloadResult.  An outcome has a state, an errCode and, for
\* belongsTo # 0, child.
Result == [gid : GID, outcome : Outcome]

VARIABLES
    buf,            \* r.buf: slot -> result, or None for nil
    capacity,       \* len(r.buf)
    head, size,     \* r.head, r.size
    index,          \* r.index: a function on the GIDs that it has
    evictedTotal, evictedErrors, evictedLastErr,
    mu,             \* who holds r.mu over several steps, or None
    removedErrors, removedLastErr,   \* the atomics of the engine
    maxResults,     \* e.cfg.MaxDownloadResult
    keep,           \* e.cfg.KeepUnfinishedDownloadResult and e.cfg.ForceSave
    pc,             \* what each caller does next
    seen,           \* its locals: errors and lastErr as read, and maxResults
    used,           \* downloads that have stopped
    changes         \* calls of ChangeGlobalOption so far

slots == <<buf, capacity, head, size, index>>
evicted == <<evictedTotal, evictedErrors, evictedLastErr>>
removed == <<removedErrors, removedLastErr>>
config == <<maxResults, keep, changes>>
vars == <<slots, evicted, mu, removed, config, pc, seen, used>>

(***************************************************************************)
(* The ring                                                                *)
(***************************************************************************)

\* Mutant: a limit of zero is taken as it is given.
CapacityZero(n) == n

\* newStoppedRing and resize: zero is not "none" but the default.
Capacity(n) == IF n <= 0 THEN DefaultResults ELSE n

Slot(i) == (head + i) % capacity

\* The results from the oldest to the newest: get and snapshotStatuses return
\* windows of them, GetDownloadStat and ExitCode walk them.
Log == [i \in 1..size |-> buf[Slot(i - 1)]]

\* getByGID, optionsByGID.
GetByGID(g) == IF g \in DOMAIN index THEN buf[index[g]] ELSE None

IsError(r) == ~r.outcome.child /\ r.outcome.errCode # "success"

\* A new buffer of n slots with the results l at its start.
Lay(l, n) ==
    /\ buf' = [p \in 0..(n - 1) |-> IF p < Len(l) THEN l[p + 1] ELSE None]
    /\ index' = [g \in {l[i].gid : i \in 1..Len(l)} |->
                   CHOOSE p \in 0..(Len(l) - 1) : l[p + 1].gid = g]
    /\ head' = 0 /\ size' = Len(l) /\ capacity' = n

\* Mutant: the code of the evicted failure is not kept.
CountEvictedForgets(r) ==
    /\ evictedTotal' = evictedTotal + 1
    /\ IF IsError(r)
         THEN evictedErrors' = evictedErrors + 1 /\ UNCHANGED evictedLastErr
         ELSE UNCHANGED <<evictedErrors, evictedLastErr>>

\* One evicted result.
CountEvicted(r) ==
    /\ evictedTotal' = evictedTotal + 1
    /\ IF IsError(r)
         THEN evictedErrors' = evictedErrors + 1 /\ evictedLastErr' = r.outcome.errCode
         ELSE UNCHANGED <<evictedErrors, evictedLastErr>>

(***************************************************************************)
(* addStoppedLocked                                                        *)
(***************************************************************************)

\* Mutant: the evicted result stays in the index.
PushKeepsIndex(c, r) ==
    LET full == size >= capacity
        pos  == Slot(size)
    IN
    /\ pc[c] = "idle" /\ mu = None /\ r.gid \notin used
    /\ buf' = [buf EXCEPT ![pos] = r]
    /\ index' = [g \in DOMAIN index \cup {r.gid} |-> IF g = r.gid THEN pos ELSE index[g]]
    /\ IF full
         THEN head' = (head + 1) % capacity /\ UNCHANGED size /\ CountEvicted(buf[head])
         ELSE size' = size + 1 /\ UNCHANGED <<head, evicted>>
    /\ used' = used \cup {r.gid}
    /\ pc' = [pc EXCEPT ![c] = "addRead"]
    /\ UNCHANGED <<capacity, mu, removed, config, seen>>

\* push: a full ring gives up its oldest result.
Push(c, r) ==
    LET full == size >= capacity
        gone == IF full THEN {buf[head].gid} ELSE {}
        pos  == Slot(size)
    IN
    /\ pc[c] = "idle" /\ mu = None /\ r.gid \notin used
    /\ buf' = [buf EXCEPT ![pos] = r]
    /\ index' = [g \in (DOMAIN index \ gone) \cup {r.gid} |->
                   IF g = r.gid THEN pos ELSE index[g]]
    /\ IF full
         THEN head' = (head + 1) % capacity /\ UNCHANGED size /\ CountEvicted(buf[head])
         ELSE size' = size + 1 /\ UNCHANGED <<head, evicted>>
    /\ used' = used \cup {r.gid}
    /\ pc' = [pc EXCEPT ![c] = "addRead"]
    /\ UNCHANGED <<capacity, mu, removed, config, seen>>

Unread == [errors |-> 0, last |-> "success", bound |-> 0]

\* evictionInfo, under the lock.
ReadEvicted(c) ==
    /\ pc[c] = "addRead" /\ mu = None
    /\ seen' = [seen EXCEPT ![c].errors = evictedErrors, ![c].last = evictedLastErr]
    /\ pc' = [pc EXCEPT ![c] = "addErrors"]
    /\ UNCHANGED <<slots, evicted, mu, removed, config, used>>

\* The two stores that follow, without a lock.
StoreErrors(c) ==
    /\ pc[c] \in {"addErrors", "changeErrors"}
    /\ removedErrors' = seen[c].errors
    /\ pc' = [pc EXCEPT ![c] = IF @ = "addErrors" THEN "addLast" ELSE "changeLast"]
    /\ UNCHANGED <<slots, evicted, mu, removedLastErr, config, seen, used>>

StoreLast(c) ==
    /\ pc[c] \in {"addLast", "changeLast"}
    /\ removedLastErr' = seen[c].last
    /\ seen' = [seen EXCEPT ![c] = Unread]
    /\ pc' = [pc EXCEPT ![c] = IF @ = "addLast" THEN "trimStart" ELSE "idle"]
    /\ UNCHANGED <<slots, evicted, mu, removedErrors, config, used>>

\* The loop that brings the ring below the configured limit has the lock.
TrimStart(c) ==
    /\ pc[c] = "trimStart" /\ mu = None
    /\ mu' = c
    /\ seen' = [seen EXCEPT ![c].bound = Capacity(maxResults)]
    /\ pc' = [pc EXCEPT ![c] = "trim"]
    /\ UNCHANGED <<slots, evicted, removed, config, used>>

\* What goes back into the ring.
Kept(r) ==
    /\ IsError(r)
    /\ \/ keep = "all"
       \/ keep = "unfinished" /\ r.outcome.state # "removed"

TrimOne(c) ==
    LET r   == buf[head]
        pos == (((head + 1) % capacity) + size - 1) % capacity
    IN
    /\ pc[c] = "trim" /\ size > seen[c].bound /\ evictedTotal < MaxEvicted
    /\ head' = (head + 1) % capacity
    /\ IF Kept(r)
         THEN /\ buf' = [buf EXCEPT ![pos] = r]
              /\ index' = [index EXCEPT ![r.gid] = pos]
              /\ UNCHANGED size
         ELSE /\ index' = [g \in DOMAIN index \ {r.gid} |-> index[g]]
              /\ size' = size - 1 /\ UNCHANGED buf
    /\ CountEvicted(r)
    /\ IF IsError(r)
         THEN removedErrors' = evictedErrors' /\ removedLastErr' = r.outcome.errCode
         ELSE UNCHANGED removed
    /\ UNCHANGED <<capacity, mu, config, pc, seen, used>>

\* Mutant: the loop returns without unlocking the ring.
TrimEndLocked(c) ==
    /\ pc[c] = "trim" /\ size <= seen[c].bound
    /\ seen' = [seen EXCEPT ![c] = Unread]
    /\ pc' = [pc EXCEPT ![c] = "idle"]
    /\ UNCHANGED <<slots, evicted, mu, removed, config, used>>

TrimEnd(c) ==
    /\ pc[c] = "trim" /\ size <= seen[c].bound
    /\ mu' = None
    /\ seen' = [seen EXCEPT ![c] = Unread]
    /\ pc' = [pc EXCEPT ![c] = "idle"]
    /\ UNCHANGED <<slots, evicted, removed, config, used>>

(***************************************************************************)
(* ChangeGlobalOption, for max-download-result                             *)
(***************************************************************************)

ChangeLimit(c, n) ==
    /\ pc[c] = "idle" /\ changes < MaxChanges
    /\ maxResults' = n /\ changes' = changes + 1
    /\ pc' = [pc EXCEPT ![c] = "resize"]
    /\ UNCHANGED <<slots, evicted, mu, removed, keep, seen, used>>

\* resize reads the configuration again: another call may have set it since.
Resize(c) ==
    LET n      == Capacity(maxResults)
        drop   == IF size > n THEN size - n ELSE 0
        failed == {i \in 1..drop : IsError(Log[i])}
    IN
    /\ pc[c] = "resize" /\ mu = None
    /\ pc' = [pc EXCEPT ![c] = "changeRead"]
    /\ IF n = capacity THEN UNCHANGED <<slots, evicted>>
       ELSE /\ Lay(SubSeq(Log, drop + 1, size), n)
            /\ evictedTotal' = evictedTotal + drop
            /\ evictedErrors' = evictedErrors + Cardinality(failed)
            /\ \/ failed = {} /\ UNCHANGED evictedLastErr
               \/ \E i \in failed :
                    /\ \A j \in failed : j <= i
                    /\ evictedLastErr' = Log[i].outcome.errCode
    /\ UNCHANGED <<mu, removed, config, seen, used>>

\* evictionInfo without the lock: the two fields are read in either order, and
\* another goroutine may write between the reads.
ReadRacing(c) ==
    /\ \/ /\ pc[c] \in {"changeRead", "changeReadErrors"}
          /\ seen' = [seen EXCEPT ![c].errors = evictedErrors]
          /\ pc' = [pc EXCEPT ![c] =
                      IF @ = "changeRead" THEN "changeReadLast" ELSE "changeErrors"]
       \/ /\ pc[c] \in {"changeRead", "changeReadLast"}
          /\ seen' = [seen EXCEPT ![c].last = evictedLastErr]
          /\ pc' = [pc EXCEPT ![c] =
                      IF @ = "changeRead" THEN "changeReadErrors" ELSE "changeErrors"]
    /\ UNCHANGED <<slots, evicted, mu, removed, config, used>>

(***************************************************************************)
(* PurgeDownloadResult and RemoveDownloadResult                            *)
(***************************************************************************)

Purge ==
    /\ mu = None
    /\ buf' = [p \in DOMAIN buf |->
                 IF \E i \in 0..(size - 1) : p = Slot(i) THEN None ELSE buf[p]]
    /\ head' = 0 /\ size' = 0 /\ index' = [g \in {} |-> 0]
    /\ UNCHANGED <<capacity, evicted, mu, removed, config, pc, seen, used>>

\* removeByGID empties the slots and pushes the results with another GID again:
\* all but one, for no two results have the same GID (IndexAgrees).
\* RemoveDownloadResult has asked before whether the group map has g, but has
\* released the map: g may have been added (under a GID that the client chose)
\* and stopped since, so that the answer does not restrict this step.
RemoveResult(g) ==
    /\ mu = None /\ g \in DOMAIN index
    /\ \E k \in 1..size :
         /\ Log[k].gid = g
         /\ Lay(SubSeq(Log, 1, k - 1) \o SubSeq(Log, k + 1, size), capacity)
    /\ UNCHANGED <<evicted, mu, removed, config, pc, seen, used>>

(***************************************************************************)
(* The specification                                                       *)
(***************************************************************************)

Init ==
    /\ maxResults \in Setting /\ keep \in Keeps /\ changes = 0
    /\ capacity = Capacity(maxResults)
    /\ buf = [p \in 0..(capacity - 1) |-> None]
    /\ head = 0 /\ size = 0 /\ index = [g \in {} |-> 0]
    /\ evictedTotal = 0 /\ evictedErrors = 0 /\ evictedLastErr = "success"
    /\ removedErrors = 0 /\ removedLastErr = "success"
    /\ mu = None /\ used = {}
    /\ pc = [c \in Caller |-> "idle"]
    /\ seen = [c \in Caller |-> Unread]

\* What a caller does once it is in addStoppedLocked or ChangeGlobalOption.
Locking(c) == ReadEvicted(c) \/ TrimStart(c) \/ Resize(c)
Going(c) == StoreErrors(c) \/ StoreLast(c) \/ TrimOne(c) \/ TrimEnd(c) \/ ReadRacing(c)

Next ==
    \/ \E c \in Caller :
         \/ \E r \in Result : Push(c, r)
         \/ \E n \in Setting : ChangeLimit(c, n)
         \/ Locking(c) \/ Going(c)
    \/ Purge
    \/ \E g \in GID : RemoveResult(g)

\* The goroutines are scheduled, and a Go mutex is handed over to a goroutine
\* that has waited for it for a millisecond.
Fairness == \A c \in Caller : WF_vars(Going(c)) /\ SF_vars(Locking(c))

Spec == Init /\ [][Next]_vars /\ Fairness

(***************************************************************************)
(* Properties                                                              *)
(***************************************************************************)

PC == {"idle", "addRead", "addErrors", "addLast", "trimStart", "trim", "resize",
       "changeRead", "changeReadErrors", "changeReadLast", "changeErrors", "changeLast"}

\* The variables have the types of the Go fields.
TypeOK ==
    /\ capacity \in Nat \ {0}
    /\ buf \in [0..(capacity - 1) -> Result \cup {None}]
    /\ head \in 0..(capacity - 1) /\ size \in 0..capacity
    /\ DOMAIN index \subseteq GID
    /\ evictedTotal \in Nat /\ evictedErrors \in Nat /\ evictedLastErr \in ErrorCode
    /\ removedErrors \in Nat /\ removedLastErr \in ErrorCode
    /\ mu \in Caller \cup {None} /\ used \subseteq GID
    /\ maxResults \in Setting /\ keep \in Keeps /\ changes \in 0..MaxChanges
    /\ pc \in [Caller -> PC]
    /\ seen \in [Caller -> [errors : Nat, last : ErrorCode, bound : Nat]]

\* The index has exactly the results that are in the ring, each at its slot, and
\* no two results have one GID: TellStatus of a stopped download finds its
\* result as long as TellStopped lists it, however pushes, removals, resizes
\* and the eviction loop are mixed.
IndexAgrees ==
    /\ \A g \in GID : GetByGID(g) # None => GetByGID(g).gid = g
    /\ DOMAIN index = {Log[i].gid : i \in 1..size}
    /\ \A i \in 1..size : index[Log[i].gid] = Slot(i - 1)

\* The ring is a log of results: every operation on it is an operation on the
\* sequence of its results, and a failure is counted once each time it leaves.
Promise == INSTANCE ResultLog WITH
    log <- Log, limit <- capacity, errors <- evictedErrors, lastErr <- evictedLastErr,
    Limit <- {Capacity(n) : n \in Setting}
RingIsLog == Promise!Spec

\* Without keep-unfinished-download-result every download that stops is through
\* with addStoppedLocked some day; the loop in it ends although the limit and
\* the ring change independently.
StoppingEnds ==
    \A c \in Caller : (keep = "none" /\ pc[c] = "addRead") ~> (pc[c] = "idle")

\* "RemovedErrorResult returns the count and last error code of error results
\* evicted from the stopped queue" (engine.go:1487): with no download just
\* stopping and no option just changing, the copy is the account of the ring.
EvictedErrorsCounted ==
    (\A c \in Caller : pc[c] = "idle") =>
        removedErrors = evictedErrors /\ removedLastErr = evictedLastErr
==============================================================================
