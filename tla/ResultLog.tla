------------------------------ MODULE ResultLog ------------------------------
(***************************************************************************)
(* What the engine promises of the results of stopped downloads: the       *)
(* newest results in the order in which the downloads stopped, at most     *)
(* limit of them, and an account of the failures that are no longer there. *)
(***************************************************************************)
EXTENDS Naturals, FiniteSets, Sequences

CONSTANTS
    Result,      \* the results of stopped downloads: a gid and an outcome
    Limit        \* the limits that can be set

VARIABLES
    log,         \* the results kept, oldest first
    limit,       \* how many may be kept
    errors,      \* failures that have left the log to make room
    lastErr      \* the code of the latest of them

vars == <<log, limit, errors, lastErr>>

IsError(r) == ~r.outcome.child /\ r.outcome.errCode # "success"

\* The failures among the n oldest results of l.
Failures(l, n) == {i \in 1..n : IsError(l[i])}

\* The n oldest results of the log leave it, and the failures are counted.
Count(n) ==
    LET failed == Failures(log, n) IN
    /\ errors' = errors + Cardinality(failed)
    /\ \/ failed = {} /\ lastErr' = lastErr
       \/ \E i \in failed : (\A j \in failed : j <= i) /\ lastErr' = log[i].outcome.errCode

Init ==
    /\ log = <<>> /\ limit \in Limit
    /\ errors = 0 /\ lastErr = "success"

\* A download stops; the oldest result makes room for its result.
Record(r) ==
    /\ \A i \in 1..Len(log) : log[i].gid # r.gid
    /\ IF Len(log) < limit
         THEN log' = Append(log, r) /\ UNCHANGED <<errors, lastErr>>
         ELSE log' = Append(Tail(log), r) /\ Count(1)
    /\ UNCHANGED limit

\* A client has no more use for a result.
Forget(k) ==
    /\ log' = SubSeq(log, 1, k - 1) \o SubSeq(log, k + 1, Len(log))
    /\ UNCHANGED <<limit, errors, lastErr>>

Purge ==
    /\ log' = <<>>
    /\ UNCHANGED <<limit, errors, lastErr>>

\* The limit changes; the oldest results beyond it go.
Relimit(n) ==
    LET drop == IF Len(log) > n THEN Len(log) - n ELSE 0 IN
    /\ limit' = n
    /\ log' = SubSeq(log, drop + 1, Len(log))
    /\ Count(drop)

\* The oldest result goes, or, still counted, becomes the newest.
Trim(again) ==
    /\ log # <<>>
    /\ log' = IF again THEN Append(Tail(log), Head(log)) ELSE Tail(log)
    /\ Count(1)
    /\ UNCHANGED limit

Next ==
    \/ \E r \in Result : Record(r)
    \/ \E k \in 1..Len(log) : Forget(k)
    \/ Purge
    \/ \E n \in Limit : Relimit(n)
    \/ \E again \in BOOLEAN : Trim(again)

Spec == Init /\ [][Next]_vars
==============================================================================
