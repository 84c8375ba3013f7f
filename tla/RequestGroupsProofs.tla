------------------------ MODULE RequestGroupsProofs ------------------------
(***************************************************************************)
(* Proofs about RequestGroups, for any set of downloads, any start-up      *)
(* list, any limit and any number of client calls.                         *)
(***************************************************************************)
EXTENDS RequestGroups, TLAPS, SequenceTheorems, WellFoundedInduction

(***************************************************************************)
(* Facts about the queue helpers                                           *)
(***************************************************************************)

\* A set of naturals that is not empty has a least element.
LEMMA Least ==
    ASSUME NEW I \in SUBSET Nat, I # {}
    PROVE  Min(I) \in I
<1>1. PICK n \in I : \A m \in I : ~(<<m, n>> \in OpToRel(<, Nat))
  BY NatLessThanWellFounded, WFMin
<1>2. \A m \in I : n <= m
  <2> SUFFICES ASSUME NEW m \in I, m < n PROVE FALSE
    OBVIOUS
  <2>1. <<m, n>> \in Nat \X Nat /\ <<m, n>>[1] < <<m, n>>[2]
    OBVIOUS
  <2>2. <<m, n>> \in OpToRel(<, Nat)
    BY <2>1 DEF OpToRel
  <2> QED
    BY <1>1, <2>2
<1> QED
  BY <1>2 DEF Min

\* The index moveFromActiveLocked and moveFromWaitingLocked stop at is one
\* where the queue holds the download.
LEMMA FirstIndex ==
    ASSUME NEW S, NEW q \in Seq(S), NEW g, \E i \in 1..Len(q) : q[i] = g
    PROVE  LET j == Min({i \in 1..Len(q) : q[i] = g})
           IN  j \in 1..Len(q) /\ q[j] = g
<1> DEFINE I == {i \in 1..Len(q) : q[i] = g}
<1>1. I # {} /\ I \in SUBSET Nat
  OBVIOUS
<1>2. Min(I) \in I
  BY <1>1, Least
<1> QED
  BY <1>2

\* Taking an element out at an index leaves a queue of downloads.
LEMMA RemoveAtType ==
    ASSUME NEW S, NEW q \in Seq(S), NEW i \in 1..Len(q)
    PROVE  RemoveAt(q, i) \in Seq(S)
<1>1. SubSeq(q, 1, i - 1) \in Seq(S) /\ SubSeq(q, i + 1, Len(q)) \in Seq(S)
  OBVIOUS
<1> QED
  BY <1>1 DEF RemoveAt

\* So does moveFromActiveLocked, whether or not the download is there.
LEMMA WithoutType ==
    ASSUME NEW S, NEW q \in Seq(S), NEW g
    PROVE  Without(q, g) \in Seq(S)
<1>1. CASE \E i \in 1..Len(q) : q[i] = g
  <2> DEFINE j == Min({i \in 1..Len(q) : q[i] = g})
  <2>1. j \in 1..Len(q)
    BY <1>1, FirstIndex
  <2>2. Without(q, g) = RemoveAt(q, j)
    BY <1>1 DEF Without, RemoveFirst, SelectInSeq
  <2> HIDE DEF j
  <2> QED
    BY <2>1, <2>2, RemoveAtType
<1>2. CASE ~ \E i \in 1..Len(q) : q[i] = g
  BY <1>2 DEF Without, RemoveFirst
<1> QED
  BY <1>1, <1>2

\* The insertion of Add and of ChangePosition leaves a queue of downloads.
LEMMA InsertAtType ==
    ASSUME NEW S, NEW q \in Seq(S), NEW g \in S, NEW i \in 1..(Len(q) + 1)
    PROVE  InsertAt(q, i, g) \in Seq(S)
<1>1. SubSeq(q, 1, i - 1) \in Seq(S) /\ SubSeq(q, i, Len(q)) \in Seq(S)
  OBVIOUS
<1>2. <<g>> \in Seq(S)
  OBVIOUS
<1> QED
  BY <1>1, <1>2 DEF InsertAt
\* A queue is shorter by one without a download it holds.
LEMMA WithoutLen ==
    ASSUME NEW S, NEW q \in Seq(S), NEW g, \E i \in 1..Len(q) : q[i] = g
    PROVE  Len(Without(q, g)) = Len(q) - 1
<1> DEFINE j == Min({i \in 1..Len(q) : q[i] = g})
<1>1. j \in 1..Len(q)
  BY FirstIndex
<1>2. Without(q, g) = RemoveAt(q, j)
  BY DEF Without, RemoveFirst, SelectInSeq
<1> HIDE DEF j
<1> DEFINE a == SubSeq(q, 1, j - 1)
           b == SubSeq(q, j + 1, Len(q))
<1>3. Len(a) = j - 1 /\ Len(b) = Len(q) - j
  BY <1>1
<1>4. a \in Seq(S) /\ b \in Seq(S)
  BY <1>1
<1>5. Without(q, g) = a \o b
  BY <1>2 DEF RemoveAt
<1> HIDE DEF a, b
<1>6. Len(a \o b) = Len(a) + Len(b)
  BY <1>4
<1> QED
  BY <1>1, <1>3, <1>5, <1>6

\* The prepending of removeStoppedGroup and of Pause.
LEMMA PrependType ==
    ASSUME NEW S, NEW q \in Seq(S), NEW g \in S
    PROVE  <<g>> \o q \in Seq(S)
  OBVIOUS

\* The whole move of ChangePosition.
LEMMA MoveType ==
    ASSUME NEW S, NEW q \in Seq(S), NEW g \in S, g \in ToSet(q),
           NEW pos \in 1..Len(q)
    PROVE  LET cur  == SelectInSeq(q, LAMBDA h : h = g)
               dest == IF pos > cur THEN pos - 1 ELSE pos
           IN  InsertAt(Without(q, g), dest, g) \in Seq(S)
<1> DEFINE cur == Min({i \in 1..Len(q) : q[i] = g})
           dest == IF pos > cur THEN pos - 1 ELSE pos
<1>1. \E i \in 1..Len(q) : q[i] = g
  BY DEF ToSet
<1>2. cur \in 1..Len(q)
  BY <1>1, FirstIndex
<1>3. SelectInSeq(q, LAMBDA h : h = g) = cur
  BY <1>1 DEF SelectInSeq
<1>4. Without(q, g) \in Seq(S) /\ Len(Without(q, g)) = Len(q) - 1
  BY <1>1, WithoutType, WithoutLen
<1> HIDE DEF cur
<1>5. dest \in 1..(Len(Without(q, g)) + 1)
  BY <1>2, <1>4
<1>6. InsertAt(Without(q, g), dest, g) \in Seq(S)
  BY <1>4, <1>5, InsertAtType
<1> QED
  BY <1>3, <1>6

(***************************************************************************)
(* Type correctness                                                        *)
(***************************************************************************)

\* What the queue manager relies on when it takes the head of a list without
\* testing it: there is an entry to load, and a loaded group to queue.
ManagerReady ==
    /\ qpc = "load" => input # <<>>
    /\ qpc = "append" => todo # <<>>

\* Run starts in a state of the right type.
LEMMA TypeInit == Init => TypeOK /\ ManagerReady
<1> SUFFICES ASSUME Init PROVE TypeOK /\ ManagerReady
  OBVIOUS
<1>1. waiting \in Seq(GID) /\ input \in Seq(GID)
  BY StartupAssumption DEF Init
<1>2. groups \subseteq GID
  BY <1>1 DEF Init, ToSet
<1>3. wpc \in [GID -> [Runs -> WorkerPC]] /\ wctx \in [GID -> [Runs -> Nat]]
  BY DEF Init, WorkerPC
<1>4. /\ state \in [GID -> Status] /\ errCode \in [GID -> ErrorCode]
      /\ gen \in [GID -> Nat] /\ cancelled \in [GID -> SUBSET Nat]
      /\ haltReason \in [GID -> {"none", "user", "shutdown"}]
  BY DEF Init, Status, ErrorCode
<1>5. /\ pauseReq \in [GID -> BOOLEAN] /\ restartReq \in [GID -> BOOLEAN]
      /\ haltRequested \in [GID -> BOOLEAN] /\ forceHaltReq \in [GID -> BOOLEAN]
      /\ keepRunning \in BOOLEAN /\ shuttingDown \in BOOLEAN /\ engDone \in BOOLEAN
  BY ModesAssumption DEF Init
<1>6. qpc \in ManagerPC /\ ManagerReady
  BY DEF Init, ManagerPC, ManagerReady
<1>7. /\ active \in Seq(GID) /\ stopped \in Seq(Result)
      /\ todo \in Seq(GID) /\ batch \in Seq(GID) /\ pending \in Seq(GID)
  BY DEF Init
<1>8. maxActive \in 1..MaxActive /\ calls \in 0..MaxCalls
  BY MaxActiveAssumption, MaxCallsAssumption DEF Init
<1>9. /\ groups \subseteq used /\ used \subseteq GID
      /\ adding \subseteq used /\ dropped \subseteq used /\ payload \subseteq GID
  BY <1>2 DEF Init
<1> QED
  BY <1>1, <1>3, <1>4, <1>5, <1>6, <1>7, <1>8, <1>9 DEF TypeOK

\* A client call stays within the bound.
LEMMA CallType == TypeOK /\ Call => calls' \in 0..MaxCalls
  BY MaxCallsAssumption DEF TypeOK, Call

\* What addStoppedLocked writes has its type.
LEMMA StopType ==
    ASSUME TypeOK, NEW g \in GID, NEW status \in Status, NEW code \in ErrorCode,
           Stop(g, status, code)
    PROVE  /\ state' \in [GID -> Status] /\ errCode' \in [GID -> ErrorCode]
           /\ stopped' \in Seq(Result) /\ groups' \subseteq used
<1>1. [gid |-> g, status |-> status, code |-> code] \in Result
  BY DEF Result
<1>2. stopped' \in Seq(Result)
  BY <1>1 DEF Stop, TypeOK
<1> QED
  BY <1>2 DEF Stop, TypeOK

\* Every step of a client, of the queue manager and of a worker keeps the types.
LEMMA TypeStep == TypeOK /\ ManagerReady /\ [Next]_vars => TypeOK'
<1> SUFFICES ASSUME TypeOK, ManagerReady, [Next]_vars PROVE TypeOK'
  OBVIOUS
<1> USE DEF vars, flags, queues, workers, manager, engine
<1>1. ASSUME NEW g \in GID, NEW paused \in BOOLEAN, AddGroup(g, paused) PROVE TypeOK'
  BY <1>1, CallType DEF AddGroup, TypeOK
<1>2. ASSUME NEW g \in GID, AddRejected(g) PROVE TypeOK'
  BY <1>2, CallType DEF AddRejected, TypeOK
<1>3. ASSUME NEW g \in GID, NEW pos \in 1..(Len(waiting) + 1), AddToWaiting(g, pos) PROVE TypeOK'
  BY <1>3, InsertAtType DEF AddToWaiting, TypeOK
<1>4. ASSUME NEW g \in GID, NEW force \in BOOLEAN, PauseActive(g, force) PROVE TypeOK'
  BY <1>4, CallType DEF PauseActive, CancelCurrent, TypeOK
<1>5. ASSUME NEW g \in GID, NEW force \in BOOLEAN, RemoveActive(g, force) PROVE TypeOK'
  BY <1>5, CallType DEF RemoveActive, RequestRemoval, CancelCurrent, TypeOK
<1>6. ASSUME NEW g \in GID, NEW force \in BOOLEAN, RemoveUnstarted(g, force) PROVE TypeOK'
  <2>1. active' \in Seq(GID)
    BY <1>6, WithoutType DEF RemoveUnstarted, TypeOK
  <2>2. "removed" \in Status /\ "removed" \in ErrorCode
    BY DEF Status, ErrorCode
  <2> QED
    BY <1>6, <2>1, <2>2, CallType, StopType DEF RemoveUnstarted, RequestRemoval, TypeOK
<1>7. ASSUME NEW g \in GID, NEW force \in BOOLEAN, RemoveWaiting(g, force) PROVE TypeOK'
  BY <1>7, CallType, WithoutType DEF RemoveWaiting, RequestRemoval, TypeOK
<1>8. ASSUME NEW g \in GID, PauseUnstarted(g) PROVE TypeOK'
  <2>1. active' \in Seq(GID) /\ waiting' \in Seq(GID)
    BY <1>8, WithoutType, PrependType DEF PauseUnstarted, TypeOK
  <2>2. state' \in [GID -> Status]
    BY <1>8 DEF PauseUnstarted, TypeOK, Status
  <2> QED
    BY <1>8, <2>1, <2>2, CallType DEF PauseUnstarted, TypeOK
<1>9. ASSUME NEW g \in GID, PauseWaiting(g) PROVE TypeOK'
  BY <1>9, CallType DEF PauseWaiting, TypeOK
<1>10. ASSUME NEW g \in GID, Resume(g) PROVE TypeOK'
  BY <1>10, CallType DEF Resume, TypeOK
<1>11. ASSUME NEW g \in GID, ChangeOption(g) PROVE TypeOK'
  <2>1. cancelled' \in [GID -> SUBSET Nat]
    <3>1. CASE gen[g] # 0
      <4>1. cancelled' = [cancelled EXCEPT ![g] = @ \cup {gen[g]}]
        BY <1>11, <3>1 DEF ChangeOption, CancelCurrent
      <4> QED
        BY <1>11, <4>1 DEF TypeOK
    <3>2. CASE gen[g] = 0
      BY <1>11, <3>2 DEF ChangeOption, TypeOK
    <3> QED
      BY <3>1, <3>2
  <2> QED
    BY <1>11, <2>1, CallType DEF ChangeOption, TypeOK
<1>12. ASSUME NEW g \in GID, NEW pos \in 1..Len(waiting), ChangePosition(g, pos) PROVE TypeOK'
  <2>1. waiting' \in Seq(GID)
    BY <1>12, MoveType DEF ChangePosition, TypeOK
  <2> QED
    BY <1>12, <2>1, CallType DEF ChangePosition, TypeOK
<1>13. ASSUME NEW n \in 0..MaxActive, ChangeMaxActive(n) PROVE TypeOK'
  BY <1>13, CallType, MaxActiveAssumption DEF ChangeMaxActive, ActiveLimit, TypeOK
<1>14. ASSUME NEW force \in BOOLEAN, MarkShutdown(force) PROVE TypeOK'
  BY <1>14, CallType DEF MarkShutdown, TypeOK
<1>15. ASSUME CancelEngine PROVE TypeOK'
  BY <1>15 DEF CancelEngine, TypeOK
<1>16. ASSUME QTick PROVE TypeOK'
  BY <1>16 DEF QTick, ManagerPC, TypeOK
<1>17. ASSUME QCheck PROVE TypeOK'
  <2>1. todo' \in Seq(GID) /\ Head(todo) \in GID
    BY <1>17 DEF QCheck, TypeOK
  <2>2. batch' \in Seq(GID)
    BY <1>17, <2>1 DEF QCheck, TypeOK
  <2> QED
    BY <1>17, <2>1, <2>2 DEF QCheck, TypeOK
<1>18. ASSUME QChecked PROVE TypeOK'
  BY <1>18 DEF QChecked, ManagerPC, TypeOK
<1>19. ASSUME NEW g \in GID, QReap(g) PROVE TypeOK'
  <2>1. todo' \in Seq(GID) /\ qpc' \in ManagerPC
    BY <1>19 DEF QReap, TypeOK, ManagerPC
  <2>2. CASE g \notin groups
    BY <1>19, <2>1, <2>2 DEF QReap, TypeOK
  <2>3. CASE g \in groups /\ pauseReq[g]
    <3>1. active' \in Seq(GID) /\ waiting' \in Seq(GID)
      <4>1. active' = Without(active, g) /\ waiting' = <<g>> \o waiting
        BY <1>19, <2>3 DEF QReap, ReapPaused
      <4> QED
        BY <1>19, <4>1, WithoutType, PrependType DEF TypeOK
    <3>2. state' \in [GID -> Status]
      BY <1>19, <2>3 DEF QReap, ReapPaused, TypeOK, Status
    <3> QED
      BY <1>19, <2>1, <2>3, <3>1, <3>2 DEF QReap, ReapPaused, TypeOK
  <2>4. CASE g \in groups /\ ~pauseReq[g] /\ haltRequested[g]
    <3>1. active' \in Seq(GID)
      BY <1>19, <2>4, WithoutType DEF QReap, ReapHalted, TypeOK
    <3>2. /\ state' \in [GID -> Status] /\ errCode' \in [GID -> ErrorCode]
          /\ stopped' \in Seq(Result) /\ groups' \subseteq used
      <4>1. {"removed", "error"} \subseteq Status /\ {"removed", HaltCode(g)} \subseteq ErrorCode
        BY DEF Status, ErrorCode, HaltCode, TypeOK
      <4> QED
        BY <1>19, <2>4, <4>1, StopType DEF QReap, ReapHalted
    <3> QED
      BY <1>19, <2>1, <2>4, <3>1, <3>2 DEF QReap, ReapHalted, TypeOK
  <2>5. CASE g \in groups /\ ~pauseReq[g] /\ ~haltRequested[g]
    <3>1. active' \in Seq(GID)
      BY <1>19, <2>5, WithoutType DEF QReap, ReapFinished, TypeOK
    <3>2. /\ state' \in [GID -> Status] /\ errCode' \in [GID -> ErrorCode]
          /\ stopped' \in Seq(Result) /\ groups' \subseteq used
      <4>1. {"complete", "error"} \subseteq Status /\ errCode[g] \in ErrorCode
        BY DEF Status, TypeOK
      <4> QED
        BY <1>19, <2>5, <4>1, StopType DEF QReap, ReapFinished
    <3> QED
      BY <1>19, <2>1, <2>5, <3>1, <3>2 DEF QReap, ReapFinished, TypeOK
  <2> QED
    BY <2>2, <2>3, <2>4, <2>5
<1>20. ASSUME QFull PROVE TypeOK'
  BY <1>20 DEF QFull, ManagerPC, TypeOK
<1>21. ASSUME QDeferred PROVE TypeOK'
  BY <1>21 DEF QDeferred, ManagerPC, TypeOK
<1>22. ASSUME NEW paused \in BOOLEAN, QLoad(paused) PROVE TypeOK'
  <2>1. Head(input) \in GID /\ input' \in Seq(GID) /\ todo' \in Seq(GID)
    BY <1>22 DEF QLoad, TypeOK, ManagerReady
  <2> QED
    BY <1>22, <2>1 DEF QLoad, TypeOK, ManagerPC
<1>23. ASSUME QLoadAppend PROVE TypeOK'
  <2>1. Head(todo) \in GID
    BY <1>23 DEF QLoadAppend, TypeOK, ManagerReady
  <2>2. waiting' \in Seq(GID) /\ todo' \in Seq(GID)
    BY <1>23, <2>1 DEF QLoadAppend, TypeOK
  <2> QED
    BY <1>23, <2>2 DEF QLoadAppend, TypeOK, ManagerPC
<1>24. ASSUME QLoadFails PROVE TypeOK'
  BY <1>24 DEF QLoadFails, ManagerPC, TypeOK
<1>25. ASSUME QFill PROVE TypeOK'
  BY <1>25 DEF QFill, ManagerPC, TypeOK
<1>26. ASSUME NEW g \in GID, QSkipGone(g) PROVE TypeOK'
  <2>1. waiting' \in Seq(GID)
    BY <1>26 DEF QSkipGone, PromoteNext, TypeOK
  <2> QED
    BY <1>26, <2>1 DEF QSkipGone, PromoteNext, TypeOK
<1>27. ASSUME NEW g \in GID, QSkipPaused(g) PROVE TypeOK'
  <2>1. waiting' \in Seq(GID) /\ pending' \in Seq(GID)
    BY <1>27 DEF QSkipPaused, PromoteNext, TypeOK
  <2> QED
    BY <1>27, <2>1 DEF QSkipPaused, PromoteNext, TypeOK
<1>28. ASSUME NEW g \in GID, QPromote(g) PROVE TypeOK'
  <2>1. active' \in Seq(GID) /\ waiting' \in Seq(GID) /\ todo' \in Seq(GID)
    BY <1>28 DEF QPromote, PromoteNext, TypeOK
  <2>2. state' \in [GID -> Status]
    BY <1>28 DEF QPromote, TypeOK, Status
  <2> QED
    BY <1>28, <2>1, <2>2 DEF QPromote, PromoteNext, TypeOK
<1>29. ASSUME QPromoted PROVE TypeOK'
  <2>1. waiting' \in Seq(GID)
    BY <1>29 DEF QPromoted, TypeOK
  <2> QED
    BY <1>29, <2>1 DEF QPromoted, TypeOK, ManagerPC
<1>30. ASSUME NEW g \in GID, QStart(g) PROVE TypeOK'
  <2>1. gen' \in [GID -> Nat] /\ wpc' \in [GID -> [Runs -> WorkerPC]]
    <3>1. CASE g \in groups
      <4>1. gen' = [gen EXCEPT ![g] = @ + 1] /\ gen \in [GID -> Nat]
        BY <1>30, <3>1 DEF QStart, TypeOK
      <4>2. /\ wpc' = [wpc EXCEPT ![g][gen[g] + 1] = "spawned"]
            /\ wpc \in [GID -> [Runs -> WorkerPC]] /\ "spawned" \in WorkerPC
        BY <1>30, <3>1 DEF QStart, TypeOK, WorkerPC
      <4>3. gen' \in [GID -> Nat]
        BY <4>1
      <4>4. wpc' \in [GID -> [Runs -> WorkerPC]]
        BY <4>2
      <4> QED
        BY <4>3, <4>4
    <3>2. CASE g \notin groups
      BY <1>30, <3>2 DEF QStart, TypeOK
    <3> QED
      BY <3>1, <3>2
  <2>3. todo' \in Seq(GID)
    BY <1>30 DEF QStart, TypeOK
  <2> QED
    BY <1>30, <2>1, <2>3 DEF QStart, TypeOK
<1>31. ASSUME QIdle PROVE TypeOK'
  BY <1>31 DEF QIdle, ManagerPC, TypeOK
<1>32. ASSUME QDrain PROVE TypeOK'
  BY <1>32 DEF QDrain, ManagerPC, TypeOK
<1>33. ASSUME NEW g \in GID, QDrainActive(g) PROVE TypeOK'
  <2>1. todo' \in Seq(GID) /\ active' \in Seq(GID)
    BY <1>33, WithoutType DEF QDrainActive, TypeOK
  <2>2. "error" \in Status /\ HaltCode(g) \in ErrorCode
    BY DEF Status, ErrorCode, HaltCode, TypeOK
  <2>3. /\ state' \in [GID -> Status] /\ errCode' \in [GID -> ErrorCode]
        /\ stopped' \in Seq(Result) /\ groups' \subseteq used
    BY <1>33, <2>2, StopType DEF QDrainActive, TypeOK
  <2> QED
    BY <1>33, <2>1, <2>3 DEF QDrainActive, TypeOK
<1>34. ASSUME NEW g \in GID, QDrainWaiting(g) PROVE TypeOK'
  <2>1. batch' \in Seq(GID) /\ waiting' \in Seq(GID)
    BY <1>34, WithoutType DEF QDrainWaiting, TypeOK
  <2>2. {"error", "removed"} \subseteq Status /\ "removed" \in ErrorCode
    BY DEF Status, ErrorCode
  <2>3. /\ state' \in [GID -> Status] /\ errCode' \in [GID -> ErrorCode]
        /\ stopped' \in Seq(Result) /\ groups' \subseteq used
    BY <1>34, <2>2, StopType DEF QDrainWaiting, TypeOK
  <2> QED
    BY <1>34, <2>1, <2>3 DEF QDrainWaiting, TypeOK
<1>35. ASSUME QStopped PROVE TypeOK'
  BY <1>35 DEF QStopped, ManagerPC, TypeOK
<1>36. ASSUME NEW g \in GID, NEW k \in Runs, WorkerBegin(g, k) PROVE TypeOK'
  BY <1>36 DEF WorkerBegin, WorkerStep, WorkerPC, TypeOK
<1>37. ASSUME NEW g \in GID, NEW k \in Runs, WorkerSucceeds(g, k) PROVE TypeOK'
  BY <1>37 DEF WorkerSucceeds, WorkerStep, WorkerPC, ErrorCode, TypeOK
<1>38. ASSUME NEW g \in GID, NEW k \in Runs, WorkerFails(g, k) PROVE TypeOK'
  BY <1>38 DEF WorkerFails, WorkerStep, WorkerPC, ErrorCode, TypeOK
<1>39. ASSUME NEW g \in GID, NEW k \in Runs, WorkerCanceled(g, k) PROVE TypeOK'
  BY <1>39 DEF WorkerCanceled, WorkerStep, WorkerPC, ErrorCode, TypeOK
<1>40. ASSUME NEW g \in GID, NEW k \in Runs, WorkerEnds(g, k) PROVE TypeOK'
  BY <1>40 DEF WorkerEnds, WorkerStep, WorkerPC, CancelCurrent, TypeOK
<1>41. CASE UNCHANGED vars
  BY <1>41 DEF TypeOK
<1> QED
  BY <1>1, <1>2, <1>3, <1>4, <1>5, <1>6, <1>7, <1>8, <1>9, <1>10,
     <1>11, <1>12, <1>13, <1>14, <1>15, <1>16, <1>17, <1>18, <1>19, <1>20,
     <1>21, <1>22, <1>23, <1>24, <1>25, <1>26, <1>27, <1>28, <1>29, <1>30,
     <1>31, <1>32, <1>33, <1>34, <1>35, <1>36, <1>37, <1>38, <1>39, <1>40,
     <1>41
     DEF Next, Client, QueueManager, Worker

\* Clients and workers leave the variables of the queue manager alone.
LEMMA ManagerIsAlone ==
    Client \/ (\E g \in GID, k \in Runs : Worker(g, k)) => UNCHANGED manager
<1>1. ASSUME Client PROVE UNCHANGED manager
  <2>1. ASSUME NEW g \in GID, NEW paused, NEW pos,
               AddGroup(g, paused) \/ AddRejected(g) \/ AddToWaiting(g, pos)
        PROVE  UNCHANGED manager
    BY <2>1 DEF AddGroup, AddRejected, AddToWaiting
  <2>2. ASSUME NEW g \in GID, NEW force,
               RemoveActive(g, force) \/ RemoveUnstarted(g, force)
               \/ RemoveWaiting(g, force)
        PROVE  UNCHANGED manager
    BY <2>2 DEF RemoveActive, RemoveUnstarted, RemoveWaiting
  <2>3. ASSUME NEW g \in GID, NEW force,
               PauseActive(g, force) \/ PauseUnstarted(g) \/ PauseWaiting(g)
               \/ Resume(g)
        PROVE  UNCHANGED manager
    BY <2>3 DEF PauseActive, PauseUnstarted, PauseWaiting, Resume
  <2>4. ASSUME NEW g \in GID, NEW pos, ChangeOption(g) \/ ChangePosition(g, pos)
        PROVE  UNCHANGED manager
    BY <2>4 DEF ChangeOption, ChangePosition
  <2>5. ASSUME NEW n, NEW force,
               ChangeMaxActive(n) \/ MarkShutdown(force) \/ CancelEngine
        PROVE  UNCHANGED manager
    BY <2>5 DEF ChangeMaxActive, MarkShutdown, CancelEngine
  <2> QED
    BY <1>1, <2>1, <2>2, <2>3, <2>4, <2>5 DEF Client
<1>2. ASSUME NEW g \in GID, NEW k \in Runs, Worker(g, k) PROVE UNCHANGED manager
  BY <1>2 DEF Worker, WorkerBegin, WorkerSucceeds, WorkerFails, WorkerCanceled,
              WorkerEnds, WorkerStep
<1> QED
  BY <1>1, <1>2

\* The queue manager goes to load only with an entry left, and to append only
\* with the group it has just loaded.
LEMMA ReadyStep == TypeOK /\ ManagerReady /\ [Next]_vars => ManagerReady'
<1> SUFFICES ASSUME TypeOK, ManagerReady, [Next]_vars PROVE ManagerReady'
  OBVIOUS
<1>1. CASE Client \/ \E g \in GID, k \in Runs : Worker(g, k)
  BY <1>1, ManagerIsAlone DEF ManagerReady, manager
<1>2. CASE UNCHANGED vars
  BY <1>2 DEF ManagerReady, vars, manager
<1>3. CASE QueueManager
  <2>1. CASE \E paused \in BOOLEAN : QLoad(paused)
    BY <2>1 DEF QLoad, ManagerReady
  <2>2. CASE QDeferred
    BY <2>2 DEF QDeferred, ManagerReady
  <2>3. CASE QTick \/ QCheck \/ QChecked \/ QFull \/ QLoadAppend \/ QLoadFails \/ QFill
             \/ QPromoted \/ QIdle \/ QDrain \/ QStopped
    BY <2>3 DEF QTick, QCheck, QChecked, QFull, QLoadAppend, QLoadFails, QFill,
                QPromoted, QIdle, QDrain, QStopped, ManagerReady
  <2>4. CASE \E g \in GID : QReap(g) \/ QStart(g) \/ QDrainActive(g) \/ QDrainWaiting(g)
    BY <2>4 DEF QReap, QStart, QDrainActive, QDrainWaiting, ManagerReady
  <2>5. CASE \E g \in GID : QSkipGone(g) \/ QSkipPaused(g) \/ QPromote(g)
    BY <2>5 DEF QSkipGone, QSkipPaused, QPromote, PromoteNext, ManagerReady
  <2> QED
    BY <1>3, <2>1, <2>2, <2>3, <2>4, <2>5 DEF QueueManager
<1> QED
  BY <1>1, <1>2, <1>3 DEF Next

\* The engine's state keeps its types in every behaviour, whatever the number
\* of downloads, of clients' calls and of slots.
THEOREM TypeCorrect == Spec => []TypeOK
<1>1. Init => TypeOK /\ ManagerReady
  BY TypeInit
<1>2. (TypeOK /\ ManagerReady) /\ [Next]_vars => (TypeOK /\ ManagerReady)'
  BY TypeStep, ReadyStep
<1> QED
  BY <1>1, <1>2, PTL DEF Spec
=============================================================================
