------------------------- MODULE RequestGroupsFate -------------------------
(***************************************************************************)
(* The fate of every download: proofs of OneFate and of NeverReturns.      *)
(***************************************************************************)
EXTENDS RequestGroupsProofs

(***************************************************************************)
(* OneFate is not inductive by itself: a result could exist for a download *)
(* that has not been accepted, or the deferred input could name one that   *)
(* has, and the next Add or load would give it a second fate.              *)
(***************************************************************************)

\* Results are of accepted downloads; deferred entries are new and distinct.
Accounted ==
    /\ \A i \in DOMAIN stopped : stopped[i].gid \in used
    /\ \A i \in DOMAIN input : input[i] \notin used
    /\ IsInjective(input)

FateInv == TypeOK /\ ManagerReady /\ Accounted /\ OneFate

\* The start-up list is split without repetition.
LEMMA FateInit == Init => Accounted /\ OneFate
<1> SUFFICES ASSUME Init PROVE Accounted /\ OneFate
  OBVIOUS
<1>1. PICK k \in 0..Len(Startup) : \E m \in k..Len(Startup) :
        /\ waiting = SubSeq(Startup, 1, k)
        /\ input = SubSeq(Startup, k + 1, m)
  BY DEF Init
<1>2. PICK m \in k..Len(Startup) : input = SubSeq(Startup, k + 1, m)
  BY <1>1
<1>3. /\ Startup \in Seq(GID) /\ k \in Nat /\ m \in Nat /\ k <= m /\ m <= Len(Startup)
      /\ \A a, b \in 1..Len(Startup) : Startup[a] = Startup[b] => a = b
  BY StartupAssumption DEF IsInjective
<1>4. DOMAIN waiting = 1..k /\ \A i \in 1..k : waiting[i] = Startup[i]
  BY <1>1, <1>3
<1>5. DOMAIN input = 1..(m - k) /\ \A i \in 1..(m - k) : input[i] = Startup[k + i]
  BY <1>2, <1>3
<1>6. \A i \in DOMAIN input : input[i] \notin used
  <2> SUFFICES ASSUME NEW i \in DOMAIN input, input[i] \in used PROVE FALSE
    OBVIOUS
  <2>1. PICK j \in 1..k : input[i] = Startup[j]
    BY <1>4 DEF Init, ToSet
  <2>2. i \in 1..(m - k) /\ Startup[k + i] = Startup[j]
    BY <1>5, <2>1
  <2> QED
    BY <1>3, <2>1, <2>2
<1>7. IsInjective(input)
  <2> SUFFICES ASSUME NEW a \in 1..(m - k), NEW b \in 1..(m - k), input[a] = input[b]
               PROVE  a = b
    BY <1>5 DEF IsInjective
  <2>1. /\ Startup[k + a] = Startup[k + b]
        /\ k + a \in 1..Len(Startup) /\ k + b \in 1..Len(Startup)
    BY <1>3, <1>5
  <2>2. k + a = k + b
    BY <1>3, <2>1
  <2> QED
    BY <1>3, <2>2
<1>8. stopped = <<>> /\ dropped = {} /\ used = groups
  BY DEF Init
<1> QED
  BY <1>6, <1>7, <1>8 DEF Accounted, OneFate

\* Steps that leave the map, the results and the deferred input alone.
LEMMA FateFrame ==
    ASSUME Accounted, OneFate, UNCHANGED <<groups, used, dropped, stopped, input>>
    PROVE  Accounted' /\ OneFate'
  BY DEF Accounted, OneFate, IsInjective

\* addStoppedLocked on a group of the map ends it once.
LEMMA FateStop ==
    ASSUME FateInv, NEW g \in groups, NEW status, NEW code, Stop(g, status, code),
           UNCHANGED <<used, dropped, input>>
    PROVE  Accounted' /\ OneFate'
<1> DEFINE r == [gid |-> g, status |-> status, code |-> code]
<1>1. /\ stopped \in Seq(Result) /\ stopped' = Append(stopped, r)
      /\ groups' = groups \ {g} /\ g \in used
  BY DEF FateInv, TypeOK, Stop
<1>2. /\ Len(stopped) \in Nat /\ DOMAIN stopped = 1..Len(stopped)
      /\ DOMAIN stopped' = 1..(Len(stopped) + 1)
      /\ \A i \in 1..Len(stopped) : stopped'[i] = stopped[i]
      /\ stopped'[Len(stopped) + 1] = r
  BY <1>1
<1>3. r.gid = g
  OBVIOUS
<1> HIDE DEF r
<1>4. Accounted'
  BY <1>1, <1>2, <1>3 DEF FateInv, Accounted, IsInjective
<1>5. ASSUME NEW h \in used', h # g
      PROVE  {i \in DOMAIN stopped' : stopped'[i].gid = h}
               = {i \in DOMAIN stopped : stopped[i].gid = h}
  BY <1>2, <1>3, <1>5
<1>6. {i \in DOMAIN stopped : stopped[i].gid = g} = {} /\ g \notin dropped
  BY <1>1 DEF FateInv, OneFate
<1>7. {i \in DOMAIN stopped' : stopped'[i].gid = g} = {Len(stopped) + 1}
  BY <1>2, <1>3, <1>6
<1>8. OneFate'
  <2> SUFFICES ASSUME NEW h \in used'
               PROVE  LET results == {i \in DOMAIN stopped' : stopped'[i].gid = h} IN
                      \/ h \in groups' /\ h \notin dropped' /\ results = {}
                      \/ h \notin groups' /\ h \in dropped' /\ results = {}
                      \/ h \notin groups' /\ h \notin dropped' /\ \E i \in results : results = {i}
    BY DEF OneFate
  <2>1. CASE h = g
    BY <1>1, <1>6, <1>7, <2>1
  <2>2. CASE h # g
    BY <1>1, <1>5, <2>2 DEF FateInv, OneFate
  <2> QED
    BY <2>1, <2>2
<1> QED
  BY <1>4, <1>8

\* A download that is accepted for the first time is in the map, or is dropped.
LEMMA FateNew ==
    ASSUME FateInv, NEW g, g \notin used, used' = used \cup {g}, UNCHANGED stopped,
           \/ groups' = groups \cup {g} /\ dropped' = dropped
           \/ groups' = groups /\ dropped' = dropped \cup {g},
           \A i \in DOMAIN input' : input'[i] \notin used', IsInjective(input')
    PROVE  Accounted' /\ OneFate'
<1>1. Accounted'
  BY DEF FateInv, Accounted, IsInjective
<1>2. {i \in DOMAIN stopped : stopped[i].gid = g} = {}
  BY DEF FateInv, Accounted
<1>3. g \notin groups /\ g \notin dropped
  BY DEF FateInv, TypeOK
<1>4. OneFate'
  <2> SUFFICES ASSUME NEW h \in used'
               PROVE  LET results == {i \in DOMAIN stopped : stopped[i].gid = h} IN
                      \/ h \in groups' /\ h \notin dropped' /\ results = {}
                      \/ h \notin groups' /\ h \in dropped' /\ results = {}
                      \/ h \notin groups' /\ h \notin dropped' /\ \E i \in results : results = {i}
    BY DEF OneFate
  <2>1. CASE h = g
    BY <1>2, <1>3, <2>1
  <2>2. CASE h # g
    BY <2>2 DEF FateInv, OneFate
  <2> QED
    BY <2>1, <2>2
<1> QED
  BY <1>1, <1>4

\* loadNextDeferredInputEntry takes the first entry; the others stay new.
LEMMA FateLoad ==
    ASSUME FateInv, NEW paused \in BOOLEAN, QLoad(paused)
    PROVE  Accounted' /\ OneFate'
<1> DEFINE g == Head(input)
<1>1. input \in Seq(GID) /\ input # <<>> /\ input' = Tail(input)
  BY DEF FateInv, TypeOK, ManagerReady, QLoad
<1>2. /\ Len(input) \in Nat \ {0} /\ DOMAIN input = 1..Len(input) /\ g = input[1]
      /\ DOMAIN input' = 1..(Len(input) - 1)
      /\ \A i \in 1..(Len(input) - 1) : input'[i] = input[i + 1]
  BY <1>1
<1>3. /\ used' = used \cup {g} /\ groups' = groups \cup {g}
      /\ dropped' = dropped /\ UNCHANGED stopped
  BY DEF QLoad
<1>4. /\ \A i \in 1..Len(input) : input[i] \notin used
      /\ \A a, b \in 1..Len(input) : input[a] = input[b] => a = b
  BY <1>2 DEF FateInv, Accounted, IsInjective
<1> HIDE DEF g
<1>5. \A i \in DOMAIN input' : input'[i] \notin used'
  <2> SUFFICES ASSUME NEW i \in 1..(Len(input) - 1) PROVE input[i + 1] \notin used \cup {g}
    BY <1>2, <1>3
  <2>1. i + 1 \in 1..Len(input) /\ 1 \in 1..Len(input) /\ i + 1 # 1
    BY <1>2
  <2> QED
    BY <1>2, <1>4, <2>1
<1>6. IsInjective(input')
  <2> SUFFICES ASSUME NEW a \in 1..(Len(input) - 1), NEW b \in 1..(Len(input) - 1),
                      input[a + 1] = input[b + 1]
               PROVE  a = b
    BY <1>2 DEF IsInjective
  <2>1. a + 1 \in 1..Len(input) /\ b + 1 \in 1..Len(input)
    BY <1>2
  <2>2. a + 1 = b + 1
    BY <1>4, <2>1
  <2> QED
    BY <2>2
<1>7. g \notin used
  BY <1>2, <1>4
<1> QED
  BY <1>3, <1>5, <1>6, <1>7, FateNew

\* Every step keeps the fates.
LEMMA FateStep == FateInv /\ [Next]_vars => Accounted' /\ OneFate'
<1> SUFFICES ASSUME FateInv, [Next]_vars PROVE Accounted' /\ OneFate'
  OBVIOUS
<1> USE DEF manager
<1>0. Accounted /\ OneFate
  BY DEF FateInv
<1>1. ASSUME NEW g \in GID, NEW paused \in BOOLEAN, AddGroup(g, paused)
      PROVE  Accounted' /\ OneFate'
  <2>1. /\ g \notin used /\ used' = used \cup {g} /\ UNCHANGED <<stopped, input>>
        /\ groups' = groups \cup {g} /\ dropped' = dropped /\ g \notin ToSet(input)
    BY <1>1 DEF AddGroup
  <2>2. (\A i \in DOMAIN input' : input'[i] \notin used') /\ IsInjective(input')
    BY <1>0, <2>1 DEF Accounted, ToSet, IsInjective
  <2> QED
    BY <2>1, <2>2, FateNew
<1>2. ASSUME NEW g \in GID, AddRejected(g) PROVE Accounted' /\ OneFate'
  <2>1. /\ g \notin used /\ used' = used \cup {g} /\ UNCHANGED <<stopped, input>>
        /\ groups' = groups /\ dropped' = dropped \cup {g} /\ g \notin ToSet(input)
    BY <1>2 DEF AddRejected
  <2>2. (\A i \in DOMAIN input' : input'[i] \notin used') /\ IsInjective(input')
    BY <1>0, <2>1 DEF Accounted, ToSet, IsInjective
  <2> QED
    BY <2>1, <2>2, FateNew
<1>3. ASSUME NEW g \in GID, NEW force \in BOOLEAN, RemoveUnstarted(g, force)
      PROVE  Accounted' /\ OneFate'
  BY <1>3, FateStop DEF RemoveUnstarted
<1>4. ASSUME NEW g \in GID, NEW force \in BOOLEAN, RemoveWaiting(g, force)
      PROVE  Accounted' /\ OneFate'
  <2>1. /\ g \in groups /\ groups' = groups \ {g} /\ dropped' = dropped \cup {g}
        /\ UNCHANGED <<used, stopped, input>>
    BY <1>4 DEF RemoveWaiting
  <2>2. Accounted'
    BY <1>0, <2>1 DEF Accounted, IsInjective
  <2>3. OneFate'
    BY <1>0, <2>1 DEF OneFate
  <2> QED
    BY <2>2, <2>3
<1>5. ASSUME NEW g \in GID, QReap(g) PROVE Accounted' /\ OneFate'
  <2>1. UNCHANGED <<used, dropped, input>>
    BY <1>5 DEF QReap
  <2>2. CASE g \notin groups \/ pauseReq[g]
    BY <1>0, <1>5, <2>1, <2>2, FateFrame DEF QReap, ReapPaused
  <2>3. CASE g \in groups /\ ~pauseReq[g]
    <3>1. \E status, code : Stop(g, status, code)
      BY <1>5, <2>3 DEF QReap, ReapHalted, ReapFinished
    <3> QED
      BY <2>1, <2>3, <3>1, FateStop
  <2> QED
    BY <2>2, <2>3
<1>6. ASSUME NEW paused \in BOOLEAN, QLoad(paused) PROVE Accounted' /\ OneFate'
  BY <1>6, FateLoad
<1>7. ASSUME QLoadFails PROVE Accounted' /\ OneFate'
  BY <1>0, <1>7 DEF QLoadFails, Accounted, OneFate, IsInjective
<1>8. ASSUME NEW g \in GID, QDrainActive(g) PROVE Accounted' /\ OneFate'
  <2>1. CASE g \in groups /\ state[g] = "active"
    BY <1>8, <2>1, FateStop DEF QDrainActive
  <2>2. CASE ~(g \in groups /\ state[g] = "active")
    BY <1>0, <1>8, <2>2, FateFrame DEF QDrainActive
  <2> QED
    BY <2>1, <2>2
<1>9. ASSUME NEW g \in GID, QDrainWaiting(g) PROVE Accounted' /\ OneFate'
  <2>1. CASE g \in groups
    BY <1>9, <2>1, FateStop DEF QDrainWaiting
  <2>2. CASE g \notin groups
    BY <1>0, <1>9, <2>2, FateFrame DEF QDrainWaiting
  <2> QED
    BY <2>1, <2>2
<1>10. CASE UNCHANGED <<groups, used, dropped, stopped, input>>
  BY <1>0, <1>10, FateFrame
<1>11. ASSUME NEW g \in GID, NEW force \in BOOLEAN,
              \/ \E pos \in 1..(Len(waiting) + 1) : AddToWaiting(g, pos)
              \/ PauseActive(g, force) \/ RemoveActive(g, force)
              \/ PauseUnstarted(g) \/ PauseWaiting(g) \/ Resume(g) \/ ChangeOption(g)
              \/ \E pos \in 1..Len(waiting) : ChangePosition(g, pos)
       PROVE  UNCHANGED <<groups, used, dropped, stopped, input>>
  BY <1>11 DEF AddToWaiting, PauseActive, RemoveActive, PauseUnstarted, PauseWaiting,
               Resume, ChangeOption, ChangePosition
<1>12. ASSUME \/ \E n \in 0..MaxActive : ChangeMaxActive(n)
              \/ \E force \in BOOLEAN : MarkShutdown(force)
              \/ CancelEngine
       PROVE  UNCHANGED <<groups, used, dropped, stopped, input>>
  BY <1>12 DEF ChangeMaxActive, MarkShutdown, CancelEngine
<1>13. ASSUME \/ QTick \/ QCheck \/ QChecked \/ QFull \/ QDeferred \/ QLoadAppend \/ QFill
              \/ QPromoted \/ QIdle \/ QDrain \/ QStopped
       PROVE  UNCHANGED <<groups, used, dropped, stopped, input>>
  BY <1>13 DEF QTick, QCheck, QChecked, QFull, QDeferred, QLoadAppend, QFill, QPromoted,
               QIdle, QDrain, QStopped
<1>14. ASSUME NEW g \in GID, QSkipGone(g) \/ QSkipPaused(g) \/ QPromote(g) \/ QStart(g)
       PROVE  UNCHANGED <<groups, used, dropped, stopped, input>>
  BY <1>14 DEF QSkipGone, QSkipPaused, QPromote, PromoteNext, QStart
<1>15. ASSUME NEW g \in GID, NEW k \in Runs, Worker(g, k)
       PROVE  UNCHANGED <<groups, used, dropped, stopped, input>>
  BY <1>15 DEF Worker, WorkerBegin, WorkerSucceeds, WorkerFails, WorkerCanceled,
               WorkerEnds, WorkerStep
<1>16. CASE UNCHANGED vars
  BY <1>10, <1>16 DEF vars
<1>17. CASE Client
  BY <1>1, <1>2, <1>3, <1>4, <1>10, <1>11, <1>12, <1>17 DEF Client
<1>18. CASE QueueManager
  BY <1>5, <1>6, <1>7, <1>8, <1>9, <1>10, <1>13, <1>14, <1>18 DEF QueueManager
<1> QED
  BY <1>10, <1>15, <1>16, <1>17, <1>18 DEF Next

LEMMA FateInductive == Spec => []FateInv
<1>1. Init => FateInv
  BY TypeInit, FateInit DEF FateInv
<1>2. FateInv /\ [Next]_vars => FateInv'
  BY TypeStep, ReadyStep, FateStep DEF FateInv
<1> QED
  BY <1>1, <1>2, PTL DEF Spec

\* No interleaving of clients, queue manager and workers loses a download,
\* records two results for it, or both drops it and records one.
THEOREM OneFateHolds == Spec => []OneFate
<1>1. FateInv => OneFate
  BY DEF FateInv
<1> QED
  BY <1>1, FateInductive, PTL

\* Only Add, the deferred load and QStart could bring a download back.
LEMMA ReturnStep ==
    ASSUME FateInv, [Next]_vars, NEW h \in used \ groups
    PROVE  h \notin groups' /\ gen'[h] = gen[h]
<1> DEFINE Goal == h \notin groups' /\ gen'[h] = gen[h]
<1>1. ASSUME NEW g \in GID,
             \/ \E paused \in BOOLEAN : AddGroup(g, paused)
             \/ AddRejected(g)
             \/ \E pos \in 1..(Len(waiting) + 1) : AddToWaiting(g, pos)
             \/ \E force \in BOOLEAN : PauseActive(g, force) \/ RemoveActive(g, force)
                  \/ RemoveUnstarted(g, force) \/ RemoveWaiting(g, force)
             \/ PauseUnstarted(g) \/ PauseWaiting(g) \/ Resume(g) \/ ChangeOption(g)
             \/ \E pos \in 1..Len(waiting) : ChangePosition(g, pos)
      PROVE  Goal
  BY <1>1 DEF AddGroup, AddRejected, AddToWaiting, PauseActive, RemoveActive,
              RemoveUnstarted, RemoveWaiting, PauseUnstarted, PauseWaiting, Resume,
              ChangeOption, ChangePosition, Stop
<1>2. ASSUME \/ \E n \in 0..MaxActive : ChangeMaxActive(n)
             \/ \E force \in BOOLEAN : MarkShutdown(force)
             \/ CancelEngine
      PROVE  Goal
  BY <1>2 DEF ChangeMaxActive, MarkShutdown, CancelEngine
<1>3. ASSUME \/ QTick \/ QCheck \/ QChecked \/ QFull \/ QDeferred \/ QLoadAppend
             \/ QLoadFails \/ QFill \/ QPromoted \/ QIdle \/ QDrain \/ QStopped
      PROVE  Goal
  BY <1>3 DEF QTick, QCheck, QChecked, QFull, QDeferred, QLoadAppend, QLoadFails, QFill,
              QPromoted, QIdle, QDrain, QStopped
<1>4. ASSUME NEW paused \in BOOLEAN, QLoad(paused) PROVE Goal
  <2>1. Head(input) \notin used
    BY <1>4 DEF FateInv, TypeOK, ManagerReady, Accounted, QLoad
  <2> QED
    BY <1>4, <2>1 DEF QLoad
<1>5. ASSUME NEW g \in GID, QStart(g) PROVE Goal
  BY <1>5 DEF QStart, FateInv, TypeOK
<1>6. ASSUME NEW g \in GID, QSkipGone(g) \/ QSkipPaused(g) \/ QPromote(g) PROVE Goal
  BY <1>6 DEF QSkipGone, QSkipPaused, QPromote, PromoteNext
<1>7. ASSUME NEW g \in GID, QReap(g) \/ QDrainActive(g) \/ QDrainWaiting(g) PROVE Goal
  BY <1>7 DEF QReap, ReapPaused, ReapHalted, ReapFinished, QDrainActive, QDrainWaiting,
              Stop
<1>8. ASSUME NEW g \in GID, NEW k \in Runs, Worker(g, k) PROVE Goal
  BY <1>8 DEF Worker, WorkerBegin, WorkerSucceeds, WorkerFails, WorkerCanceled,
              WorkerEnds, WorkerStep
<1>9. CASE UNCHANGED vars
  BY <1>9 DEF vars
<1>10. CASE Client
  BY <1>1, <1>2, <1>10 DEF Client
<1>11. CASE QueueManager
  BY <1>3, <1>4, <1>5, <1>6, <1>7, <1>11 DEF QueueManager
<1> QED
  BY <1>8, <1>9, <1>10, <1>11 DEF Next

\* A download that has left the group map stays out of it and is given no
\* worker, however late the promotion, the load or the worker that knew it.
THEOREM NeverReturnsHolds == Spec => NeverReturns
<1>1. FateInv /\ [Next]_vars
        => [\A g \in used \ groups : g \notin groups' /\ gen'[g] = gen[g]]_vars
  BY ReturnStep
<1> QED
  BY <1>1, FateInductive, PTL DEF Spec, NeverReturns
=============================================================================
