--------------------------- MODULE ThrottleProofs ---------------------------
(***************************************************************************)
(* The rate limiter neither loses nor invents a token and lets no waiter   *)
(* sleep on tokens it could take, for any transfers, needs and rates.      *)
(***************************************************************************)
EXTENDS Throttle, TLAPS

Pcs == {"idle", "free", "load", "swap", "push", "reload", "reswap", "block", "missed",
        "select", "selectmissed", "unlist", "ok", "cancelled"}
Idle == {"none", "run", "select", "divide"}
Goroutine == [pc : Idle \cup {"remainder", "add", "signal"}, gen : Nat, rate : Nat,
              carry : Nat, incr : Nat]
Call == [pc : Pcs, cur : Nat, gen : Nat]

Typed ==
  /\ rate \in Nat /\ bucket \in Nat /\ carryover \in Nat
  /\ due \in Int /\ taken \in Nat
  /\ done.gen \in Nat /\ done = [gen |-> done.gen, closed |-> done.closed]
  /\ runner \in [Runners -> Goroutine]
  /\ wait \in [Waiters -> Call]

\* Every token a tick stands for is in one place.
Account == TicksPerSecond * (bucket + taken + Adding(1) + Adding(2)) + carryover
Accounted == ~raced => Account = due

\* One goroutine at most is between its reads of the carryover, which is what
\* it was at the first.
Alone ==
  ~raced => \A i \in Runners : Updating(i) =>
    /\ runner[i].carry = carryover
    /\ runner[i].incr = (runner[i].rate + carryover) \div TicksPerSecond
    /\ \A j \in Runners : Updating(j) => j = i

\* A swap is tried only with a bucket that was seen to hold enough.
SawEnough ==
  \A w \in Waiters : wait[w].pc \in {"swap", "reswap"} => wait[w].cur >= Need[w]

\* From PushBack to the end of the select, the list or the channel has w.
Listed ==
  \A w \in Waiters :
    wait[w].pc \in {"reload", "reswap", "block", "missed", "select", "selectmissed"} =>
      w \in waiters \cup signal

\* Who goes to sleep without having lost a swap does not sleep on tokens.
Awake ==
  \A w \in Waiters :
    (wait[w].pc \in {"block", "select"} /\ bucket >= Need[w] /\ w \notin signal) =>
      \E i \in Runners : runner[i].pc = "signal"

IInv == Typed /\ Accounted /\ Alone /\ SawEnough /\ Listed /\ Awake

ConstantsAreNumbers ==
  /\ Need \in [Waiters -> Nat]
  /\ Rates \subseteq Nat
  /\ TicksPerSecond \in Nat \ {0}

-----------------------------------------------------------------------------

\* refillBucket: the quotient and the remainder it keeps make up the sum.
LEMMA Division ==
    ASSUME NEW a \in Nat, NEW d \in Nat, d > 0
    PROVE  /\ a \div d \in Nat /\ a % d \in Nat
           /\ d * (a \div d) + (a % d) = a
<1>1. a \div d \in Nat
  OBVIOUS
<1>2. a % d \in Nat
  OBVIOUS
<1>3. d * (a \div d) + (a % d) = a
  OBVIOUS
<1>4. QED
  BY <1>1, <1>2, <1>3

\* Tokens that join or leave the account do so TicksPerSecond at a time.
LEMMA Distributes ==
    ASSUME NEW d \in Int, NEW x \in Int, NEW y \in Int
    PROVE  d * (x + y) = d * x + d * y
  OBVIOUS

\* NewThrottle: an empty bucket, nobody waiting.
LEMMA InitSound == ASSUME ConstantsAreNumbers, ThrottleInit PROVE IInv
<1> USE DEF ConstantsAreNumbers, ThrottleInit, Runners, Gone, Ticking, At
<1>1. Typed
  <2>1. runner \in [Runners -> Goroutine]
    BY DEF Goroutine, Idle
  <2>2. wait \in [Waiters -> Call]
    BY DEF Call, Pcs
  <2>3. QED
    BY <2>1, <2>2 DEF Typed
<1>2. Accounted /\ Alone
  BY DEF Accounted, Account, Adding, Alone, Updating
<1>3. SawEnough /\ Listed /\ Awake
  BY DEF SawEnough, Listed, Awake
<1>4. QED
  BY <1>1, <1>2, <1>3 DEF IInv

\* Steps that touch neither the bucket nor a refill goroutine keep the
\* account.
LEMMA Bystander ==
    ASSUME IInv, UNCHANGED <<bucket, taken, carryover, due, raced, runner>>
    PROVE  Accounted' /\ Alone'
  BY DEF IInv, Accounted, Account, Adding, Alone, Updating

\* A goroutine that holds nothing, before the step and after it.
LEMMA IdleSound ==
    ASSUME IInv, NEW i \in Runners, NEW g \in Goroutine,
           runner[i].pc \in Idle, g.pc \in Idle,
           runner' = [runner EXCEPT ![i] = g],
           UNCHANGED <<rate, bucket, carryover, waiters, signal, wait, due, raced, taken>>,
           done'.gen \in Nat, done' = [gen |-> done'.gen, closed |-> done'.closed]
    PROVE  IInv'
<1>1. /\ runner' \in [Runners -> Goroutine] /\ runner'[i] = g
      /\ \A j \in Runners : j # i => runner'[j] = runner[j]
  BY DEF IInv, Typed
<1>2. Adding(1)' = Adding(1) /\ Adding(2)' = Adding(2)
  BY <1>1 DEF IInv, Runners, Adding, Idle
<1>3. \A j \in Runners : Updating(j)' => j # i /\ Updating(j)
  BY <1>1 DEF Updating, Idle
<1>4. Typed'
  BY <1>1 DEF IInv, Typed
<1>5. Accounted'
  BY <1>2 DEF IInv, Accounted, Account
<1>6. Alone'
  BY <1>1, <1>3 DEF IInv, Alone
<1>7. SawEnough' /\ Listed'
  BY DEF IInv, SawEnough, Listed
<1>8. Awake'
  BY <1>1 DEF IInv, Awake, Idle
<1>9. QED
  BY <1>4, <1>5, <1>6, <1>7, <1>8 DEF IInv

\* refillBucket reads the carryover: nobody else may be between two reads.
LEMMA DivideSound ==
    ASSUME ConstantsAreNumbers, IInv, NEW i \in Runners, Divide(i)
    PROVE  IInv'
<1> DEFINE q == (runner[i].rate + carryover) \div TicksPerSecond
<1>1. /\ runner[i].pc = "divide"
      /\ runner' = [runner EXCEPT ![i].pc = "remainder", ![i].carry = carryover,
                                  ![i].incr = q]
      /\ raced' = (raced \/ \E j \in Runners : Updating(j))
      /\ UNCHANGED <<rate, bucket, carryover, waiters, signal, done, wait, due, taken>>
  BY DEF Divide
<1>2. q \in Nat
  <2>1. /\ runner[i].rate + carryover \in Nat
        /\ TicksPerSecond \in Nat /\ TicksPerSecond > 0
    BY DEF ConstantsAreNumbers, IInv, Typed, Goroutine
  <2>2. QED
    BY <2>1, Division
<1> HIDE DEF q
<1>3. /\ runner'[i].pc = "remainder" /\ runner'[i].carry = carryover
      /\ runner'[i].incr = q /\ runner'[i].rate = runner[i].rate
      /\ \A j \in Runners : j # i => runner'[j] = runner[j]
  BY <1>1 DEF IInv, Typed, Goroutine
<1>4. runner' \in [Runners -> Goroutine]
  <2> DEFINE a == [runner[i] EXCEPT !.pc = "remainder"]
             b == [a EXCEPT !.carry = carryover]
             g == [b EXCEPT !.incr = q]
  <2>1. a \in Goroutine
    BY DEF IInv, Typed, Goroutine
  <2>2. runner' = [runner EXCEPT ![i] = g]
    BY <1>1
  <2> HIDE DEF a
  <2>3. b \in Goroutine
    BY <2>1 DEF IInv, Typed, Goroutine
  <2> HIDE DEF b
  <2>4. g \in Goroutine
    BY <1>2, <2>3 DEF Goroutine
  <2> HIDE DEF g
  <2>5. QED
    BY <2>2, <2>4 DEF IInv, Typed
<1>5. Typed'
  BY <1>1, <1>4 DEF IInv, Typed
<1>6. Accounted'
  <2>1. Adding(i) = 0 /\ Adding(i)' = 0
    BY <1>1, <1>3 DEF Adding
  <2>2. \A j \in Runners : j # i => Adding(j)' = Adding(j)
    BY <1>3 DEF Adding
  <2>3. Adding(1)' = Adding(1) /\ Adding(2)' = Adding(2)
    BY <2>1, <2>2 DEF Runners
  <2>4. QED
    BY <1>1, <2>3 DEF IInv, Accounted, Account
<1>7. Alone'
  <2> SUFFICES ASSUME ~raced', NEW j \in Runners, Updating(j)'
               PROVE  /\ runner'[j].carry = carryover'
                      /\ runner'[j].incr = (runner'[j].rate + carryover') \div TicksPerSecond
                      /\ j = i
    BY DEF Alone
  <2>1. j = i
    BY <1>1, <1>3 DEF Updating
  <2>2. QED
    BY <1>1, <1>3, <2>1 DEF q
<1>8. SawEnough' /\ Listed'
  BY <1>1 DEF IInv, SawEnough, Listed
<1>9. Awake'
  BY <1>1, <1>3 DEF IInv, Awake
<1>10. QED
  BY <1>5, <1>6, <1>7, <1>8, <1>9 DEF IInv

\* refillBucket stores the fraction it keeps: with the tokens it will add, it
\* makes up what the tick stands for.
LEMMA RemainderSound ==
    ASSUME ConstantsAreNumbers, IInv, NEW i \in Runners, Remainder(i)
    PROVE  IInv'
<1> DEFINE r == runner[i].rate
           q == runner[i].incr
           g == IF q = 0 THEN Ticking ELSE [At("add") EXCEPT !.incr = q]
<1>1. PICK c \in {runner[i].carry, carryover} : carryover' = (r + c) % TicksPerSecond
  BY DEF Remainder
<1>2. /\ runner[i].pc = "remainder" /\ runner' = [runner EXCEPT ![i] = g]
      /\ due' = due + r
      /\ UNCHANGED <<rate, bucket, waiters, signal, done, wait, raced, taken>>
  BY DEF Remainder, Updating
<1>3. /\ TicksPerSecond \in Nat /\ TicksPerSecond > 0
      /\ r \in Nat /\ c \in Nat /\ q \in Nat /\ r + c \in Nat
  BY <1>1 DEF ConstantsAreNumbers, IInv, Typed, Goroutine
<1>4. /\ g \in Goroutine /\ g.pc \in {"run", "add"}
      /\ (IF g.pc = "add" THEN g.incr ELSE 0) = q
  BY <1>3 DEF Goroutine, Idle, Ticking, At
<1> HIDE DEF g
<1>5. /\ runner' \in [Runners -> Goroutine] /\ runner'[i] = g
      /\ \A j \in Runners : j # i => runner'[j] = runner[j]
  BY <1>2, <1>4 DEF IInv, Typed
<1>6. Typed'
  <2>1. carryover' \in Nat
    BY <1>1, <1>3, Division
  <2>2. due' \in Int
    BY <1>2, <1>3 DEF IInv, Typed
  <2>3. QED
    BY <1>2, <1>5, <2>1, <2>2 DEF IInv, Typed
<1>7. Adding(1)' + Adding(2)' = Adding(1) + Adding(2) + q
  <2>1. Adding(i) = 0 /\ Adding(i)' = q
    BY <1>2, <1>4, <1>5 DEF Adding
  <2>2. \A j \in Runners : j # i => Adding(j)' = Adding(j)
    BY <1>5 DEF Adding
  <2>3. Adding(1) \in Nat /\ Adding(2) \in Nat
    BY DEF IInv, Typed, Goroutine, Runners, Adding
  <2>4. QED
    BY <1>3, <2>1, <2>2, <2>3 DEF Runners
<1>8. ASSUME ~raced PROVE Account' = due'
  <2> DEFINE old == bucket + taken + Adding(1) + Adding(2)
  <2>1. old \in Int /\ TicksPerSecond \in Int /\ q \in Int
    BY <1>3 DEF IInv, Typed, Goroutine, Runners, Adding
  <2>2. bucket' + taken' + Adding(1)' + Adding(2)' = old + q
    <3>1. Adding(1) \in Nat /\ Adding(2) \in Nat /\ Adding(1)' \in Nat /\ Adding(2)' \in Nat
      BY <1>6 DEF IInv, Typed, Goroutine, Runners, Adding
    <3>2. QED
      BY <1>2, <1>3, <1>7, <3>1 DEF IInv, Typed
  <2>3. TicksPerSecond * (old + q) = TicksPerSecond * old + TicksPerSecond * q
    BY <2>1, Distributes
  <2>4. TicksPerSecond * old + carryover = due
    BY <1>8 DEF IInv, Accounted, Account
  <2>5. c = carryover /\ q = (r + c) \div TicksPerSecond
    BY <1>1, <1>2, <1>8 DEF IInv, Alone, Updating
  <2>6. TicksPerSecond * q + carryover' = r + carryover
    BY <1>1, <1>3, <2>5, Division
  <2>7. TicksPerSecond * old \in Int /\ TicksPerSecond * q \in Int
    BY <2>1
  <2> HIDE DEF old, r, q
  <2>8. TicksPerSecond * (old + q) + carryover' = due + r
    BY <1>3, <1>6, <2>3, <2>4, <2>6, <2>7 DEF IInv, Typed
  <2>9. QED
    BY <1>2, <2>2, <2>8 DEF Account
<1>9. Accounted'
  BY <1>2, <1>8 DEF Accounted
<1>10. Alone'
  BY <1>2, <1>4, <1>5 DEF IInv, Alone, Updating
<1>11. SawEnough' /\ Listed'
  BY <1>2 DEF IInv, SawEnough, Listed
<1>12. Awake'
  BY <1>2, <1>5 DEF IInv, Awake
<1>13. QED
  BY <1>6, <1>9, <1>10, <1>11, <1>12 DEF IInv

\* refillBucket's compare-and-swap: what the goroutine held is in the bucket,
\* and its signal is still to come.
LEMMA AddTokensSound ==
    ASSUME IInv, NEW i \in Runners, AddTokens(i)
    PROVE  IInv'
<1>1. /\ runner[i].pc = "add" /\ runner[i] \in Goroutine
      /\ bucket' = bucket + runner[i].incr
      /\ runner' = [runner EXCEPT ![i] = At("signal")]
      /\ UNCHANGED <<rate, carryover, waiters, signal, done, wait, due, raced, taken>>
  BY DEF AddTokens, IInv, Typed
<1>2. Typed'
  <2>1. runner' \in [Runners -> Goroutine]
    BY <1>1 DEF IInv, Typed, Goroutine, At
  <2>2. bucket' \in Nat
    BY <1>1 DEF IInv, Typed, Goroutine
  <2>3. QED
    BY <1>1, <2>1, <2>2 DEF IInv, Typed
<1>3. Accounted'
  <2>1. bucket' + taken' + Adding(1)' + Adding(2)' = bucket + taken + Adding(1) + Adding(2)
    BY <1>1 DEF IInv, Typed, Goroutine, Runners, Adding, At
  <2>2. QED
    BY <1>1, <2>1 DEF IInv, Accounted, Account
<1>4. SawEnough' /\ Listed'
  BY <1>1 DEF IInv, SawEnough, Listed
<1>5. Awake'
  BY <1>1, <1>2 DEF IInv, Typed, Awake, At
<1>6. Alone'
  BY <1>1, <1>2 DEF IInv, Typed, Alone, Updating, At
<1>7. QED
  BY <1>2, <1>3, <1>4, <1>5, <1>6 DEF IInv

\* Wait's compare-and-swap takes from the bucket what was seen in it, or
\* nothing.
LEMMA SwapSound ==
    ASSUME ConstantsAreNumbers, IInv, NEW w \in Waiters, Swap(w)
    PROVE  IInv'
<1>1. /\ wait[w] \in Call /\ Need[w] \in Nat
      /\ wait[w].pc \in {"swap", "reswap"} /\ wait[w].cur >= Need[w]
      /\ UNCHANGED <<rate, carryover, waiters, signal, done, runner, due, raced>>
  BY DEF Swap, IInv, Typed, SawEnough, ConstantsAreNumbers
<1>2. PICK p \in {"ok", "unlist", "load", "missed"} :
         /\ wait' = [wait EXCEPT ![w].pc = p]
         /\ p = "missed" => wait[w].pc = "reswap"
  BY DEF Swap, Goes
<1>3. \/ bucket' = bucket /\ taken' = taken
      \/ bucket = wait[w].cur /\ bucket' = bucket - Need[w] /\ taken' = taken + Need[w]
  BY DEF Swap
<1>4. bucket' \in Nat /\ taken' \in Nat /\ bucket' <= bucket
      /\ bucket' + taken' = bucket + taken
  BY <1>1, <1>3 DEF IInv, Typed
<1>5. Typed'
  <2>1. wait' \in [Waiters -> Call]
    BY <1>2 DEF IInv, Typed, Call, Pcs
  <2>2. QED
    BY <1>1, <1>4, <2>1 DEF IInv, Typed
<1>6. Accounted'
  <2>1. Adding(1)' = Adding(1) /\ Adding(2)' = Adding(2)
        /\ Adding(1) \in Nat /\ Adding(2) \in Nat
    BY <1>1 DEF IInv, Typed, Goroutine, Runners, Adding
  <2>2. bucket' + taken' + Adding(1)' + Adding(2)' = bucket + taken + Adding(1) + Adding(2)
    BY <1>4, <2>1 DEF IInv, Typed
  <2>3. QED
    BY <1>1, <2>2 DEF IInv, Accounted, Account
<1>7. \A v \in Waiters : /\ wait'[v].cur = wait[v].cur
                         /\ wait'[v].pc = IF v = w THEN p ELSE wait[v].pc
  BY <1>2 DEF IInv, Typed, Call
<1>8. SawEnough' /\ Listed'
  BY <1>1, <1>2, <1>7 DEF IInv, SawEnough, Listed
<1>9. Awake'
  <2> SUFFICES ASSUME NEW v \in Waiters, wait'[v].pc \in {"block", "select"},
                      bucket' >= Need[v], v \notin signal'
               PROVE  \E i \in Runners : runner'[i].pc = "signal"
    BY DEF Awake
  <2>1. wait[v].pc \in {"block", "select"} /\ v \notin signal
    BY <1>1, <1>7
  <2>2. bucket >= Need[v]
    BY <1>4 DEF IInv, Typed, ConstantsAreNumbers
  <2>3. QED
    BY <1>1, <2>1, <2>2 DEF IInv, Awake
<1>10. Alone'
  BY <1>1 DEF IInv, Alone, Updating
<1>11. QED
  BY <1>5, <1>6, <1>8, <1>9, <1>10 DEF IInv

\* signalWaiters: whoever was in the list has its signal now.
LEMMA SignalSound ==
    ASSUME IInv, SignalAll, UNCHANGED <<bucket, wait>>
    PROVE  SawEnough' /\ Listed' /\ Awake'
<1>1. SawEnough' /\ Listed'
  BY DEF IInv, SignalAll, SawEnough, Listed
<1>2. Awake'
  BY DEF IInv, SignalAll, Listed, Awake
<1>3. QED
  BY <1>1, <1>2

\* The other steps of Wait move one call on, and the call leaves the list or
\* the channel only when it no longer sleeps.
LEMMA WaitSound ==
    ASSUME ConstantsAreNumbers, IInv, NEW w \in Waiters,
           \/ Enter(w) \/ Load(w) \/ PushBack(w) \/ Select(w)
           \/ Wake(w) \/ Released(w) \/ Cancel(w) \/ Unlist(w)
    PROVE  IInv'
<1>1. /\ UNCHANGED <<rate, bucket, carryover, done, runner, due, raced, taken>>
      /\ wait[w] \in Call
  BY DEF Enter, Load, PushBack, Select, Wake, Released, Cancel, Unlist, IInv, Typed
<1>2. Accounted' /\ Alone'
  BY <1>1, Bystander
<1>3. \A v \in Waiters : v # w => wait'[v] = wait[v]
  BY DEF Enter, Load, PushBack, Select, Wake, Released, Cancel, Unlist, Goes, IInv, Typed
<1>4. /\ waiters \ {w} \subseteq waiters' /\ signal \ {w} \subseteq signal'
      /\ signal' \subseteq signal
  BY DEF Enter, Load, PushBack, Select, Wake, Released, Cancel, Unlist
<1>5. /\ wait' \in [Waiters -> Call]
      /\ wait'[w].pc \in {"swap", "reswap"} => wait'[w].cur >= Need[w]
      /\ wait'[w].pc \in {"reload", "reswap", "block", "missed", "select", "selectmissed"} =>
           w \in waiters' \cup signal'
      /\ (wait'[w].pc \in {"block", "select"} /\ bucket >= Need[w] /\ w \notin signal') =>
           \E i \in Runners : runner[i].pc = "signal"
  <2>1. CASE Enter(w)
    BY <2>1 DEF Enter, Goes, IInv, Typed, Call, Pcs
  <2>2. CASE Load(w)
    BY <2>2 DEF Load, IInv, Typed, Call, Pcs, Listed, ConstantsAreNumbers
  <2>3. CASE PushBack(w)
    BY <2>3 DEF PushBack, Goes, IInv, Typed, Call, Pcs
  <2>4. CASE Select(w)
    BY <2>4 DEF Select, IInv, Typed, Call, Pcs, Listed, Awake
  <2>5. CASE Wake(w) \/ Released(w) \/ Cancel(w) \/ Unlist(w)
    BY <2>5 DEF Wake, Released, Cancel, Unlist, Goes, IInv, Typed, Call, Pcs
  <2>6. QED
    BY <2>1, <2>2, <2>3, <2>4, <2>5
<1>6. Typed'
  BY <1>1, <1>5 DEF IInv, Typed
<1>7. SawEnough'
  BY <1>3, <1>5 DEF IInv, SawEnough
<1>8. Listed'
  BY <1>3, <1>4, <1>5 DEF IInv, Listed
<1>9. Awake'
  <2> SUFFICES ASSUME NEW v \in Waiters, wait'[v].pc \in {"block", "select"},
                      bucket' >= Need[v], v \notin signal'
               PROVE  \E i \in Runners : runner'[i].pc = "signal"
    BY DEF Awake
  <2>1. CASE v = w
    BY <1>1, <1>5, <2>1
  <2>2. CASE v # w
    BY <1>1, <1>3, <1>4, <2>2 DEF IInv, Awake
  <2>3. QED
    BY <2>1, <2>2
<1>10. QED
  BY <1>2, <1>6, <1>7, <1>8, <1>9 DEF IInv

\* Every step of the refill goroutines, of SetRate and Stop and of the waiting
\* transfers keeps IInv.
LEMMA StepSound ==
    ASSUME ConstantsAreNumbers, IInv, [ThrottleNext]_thrVars
    PROVE  IInv'
<1>1. ASSUME NEW i \in Runners, Signal(i) PROVE IInv'
  <2>1. /\ runner[i].pc = "signal" /\ runner' = [runner EXCEPT ![i] = Ticking] /\ SignalAll
        /\ UNCHANGED <<rate, bucket, carryover, done, wait, due, raced, taken>>
    BY <1>1 DEF Signal
  <2>2. /\ runner' \in [Runners -> Goroutine] /\ runner'[i].pc = "run"
        /\ \A j \in Runners : j # i => runner'[j] = runner[j]
    BY <2>1 DEF IInv, Typed, Goroutine, Idle, Ticking, At
  <2>3. Typed'
    BY <2>1, <2>2 DEF IInv, Typed
  <2>4. Adding(1)' = Adding(1) /\ Adding(2)' = Adding(2)
    BY <2>1, <2>2 DEF Runners, Adding
  <2>5. Accounted'
    BY <2>1, <2>4 DEF IInv, Accounted, Account
  <2>6. Alone'
    BY <2>1, <2>2 DEF IInv, Alone, Updating
  <2>7. QED
    BY <2>1, <2>3, <2>5, <2>6, SignalSound DEF IInv
<1>2. ASSUME NEW i \in Runners, Poll(i) \/ Tick(i) \/ RunnerExits(i) PROVE IInv'
  <2>1. /\ UNCHANGED <<rate, bucket, carryover, waiters, signal, done, wait, due, raced, taken>>
        /\ runner[i].pc \in Idle
        /\ done.gen \in Nat /\ done = [gen |-> done.gen, closed |-> done.closed]
    BY <1>2 DEF Poll, Tick, RunnerExits, IInv, Typed, Idle
  <2>2. PICK g \in Goroutine : g.pc \in Idle /\ runner' = [runner EXCEPT ![i] = g]
    <3>1. CASE Poll(i)
      <4> DEFINE g == [runner[i] EXCEPT !.pc = "select", !.gen = done.gen]
      <4>1. g \in Goroutine /\ g.pc \in Idle
        BY <2>1 DEF IInv, Typed, Goroutine, Idle
      <4>2. runner' = [runner EXCEPT ![i] = g]
        BY <3>1 DEF Poll
      <4>3. QED
        BY <4>1, <4>2
    <3>2. CASE Tick(i)
      <4> DEFINE g == IF rate <= 0 THEN Ticking ELSE [At("divide") EXCEPT !.rate = rate]
      <4>1. g \in Goroutine /\ g.pc \in Idle
        BY DEF IInv, Typed, Goroutine, Idle, Ticking, At
      <4>2. QED
        BY <3>2, <4>1 DEF Tick
    <3>3. CASE RunnerExits(i)
      BY <3>3 DEF RunnerExits, Gone, At, Goroutine, Idle
    <3>4. QED
      BY <1>2, <3>1, <3>2, <3>3
  <2>3. QED
    BY <2>1, <2>2, IdleSound
<1>3. ASSUME rate' \in Nat, done'.gen \in Nat,
             done' = [gen |-> done'.gen, closed |-> done'.closed],
             UNCHANGED <<bucket, carryover, waiters, signal, runner, wait, due, raced, taken>>
      PROVE  IInv'
  <2>1. Typed' /\ Accounted' /\ Alone'
    BY <1>3, Bystander DEF IInv, Typed
  <2>2. SawEnough' /\ Listed' /\ Awake'
    BY <1>3 DEF IInv, SawEnough, Listed, Awake
  <2>3. QED
    BY <2>1, <2>2 DEF IInv
<1>5. ASSUME NEW r \in Rates, SetRate(r) PROVE IInv'
  BY <1>3, <1>5 DEF SetRate, IInv, Typed, ConstantsAreNumbers
<1>6. CASE StartRefill
  <2>1. done'.gen \in Nat /\ done' = [gen |-> done'.gen, closed |-> done'.closed]
    BY <1>6 DEF StartRefill, IInv, Typed
  <2>2. CASE UNCHANGED runner
    BY <1>3, <1>6, <2>1, <2>2 DEF StartRefill, IInv, Typed
  <2>3. CASE \E i \in Runners :
               runner[i] = Gone /\ runner' = [runner EXCEPT ![i] = Ticking]
    <3>1. PICK i \in Runners : runner[i] = Gone /\ runner' = [runner EXCEPT ![i] = Ticking]
      BY <2>3
    <3>2. runner[i].pc \in Idle /\ Ticking \in Goroutine /\ Ticking.pc \in Idle
      BY <3>1 DEF Gone, Ticking, At, Goroutine, Idle
    <3>3. UNCHANGED <<rate, bucket, carryover, waiters, signal, wait, due, raced, taken>>
      BY <1>6 DEF StartRefill
    <3>4. QED
      BY <2>1, <3>1, <3>2, <3>3, IdleSound
  <2>4. QED
    BY <1>6, <2>2, <2>3 DEF StartRefill
<1>7. CASE DropLimit
  <2>1. /\ carryover' = 0 /\ due' = due - carryover /\ SignalAll
        /\ raced' = (raced \/ \E j \in Runners : Updating(j))
        /\ UNCHANGED <<rate, bucket, done, runner, wait, taken>>
    BY <1>7 DEF DropLimit
  <2>2. Typed'
    BY <2>1 DEF IInv, Typed
  <2>3. ASSUME ~raced PROVE Account' = due'
    <3> DEFINE held == TicksPerSecond * (bucket + taken + Adding(1) + Adding(2))
    <3>1. Adding(1) \in Nat /\ Adding(2) \in Nat
          /\ Adding(1)' = Adding(1) /\ Adding(2)' = Adding(2)
      BY <2>1 DEF IInv, Typed, Adding, Goroutine, Runners
    <3>2. bucket + taken + Adding(1) + Adding(2) \in Int /\ TicksPerSecond \in Int
      BY <3>1 DEF IInv, Typed, ConstantsAreNumbers
    <3>3. held \in Int
      BY <3>2
    <3>4. held' = held
      BY <2>1, <3>1
    <3>5. held + carryover = due /\ Account' = held' + carryover'
      BY <2>3 DEF IInv, Accounted, Account
    <3> HIDE DEF held
    <3>6. QED
      BY <2>1, <3>3, <3>4, <3>5 DEF IInv, Typed
  <2>4. Accounted'
    BY <2>1, <2>3 DEF Accounted
  <2>5. Alone'
    BY <2>1 DEF Alone, Updating
  <2>6. QED
    BY <2>1, <2>2, <2>4, <2>5, SignalSound DEF IInv
<1>8. CASE Stop
  <2>1. done'.gen \in Nat /\ done' = [gen |-> done'.gen, closed |-> done'.closed]
    BY <1>8 DEF Stop, IInv, Typed
  <2>2. QED
    BY <1>3, <1>8, <2>1 DEF Stop, IInv, Typed
<1>9. CASE UNCHANGED thrVars
  BY <1>3, <1>9 DEF thrVars, IInv, Typed
<1>10. QED
  BY <1>1, <1>2, <1>5, <1>6, <1>7, <1>8, <1>9, DivideSound, RemainderSound,
     AddTokensSound, SwapSound, WaitSound DEF ThrottleNext

\* Unless the carryover was touched during an update, no token is lost or
\* handed out twice; a blocked transfer is in the list or
\* has its signal, and none sleeps on a bucket that holds what it needs unless
\* a signal is on its way or its second swap failed, whatever the number of
\* transfers and the rates (refillBucket, signalWaiters, Wait, SetRate, Stop).
THEOREM ThrottleHolds ==
    ASSUME ConstantsAreNumbers
    PROVE  ThrottleSpec => []ThrottleSound
<1>1. ThrottleInit => IInv
  BY InitSound
<1>2. IInv /\ [ThrottleNext]_thrVars => IInv'
  BY StepSound
<1>3. IInv => ThrottleSound
  BY DEF IInv, Typed, Accounted, Account, Listed, Awake, ThrottleSound, Selecting
<1>4. QED
  BY <1>1, <1>2, <1>3, PTL DEF ThrottleSpec
=============================================================================
