------------------------------ MODULE Throttle ------------------------------
(***************************************************************************)
(* The rate limiter (internal/engine/ratelimit.go): a token bucket that a  *)
(* goroutine refills at every tick, from which transfers take the bytes    *)
(* they are about to move.  The bucket is changed by compare-and-swap, and *)
(* every load, swap and look at the list of waiters is a step of its own.  *)
(* No lock guards the carryover.                                           *)
(***************************************************************************)
EXTENDS Integers

CONSTANTS Waiters,        \* transfers that call Wait
          Need,           \* Need[w]: the bytes w asks for
          Rates,          \* what SetRate may set; 0 is unlimited
          TicksPerSecond, \* 10 in the code
          MaxTicks, MaxSets, MaxStops

VARIABLES rate, bucket, carryover,
          waiters,   \* t.waiters; all in it are signalled at once, so a set
          signal,    \* the waiters whose channel holds a signal
          done,      \* [gen, closed]: the channel t.done is, and those closed
          runner,    \* the refill goroutines: pc and local values
          wait,      \* wait[w]: [pc, cur, gen], the call of Wait
          due,       \* TicksPerSecond times the tokens the ticks stand for
          raced,     \* the carryover was touched during its update
          taken,     \* tokens handed out
          setting,   \* what calls of SetRate have still to do
          used       \* ticks, calls of SetRate and calls of Stop so far

thrVars == <<rate, bucket, carryover, waiters, signal, done, runner, wait, due,
             raced, taken, setting, used>>

(* Two refill goroutines overlap when Stop and SetRate follow each other.  *)
Runners == {1, 2}

(* gen: the channel its select read; rate, carry, incr: in refillBucket.   *)
At(pc) == [pc |-> pc, gen |-> 0, rate |-> 0, carry |-> 0, incr |-> 0]
Gone == At("none")
Ticking == At("run")

ThrottleInit ==
  /\ rate \in Rates
  /\ bucket = 0 /\ carryover = 0 /\ waiters = {} /\ signal = {}
  /\ done = [gen |-> 0, closed |-> {}]
  /\ runner = [i \in Runners |-> IF i = 1 /\ rate > 0 THEN Ticking ELSE Gone]
  /\ wait = [w \in Waiters |-> [pc |-> "idle", cur |-> 0, gen |-> 0]]
  /\ due = 0 /\ raced = FALSE /\ taken = 0 /\ setting = {}
  /\ used = [ticks |-> 0, sets |-> 0, stops |-> 0, ticker |-> rate > 0]

Closed == done.gen \in done.closed

(***************************************************************************)
(* run and refillBucket.                                                   *)
(***************************************************************************)
(* The select of run reads t.ticker.C and t.done anew in every round.      *)
Poll(i) ==
  /\ runner[i].pc = "run"
  /\ runner' = [runner EXCEPT ![i].pc = "select", ![i].gen = done.gen]
  /\ UNCHANGED <<rate, bucket, carryover, waiters, signal, done, wait, due, raced,
                 taken, setting, used>>

(* A tick, which may be one left in the channel of a stopped ticker, and   *)
(* the rate that refillBucket loads after it.                              *)
Tick(i) ==
  /\ runner[i].pc = "select" /\ used.ticks < MaxTicks
  /\ runner' = [runner EXCEPT ![i] = IF rate <= 0 THEN Ticking
                                     ELSE [At("divide") EXCEPT !.rate = rate]]
  /\ used' = [used EXCEPT !.ticks = @ + 1]
  /\ UNCHANGED <<rate, bucket, carryover, waiters, signal, done, wait, due, raced,
                 taken, setting>>

RunnerExits(i) ==
  /\ runner[i].pc = "select" /\ runner[i].gen \in done.closed
  /\ runner' = [runner EXCEPT ![i] = Gone]
  /\ UNCHANGED <<rate, bucket, carryover, waiters, signal, done, wait, due, raced,
                 taken, setting, used>>

Updating(i) == runner[i].pc = "remainder"

Divide(i) ==
  /\ runner[i].pc = "divide"
  /\ runner' = [runner EXCEPT ![i].pc = "remainder", ![i].carry = carryover,
                   ![i].incr = (runner[i].rate + carryover) \div TicksPerSecond]
  /\ raced' = (raced \/ \E j \in Runners : Updating(j))
  /\ UNCHANGED <<rate, bucket, carryover, waiters, signal, done, wait, due, taken,
                 setting, used>>

\* mutant of Remainder: the fraction of a token is dropped
RemainderLost(i) ==
  /\ Updating(i)
  /\ due' = due + runner[i].rate
  /\ runner' = [runner EXCEPT ![i] = IF runner[i].incr = 0 THEN Ticking
                                     ELSE [At("add") EXCEPT !.incr = runner[i].incr]]
  /\ UNCHANGED <<rate, bucket, carryover, waiters, signal, done, wait, raced, taken,
                 setting, used>>

(* The carryover is read a second time, or was kept from the first.        *)
Remainder(i) ==
  /\ Updating(i)
  /\ \E c \in {runner[i].carry, carryover} :
       carryover' = (runner[i].rate + c) % TicksPerSecond
  /\ due' = due + runner[i].rate
  /\ runner' = [runner EXCEPT ![i] = IF runner[i].incr = 0 THEN Ticking
                                     ELSE [At("add") EXCEPT !.incr = runner[i].incr]]
  /\ UNCHANGED <<rate, bucket, waiters, signal, done, wait, raced, taken, setting,
                 used>>

AddTokens(i) ==
  /\ runner[i].pc = "add"
  /\ bucket' = bucket + runner[i].incr
  /\ runner' = [runner EXCEPT ![i] = At("signal")]
  /\ UNCHANGED <<rate, carryover, waiters, signal, done, wait, due, raced,
                 taken, setting, used>>

(* signalWaiters: every channel has room for one signal; a waiter whose    *)
(* channel took it leaves the list.                                        *)
SignalAll == signal' = signal \cup waiters /\ waiters' = {}

Signal(i) ==
  /\ runner[i].pc = "signal"
  /\ SignalAll
  /\ runner' = [runner EXCEPT ![i] = Ticking]
  /\ UNCHANGED <<rate, bucket, carryover, done, wait, due, raced, taken,
                 setting, used>>

(***************************************************************************)
(* SetRate and Stop.                                                       *)
(***************************************************************************)
(* The rate is swapped first; the rest follows in a step of its own, after *)
(* steps of other calls perhaps.                                           *)
SetRate(r) ==
  LET rest == CASE rate = 0 /\ r > 0 -> {"start"}
                [] rate > 0 /\ r = 0 -> {"drop"}
                [] OTHER              -> {}
  IN  /\ used.sets < MaxSets /\ rest \cap setting = {}
      /\ used' = [used EXCEPT !.sets = @ + 1]
      /\ rate' = r
      /\ setting' = setting \cup rest
      /\ UNCHANGED <<bucket, carryover, waiters, signal, done, runner, wait, due,
                     raced, taken>>

StartRefill ==
  /\ "start" \in setting /\ setting' = setting \ {"start"}
  /\ IF used.ticker /\ ~Closed
     THEN UNCHANGED <<done, runner>>
     ELSE /\ \E i \in Runners :
               runner[i] = Gone /\ runner' = [runner EXCEPT ![i] = Ticking]
          /\ done' = IF used.ticker THEN [done EXCEPT !.gen = @ + 1] ELSE done
  /\ used' = [used EXCEPT !.ticker = TRUE]
  /\ UNCHANGED <<rate, bucket, carryover, waiters, signal, wait, due, raced, taken>>

DropLimit ==
  /\ "drop" \in setting /\ setting' = setting \ {"drop"}
  /\ carryover' = 0
  /\ due' = due - carryover
  /\ raced' = (raced \/ \E j \in Runners : Updating(j))
  /\ SignalAll
  /\ UNCHANGED <<rate, bucket, done, runner, wait, taken, used>>

Stop ==
  /\ used.stops < MaxStops
  /\ used' = [used EXCEPT !.stops = @ + 1]
  /\ done' = [done EXCEPT !.closed = @ \cup {done.gen}]
  /\ UNCHANGED <<rate, bucket, carryover, waiters, signal, runner, wait, due,
                 raced, taken, setting>>

(***************************************************************************)
(* Wait.                                                                   *)
(***************************************************************************)
Goes(w, pc) == wait' = [wait EXCEPT ![w].pc = pc]

Enter(w) ==
  /\ wait[w].pc = "idle"
  /\ Goes(w, IF rate <= 0 THEN "free" ELSE "load")
  /\ UNCHANGED <<rate, bucket, carryover, waiters, signal, done, runner, due,
                 raced, taken, setting, used>>

Load(w) ==
  /\ wait[w].pc \in {"load", "reload"}
  /\ wait' = [wait EXCEPT ![w].cur = bucket,
                ![w].pc = CASE bucket >= Need[w] /\ @ = "load" -> "swap"
                            [] bucket >= Need[w] /\ @ = "reload" -> "reswap"
                            [] bucket < Need[w] /\ @ = "load" -> "push"
                            [] bucket < Need[w] /\ @ = "reload" -> "block"]
  /\ UNCHANGED <<rate, bucket, carryover, waiters, signal, done, runner, due,
                 raced, taken, setting, used>>

(* A swap that fails is tried again, the second time after the next tick.  *)
Swap(w) ==
  /\ wait[w].pc \in {"swap", "reswap"}
  /\ IF bucket = wait[w].cur
     THEN /\ bucket' = bucket - Need[w]
          /\ taken' = taken + Need[w]
          /\ Goes(w, IF wait[w].pc = "swap" THEN "ok" ELSE "unlist")
     ELSE /\ Goes(w, IF wait[w].pc = "swap" THEN "load" ELSE "missed")
          /\ UNCHANGED <<bucket, taken>>
  /\ UNCHANGED <<rate, carryover, waiters, signal, done, runner, due, raced,
                 setting, used>>

\* mutant of PushBack: the bucket is not looked at again
PushAndBlock(w) ==
  /\ wait[w].pc = "push"
  /\ waiters' = waiters \cup {w}
  /\ Goes(w, "block")
  /\ UNCHANGED <<rate, bucket, carryover, signal, done, runner, due, raced,
                 taken, setting, used>>

PushBack(w) ==
  /\ wait[w].pc = "push"
  /\ waiters' = waiters \cup {w}
  /\ signal' = signal \ {w}
  /\ Goes(w, "reload")
  /\ UNCHANGED <<rate, bucket, carryover, done, runner, due, raced, taken,
                 setting, used>>

(* The select reads t.done once.                                           *)
Select(w) ==
  /\ wait[w].pc \in {"block", "missed"}
  /\ wait' = [wait EXCEPT ![w].gen = done.gen,
                ![w].pc = IF @ = "block" THEN "select" ELSE "selectmissed"]
  /\ UNCHANGED <<rate, bucket, carryover, waiters, signal, done, runner, due,
                 raced, taken, setting, used>>

Selecting == {"select", "selectmissed"}

Wake(w) ==
  /\ wait[w].pc \in Selecting /\ w \in signal
  /\ signal' = signal \ {w}
  /\ Goes(w, "load")
  /\ UNCHANGED <<rate, bucket, carryover, waiters, done, runner, due, raced,
                 taken, setting, used>>

(* t.done: the waiter stays in the list, and the transfer goes on without  *)
(* tokens.                                                                 *)
Released(w) ==
  /\ wait[w].pc \in Selecting /\ wait[w].gen \in done.closed
  /\ Goes(w, "free")
  /\ UNCHANGED <<rate, bucket, carryover, waiters, signal, done, runner, due,
                 raced, taken, setting, used>>

(* ctx is cancelled: seen at the top of the loop, or in the select.        *)
Cancel(w) ==
  /\ wait[w].pc \in Selecting \cup {"load"}
  /\ Goes(w, "cancelled")
  /\ waiters' = waiters \ {w}
  /\ UNCHANGED <<rate, bucket, carryover, signal, done, runner, due, raced,
                 taken, setting, used>>

Unlist(w) ==
  /\ wait[w].pc = "unlist"
  /\ waiters' = waiters \ {w}
  /\ Goes(w, "ok")
  /\ UNCHANGED <<rate, bucket, carryover, signal, done, runner, due, raced,
                 taken, setting, used>>

ThrottleNext ==
  \/ \E i \in Runners : \/ Poll(i) \/ Tick(i) \/ RunnerExits(i) \/ Divide(i)
                        \/ Remainder(i) \/ AddTokens(i) \/ Signal(i)
  \/ \E r \in Rates : SetRate(r)
  \/ StartRefill \/ DropLimit \/ Stop
  \/ \E w \in Waiters : \/ Enter(w) \/ Load(w) \/ Swap(w) \/ PushBack(w) \/ Select(w)
                        \/ Wake(w) \/ Released(w) \/ Cancel(w) \/ Unlist(w)

ThrottleSpec == ThrottleInit /\ [][ThrottleNext]_thrVars

-----------------------------------------------------------------------------
Adding(i) == IF runner[i].pc = "add" THEN runner[i].incr ELSE 0

(* Tokens are neither lost nor handed out twice: those in the bucket, on   *)
(* their way to it and taken are what the ticks stand for, to the last     *)
(* fraction, as long as nobody has touched the carryover while a refill    *)
(* goroutine was between its two reads of it.  A waiter that blocks is in  *)
(* the list, or has its signal; and it does not sleep on a bucket that     *)
(* holds what it needs, unless the next signal is on its way or its second *)
(* swap failed (refillBucket, Wait, signalWaiters).                        *)
ThrottleSound ==
  /\ ~raced => TicksPerSecond * (bucket + taken + Adding(1) + Adding(2)) + carryover = due
  /\ bucket >= 0
  /\ \A w \in Waiters :
       wait[w].pc \in Selecting \cup {"block", "missed"} =>
         /\ w \in waiters \cup signal
         /\ (wait[w].pc = "select" /\ bucket >= Need[w] /\ w \notin signal) =>
              \E i \in Runners : runner[i].pc = "signal"
=============================================================================
