-------------------------- MODULE StoppedRingProofs --------------------------
(***************************************************************************)
(* The ring of results implements the log of results, and its index finds  *)
(* exactly the results of the log, for every number of downloads, callers  *)
(* and settings.                                                           *)
(***************************************************************************)
EXTENDS StoppedRing, FiniteSetTheorems, SequenceTheorems, TLAPS

(***************************************************************************)
(* Slots                                                                   *)
(***************************************************************************)

\* The slot of an offset, without the remainder that the code computes.
LEMMA SlotValue ==
    ASSUME NEW n \in Nat \ {0}, NEW h \in 0..(n - 1), NEW i \in 0..n
    PROVE  (h + i) % n = IF h + i < n THEN h + i ELSE h + i - n
<1>1. CASE h + i < n
  BY <1>1
<1>2. CASE h + i >= n
  <2>1. h + i \in n..(2 * n - 1)
    BY <1>2
  <2>2. (h + i) % n = h + i - n
    BY <2>1
  <2> QED
    BY <1>2, <2>2
<1> QED
  BY <1>1, <1>2

\* Two offsets below the capacity have different slots.
LEMMA SlotInjective ==
    ASSUME NEW n \in Nat \ {0}, NEW h \in 0..(n - 1),
           NEW i \in 0..(n - 1), NEW j \in 0..(n - 1), (h + i) % n = (h + j) % n
    PROVE  i = j
<1> i \in 0..n /\ j \in 0..n
  OBVIOUS
<1>1. (h + i) % n = IF h + i < n THEN h + i ELSE h + i - n
  BY SlotValue
<1>2. (h + j) % n = IF h + j < n THEN h + j ELSE h + j - n
  BY SlotValue
<1> QED
  BY <1>1, <1>2

\* Moving the head by one renumbers the offsets by one.
LEMMA SlotOfNextHead ==
    ASSUME NEW n \in Nat \ {0}, NEW h \in 0..(n - 1), NEW i \in 0..(n - 1)
    PROVE  /\ (h + 1) % n \in 0..(n - 1)
           /\ (((h + 1) % n) + i) % n = (h + (i + 1)) % n
<1> DEFINE k == (h + 1) % n
<1> 1 \in 0..n /\ i \in 0..n
  OBVIOUS
<1>1. k = IF h + 1 < n THEN h + 1 ELSE h + 1 - n
  BY SlotValue
<1>2. k \in 0..(n - 1)
  BY <1>1
<1> HIDE DEF k
<1>3. (k + i) % n = IF k + i < n THEN k + i ELSE k + i - n
  BY <1>2, SlotValue
<1>4. (h + (i + 1)) % n = IF h + (i + 1) < n THEN h + (i + 1) ELSE h + (i + 1) - n
  <2> DEFINE j == i + 1
  <2>1. j \in 0..n
    OBVIOUS
  <2> HIDE DEF j
  <2>2. (h + j) % n = IF h + j < n THEN h + j ELSE h + j - n
    BY <2>1, SlotValue
  <2> QED
    BY <2>2 DEF j
<1>5. (k + i) % n = (h + (i + 1)) % n
  BY <1>1, <1>3, <1>4
<1> QED
  BY <1>2, <1>5 DEF k

\* The slots of offsets are slots of the buffer, and the offset capacity is the
\* offset 0 again.
LEMMA SlotFacts ==
    ASSUME NEW n \in Nat \ {0}, NEW h \in 0..(n - 1)
    PROVE  /\ \A i \in 0..n : (h + i) % n \in 0..(n - 1)
           /\ (h + 0) % n = h /\ (h + n) % n = h
<1>1. ASSUME NEW i \in 0..n PROVE (h + i) % n \in 0..(n - 1)
  <2>1. (h + i) % n = IF h + i < n THEN h + i ELSE h + i - n
    BY SlotValue
  <2> QED
    BY <2>1
<1>2. (h + 0) % n = h
  OBVIOUS
<1>3. (h + n) % n = h
  <2>1. h + n \in n..(2 * n - 1)
    OBVIOUS
  <2>2. (h + n) % n = h + n - n
    BY <2>1
  <2> QED
    BY <2>2
<1> QED
  BY <1>1, <1>2, <1>3

(***************************************************************************)
(* The inductive invariant                                                 *)
(***************************************************************************)

\* What the ring holds are results of downloads that have stopped.
Recorded == \A i \in 1..size : Log[i] \in Result /\ Log[i].gid \in used

\* The index is the inverse of the log.
Indexed ==
    /\ DOMAIN index = {Log[i].gid : i \in 1..size}
    /\ \A i \in 1..size : index[Log[i].gid] = Slot(i - 1)

Inv == TypeOK /\ Recorded /\ Indexed

\* A function on 1..m into S is a sequence of length m.
LEMMA SequenceOf ==
    ASSUME NEW S, NEW m \in Nat, NEW f, f = [i \in 1..m |-> f[i]],
           \A i \in 1..m : f[i] \in S
    PROVE  f \in Seq(S) /\ Len(f) = m
<1>1. f \in [1..m -> S]
  OBVIOUS
<1> QED
  BY <1>1, IsASeq, LenProperties

\* The log is a sequence of results.
LEMMA LogIsSequence ==
    ASSUME TypeOK, Recorded
    PROVE  Log \in Seq(Result) /\ Len(Log) = size
<1>1. size \in Nat
  BY DEF TypeOK
<1>2. Log = [i \in 1..size |-> Log[i]]
  BY DEF Log
<1>3. \A i \in 1..size : Log[i] \in Result
  BY DEF Recorded
<1> HIDE DEF Log
<1> QED
  BY <1>1, <1>2, <1>3, SequenceOf

\* Results at different places of the log have different GIDs.
LEMMA GIDsDiffer ==
    ASSUME TypeOK, Indexed, NEW i \in 1..size, NEW j \in 1..size, Log[i].gid = Log[j].gid
    PROVE  i = j
<1>1. Slot(i - 1) = Slot(j - 1)
  BY DEF Indexed
<1>2. capacity \in Nat \ {0} /\ head \in 0..(capacity - 1)
      /\ i - 1 \in 0..(capacity - 1) /\ j - 1 \in 0..(capacity - 1)
  BY DEF TypeOK
<1>3. i - 1 = j - 1
  BY <1>1, <1>2, SlotInjective DEF Slot
<1> QED
  BY <1>3

\* What getByGID returns has the GID it was asked for.
LEMMA IndexedFinds == TypeOK /\ Indexed => IndexAgrees
<1> SUFFICES ASSUME TypeOK, Indexed PROVE IndexAgrees
  OBVIOUS
<1>1. ASSUME NEW g \in GID, GetByGID(g) # None PROVE GetByGID(g).gid = g
  <2>1. g \in DOMAIN index
    BY <1>1 DEF GetByGID
  <2>2. PICK i \in 1..size : Log[i].gid = g
    BY <2>1 DEF Indexed
  <2>3. GetByGID(g) = buf[Slot(i - 1)]
    BY <2>1, <2>2 DEF GetByGID, Indexed
  <2> QED
    BY <2>2, <2>3 DEF Log
<1> QED
  BY <1>1 DEF IndexAgrees, Indexed

(***************************************************************************)
(* The operations on the ring                                              *)
(***************************************************************************)

\* push on a ring with room appends to the log.
LEMMA PushAppends ==
    ASSUME Inv, NEW c \in Caller, NEW r \in Result, Push(c, r), size < capacity
    PROVE  Log' = Append(Log, r) /\ Recorded' /\ Indexed'
<1> DEFINE pos == Slot(size)
<1>1. capacity \in Nat \ {0} /\ head \in 0..(capacity - 1) /\ size \in 0..(capacity - 1)
      /\ buf \in [0..(capacity - 1) -> Result \cup {None}]
  BY DEF Inv, TypeOK
<1>2. pos \in 0..(capacity - 1)
  BY <1>1, SlotFacts DEF Slot
<1>3. /\ head' = head /\ capacity' = capacity /\ size' = size + 1
      /\ buf' = [buf EXCEPT ![pos] = r]
      /\ index' = [g \in DOMAIN index \cup {r.gid} |->
                     IF g = r.gid THEN pos ELSE index[g]]
      /\ r.gid \notin used /\ used' = used \cup {r.gid}
  BY <1>1 DEF Push, evicted
<1>4. \A i : Slot(i)' = Slot(i)
  BY <1>3 DEF Slot
<1>5. ASSUME NEW i \in 1..size
      PROVE  /\ Slot(i - 1) \in 0..(capacity - 1) /\ Slot(i - 1) # pos
             /\ Log'[i] = Log[i]
  <2>1. i - 1 \in 0..(capacity - 1) /\ i - 1 \in 0..capacity /\ i - 1 # size
    BY <1>1
  <2>2. Slot(i - 1) \in 0..(capacity - 1)
    BY <1>1, <2>1, SlotFacts DEF Slot
  <2>3. Slot(i - 1) # pos
    BY <1>1, <2>1, SlotInjective DEF Slot
  <2>4. i \in 1..size'
    BY <1>1, <1>3
  <2> QED
    BY <1>1, <1>3, <1>4, <2>2, <2>3, <2>4 DEF Log
<1>6. Log'[size + 1] = r
  <2>1. size + 1 \in 1..size' /\ (size + 1) - 1 = size
    BY <1>1, <1>3
  <2>2. Log'[size + 1] = buf'[Slot(size)]
    BY <1>4, <2>1 DEF Log
  <2> QED
    BY <1>1, <1>2, <1>3, <2>2
<1> HIDE DEF pos
<1>7. Recorded'
  <2> SUFFICES ASSUME NEW i \in 1..(size + 1)
               PROVE  Log'[i] \in Result /\ Log'[i].gid \in used'
    BY <1>3 DEF Recorded
  <2>1. CASE i = size + 1
    BY <1>3, <1>6, <2>1
  <2>2. CASE i \in 1..size
    BY <1>3, <1>5, <2>2 DEF Inv, Recorded
  <2> QED
    BY <1>1, <2>1, <2>2
<1>8. Log' = Append(Log, r)
  <2>1. Log \in Seq(Result) /\ Len(Log) = size
    BY LogIsSequence DEF Inv
  <2>2. Log' = [i \in 1..(size + 1) |-> Log'[i]]
    BY <1>3 DEF Log
  <2>3. Log' \in Seq(Result) /\ Len(Log') = size + 1
    <3>1. \A i \in 1..(size + 1) : Log'[i] \in Result
      BY <1>3, <1>7 DEF Recorded
    <3> QED
      BY <1>1, <2>2, <3>1, SequenceOf
  <2>4. Append(Log, r) \in Seq(Result) /\ Len(Append(Log, r)) = size + 1
        /\ Append(Log, r)[size + 1] = r
        /\ \A i \in 1..size : Append(Log, r)[i] = Log[i]
    BY <2>1, AppendProperties
  <2>5. \A i \in 1..(size + 1) : Log'[i] = Append(Log, r)[i]
    BY <1>1, <1>5, <1>6, <2>4
  <2> QED
    BY <2>3, <2>4, <2>5, SeqEqual
<1>9. Indexed'
  <2>1. DOMAIN index' = {Log'[i].gid : i \in 1..size'}
    <3>1. DOMAIN index' = DOMAIN index \cup {r.gid}
      BY <1>3
    <3>2. DOMAIN index = {Log[i].gid : i \in 1..size}
      BY DEF Inv, Indexed
    <3>3. 1..size' = 1..size \cup {size + 1}
      BY <1>1, <1>3
    <3> QED
      BY <1>5, <1>6, <3>1, <3>2, <3>3
  <2>2. ASSUME NEW i \in 1..size' PROVE index'[Log'[i].gid] = Slot(i - 1)'
    <3>1. CASE i \in 1..size
      <4>1. Log[i].gid \in DOMAIN index /\ Log[i].gid # r.gid
            /\ index[Log[i].gid] = Slot(i - 1)
        BY <1>3, <3>1 DEF Inv, Indexed, Recorded
      <4> QED
        BY <1>3, <1>4, <1>5, <3>1, <4>1
    <3>2. CASE i = size + 1
      <4>1. index'[r.gid] = Slot(size)
        BY <1>3 DEF pos
      <4>2. i - 1 = size
        BY <1>1, <3>2
      <4> QED
        BY <1>4, <1>6, <3>2, <4>1, <4>2
    <3> QED
      BY <1>1, <1>3, <3>1, <3>2
  <2> QED
    BY <2>1, <2>2 DEF Indexed
<1> QED
  BY <1>7, <1>8, <1>9

\* When the head moves on, the later results stay and move up by one place, even
\* if the slot behind the newest result is written.
LEMMA HeadMoves ==
    ASSUME Inv, size >= 1, NEW x,
           head' = (head + 1) % capacity, capacity' = capacity,
           buf' = buf \/ buf' = [buf EXCEPT ![Slot(size)] = x]
    PROVE  /\ \A i \in 1..size : Slot(i - 1)' = Slot(i)
           /\ \A i \in 1..(size - 1) : buf'[Slot(i)] = Log[i + 1]
<1>1. capacity \in Nat \ {0} /\ head \in 0..(capacity - 1) /\ size \in 1..capacity
      /\ buf \in [0..(capacity - 1) -> Result \cup {None}]
  BY DEF Inv, TypeOK
<1>2. ASSUME NEW i \in 1..size PROVE Slot(i - 1)' = Slot(i)
  <2> DEFINE j == i - 1
  <2>1. j \in 0..(capacity - 1) /\ j + 1 = i
    BY <1>1
  <2> HIDE DEF j
  <2>2. (((head + 1) % capacity) + j) % capacity = (head + (j + 1)) % capacity
    BY <1>1, <2>1, SlotOfNextHead
  <2> QED
    BY <2>1, <2>2 DEF Slot, j
<1>3. ASSUME NEW i \in 1..(size - 1) PROVE buf'[Slot(i)] = Log[i + 1]
  <2>1. i \in 0..(capacity - 1) /\ i \in 0..capacity /\ i + 1 \in 1..size /\ (i + 1) - 1 = i
    BY <1>1
  <2>2. Slot(i) \in 0..(capacity - 1)
    BY <1>1, <2>1, SlotFacts DEF Slot
  <2>3. Slot(i) # Slot(size)
    <3>1. CASE size < capacity
      <4>1. size \in 0..(capacity - 1) /\ i # size
        BY <1>1, <3>1
      <4> QED
        BY <1>1, <2>1, <4>1, SlotInjective DEF Slot
    <3>2. CASE size = capacity
      <4> DEFINE z == 0
      <4>1. z \in 0..(capacity - 1) /\ i # z
        BY <1>1
      <4>2. Slot(size) = (head + z) % capacity
        BY <1>1, <3>2, SlotFacts DEF Slot
      <4> HIDE DEF z
      <4> QED
        BY <1>1, <2>1, <4>1, <4>2, SlotInjective DEF Slot
    <3> QED
      BY <1>1, <3>1, <3>2
  <2>4. buf'[Slot(i)] = buf[Slot(i)]
    BY <1>1, <2>2, <2>3
  <2>5. Log[i + 1] = buf[Slot(i)]
    BY <2>1 DEF Log
  <2> QED
    BY <2>4, <2>5
<1> QED
  BY <1>2, <1>3

\* The oldest result is at the head.
LEMMA HeadIsOldest ==
    ASSUME Inv, size >= 1
    PROVE  /\ buf[head] = Log[1] /\ buf[head] \in Result /\ Slot(0) = head
           /\ 1 \in 1..size /\ buf[head].gid \in DOMAIN index
           /\ Head(Log) = Log[1] /\ Log # <<>>
<1>1. capacity \in Nat \ {0} /\ head \in 0..(capacity - 1) /\ size \in 1..capacity
  BY DEF Inv, TypeOK
<1>2. Slot(0) = head
  BY <1>1, SlotFacts DEF Slot
<1>3. 1 \in 1..size /\ 1 - 1 = 0
  BY <1>1
<1>4. buf[head] = Log[1]
  BY <1>2, <1>3 DEF Log
<1>5. Log[1] \in Result /\ Log[1].gid \in DOMAIN index
  BY <1>3 DEF Inv, Recorded, Indexed
<1>6. Log \in Seq(Result) /\ Len(Log) = size
  BY LogIsSequence DEF Inv
<1>7. Log # <<>> /\ Head(Log) = Log[1]
  BY <1>1, <1>6
<1> QED
  BY <1>2, <1>3, <1>4, <1>5, <1>7

\* The GIDs of the log without its oldest result.
LEMMA OtherGIDs ==
    ASSUME Inv, size >= 1
    PROVE  DOMAIN index \ {Log[1].gid} = {Log[i + 1].gid : i \in 1..(size - 1)}
<1>1. size \in Nat \ {0} /\ 1 \in 1..size
  BY DEF Inv, TypeOK
<1>2. DOMAIN index = {Log[i].gid : i \in 1..size}
  BY DEF Inv, Indexed
<1>3. ASSUME NEW g \in DOMAIN index \ {Log[1].gid}
      PROVE  g \in {Log[i + 1].gid : i \in 1..(size - 1)}
  <2>1. PICK i \in 1..size : g = Log[i].gid
    BY <1>2, <1>3
  <2>2. i - 1 \in 1..(size - 1) /\ (i - 1) + 1 = i
    BY <1>1, <1>3, <2>1
  <2> QED
    BY <2>1, <2>2
<1>4. ASSUME NEW i \in 1..(size - 1)
      PROVE  Log[i + 1].gid \in DOMAIN index \ {Log[1].gid}
  <2>1. i + 1 \in 1..size /\ i + 1 # 1
    BY <1>1
  <2>2. Log[i + 1].gid # Log[1].gid
    BY <1>1, <2>1, GIDsDiffer DEF Inv
  <2> QED
    BY <1>2, <2>1, <2>2
<1> QED
  BY <1>3, <1>4

\* The oldest result goes and x becomes the newest.
LEMMA Rotates ==
    ASSUME Inv, size >= 1, NEW x \in Result,
           head' = (head + 1) % capacity, capacity' = capacity, size' = size,
           buf' = [buf EXCEPT ![Slot(size)] = x],
           x.gid \notin {Log[i + 1].gid : i \in 1..(size - 1)},
           x.gid \in used', used \subseteq used',
           DOMAIN index' = (DOMAIN index \ {Log[1].gid}) \cup {x.gid},
           index'[x.gid] = Slot(size),
           \A g \in DOMAIN index \ {Log[1].gid} : g # x.gid => index'[g] = index[g]
    PROVE  Log' = Append(Tail(Log), x) /\ Recorded' /\ Indexed'
<1>1. capacity \in Nat \ {0} /\ head \in 0..(capacity - 1) /\ size \in 1..capacity
      /\ buf \in [0..(capacity - 1) -> Result \cup {None}]
  BY DEF Inv, TypeOK
<1>2. \A i \in 1..size : Slot(i - 1)' = Slot(i)
  BY HeadMoves
<1>3. \A i \in 1..(size - 1) : buf'[Slot(i)] = Log[i + 1]
  BY HeadMoves
<1>4. Slot(size) \in 0..(capacity - 1)
  BY <1>1, SlotFacts DEF Slot
<1>5. \A i \in 1..size : Log'[i] = buf'[Slot(i)]
  BY <1>2 DEF Log
<1>6. Log'[size] = x
  BY <1>1, <1>4, <1>5
<1>7. \A i \in 1..(size - 1) : Log'[i] = Log[i + 1]
  BY <1>1, <1>3, <1>5
<1>8. \A i \in 1..(size - 1) : i + 1 \in 1..size /\ i \in 1..size /\ (i + 1) - 1 = i
  BY <1>1
<1>9. \A i \in 1..size : i = size \/ i \in 1..(size - 1)
  BY <1>1
<1>10. Recorded'
  <2> SUFFICES ASSUME NEW i \in 1..size
               PROVE  Log'[i] \in Result /\ Log'[i].gid \in used'
    BY DEF Recorded
  <2>1. CASE i = size
    BY <1>6, <2>1
  <2>2. CASE i \in 1..(size - 1)
    BY <1>7, <1>8, <2>2 DEF Inv, Recorded
  <2> QED
    BY <1>9, <2>1, <2>2
<1>11. Log' = Append(Tail(Log), x)
  <2>1. Log \in Seq(Result) /\ Len(Log) = size
    BY LogIsSequence DEF Inv
  <2>2. Log' = [i \in 1..size |-> Log'[i]]
    BY DEF Log
  <2>3. Log' \in Seq(Result) /\ Len(Log') = size
    <3>1. \A i \in 1..size : Log'[i] \in Result
      BY <1>10 DEF Recorded
    <3> QED
      BY <1>1, <2>2, <3>1, SequenceOf
  <2> DEFINE t == Tail(Log)
  <2>4. t \in Seq(Result) /\ Len(t) = size - 1
        /\ \A i \in 1..(size - 1) : t[i] = Log[i + 1]
    BY <1>1, <2>1
  <2> HIDE DEF t
  <2>5. Append(t, x) \in Seq(Result) /\ Len(Append(t, x)) = size
        /\ Append(t, x)[size] = x
        /\ \A i \in 1..(size - 1) : Append(t, x)[i] = t[i]
    BY <1>1, <2>4
  <2>6. \A i \in 1..size : Log'[i] = Append(t, x)[i]
    BY <1>6, <1>7, <1>9, <2>4, <2>5
  <2>7. Log' = Append(t, x)
    BY <2>3, <2>5, <2>6, SeqEqual
  <2> QED
    BY <2>7 DEF t
<1>12. Indexed'
  <2>1. DOMAIN index' = {Log'[i].gid : i \in 1..size'}
    <3>1. DOMAIN index \ {Log[1].gid} = {Log[i + 1].gid : i \in 1..(size - 1)}
      BY OtherGIDs
    <3>2. 1..size = 1..(size - 1) \cup {size}
      BY <1>1
    <3> QED
      BY <1>6, <1>7, <3>1, <3>2
  <2>2. ASSUME NEW i \in 1..size PROVE index'[Log'[i].gid] = Slot(i - 1)'
    <3>1. CASE i = size
      BY <1>2, <1>6, <3>1
    <3>2. CASE i \in 1..(size - 1)
      <4>1. Log[i + 1].gid \in DOMAIN index \ {Log[1].gid} /\ Log[i + 1].gid # x.gid
        BY <3>2, OtherGIDs
      <4>2. index[Log[i + 1].gid] = Slot((i + 1) - 1)
        BY <1>8, <3>2 DEF Inv, Indexed
      <4>3. index[Log[i + 1].gid] = Slot(i)
        BY <1>8, <3>2, <4>2
      <4> QED
        BY <1>2, <1>7, <3>2, <4>1, <4>3
    <3> QED
      BY <1>9, <3>1, <3>2
  <2> QED
    BY <2>1, <2>2 DEF Indexed
<1> QED
  BY <1>10, <1>11, <1>12

\* push on a full ring drops the oldest result and appends to the log.
LEMMA PushEvicts ==
    ASSUME Inv, NEW c \in Caller, NEW r \in Result, Push(c, r), ~(size < capacity)
    PROVE  Log' = Append(Tail(Log), r) /\ Recorded' /\ Indexed' /\ size >= 1
<1>1. size \in Nat /\ capacity \in Nat \ {0} /\ size = capacity /\ size >= 1
  BY DEF Inv, TypeOK
<1>2. buf[head] = Log[1]
  BY <1>1, HeadIsOldest
<1>3. /\ head' = (head + 1) % capacity /\ capacity' = capacity /\ size' = size
      /\ buf' = [buf EXCEPT ![Slot(size)] = r]
      /\ index' = [g \in (DOMAIN index \ {Log[1].gid}) \cup {r.gid} |->
                     IF g = r.gid THEN Slot(size) ELSE index[g]]
      /\ r.gid \notin used /\ used' = used \cup {r.gid}
  BY <1>1, <1>2 DEF Push
<1>4. r.gid \notin {Log[i + 1].gid : i \in 1..(size - 1)}
  <2>1. \A i \in 1..(size - 1) : i + 1 \in 1..size
    BY <1>1
  <2> QED
    BY <1>3, <2>1 DEF Inv, Recorded
<1> QED
  BY <1>1, <1>3, <1>4, Rotates

\* The loop of addStoppedLocked, when the oldest result is to be kept.
LEMMA TrimKeeps ==
    ASSUME Inv, NEW c \in Caller, TrimOne(c), Kept(buf[head])
    PROVE  Log' = Append(Tail(Log), Head(Log)) /\ Recorded' /\ Indexed' /\ size >= 1
<1>1. capacity \in Nat \ {0} /\ head \in 0..(capacity - 1) /\ size \in 1..capacity
  BY DEF Inv, TypeOK, TrimOne
<1>2. buf[head] = Log[1] /\ buf[head] \in Result /\ 1 \in 1..size
      /\ buf[head].gid \in DOMAIN index /\ Head(Log) = Log[1]
  BY <1>1, HeadIsOldest
<1>3. (((head + 1) % capacity) + size - 1) % capacity = Slot(size)
  <2> DEFINE k == (head + 1) % capacity
             j == size - 1
  <2>1. j \in 0..(capacity - 1) /\ j + 1 = size
    BY <1>1
  <2> HIDE DEF j
  <2>2. k \in 0..(capacity - 1) /\ (k + j) % capacity = (head + (j + 1)) % capacity
    BY <1>1, <2>1, SlotOfNextHead
  <2> HIDE DEF k
  <2>3. k + size - 1 = k + j
    BY <1>1, <2>2 DEF j
  <2> QED
    BY <2>1, <2>2, <2>3 DEF Slot, k
<1>4. /\ head' = (head + 1) % capacity /\ capacity' = capacity /\ size' = size
      /\ buf' = [buf EXCEPT ![Slot(size)] = Log[1]]
      /\ index' = [index EXCEPT ![Log[1].gid] = Slot(size)]
      /\ used' = used
  <2>1. /\ head' = (head + 1) % capacity /\ capacity' = capacity /\ size' = size
        /\ buf' = [buf EXCEPT ![Slot(size)] = buf[head]]
        /\ index' = [index EXCEPT ![buf[head].gid] = Slot(size)]
        /\ used' = used
    BY <1>3 DEF TrimOne
  <2> QED
    BY <1>2, <2>1
<1>5. Log[1].gid \notin {Log[i + 1].gid : i \in 1..(size - 1)}
  <2>1. size >= 1
    BY <1>1
  <2>2. DOMAIN index \ {Log[1].gid} = {Log[i + 1].gid : i \in 1..(size - 1)}
    BY <2>1, OtherGIDs
  <2> QED
    BY <2>2
<1>6. size >= 1 /\ Log[1] \in Result /\ Log[1].gid \in used' /\ used \subseteq used'
  BY <1>1, <1>2, <1>4 DEF Inv, Recorded
<1>7. DOMAIN index' = (DOMAIN index \ {Log[1].gid}) \cup {Log[1].gid}
      /\ index'[Log[1].gid] = Slot(size)
      /\ \A g \in DOMAIN index \ {Log[1].gid} : g # Log[1].gid => index'[g] = index[g]
  BY <1>2, <1>4
<1>8. Log' = Append(Tail(Log), Log[1]) /\ Recorded' /\ Indexed'
  BY <1>4, <1>5, <1>6, <1>7, Rotates
<1> QED
  BY <1>2, <1>6, <1>8

\* The loop of addStoppedLocked, when the oldest result goes.
LEMMA TrimDrops ==
    ASSUME Inv, NEW c \in Caller, TrimOne(c), ~Kept(buf[head])
    PROVE  Log' = Tail(Log) /\ Recorded' /\ Indexed' /\ size >= 1
<1>1. capacity \in Nat \ {0} /\ head \in 0..(capacity - 1) /\ size \in 1..capacity
  BY DEF Inv, TypeOK, TrimOne
<1>2. size >= 1
  BY <1>1
<1>3. buf[head] = Log[1]
  BY <1>2, HeadIsOldest
<1>4. /\ head' = (head + 1) % capacity /\ capacity' = capacity /\ size' = size - 1
      /\ buf' = buf
      /\ index' = [g \in DOMAIN index \ {Log[1].gid} |-> index[g]]
      /\ used' = used
  <2>1. /\ head' = (head + 1) % capacity /\ capacity' = capacity /\ size' = size - 1
        /\ buf' = buf
        /\ index' = [g \in DOMAIN index \ {buf[head].gid} |-> index[g]]
        /\ used' = used
    BY DEF TrimOne
  <2> QED
    BY <1>3, <2>1
<1>5. \A i \in 1..size : Slot(i - 1)' = Slot(i)
  BY <1>2, <1>4, HeadMoves
<1>6. \A i \in 1..(size - 1) : buf'[Slot(i)] = Log[i + 1]
  BY <1>2, <1>4, HeadMoves
<1>7. \A i \in 1..(size - 1) : i + 1 \in 1..size /\ i \in 1..size /\ (i + 1) - 1 = i
  BY <1>1
<1>8. \A i \in 1..(size - 1) : Log'[i] = Log[i + 1]
  BY <1>4, <1>5, <1>6, <1>7 DEF Log
<1>9. Recorded'
  BY <1>4, <1>7, <1>8 DEF Inv, Recorded
<1>10. Log' = Tail(Log)
  <2>1. Log \in Seq(Result) /\ Len(Log) = size
    BY LogIsSequence DEF Inv
  <2>2. Log' = [i \in 1..(size - 1) |-> Log'[i]]
    BY <1>4 DEF Log
  <2>3. Log' \in Seq(Result) /\ Len(Log') = size - 1
    <3>1. \A i \in 1..(size - 1) : Log'[i] \in Result
      BY <1>4, <1>9 DEF Recorded
    <3>2. size - 1 \in Nat
      BY <1>1
    <3> QED
      BY <2>2, <3>1, <3>2, SequenceOf
  <2> DEFINE t == Tail(Log)
  <2>4. t \in Seq(Result) /\ Len(t) = size - 1
        /\ \A i \in 1..(size - 1) : t[i] = Log[i + 1]
    BY <1>1, <2>1
  <2> HIDE DEF t
  <2>5. Log' = t
    BY <1>8, <2>3, <2>4, SeqEqual
  <2> QED
    BY <2>5 DEF t
<1>11. Indexed'
  <2>1. DOMAIN index \ {Log[1].gid} = {Log[i + 1].gid : i \in 1..(size - 1)}
    BY <1>2, OtherGIDs
  <2>2. DOMAIN index' = {Log'[i].gid : i \in 1..size'}
    BY <1>4, <1>8, <2>1
  <2>3. ASSUME NEW i \in 1..(size - 1) PROVE index'[Log'[i].gid] = Slot(i - 1)'
    <3>1. index[Log[i + 1].gid] = Slot((i + 1) - 1)
      BY <1>7 DEF Inv, Indexed
    <3>2. index[Log[i + 1].gid] = Slot(i)
      BY <1>7, <3>1
    <3> QED
      BY <1>4, <1>5, <1>7, <1>8, <2>1, <3>2
  <2> QED
    BY <1>4, <2>2, <2>3 DEF Indexed
<1> QED
  BY <1>2, <1>9, <1>10, <1>11

\* A buffer that is written anew from the results l holds l.
LEMMA LaysOut ==
    ASSUME NEW l \in Seq(Result), NEW n \in Nat \ {0}, Len(l) <= n, Lay(l, n),
           \A i, j \in 1..Len(l) : l[i].gid = l[j].gid => i = j,
           \A i \in 1..Len(l) : l[i].gid \in used'
    PROVE  /\ Log' = l /\ Recorded' /\ Indexed'
           /\ buf' \in [0..(n - 1) -> Result \cup {None}]
<1> DEFINE m == Len(l)
<1>1. m \in Nat /\ m <= n /\ l = [i \in 1..m |-> l[i]] /\ \A i \in 1..m : l[i] \in Result
  BY LenProperties, ElementOfSeq
<1> HIDE DEF m
<1>2. /\ buf' = [p \in 0..(n - 1) |-> IF p < m THEN l[p + 1] ELSE None]
      /\ index' = [g \in {l[i].gid : i \in 1..m} |->
                     CHOOSE p \in 0..(m - 1) : l[p + 1].gid = g]
      /\ head' = 0 /\ size' = m /\ capacity' = n
  BY DEF Lay, m
<1>3. ASSUME NEW i \in 1..m
      PROVE  /\ i - 1 \in 0..(n - 1) /\ i - 1 < m /\ (i - 1) + 1 = i
             /\ i - 1 \in 0..(m - 1) /\ Slot(i - 1)' = i - 1
  <2>1. i - 1 \in 0..(n - 1) /\ i - 1 < m /\ (i - 1) + 1 = i /\ i - 1 \in 0..(m - 1)
    BY <1>1
  <2>2. (0 + (i - 1)) % n = i - 1
    BY <2>1
  <2> QED
    BY <1>2, <2>1, <2>2 DEF Slot
<1>4. ASSUME NEW i \in 1..m PROVE Log'[i] = l[i]
  <2>1. Log'[i] = buf'[Slot(i - 1)']
    BY <1>2 DEF Log
  <2>2. buf'[i - 1] = l[(i - 1) + 1]
    BY <1>2, <1>3
  <2> QED
    BY <1>3, <2>1, <2>2
<1>5. Log' = l
  <2>1. Log' = [i \in 1..m |-> Log'[i]]
    BY <1>2 DEF Log
  <2> QED
    BY <1>1, <1>4, <2>1
<1>6. Recorded'
  BY <1>1, <1>2, <1>4 DEF Recorded, m
<1>7. Indexed'
  <2>1. DOMAIN index' = {Log'[i].gid : i \in 1..m}
    BY <1>2, <1>4
  <2>2. ASSUME NEW i \in 1..m PROVE index'[Log'[i].gid] = Slot(i - 1)'
    <3> DEFINE P(p) == l[p + 1].gid = l[i].gid
               q == CHOOSE p \in 0..(m - 1) : P(p)
    <3>1. i - 1 \in 0..(m - 1) /\ P(i - 1)
      BY <1>3
    <3>2. q \in 0..(m - 1) /\ P(q)
      BY <3>1
    <3>3. index'[l[i].gid] = q
      BY <1>2
    <3> HIDE DEF q
    <3>4. q + 1 \in 1..m /\ l[q + 1].gid = l[i].gid
      BY <1>1, <3>2
    <3>5. q + 1 = i
      BY <3>4 DEF m
    <3>6. q = i - 1
      BY <1>1, <3>2, <3>5
    <3> QED
      BY <1>3, <1>4, <3>3, <3>6
  <2> QED
    BY <1>2, <2>1, <2>2 DEF Indexed
<1>8. buf' \in [0..(n - 1) -> Result \cup {None}]
  <2>1. ASSUME NEW p \in 0..(n - 1), p < m PROVE l[p + 1] \in Result
    <3>1. p + 1 \in 1..m
      BY <1>1, <2>1
    <3> QED
      BY <1>1, <3>1
  <2> QED
    BY <1>2, <2>1
<1> QED
  BY <1>5, <1>6, <1>7, <1>8

\* resize keeps the newest results.
LEMMA ResizeKeepsNewest ==
    ASSUME Inv, NEW n \in Nat \ {0}, NEW drop,
           drop = IF size > n THEN size - n ELSE 0,
           Lay(SubSeq(Log, drop + 1, size), n), used' = used
    PROVE  /\ Log' = SubSeq(Log, drop + 1, size) /\ Recorded' /\ Indexed'
           /\ drop \in 0..size /\ size' \in 0..n
           /\ buf' \in [0..(n - 1) -> Result \cup {None}]
<1> DEFINE l == SubSeq(Log, drop + 1, size)
<1>1. size \in Nat /\ drop \in 0..size /\ size - drop <= n /\ size - drop \in 0..n
  BY DEF Inv, TypeOK
<1>2. Log \in Seq(Result) /\ Len(Log) = size
  BY LogIsSequence DEF Inv
<1>3. l \in Seq(Result) /\ Len(l) = size - drop
      /\ \A i \in 1..(size - drop) : l[i] = Log[drop + i]
  BY <1>1, <1>2
<1>4. \A i \in 1..(size - drop) : drop + i \in 1..size
  BY <1>1
<1> HIDE DEF l
<1>5. ASSUME NEW i \in 1..(size - drop), NEW j \in 1..(size - drop), l[i].gid = l[j].gid
      PROVE  i = j
  <2>1. Log[drop + i].gid = Log[drop + j].gid
    BY <1>3, <1>5
  <2>2. drop + i = drop + j
    BY <1>4, <2>1, GIDsDiffer DEF Inv
  <2> QED
    BY <1>1, <2>2
<1>6. \A i \in 1..(size - drop) : l[i].gid \in used'
  BY <1>3, <1>4 DEF Inv, Recorded
<1>7. Lay(l, n)
  BY DEF l
<1>8. size' = size - drop
  BY <1>3, <1>7 DEF Lay
<1>9. Log' = l /\ Recorded' /\ Indexed' /\ buf' \in [0..(n - 1) -> Result \cup {None}]
  BY <1>1, <1>3, <1>5, <1>6, <1>7, LaysOut
<1> QED
  BY <1>1, <1>8, <1>9 DEF l

\* removeByGID takes one result out of the log.
LEMMA RemoveForgets ==
    ASSUME Inv, NEW k \in 1..size,
           Lay(SubSeq(Log, 1, k - 1) \o SubSeq(Log, k + 1, size), capacity), used' = used
    PROVE  /\ Log' = SubSeq(Log, 1, k - 1) \o SubSeq(Log, k + 1, size)
           /\ Recorded' /\ Indexed' /\ size' \in 0..capacity
           /\ buf' \in [0..(capacity - 1) -> Result \cup {None}]
<1> DEFINE a == SubSeq(Log, 1, k - 1)
           b == SubSeq(Log, k + 1, size)
           l == a \o b
           At(i) == IF i < k THEN i ELSE i + 1
<1>1. capacity \in Nat \ {0} /\ size \in 1..capacity /\ size - 1 \in 0..capacity
  BY DEF Inv, TypeOK
<1>2. Log \in Seq(Result) /\ Len(Log) = size
  BY LogIsSequence DEF Inv
<1>3. a \in Seq(Result) /\ Len(a) = k - 1 /\ \A i \in 1..(k - 1) : a[i] = Log[i]
  BY <1>1, <1>2
<1>4. b \in Seq(Result) /\ Len(b) = size - k
      /\ \A i \in 1..(size - k) : b[i] = Log[k + i]
  BY <1>1, <1>2
<1> HIDE DEF a, b
<1>5. l \in Seq(Result) /\ Len(l) = size - 1
      /\ \A i \in 1..(size - 1) : l[i] = Log[At(i)]
  <2>1. l \in Seq(Result) /\ Len(l) = size - 1
    BY <1>1, <1>3, <1>4
  <2>2. ASSUME NEW i \in 1..(size - 1), i < k PROVE l[i] = Log[i]
    BY <1>1, <1>3, <1>4, <2>2
  <2>3. ASSUME NEW i \in 1..(size - 1), ~(i < k) PROVE l[i] = Log[i + 1]
    <3>1. i - (k - 1) \in 1..(size - k) /\ k + (i - (k - 1)) = i + 1
      BY <1>1, <2>3
    <3>2. l[i] = b[i - (k - 1)]
      BY <1>1, <1>3, <1>4, <2>3
    <3> QED
      BY <1>4, <3>1, <3>2
  <2> QED
    BY <2>1, <2>2, <2>3
<1> HIDE DEF l
<1>6. \A i \in 1..(size - 1) : At(i) \in 1..size
  BY <1>1
<1>7. \A i, j \in 1..(size - 1) : At(i) = At(j) => i = j
  BY <1>1
<1> HIDE DEF At
<1>8. ASSUME NEW i \in 1..(size - 1), NEW j \in 1..(size - 1), l[i].gid = l[j].gid
      PROVE  i = j
  <2>1. Log[At(i)].gid = Log[At(j)].gid
    BY <1>5, <1>8
  <2>2. At(i) = At(j)
    BY <1>6, <2>1, GIDsDiffer DEF Inv
  <2> QED
    BY <1>7, <2>2
<1>9. \A i \in 1..(size - 1) : l[i].gid \in used'
  BY <1>5, <1>6 DEF Inv, Recorded
<1>10. Lay(l, capacity)
  BY DEF l, a, b
<1>11. size' = size - 1
  BY <1>5, <1>10 DEF Lay
<1>12. Log' = l /\ Recorded' /\ Indexed'
       /\ buf' \in [0..(capacity - 1) -> Result \cup {None}]
  <2>1. Len(l) <= capacity
    BY <1>1, <1>5
  <2> QED
    BY <1>1, <1>5, <1>8, <1>9, <1>10, <2>1, LaysOut
<1> QED
  BY <1>1, <1>11, <1>12 DEF l, a, b

(***************************************************************************)
(* The invariant                                                           *)
(***************************************************************************)

\* The part of TypeOK about the ring, and the part about the account.
RingOK ==
    /\ capacity \in Nat \ {0}
    /\ buf \in [0..(capacity - 1) -> Result \cup {None}]
    /\ head \in 0..(capacity - 1) /\ size \in 0..capacity
AccountOK ==
    evictedTotal \in Nat /\ evictedErrors \in Nat /\ evictedLastErr \in ErrorCode

\* An evicted result leaves the account well typed.
LEMMA CountTyped ==
    ASSUME AccountOK, NEW r \in Result, CountEvicted(r)
    PROVE  AccountOK'
<1>1. r.outcome.errCode \in ErrorCode
  BY OutcomeAssumption DEF Result
<1> QED
  BY <1>1 DEF AccountOK, CountEvicted

\* The capacity of a ring is never zero.
LEMMA CapacityPositive == \A n \in Setting : Capacity(n) \in Nat \ {0}
  BY SettingAssumption, DefaultAssumption DEF Capacity

\* push keeps the types.
LEMMA PushTyped ==
    ASSUME Inv, NEW c \in Caller, NEW r \in Result, Push(c, r)
    PROVE  TypeOK'
<1>1. RingOK /\ AccountOK
  BY DEF Inv, TypeOK, RingOK, AccountOK
<1>2. Recorded' /\ Indexed'
  BY PushAppends, PushEvicts
<1>3. DOMAIN index' \subseteq GID
  BY <1>2 DEF Recorded, Indexed, Result
<1>4. RingOK' /\ AccountOK'
  <2>1. Slot(size) \in 0..(capacity - 1)
    BY <1>1, SlotFacts DEF Slot, RingOK
  <2>2. capacity' = capacity /\ buf' = [buf EXCEPT ![Slot(size)] = r]
    BY DEF Push
  <2>3. buf' \in [0..(capacity - 1) -> Result \cup {None}]
    BY <1>1, <2>2 DEF RingOK
  <2>4. CASE size < capacity
    <3>1. head' = head /\ size' = size + 1
          /\ evictedTotal' = evictedTotal /\ evictedErrors' = evictedErrors
          /\ evictedLastErr' = evictedLastErr
      BY <1>1, <2>4 DEF Push, evicted, RingOK
    <3>2. size' \in 0..capacity
      BY <1>1, <2>4, <3>1 DEF RingOK
    <3>3. RingOK'
      BY <1>1, <2>2, <2>3, <3>1, <3>2 DEF RingOK
    <3> QED
      BY <1>1, <3>1, <3>3 DEF AccountOK
  <2>5. CASE ~(size < capacity)
    <3>1. size >= 1 /\ size >= capacity
      BY <1>1, <2>5 DEF RingOK
    <3>2. head' = (head + 1) % capacity /\ size' = size /\ CountEvicted(buf[head])
      BY <3>1 DEF Push
    <3>3. buf[head] \in Result
      BY <3>1, HeadIsOldest
    <3>4. head' \in 0..(capacity - 1)
      <4> DEFINE z == 0
      <4>1. z \in 0..(capacity - 1)
        BY <1>1 DEF RingOK
      <4> HIDE DEF z
      <4> QED
        BY <1>1, <3>2, <4>1, SlotOfNextHead DEF RingOK
    <3>5. AccountOK'
      BY <1>1, <3>2, <3>3, CountTyped
    <3> QED
      BY <1>1, <2>2, <2>3, <3>2, <3>4, <3>5 DEF RingOK
  <2> QED
    BY <2>4, <2>5
<1>5. used' \subseteq GID /\ pc' \in [Caller -> PC]
  BY DEF Push, Inv, TypeOK, PC, Result
<1>6. removedErrors' \in Nat /\ removedLastErr' \in ErrorCode /\ mu' \in Caller \cup {None}
      /\ maxResults' \in Setting /\ keep' \in Keeps /\ changes' \in 0..MaxChanges
      /\ seen' \in [Caller -> [errors : Nat, last : ErrorCode, bound : Nat]]
  BY DEF Push, Inv, TypeOK, removed, config
<1> QED
  BY <1>3, <1>4, <1>5, <1>6 DEF TypeOK, RingOK, AccountOK

\* The loop of addStoppedLocked keeps the types.
LEMMA TrimTyped ==
    ASSUME Inv, NEW c \in Caller, TrimOne(c)
    PROVE  TypeOK' /\ Recorded' /\ Indexed'
<1>1. RingOK /\ AccountOK /\ size >= 1
  BY DEF Inv, TypeOK, RingOK, AccountOK, TrimOne
<1>2. Recorded' /\ Indexed'
  BY TrimKeeps, TrimDrops
<1>3. DOMAIN index' \subseteq GID
  BY <1>2 DEF Recorded, Indexed, Result
<1>4. buf[head] \in Result /\ CountEvicted(buf[head])
  BY <1>1, HeadIsOldest DEF TrimOne
<1>5. AccountOK'
  BY <1>1, <1>4, CountTyped
<1>6. head' \in 0..(capacity - 1)
  <2> DEFINE z == 0
  <2>1. z \in 0..(capacity - 1)
    BY <1>1 DEF RingOK
  <2> HIDE DEF z
  <2>2. head' = (head + 1) % capacity
    BY DEF TrimOne
  <2> QED
    BY <1>1, <2>1, <2>2, SlotOfNextHead DEF RingOK
<1>7. size' \in 0..capacity /\ capacity' = capacity
  BY <1>1 DEF TrimOne, RingOK
<1>8. buf' \in [0..(capacity - 1) -> Result \cup {None}]
  BY <1>1, <1>4 DEF TrimOne, RingOK
<1>9. buf[head].outcome.errCode \in ErrorCode
  BY <1>4, OutcomeAssumption DEF Result
<1>10. removedErrors' \in Nat /\ removedLastErr' \in ErrorCode
  BY <1>5, <1>9 DEF TrimOne, removed, Inv, TypeOK, AccountOK
<1>11. used' \subseteq GID /\ pc' \in [Caller -> PC] /\ mu' \in Caller \cup {None}
      /\ maxResults' \in Setting /\ keep' \in Keeps /\ changes' \in 0..MaxChanges
      /\ seen' \in [Caller -> [errors : Nat, last : ErrorCode, bound : Nat]]
  BY DEF TrimOne, Inv, TypeOK, config
<1> QED
  BY <1>1, <1>2, <1>3, <1>5, <1>6, <1>7, <1>8, <1>10, <1>11 DEF TypeOK, RingOK, AccountOK

\* resize keeps the invariant, whatever it does to the capacity.
LEMMA ResizeInv ==
    ASSUME Inv, NEW c \in Caller, Resize(c)
    PROVE  Inv'
<1> DEFINE n == Capacity(maxResults)
           drop == IF size > n THEN size - n ELSE 0
           failed == {i \in 1..drop : IsError(Log[i])}
<1>1. n \in Nat \ {0}
  BY CapacityPositive DEF Inv, TypeOK
<1>2. used' \subseteq GID /\ pc' \in [Caller -> PC] /\ mu' \in Caller \cup {None}
      /\ removedErrors' \in Nat /\ removedLastErr' \in ErrorCode /\ used' = used
      /\ maxResults' \in Setting /\ keep' \in Keeps /\ changes' \in 0..MaxChanges
      /\ seen' \in [Caller -> [errors : Nat, last : ErrorCode, bound : Nat]]
  BY DEF Resize, Inv, TypeOK, config, removed, PC
<1>3. CASE n = capacity
  <2>1. UNCHANGED <<slots, evicted>>
    BY <1>3 DEF Resize
  <2>2. Recorded' /\ Indexed'
    BY <1>2, <2>1 DEF Inv, Recorded, Indexed, Log, Slot, slots
  <2>3. TypeOK'
    BY <1>2, <2>1 DEF Inv, TypeOK, slots, evicted
  <2> QED
    BY <2>2, <2>3 DEF Inv
<1>4. CASE n # capacity
  <2>1. /\ Lay(SubSeq(Log, drop + 1, size), n)
        /\ evictedTotal' = evictedTotal + drop
        /\ evictedErrors' = evictedErrors + Cardinality(failed)
        /\ \/ evictedLastErr' = evictedLastErr
           \/ \E i \in failed : evictedLastErr' = Log[i].outcome.errCode
    BY <1>4 DEF Resize
  <2>2. /\ Recorded' /\ Indexed' /\ drop \in 0..size /\ size' \in 0..n
        /\ buf' \in [0..(n - 1) -> Result \cup {None}]
    BY <1>1, <1>2, <2>1, ResizeKeepsNewest
  <2>3. capacity' = n /\ head' = 0
    BY <2>1 DEF Lay
  <2> HIDE DEF n, drop
  <2>4. size \in Nat /\ drop \in Nat /\ 1..drop \subseteq 1..size
    BY <2>2 DEF Inv, TypeOK
  <2>5. Cardinality(failed) \in Nat
    <3>1. IsFiniteSet(1..drop)
      BY <2>4, FS_Interval
    <3>2. IsFiniteSet(failed)
      BY <3>1, FS_Subset
    <3> QED
      BY <3>2, FS_CardinalityType
  <2>6. \A i \in failed : Log[i].outcome.errCode \in ErrorCode
    BY <2>4, OutcomeAssumption DEF Inv, Recorded, Result
  <2> HIDE DEF failed
  <2>7. AccountOK'
    BY <2>1, <2>4, <2>5, <2>6 DEF AccountOK, Inv, TypeOK
  <2>8. RingOK'
    BY <1>1, <2>2, <2>3 DEF RingOK
  <2>9. DOMAIN index' \subseteq GID
    BY <2>2 DEF Recorded, Indexed, Result
  <2>10. TypeOK'
    BY <1>2, <2>7, <2>8, <2>9 DEF TypeOK, RingOK, AccountOK
  <2> QED
    BY <2>2, <2>10 DEF Inv
<1> QED
  BY <1>3, <1>4

\* Purging and removing results keep the invariant.
LEMMA ForgetInv ==
    ASSUME Inv, Purge \/ \E g \in GID : RemoveResult(g)
    PROVE  Inv'
<1>1. used' \subseteq GID /\ pc' \in [Caller -> PC] /\ mu' \in Caller \cup {None}
      /\ removedErrors' \in Nat /\ removedLastErr' \in ErrorCode /\ used' = used
      /\ maxResults' \in Setting /\ keep' \in Keeps /\ changes' \in 0..MaxChanges
      /\ seen' \in [Caller -> [errors : Nat, last : ErrorCode, bound : Nat]]
  BY DEF Purge, RemoveResult, Inv, TypeOK, config, removed
<1>2. AccountOK'
  BY DEF Purge, RemoveResult, Inv, TypeOK, evicted, AccountOK
<1>3. CASE Purge
  <2>1. size' = 0 /\ head' = 0 /\ capacity' = capacity /\ index' = [g \in {} |-> 0]
        /\ buf' = [p \in DOMAIN buf |->
                     IF \E i \in 0..(size - 1) : p = Slot(i) THEN None ELSE buf[p]]
    BY <1>3 DEF Purge
  <2>2. 1..size' = {}
    BY <2>1
  <2>3. Recorded' /\ Indexed'
    BY <2>1, <2>2 DEF Recorded, Indexed
  <2>4. RingOK' /\ DOMAIN index' \subseteq GID
    BY <2>1 DEF Inv, TypeOK, RingOK
  <2> QED
    BY <1>1, <1>2, <2>3, <2>4 DEF Inv, TypeOK, RingOK, AccountOK
<1>4. CASE \E g \in GID : RemoveResult(g)
  <2>1. PICK k \in 1..size :
             Lay(SubSeq(Log, 1, k - 1) \o SubSeq(Log, k + 1, size), capacity)
    BY <1>4 DEF RemoveResult
  <2>2. Recorded' /\ Indexed' /\ size' \in 0..capacity
        /\ buf' \in [0..(capacity - 1) -> Result \cup {None}]
    BY <1>1, <2>1, RemoveForgets
  <2>3. capacity' = capacity /\ head' = 0
    BY <2>1 DEF Lay
  <2>4. RingOK'
    BY <2>2, <2>3 DEF RingOK, Inv, TypeOK
  <2>5. DOMAIN index' \subseteq GID
    BY <2>2 DEF Recorded, Indexed, Result
  <2> QED
    BY <1>1, <1>2, <2>2, <2>4, <2>5 DEF Inv, TypeOK, RingOK, AccountOK
<1> QED
  BY <1>3, <1>4

\* The locals of a caller that has read nothing yet.
LEMMA UnreadTyped ==
    "success" \in ErrorCode /\ Unread \in [errors : Nat, last : ErrorCode, bound : Nat]
<1>1. "success" \in ErrorCode
  BY DEF ErrorCode
<1> QED
  BY <1>1 DEF Unread

\* The steps of a caller that leave the ring alone keep the invariant.
LEMMA CallerInv ==
    ASSUME Inv, NEW c \in Caller,
           \/ ReadEvicted(c) \/ StoreErrors(c) \/ StoreLast(c) \/ TrimStart(c)
           \/ TrimEnd(c) \/ ReadRacing(c) \/ \E n \in Setting : ChangeLimit(c, n)
    PROVE  Inv' /\ UNCHANGED <<slots, evicted>>
<1>1. UNCHANGED <<slots, evicted>> /\ used' = used
  BY DEF ReadEvicted, StoreErrors, StoreLast, TrimStart, TrimEnd, ReadRacing, ChangeLimit
<1>2. Recorded' /\ Indexed'
  BY <1>1 DEF Inv, Recorded, Indexed, Log, Slot, slots
<1>3. RingOK' /\ AccountOK' /\ DOMAIN index' \subseteq GID /\ used' \subseteq GID
  BY <1>1 DEF Inv, TypeOK, RingOK, AccountOK, slots, evicted
<1>4. pc' \in [Caller -> PC] /\ mu' \in Caller \cup {None}
  BY DEF ReadEvicted, StoreErrors, StoreLast, TrimStart, TrimEnd, ReadRacing, ChangeLimit,
         Inv, TypeOK, PC
<1>5. maxResults' \in Setting /\ keep' \in Keeps /\ changes' \in 0..MaxChanges
  BY BoundAssumption DEF ReadEvicted, StoreErrors, StoreLast, TrimStart, TrimEnd,
         ReadRacing, ChangeLimit, Inv, TypeOK, config
<1>6. seen[c] \in [errors : Nat, last : ErrorCode, bound : Nat]
  BY DEF Inv, TypeOK
<1>7. removedErrors' \in Nat /\ removedLastErr' \in ErrorCode
  BY <1>6 DEF ReadEvicted, StoreErrors, StoreLast, TrimStart, TrimEnd, ReadRacing,
         ChangeLimit, Inv, TypeOK, removed
<1>8. seen' \in [Caller -> [errors : Nat, last : ErrorCode, bound : Nat]]
  <2> DEFINE Locals == [errors : Nat, last : ErrorCode, bound : Nat]
  <2>1. Capacity(maxResults) \in Nat /\ evictedErrors \in Nat /\ evictedLastErr \in ErrorCode
        /\ seen \in [Caller -> Locals]
    BY CapacityPositive DEF Inv, TypeOK
  <2>2. CASE ReadEvicted(c) \/ ReadRacing(c)
    BY <2>1, <2>2 DEF ReadEvicted, ReadRacing
  <2>3. CASE TrimStart(c)
    BY <2>1, <2>3 DEF TrimStart
  <2>4. CASE StoreLast(c) \/ TrimEnd(c)
    BY <2>1, <2>4, UnreadTyped DEF StoreLast, TrimEnd
  <2>5. CASE StoreErrors(c) \/ \E n \in Setting : ChangeLimit(c, n)
    BY <2>1, <2>5 DEF StoreErrors, ChangeLimit
  <2> QED
    BY <2>2, <2>3, <2>4, <2>5
<1> QED
  BY <1>1, <1>2, <1>3, <1>4, <1>5, <1>7, <1>8 DEF Inv, TypeOK, RingOK, AccountOK

\* A new ring is empty.
LEMMA InvInit == Init => Inv
<1> SUFFICES ASSUME Init PROVE Inv
  OBVIOUS
<1>1. capacity \in Nat \ {0}
  BY CapacityPositive DEF Init
<1>2. 1..size = {}
  BY DEF Init
<1>3. Recorded /\ Indexed
  BY <1>2 DEF Init, Recorded, Indexed
<1>4. RingOK /\ AccountOK /\ DOMAIN index \subseteq GID /\ used \subseteq GID
  BY <1>1 DEF Init, RingOK, AccountOK
<1>5. pc \in [Caller -> PC] /\ mu \in Caller \cup {None}
      /\ removedErrors \in Nat /\ removedLastErr \in ErrorCode
  <2>1. pc \in [Caller -> PC]
    BY DEF Init, PC
  <2> QED
    BY <2>1, UnreadTyped DEF Init
<1>6. maxResults \in Setting /\ keep \in Keeps /\ changes \in 0..MaxChanges
  BY BoundAssumption DEF Init
<1>7. seen \in [Caller -> [errors : Nat, last : ErrorCode, bound : Nat]]
  BY UnreadTyped DEF Init
<1> QED
  BY <1>3, <1>4, <1>5, <1>6, <1>7 DEF Inv, TypeOK, RingOK, AccountOK

\* Every step keeps the invariant.
LEMMA InvStep == Inv /\ [Next]_vars => Inv'
<1> SUFFICES ASSUME Inv, [Next]_vars PROVE Inv'
  OBVIOUS
<1>1. ASSUME NEW c \in Caller, NEW r \in Result, Push(c, r) PROVE Inv'
  BY <1>1, PushTyped, PushAppends, PushEvicts DEF Inv
<1>2. ASSUME NEW c \in Caller, TrimOne(c) PROVE Inv'
  BY <1>2, TrimTyped DEF Inv
<1>3. CASE UNCHANGED vars
  <2>1. Recorded' /\ Indexed'
    BY <1>3 DEF vars, slots, Inv, Recorded, Indexed, Log, Slot
  <2>2. TypeOK'
    BY <1>3 DEF vars, slots, evicted, removed, config, Inv, TypeOK
  <2> QED
    BY <2>1, <2>2 DEF Inv
<1> QED
  BY <1>1, <1>2, <1>3, ResizeInv, ForgetInv, CallerInv DEF Next, Locking, Going

(***************************************************************************)
(* The theorems                                                            *)
(***************************************************************************)

\* The invariant of the ring holds in every reachable state.
THEOREM RingInvariant == Spec => []Inv
<1>1. Init => Inv
  BY InvInit
<1>2. Inv /\ [Next]_vars => Inv'
  BY InvStep
<1> QED
  BY <1>1, <1>2, PTL DEF Spec

\* TellStatus finds the result of a stopped download exactly as long as
\* TellStopped lists it, for any number of downloads and callers: the index of
\* stopped_ring.go never has a slot that was evicted, moved or overwritten.
THEOREM IndexCorrect == Spec => []IndexAgrees
<1>1. Inv => IndexAgrees
  BY IndexedFinds DEF Inv
<1> QED
  BY <1>1, RingInvariant, PTL

\* The log counts with the Cardinality of its own instance.
LEMMA SameCardinality == \A S : Promise!Cardinality(S) = Cardinality(S)
  BY DEF Promise!Cardinality, Cardinality

\* Evicting the oldest result is counted as the log counts it.
LEMMA CountsOne ==
    ASSUME Inv, size >= 1, CountEvicted(buf[head])
    PROVE  Promise!Count(1)
<1>1. buf[head] = Log[1]
  BY HeadIsOldest
<1>2. evictedErrors \in Nat
  BY DEF Inv, TypeOK
<1> DEFINE failed == {i \in 1..1 : Promise!IsError(Log[i])}
<1>3. CASE IsError(Log[1])
  <2>1. failed = {1}
    BY <1>3 DEF IsError, Promise!IsError
  <2>2. Cardinality(failed) = 1
    BY <2>1, FS_Singleton
  <2>3. evictedErrors' = evictedErrors + 1 /\ evictedLastErr' = Log[1].outcome.errCode
    BY <1>1, <1>3 DEF CountEvicted
  <2> QED
    BY <2>1, <2>2, <2>3, SameCardinality DEF Promise!Count, Promise!Failures
<1>4. CASE ~IsError(Log[1])
  <2>1. failed = {}
    BY <1>4 DEF IsError, Promise!IsError
  <2>2. Cardinality(failed) = 0
    BY <2>1, FS_EmptySet
  <2>3. evictedErrors' = evictedErrors /\ evictedLastErr' = evictedLastErr
    BY <1>1, <1>4 DEF CountEvicted
  <2> QED
    BY <1>2, <2>1, <2>2, <2>3, SameCardinality DEF Promise!Count, Promise!Failures
<1> QED
  BY <1>3, <1>4

\* push is the recording of a result.
LEMMA PushRecords ==
    ASSUME Inv, NEW c \in Caller, NEW r \in Result, Push(c, r)
    PROVE  Promise!Record(r)
<1>1. Len(Log) = size
  BY LogIsSequence DEF Inv
<1>2. \A i \in 1..size : Log[i].gid # r.gid
  BY DEF Push, Inv, Recorded
<1>3. capacity' = capacity
  BY DEF Push
<1>4. CASE size < capacity
  <2>1. Log' = Append(Log, r)
    BY <1>4, PushAppends
  <2>2. size \in Nat /\ capacity \in Nat
    BY DEF Inv, TypeOK
  <2>3. evictedErrors' = evictedErrors /\ evictedLastErr' = evictedLastErr
    BY <1>4, <2>2 DEF Push, evicted
  <2> QED
    BY <1>1, <1>2, <1>3, <1>4, <2>1, <2>3 DEF Promise!Record
<1>5. CASE ~(size < capacity)
  <2>1. Log' = Append(Tail(Log), r) /\ size >= 1
    BY <1>5, PushEvicts
  <2>2. size >= capacity
    BY <1>5 DEF Inv, TypeOK
  <2>3. Promise!Count(1)
    BY <2>1, <2>2, CountsOne DEF Push
  <2> QED
    BY <1>1, <1>2, <1>3, <1>5, <2>1, <2>3 DEF Promise!Record
<1> QED
  BY <1>4, <1>5

\* A round of the loop of addStoppedLocked is a trimming of the log.
LEMMA TrimTrims ==
    ASSUME Inv, NEW c \in Caller, TrimOne(c)
    PROVE  \E again \in BOOLEAN : Promise!Trim(again)
<1>1. size >= 1 /\ capacity' = capacity /\ CountEvicted(buf[head])
  BY DEF TrimOne, Inv, TypeOK
<1>2. Promise!Count(1)
  BY <1>1, CountsOne
<1>3. Log # <<>>
  BY <1>1, HeadIsOldest
<1>4. CASE Kept(buf[head])
  <2>1. Log' = Append(Tail(Log), Head(Log))
    BY <1>4, TrimKeeps
  <2>2. Promise!Trim(TRUE)
    BY <1>1, <1>2, <1>3, <2>1 DEF Promise!Trim
  <2> QED
    BY <2>2
<1>5. CASE ~Kept(buf[head])
  <2>1. Log' = Tail(Log)
    BY <1>5, TrimDrops
  <2>2. Promise!Trim(FALSE)
    BY <1>1, <1>2, <1>3, <2>1 DEF Promise!Trim
  <2> QED
    BY <2>2
<1> QED
  BY <1>4, <1>5

\* resize changes the limit of the log, or nothing.
LEMMA ResizeRelimits ==
    ASSUME Inv, NEW c \in Caller, Resize(c)
    PROVE  \/ \E n \in {Capacity(s) : s \in Setting} : Promise!Relimit(n)
           \/ UNCHANGED <<Log, capacity, evictedErrors, evictedLastErr>>
<1> DEFINE n == Capacity(maxResults)
           drop == IF size > n THEN size - n ELSE 0
           failed == {i \in 1..drop : IsError(Log[i])}
<1>1. n \in Nat \ {0} /\ n \in {Capacity(s) : s \in Setting}
  BY CapacityPositive DEF Inv, TypeOK
<1>2. CASE n = capacity
  BY <1>2 DEF Resize, slots, evicted, Log, Slot
<1>3. CASE n # capacity
  <2>1. /\ Lay(SubSeq(Log, drop + 1, size), n) /\ used' = used
        /\ evictedErrors' = evictedErrors + Cardinality(failed)
        /\ \/ failed = {} /\ evictedLastErr' = evictedLastErr
           \/ \E i \in failed : (\A j \in failed : j <= i)
                                /\ evictedLastErr' = Log[i].outcome.errCode
    BY <1>3 DEF Resize
  <2>2. Log' = SubSeq(Log, drop + 1, size)
    BY <1>1, <2>1, ResizeKeepsNewest
  <2>3. capacity' = n
    BY <2>1 DEF Lay
  <2>4. Len(Log) = size
    BY LogIsSequence DEF Inv
  <2>5. failed = Promise!Failures(Log, drop)
    BY DEF Promise!Failures, Promise!IsError, IsError
  <2>6. Promise!Count(drop)
    BY <2>1, <2>5, SameCardinality DEF Promise!Count
  <2>7. Promise!Relimit(n)
    BY <2>2, <2>3, <2>4, <2>6 DEF Promise!Relimit
  <2> QED
    BY <1>1, <2>7
<1> QED
  BY <1>2, <1>3

\* Every step of the engine on the ring is a step of the log.
LEMMA StepImplements ==
    Inv /\ [Next]_vars => [Promise!Next]_<<Log, capacity, evictedErrors, evictedLastErr>>
<1> SUFFICES ASSUME Inv, [Next]_vars
             PROVE  \/ Promise!Next
                    \/ UNCHANGED <<Log, capacity, evictedErrors, evictedLastErr>>
  OBVIOUS
<1>1. ASSUME UNCHANGED <<slots, evicted>>
      PROVE  UNCHANGED <<Log, capacity, evictedErrors, evictedLastErr>>
  BY <1>1 DEF slots, evicted, Log, Slot
<1>2. ASSUME NEW c \in Caller, NEW r \in Result, Push(c, r) PROVE Promise!Next
  BY <1>2, PushRecords DEF Promise!Next
<1>3. ASSUME NEW c \in Caller, TrimOne(c) PROVE Promise!Next
  BY <1>3, TrimTrims DEF Promise!Next
<1>4. ASSUME NEW c \in Caller, Resize(c)
      PROVE  \/ Promise!Next
             \/ UNCHANGED <<Log, capacity, evictedErrors, evictedLastErr>>
  BY <1>4, ResizeRelimits DEF Promise!Next
<1>5. ASSUME Purge PROVE Promise!Next
  <2>1. size' = 0 /\ capacity' = capacity
        /\ evictedErrors' = evictedErrors /\ evictedLastErr' = evictedLastErr
    BY <1>5 DEF Purge, evicted
  <2>2. Log' = <<>>
    BY <2>1 DEF Log
  <2> QED
    BY <2>1, <2>2 DEF Promise!Next, Promise!Purge
<1>6. ASSUME NEW g \in GID, RemoveResult(g) PROVE Promise!Next
  <2>1. PICK k \in 1..size :
             Lay(SubSeq(Log, 1, k - 1) \o SubSeq(Log, k + 1, size), capacity)
    BY <1>6 DEF RemoveResult
  <2>2. used' = used /\ evictedErrors' = evictedErrors
        /\ evictedLastErr' = evictedLastErr
    BY <1>6 DEF RemoveResult, evicted
  <2>3. capacity' = capacity
    BY <2>1 DEF Lay
  <2>4. Log' = SubSeq(Log, 1, k - 1) \o SubSeq(Log, k + 1, size)
    BY <2>1, <2>2, RemoveForgets
  <2>5. Len(Log) = size
    BY LogIsSequence DEF Inv
  <2>6. k \in 1..Len(Log) /\ Promise!Forget(k)
    BY <2>2, <2>3, <2>4, <2>5 DEF Promise!Forget
  <2> QED
    BY <2>6 DEF Promise!Next
<1>7. CASE UNCHANGED vars
  BY <1>1, <1>7 DEF vars
<1>8. ASSUME NEW c \in Caller,
             \/ ReadEvicted(c) \/ StoreErrors(c) \/ StoreLast(c) \/ TrimStart(c)
             \/ TrimEnd(c) \/ ReadRacing(c) \/ \E n \in Setting : ChangeLimit(c, n)
      PROVE  UNCHANGED <<Log, capacity, evictedErrors, evictedLastErr>>
  BY <1>1, <1>8, CallerInv
<1> QED
  BY <1>2, <1>3, <1>4, <1>5, <1>6, <1>7, <1>8 DEF Next, Locking, Going

\* stopped_ring.go with the operations that the engine adds to it implements the
\* log of results: what a client sees in the ring is the newest results, in
\* order, at most as many as the limit, and every failure that had to leave is
\* counted exactly once for each time it left.
THEOREM RingImplementsLog == Spec => RingIsLog
<1>1. Init => Promise!Init
  <2> SUFFICES ASSUME Init PROVE Promise!Init
    OBVIOUS
  <2>1. Log = <<>>
    BY DEF Init, Log
  <2>2. capacity \in {Capacity(n) : n \in Setting}
    BY DEF Init
  <2> QED
    BY <2>1, <2>2 DEF Init, Promise!Init
<1>2. Inv /\ [Next]_vars => [Promise!Next]_(Promise!vars)
  BY StepImplements DEF Promise!vars
<1> QED
  BY <1>1, <1>2, RingInvariant, PTL DEF Spec, RingIsLog, Promise!Spec
==============================================================================
