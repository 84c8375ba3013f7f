--------------------------- MODULE DhtServerProofs ---------------------------
(***************************************************************************)
(* A DHT query is called back at most once and its record is its own, for  *)
(* any number of queries and of pooled records and any size of the ring.   *)
(***************************************************************************)
EXTENDS DhtServer, TLAPS

OrNone(S) == S \cup {None}
Query == [at : {"new", "enqueue", "arm", "sent", "failed"},
          obj : OrNone(TxObjs), kind : {"ping", "get", None}]
PendingTx == [callback : OrNone(Queries), timeout : OrNone(Queries)]

Typed ==
    /\ query \in [Queries -> Query]
    /\ tx \in [TxObjs -> PendingTx]
    /\ pool \in SUBSET TxObjs
    /\ txs \in [Queries -> OrNone(TxObjs)]
    /\ ring \in Seq(Queries) /\ heap \in Seq(Queries)
    /\ wire \in SUBSET Queries
    /\ reading \in OrNone(TxObjs)
    /\ calls \in [Queries -> {0, 1}]

\* A registered query owns its record, has not been called back, and the
\* read loop holds another record.
Registered ==
    \A x \in Queries : txs[x] # None =>
      /\ txs[x] \notin pool /\ txs[x] # reading
      /\ tx[txs[x]].callback = x
      /\ calls[x] = 0
      /\ query[x].at \in {"enqueue", "arm", "sent"}

\* The query whose answer is handled is no longer registered.
Handled ==
    reading # None =>
      /\ reading \notin pool
      /\ tx[reading].callback \in Queries
      /\ LET y == tx[reading].callback
         IN  calls[y] = 0 /\ txs[y] = None /\ query[y].at \in {"arm", "sent"}

\* Before enqueue a query is registered; before sendQuery and after it has
\* failed it is not, and was not called back.
Untouched ==
    \A x \in Queries :
      /\ query[x].at = "enqueue" => txs[x] # None /\ txs[x] = query[x].obj
      /\ query[x].at \in {"new", "failed"} => txs[x] = None /\ calls[x] = 0

\* What was enqueued is past enqueue, what waits for its timeout is sent.
OnTheWay ==
    /\ \A x \in wire : query[x].at \in {"arm", "sent"}
    /\ \A i \in 1 .. Len(ring) : query[ring[i]].at \in {"arm", "sent"}
    /\ \A i \in 1 .. Len(heap) : query[heap[i]].at = "sent"

IInv == Typed /\ Registered /\ Handled /\ Untouched /\ OnTheWay

Distinct == None \notin Queries /\ None \notin TxObjs

-----------------------------------------------------------------------------

\* NewServer: every record pooled, no query made.
LEMMA InitAnswers == ASSUME Distinct, DsInit PROVE IInv
<1> USE DEF DsInit, Distinct
<1>1. query \in [Queries -> Query]
  BY DEF Query, OrNone, None
<1>2. tx \in [TxObjs -> PendingTx]
  BY DEF PendingTx, OrNone, Blank, None
<1>3. Typed
  BY <1>1, <1>2 DEF Typed, OrNone
<1>4. Registered /\ Handled /\ Untouched /\ OnTheWay
  BY DEF Registered, Handled, Untouched, OnTheWay
<1>5. QED
  BY <1>3, <1>4 DEF IInv

\* A step of a query that is on no way leaves those that are where they are.
LEMMA Elsewhere ==
    ASSUME IInv, NEW x \in Queries, query[x].at \notin {"arm", "sent"},
           \A y \in Queries : y # x => query'[y] = query[y],
           UNCHANGED <<ring, wire, heap>>
    PROVE  OnTheWay'
<1>1. \A i \in 1 .. Len(ring) : ring[i] \in Queries
  BY DEF IInv, Typed
<1>2. \A i \in 1 .. Len(heap) : heap[i] \in Queries
  BY DEF IInv, Typed
<1>3. \A y \in wire : query'[y].at \in {"arm", "sent"}
  BY DEF IInv, Typed, OnTheWay
<1>4. \A i \in 1 .. Len(ring) : query'[ring[i]].at \in {"arm", "sent"}
  BY <1>1 DEF IInv, OnTheWay
<1>5. \A i \in 1 .. Len(heap) : query'[heap[i]].at = "sent"
  BY <1>2 DEF IInv, OnTheWay
<1>6. QED
  BY <1>3, <1>4, <1>5 DEF OnTheWay

\* sendQuery takes a record nobody holds.
LEMMA SendQueryKeeps ==
    ASSUME Distinct, IInv, NEW x \in Queries, sendQuery(x)
    PROVE  IInv'
<1>1. PICK kind \in {"ping", "get"}, o \in pool :
         /\ query' = [query EXCEPT ![x] = [at |-> "enqueue", obj |-> o, kind |-> kind]]
         /\ tx' = [tx EXCEPT ![o] = [callback |-> x, timeout |-> None]]
         /\ pool' = pool \ {o}
         /\ txs' = [txs EXCEPT ![x] = o]
  BY DEF sendQuery
<1>2. /\ UNCHANGED <<ring, wire, heap, reading, calls>>
      /\ query[x].at = "new" /\ o \in TxObjs /\ o # None
  BY DEF sendQuery, IInv, Typed, Distinct
<1>3. Typed'
  <2>1. query' \in [Queries -> Query]
    BY <1>1, <1>2 DEF IInv, Typed, Query, OrNone
  <2>2. tx' \in [TxObjs -> PendingTx]
    BY <1>1, <1>2 DEF IInv, Typed, PendingTx, OrNone
  <2>3. QED
    BY <1>1, <1>2, <2>1, <2>2 DEF IInv, Typed, OrNone
<1>4. /\ \A y \in Queries : y # x => query'[y] = query[y] /\ txs'[y] = txs[y]
      /\ query'[x].at = "enqueue" /\ query'[x].obj = o /\ txs'[x] = o
      /\ \A p \in TxObjs : p # o => tx'[p] = tx[p]
      /\ tx'[o].callback = x
  BY <1>1, <1>2 DEF IInv, Typed
<1>5. txs[x] = None /\ calls[x] = 0
  BY <1>2 DEF IInv, Untouched
<1>6. reading # o
  BY <1>2 DEF IInv, Handled
<1>7. Registered'
  BY <1>1, <1>2, <1>4, <1>5, <1>6 DEF IInv, Typed, OrNone, Registered
<1>8. Handled'
  <2> SUFFICES ASSUME reading # None
               PROVE  Handled'
    BY <1>2 DEF Handled
  <2>1. tx'[reading] = tx[reading] /\ reading \notin pool'
    BY <1>1, <1>4, <1>6 DEF IInv, Typed, OrNone, Handled
  <2>2. tx[reading].callback # x
    BY <1>2 DEF IInv, Handled
  <2>3. QED
    BY <1>2, <1>4, <2>1, <2>2 DEF IInv, Handled
<1>9. Untouched'
  BY <1>2, <1>4 DEF IInv, Untouched
<1>10. OnTheWay'
  BY <1>2, <1>4, Elsewhere
<1>11. QED
  BY <1>3, <1>7, <1>8, <1>9, <1>10 DEF IInv

\* sendQuery finds room in the ring.
LEMMA EnqueueKeeps ==
    ASSUME Distinct, IInv, NEW x \in Queries, enqueue(x), Len(ring) < RingCap
    PROVE  IInv'
<1>1. /\ query[x].at = "enqueue" /\ ring' = Append(ring, x)
      /\ query' = [query EXCEPT ![x].at = "arm"]
      /\ UNCHANGED <<tx, pool, txs, wire, heap, reading, calls>>
  BY DEF enqueue
<1>2. query' \in [Queries -> Query]
  BY <1>1 DEF IInv, Typed, Query
<1>3. ring' \in Seq(Queries)
  BY <1>1 DEF IInv, Typed
<1>4. Typed'
  BY <1>1, <1>2, <1>3 DEF IInv, Typed
<1>5. /\ \A y \in Queries : y # x => query'[y] = query[y]
      /\ query'[x].at = "arm"
  BY <1>1 DEF IInv, Typed, Query
<1>6. Registered'
  BY <1>1, <1>5 DEF IInv, Registered
<1>7. Handled'
  BY <1>1, <1>5 DEF IInv, Handled
<1>8. Untouched'
  BY <1>1, <1>5 DEF IInv, Untouched
<1>9. OnTheWay'
  <2>1. \A y \in wire' : query'[y].at \in {"arm", "sent"}
    BY <1>1, <1>5 DEF IInv, Typed, OnTheWay
  <2>2. \A i \in 1 .. Len(ring') : query'[ring'[i]].at \in {"arm", "sent"}
    <3> SUFFICES ASSUME NEW i \in 1 .. Len(ring')
                 PROVE  query'[ring'[i]].at \in {"arm", "sent"}
      OBVIOUS
    <3>1. CASE ring'[i] = x
      BY <1>5, <3>1
    <3>2. CASE ring'[i] # x
      <4>1. ring'[i] = ring[i] /\ i \in 1 .. Len(ring) /\ ring[i] \in Queries
        BY <1>1, <3>2 DEF IInv, Typed
      <4>2. QED
        BY <1>5, <3>2, <4>1 DEF IInv, OnTheWay
    <3>3. QED
      BY <3>1, <3>2
  <2>3. \A i \in 1 .. Len(heap') : query'[heap'[i]].at = "sent"
    <3>1. \A i \in 1 .. Len(heap) : heap[i] \in Queries
      BY DEF IInv, Typed
    <3>2. QED
      BY <1>1, <1>5, <3>1 DEF IInv, OnTheWay
  <2>4. QED
    BY <2>1, <2>2, <2>3 DEF OnTheWay
<1>10. QED
  BY <1>4, <1>6, <1>7, <1>8, <1>9 DEF IInv

\* The ring is full: the query is unregistered and its record pooled again.
LEMMA EnqueueFails ==
    ASSUME Distinct, IInv, NEW x \in Queries, enqueue(x), ~(Len(ring) < RingCap)
    PROVE  IInv'
<1> DEFINE o == query[x].obj
<1>1. /\ query[x].at = "enqueue" /\ query' = [query EXCEPT ![x].at = "failed"]
      /\ txs' = [txs EXCEPT ![x] = None] /\ tx' = [tx EXCEPT ![o] = Blank]
      /\ pool' = pool \cup {o}
      /\ UNCHANGED <<ring, wire, heap, reading, calls>>
  BY DEF enqueue
<1>2. /\ txs[x] = o /\ o \in TxObjs /\ o # reading /\ calls[x] = 0
      /\ tx[o].callback = x
  BY <1>1 DEF IInv, Typed, OrNone, Untouched, Registered
<1>3. /\ \A y \in Queries : y # x => query'[y] = query[y] /\ txs'[y] = txs[y]
      /\ query'[x].at = "failed" /\ txs'[x] = None
      /\ \A p \in TxObjs : p # o => tx'[p] = tx[p]
  BY <1>1 DEF IInv, Typed, Query
<1>4. \A y \in Queries : y # x => txs[y] # o
  BY <1>2 DEF IInv, Registered, Distinct
<1>5. Typed'
  <2>1. query' \in [Queries -> Query]
    BY <1>1 DEF IInv, Typed, Query
  <2>2. tx' \in [TxObjs -> PendingTx]
    BY <1>1 DEF IInv, Typed, PendingTx, OrNone, Blank
  <2>3. txs' \in [Queries -> OrNone(TxObjs)]
    BY <1>1 DEF IInv, Typed, OrNone
  <2>4. QED
    BY <1>1, <1>2, <2>1, <2>2, <2>3 DEF IInv, Typed
<1> HIDE DEF o
<1>6. Registered'
  <2> SUFFICES ASSUME NEW y \in Queries, txs'[y] # None
               PROVE  /\ txs'[y] \notin pool' /\ txs'[y] # reading'
                      /\ tx'[txs'[y]].callback = y
                      /\ calls'[y] = 0
                      /\ query'[y].at \in {"enqueue", "arm", "sent"}
    BY DEF Registered
  <2>1. y # x /\ txs'[y] = txs[y] /\ txs[y] # o /\ txs[y] \in TxObjs
    BY <1>3, <1>4 DEF IInv, Typed, OrNone
  <2>2. tx'[txs[y]] = tx[txs[y]] /\ query'[y] = query[y]
    BY <1>3, <2>1
  <2>3. QED
    BY <1>1, <2>1, <2>2 DEF IInv, Registered
<1>7. Handled'
  <2> SUFFICES ASSUME reading # None
               PROVE  Handled'
    BY <1>1 DEF Handled
  <2>1. tx'[reading] = tx[reading] /\ reading \notin pool'
    BY <1>1, <1>2, <1>3 DEF IInv, Typed, OrNone, Handled
  <2>2. tx[reading].callback # x
    BY <1>1 DEF IInv, Handled
  <2>3. QED
    BY <1>1, <1>3, <2>1, <2>2 DEF IInv, Handled
<1>8. Untouched'
  BY <1>1, <1>2, <1>3 DEF IInv, Untouched
<1>9. OnTheWay'
  BY <1>1, <1>3, Elsewhere
<1>10. QED
  BY <1>5, <1>6, <1>7, <1>8, <1>9 DEF IInv

\* Steps that change nothing the invariant speaks of.
LEMMA OthersKeep ==
    ASSUME IInv, UNCHANGED <<query, tx, pool, txs, ring, wire, heap, reading, calls>>
    PROVE  IInv'
  BY DEF IInv, Typed, Registered, Handled, Untouched, OnTheWay

\* arm may write the timeout of a record that is another query's by now; it
\* never changes whose record it is.
LEMMA ArmKeeps ==
    ASSUME Distinct, IInv, NEW x \in Queries, arm(x)
    PROVE  IInv'
<1>1. /\ query[x].at = "arm" /\ query' = [query EXCEPT ![x].at = "sent"]
      /\ tx' = [tx EXCEPT ![query[x].obj].timeout = x] /\ heap' = Append(heap, x)
      /\ UNCHANGED <<pool, txs, ring, wire, reading, calls>>
  BY DEF arm, push
<1>2. /\ \A y \in Queries : y # x => query'[y] = query[y]
      /\ query'[x].at = "sent"
  BY <1>1 DEF IInv, Typed, Query
<1>3. \A o \in TxObjs : tx'[o].callback = tx[o].callback
  BY <1>1 DEF IInv, Typed, PendingTx
<1>4. Typed'
  <2>1. query' \in [Queries -> Query]
    BY <1>1 DEF IInv, Typed, Query
  <2>2. tx' \in [TxObjs -> PendingTx]
    BY <1>1 DEF IInv, Typed, PendingTx, OrNone
  <2>3. heap' \in Seq(Queries)
    BY <1>1 DEF IInv, Typed
  <2>4. QED
    BY <1>1, <2>1, <2>2, <2>3 DEF IInv, Typed
<1>5. Registered'
  BY <1>1, <1>2, <1>3 DEF IInv, Typed, OrNone, Registered
<1>6. Handled'
  BY <1>1, <1>2, <1>3 DEF IInv, Typed, OrNone, Handled
<1>7. Untouched'
  BY <1>1, <1>2 DEF IInv, Untouched
<1>8. OnTheWay'
  <2>1. \A y \in wire' : query'[y].at \in {"arm", "sent"}
    BY <1>1, <1>2 DEF IInv, Typed, OnTheWay
  <2>2. \A i \in 1 .. Len(ring') : query'[ring'[i]].at \in {"arm", "sent"}
    <3>1. \A i \in 1 .. Len(ring) : ring[i] \in Queries
      BY DEF IInv, Typed
    <3>2. QED
      BY <1>1, <1>2, <3>1 DEF IInv, OnTheWay
  <2>3. \A i \in 1 .. Len(heap') : query'[heap'[i]].at = "sent"
    <3> SUFFICES ASSUME NEW i \in 1 .. Len(heap'), heap'[i] # x
                 PROVE  query'[heap'[i]].at = "sent"
      BY <1>2
    <3>1. heap'[i] = heap[i] /\ i \in 1 .. Len(heap) /\ heap[i] \in Queries
      BY <1>1 DEF IInv, Typed
    <3>2. QED
      BY <1>2, <3>1 DEF IInv, OnTheWay
  <2>4. QED
    BY <2>1, <2>2, <2>3 DEF OnTheWay
<1>9. QED
  BY <1>4, <1>5, <1>6, <1>7, <1>8 DEF IInv

\* The send loop moves the head of the ring to the wire.
LEMMA SendLoopKeeps == ASSUME IInv, sendLoop PROVE IInv'
<1>1. /\ ring # << >> /\ wire' = wire \cup {Head(ring)} /\ ring' = Tail(ring)
      /\ UNCHANGED <<query, tx, pool, txs, heap, reading, calls>>
  BY DEF sendLoop
<1>2. /\ Head(ring) = ring[1] /\ 1 \in 1 .. Len(ring) /\ ring[1] \in Queries
      /\ Tail(ring) \in Seq(Queries)
      /\ \A i \in 1 .. Len(Tail(ring)) :
            Tail(ring)[i] = ring[i + 1] /\ i + 1 \in 1 .. Len(ring)
  BY <1>1 DEF IInv, Typed
<1>3. Typed'
  BY <1>1, <1>2 DEF IInv, Typed
<1>4. Registered' /\ Handled' /\ Untouched'
  BY <1>1 DEF IInv, Registered, Handled, Untouched
<1>5. OnTheWay'
  BY <1>1, <1>2 DEF IInv, OnTheWay
<1>6. QED
  BY <1>3, <1>4, <1>5 DEF IInv

\* handleResponse takes the query out of txs; the read loop has its record.
LEMMA HandleResponseKeeps ==
    ASSUME Distinct, IInv, NEW x \in Queries, handleResponse(x)
    PROVE  IInv'
<1>1. /\ reading = None /\ x \in wire /\ txs[x] # None
      /\ reading' = txs[x] /\ txs' = [txs EXCEPT ![x] = None]
      /\ UNCHANGED <<query, tx, pool, ring, wire, heap, calls>>
  BY DEF handleResponse
<1>2. /\ txs[x] \in TxObjs /\ tx[txs[x]].callback = x /\ txs[x] \notin pool
      /\ calls[x] = 0 /\ query[x].at \in {"arm", "sent"}
  BY <1>1 DEF IInv, Typed, OrNone, Registered, OnTheWay
<1>3. /\ txs'[x] = None
      /\ \A y \in Queries : y # x => txs'[y] = txs[y]
  BY <1>1 DEF IInv, Typed
<1>4. Typed'
  BY <1>1, <1>2 DEF IInv, Typed, OrNone
<1>5. Registered'
  BY <1>1, <1>2, <1>3 DEF IInv, Registered
<1>6. Handled'
  BY <1>1, <1>2, <1>3 DEF Handled
<1>7. Untouched'
  BY <1>1, <1>2, <1>3 DEF IInv, Untouched
<1>8. OnTheWay'
  BY <1>1 DEF IInv, OnTheWay
<1>9. QED
  BY <1>4, <1>5, <1>6, <1>7, <1>8 DEF IInv

\* The one callback of a query: its record goes back to the pool, and neither
\* txs nor the read loop holds the query any more.
LEMMA CallbackKeeps ==
    ASSUME Distinct, IInv, NEW o \in TxObjs, NEW y \in Queries,
           tx[o].callback = y, calls[y] = 0, query[y].at \in {"arm", "sent"},
           \A z \in Queries : z # y => txs[z] # o,
           txs' \in [Queries -> OrNone(TxObjs)], txs'[y] = None,
           \A z \in Queries : z # y => txs'[z] = txs[z],
           reading' \in {None, reading}, reading' # o,
           reading' # None => tx[reading].callback # y,
           calls' = [calls EXCEPT ![y] = @ + 1],
           tx' = [tx EXCEPT ![o] = Blank], pool' = pool \cup {o},
           heap' \in Seq(Queries), OnTheWay', UNCHANGED <<query, ring, wire>>
    PROVE  IInv'
<1>1. /\ calls'[y] = 1
      /\ \A z \in Queries : z # y => calls'[z] = calls[z]
      /\ \A p \in TxObjs : p # o => tx'[p] = tx[p]
  BY DEF IInv, Typed
<1>2. Typed'
  <2>1. tx' \in [TxObjs -> PendingTx]
    BY DEF IInv, Typed, PendingTx, OrNone, Blank
  <2>2. calls' \in [Queries -> {0, 1}]
    BY DEF IInv, Typed
  <2>3. QED
    BY <2>1, <2>2 DEF IInv, Typed, OrNone
<1>3. Registered'
  <2> SUFFICES ASSUME NEW z \in Queries, txs'[z] # None
               PROVE  /\ txs'[z] \notin pool' /\ txs'[z] # reading'
                      /\ tx'[txs'[z]].callback = z
                      /\ calls'[z] = 0
                      /\ query'[z].at \in {"enqueue", "arm", "sent"}
    BY DEF Registered
  <2>1. z # y /\ txs'[z] = txs[z] /\ txs[z] # o /\ txs[z] \in TxObjs
    BY DEF IInv, Typed, OrNone
  <2>2. tx'[txs[z]] = tx[txs[z]] /\ calls'[z] = calls[z]
    BY <1>1, <2>1
  <2>3. QED
    BY <2>1, <2>2 DEF IInv, Registered
<1>4. Handled'
  <2> SUFFICES ASSUME reading' # None
               PROVE  Handled'
    BY DEF Handled
  <2>1. reading' = reading /\ reading # o /\ reading \in TxObjs /\ reading # None
    BY DEF IInv, Typed, OrNone
  <2>2. tx'[reading] = tx[reading] /\ tx[reading].callback # y
    BY <1>1, <2>1
  <2>3. QED
    BY <1>1, <2>1, <2>2 DEF IInv, Handled
<1>5. Untouched'
  BY <1>1 DEF IInv, Untouched
<1>6. QED
  BY <1>2, <1>3, <1>4, <1>5 DEF IInv

\* The read loop ends the query of the record it holds.
LEMMA RespondedKeeps == ASSUME Distinct, IInv, Responded PROVE IInv'
<1> DEFINE y == tx[reading].callback
<1>1. /\ reading # None /\ reading' = None
      /\ calls' = [calls EXCEPT ![y] = @ + 1]
      /\ tx' = [tx EXCEPT ![reading] = Blank] /\ pool' = pool \cup {reading}
      /\ UNCHANGED <<query, txs, ring, wire, heap>>
  BY DEF Responded, Callback
<1>2. /\ reading \in TxObjs /\ y \in Queries /\ calls[y] = 0 /\ txs[y] = None
      /\ query[y].at \in {"arm", "sent"}
  BY <1>1 DEF IInv, Typed, OrNone, Handled
<1>3. \A z \in Queries : z # y => txs[z] # reading
  BY <1>1 DEF IInv, Registered
<1>4. OnTheWay'
  BY <1>1 DEF IInv, OnTheWay
<1>5. /\ txs' \in [Queries -> OrNone(TxObjs)] /\ heap' \in Seq(Queries)
      /\ txs'[y] = None /\ \A z \in Queries : z # y => txs'[z] = txs[z]
      /\ reading' \in {None, reading} /\ reading' # reading
  BY <1>1, <1>2 DEF IInv, Typed
<1> HIDE DEF y
<1>6. tx[reading].callback = y
  BY DEF y
<1>7. QED
  BY <1>1, <1>2, <1>3, <1>4, <1>5, <1>6, CallbackKeeps

\* The timeout loop drops an entry whose query is done, or ends the query.
LEMMA ExpireKeeps == ASSUME Distinct, IInv, expire PROVE IInv'
<1> DEFINE x == Head(heap)
           o == txs[x]
<1>1. /\ heap # << >> /\ heap' = Tail(heap)
      /\ UNCHANGED <<query, ring, wire, reading>>
  BY DEF expire
<1>2. /\ x = heap[1] /\ 1 \in 1 .. Len(heap) /\ x \in Queries
      /\ Tail(heap) \in Seq(Queries)
      /\ \A i \in 1 .. Len(Tail(heap)) :
            Tail(heap)[i] = heap[i + 1] /\ i + 1 \in 1 .. Len(heap)
  BY <1>1 DEF IInv, Typed
<1>3. OnTheWay' /\ query[x].at = "sent"
  BY <1>1, <1>2 DEF IInv, OnTheWay
<1>4. CASE UNCHANGED <<tx, pool, txs, calls>>
  <2>1. Typed'
    BY <1>1, <1>2, <1>4 DEF IInv, Typed
  <2>2. Registered' /\ Handled' /\ Untouched'
    BY <1>1, <1>4 DEF IInv, Registered, Handled, Untouched
  <2>3. QED
    BY <1>3, <2>1, <2>2 DEF IInv
<1>5. CASE /\ o # None /\ txs' = [txs EXCEPT ![x] = None]
           /\ calls' = [calls EXCEPT ![tx[o].callback] = @ + 1]
           /\ tx' = [tx EXCEPT ![o] = Blank] /\ pool' = pool \cup {o}
  <2>1. /\ o \in TxObjs /\ tx[o].callback = x /\ calls[x] = 0 /\ reading # o
        /\ \A z \in Queries : z # x => txs[z] # o
    BY <1>2, <1>5 DEF IInv, Typed, OrNone, Registered
  <2>2. reading # None => tx[reading].callback # x
    BY <1>5 DEF IInv, Handled
  <2>3. /\ txs' \in [Queries -> OrNone(TxObjs)] /\ txs'[x] = None
        /\ \A z \in Queries : z # x => txs'[z] = txs[z]
    BY <1>2, <1>5 DEF IInv, Typed, OrNone
  <2>4. calls' = [calls EXCEPT ![x] = @ + 1]
    BY <1>5, <2>1
  <2>5. heap' \in Seq(Queries) /\ x \in Queries /\ query[x].at \in {"arm", "sent"}
    BY <1>1, <1>2, <1>3
  <2> HIDE DEF x, o
  <2>6. QED
    BY <1>1, <1>3, <1>5, <2>1, <2>2, <2>3, <2>4, <2>5, CallbackKeeps
<1>6. QED
  BY <1>4, <1>5 DEF expire, Callback

\* Every step of callers, loops and answers keeps IInv.
LEMMA StepAnswers ==
    ASSUME Distinct, IInv, [DsNext]_dsVars
    PROVE  IInv'
<1>1. CASE timeoutLoop \/ Stop \/ UNCHANGED dsVars \/ \E x \in Queries : GetPeers(x)
  BY <1>1, OthersKeep DEF timeoutLoop, Stop, dsVars, GetPeers
<1>2. QED
  BY <1>1, SendQueryKeeps, EnqueueKeeps, EnqueueFails, ArmKeeps, SendLoopKeeps,
     HandleResponseKeeps, RespondedKeeps, ExpireKeeps DEF DsNext, ClientSteps

\* A query's callback runs at most once and never after sendQuery has failed,
\* and no record is pooled while a query is registered with it, however answer
\* and timeout race (sendQuery, handleResponse, timeoutLoop, pendingTxPool).
THEOREM AnswersHold ==
    ASSUME Distinct
    PROVE  DsSpec => []DhtAnswers
<1>1. DsInit => IInv
  BY InitAnswers
<1>2. IInv /\ [DsNext]_dsVars => IInv'
  BY StepAnswers
<1>3. IInv => DhtAnswers
  BY DEF IInv, Typed, Registered, Untouched, DhtAnswers
<1>4. QED
  BY <1>1, <1>2, <1>3, PTL DEF DsSpec
=============================================================================
