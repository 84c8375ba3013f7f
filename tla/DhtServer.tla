------------------------------ MODULE DhtServer ------------------------------
(***************************************************************************)
(* The DHT server (internal/dht/dht.go): queries sent through a ring       *)
(* buffer, each with a pooled transaction record and an entry in the       *)
(* timeout heap, answered by the read loop or ended by the timeout loop,   *)
(* and the channel that a lookup's callback sends peers on.  The queries   *)
(* of others are DhtStore, the routing table is DhtRouting.                *)
(***************************************************************************)
EXTENDS Naturals, Sequences, FiniteSets

CONSTANTS Queries,   \* queries this node makes, one transaction ID each
          TxObjs,    \* transaction records of pendingTxPool
          RingCap    \* sendRingSize

VARIABLES query,     \* per query: where sendQuery is, its record and kind
          tx,        \* per record: callback and timeout fields
          pool,      \* pendingTxPool
          txs,       \* query -> record, under s.mu
          ring,      \* sendRB
          wire,      \* queries that have left
          heap, cancelled, signal,
          loop,      \* the timeout loop
          reading,   \* the read loop: the response it is handling
          calls,     \* ghost: callbacks per query
          found,     \* GetPeers' channel per query: "open" or "closed"
          panicked, stopped

dsVars == <<query, tx, pool, txs, ring, wire, heap, cancelled, signal, loop,
            reading, calls, found, panicked, stopped>>

None == "none"
Blank == [callback |-> None, timeout |-> None]
Up == ~panicked /\ ~stopped

(***************************************************************************)
(* sendQuery: register, enqueue, then arm the timeout.  The read loop may  *)
(* have handled the answer before the timeout is armed; the record may     *)
(* then belong to another query already.                                   *)
(***************************************************************************)
sendQuery(x) ==
    /\ Up /\ query[x].at = "new"
    /\ \E kind \in {"ping", "get"}, o \in pool :
          /\ query' = [query EXCEPT ![x] = [at |-> "enqueue", obj |-> o,
                                            kind |-> kind]]
          /\ tx' = [tx EXCEPT ![o] = [callback |-> x, timeout |-> None]]
          /\ pool' = pool \ {o}
          /\ txs' = [txs EXCEPT ![x] = o]
    /\ UNCHANGED <<ring, wire, heap, cancelled, signal, loop, reading, calls,
                   found, panicked, stopped>>

enqueue(x) ==
    /\ Up /\ query[x].at = "enqueue"
    /\ IF Len(ring) < RingCap
       THEN /\ ring' = Append(ring, x)
            /\ query' = [query EXCEPT ![x].at = "arm"]
            /\ UNCHANGED <<tx, pool, txs>>
       ELSE /\ txs' = [txs EXCEPT ![x] = None]
            /\ tx' = [tx EXCEPT ![query[x].obj] = Blank]
            /\ pool' = pool \union {query[x].obj}
            /\ query' = [query EXCEPT ![x].at = "failed"]
            /\ UNCHANGED ring
    /\ UNCHANGED <<wire, heap, cancelled, signal, loop, reading, calls, found,
                   panicked, stopped>>

\* timeoutHeapType.push; the signal is kept for a loop not yet waiting.
push(x) ==
    /\ heap' = Append(heap, x)
    /\ signal' = (signal \/ heap = << >>)

arm(x) ==
    /\ Up /\ query[x].at = "arm"
    /\ tx' = [tx EXCEPT ![query[x].obj].timeout = x]
    /\ push(x)
    /\ query' = [query EXCEPT ![x].at = "sent"]
    /\ UNCHANGED <<pool, txs, ring, wire, cancelled, loop, reading, calls,
                   found, panicked, stopped>>

sendLoop ==
    /\ Up /\ ring # << >>
    /\ wire' = wire \union {Head(ring)} /\ ring' = Tail(ring)
    /\ UNCHANGED <<query, tx, pool, txs, heap, cancelled, signal, loop,
                   reading, calls, found, panicked, stopped>>

(***************************************************************************)
(* The callback of a query, with a reply or with an error.  A lookup's     *)
(* callback sends the peers of the reply on the channel GetPeers made.     *)
(***************************************************************************)
Callback(x, peers) ==
    /\ calls' = [calls EXCEPT ![x] = @ + 1]
    /\ panicked' = (query[x].kind = "get" /\ peers /\ found[x] = "closed")

\* GetPeers waits for sendQuery to return, not for the replies.
GetPeers(x) ==
    /\ Up /\ query[x].at \in {"sent", "failed"} /\ query[x].kind = "get"
    /\ found[x] = "open"
    /\ found' = [found EXCEPT ![x] = "closed"]
    /\ UNCHANGED <<query, tx, pool, txs, ring, wire, heap, cancelled, signal,
                   loop, reading, calls, panicked, stopped>>

(***************************************************************************)
(* The read loop: a response, perhaps a repeated one, takes its record out *)
(* of txs; the rest happens outside s.mu.                                  *)
(***************************************************************************)
ResponseLeavesTx(x) ==                                            \* mutant
    /\ Up /\ reading = None /\ x \in wire /\ txs[x] # None
    /\ reading' = txs[x]
    /\ UNCHANGED <<query, tx, pool, txs, ring, wire, heap, cancelled, signal,
                   loop, calls, found, panicked, stopped>>

handleResponse(x) ==
    /\ Up /\ reading = None /\ x \in wire /\ txs[x] # None
    /\ reading' = txs[x]
    /\ txs' = [txs EXCEPT ![x] = None]
    /\ UNCHANGED <<query, tx, pool, ring, wire, heap, cancelled, signal, loop,
                   calls, found, panicked, stopped>>

Responded ==
    /\ Up /\ reading # None
    /\ LET t == tx[reading]
       IN  /\ cancelled' = IF t.timeout = None THEN cancelled
                           ELSE cancelled \union {t.timeout}
           /\ \E peers \in BOOLEAN : Callback(t.callback, peers)
    /\ tx' = [tx EXCEPT ![reading] = Blank]
    /\ pool' = pool \union {reading}
    /\ reading' = None
    /\ UNCHANGED <<query, txs, ring, wire, heap, signal, loop, found, stopped>>

(***************************************************************************)
(* The timeout loop.                                                       *)
(***************************************************************************)
timeoutLoop ==
    /\ Up
    /\ \/ /\ loop = "look"
          /\ loop' = IF heap = << >> THEN "empty" ELSE "timer"
          /\ UNCHANGED signal
       \/ loop = "empty" /\ loop' = "asleep" /\ UNCHANGED signal
       \/ /\ loop \in {"asleep", "timer"} /\ signal
          /\ signal' = FALSE /\ loop' = "look"
    /\ UNCHANGED <<query, tx, pool, txs, ring, wire, heap, cancelled, reading,
                   calls, found, panicked, stopped>>

\* The nearest deadline has passed.
expire ==
    /\ Up /\ loop = "timer" /\ heap # << >>
    /\ LET x == Head(heap)
           o == txs[x]
       IN  /\ heap' = Tail(heap) /\ loop' = "look"
           /\ IF x \in cancelled \/ o = None
              THEN UNCHANGED <<tx, pool, txs, calls, panicked>>
              ELSE /\ txs' = [txs EXCEPT ![x] = None]
                   /\ Callback(tx[o].callback, FALSE)
                   /\ tx' = [tx EXCEPT ![o] = Blank]
                   /\ pool' = pool \union {o}
    /\ UNCHANGED <<query, ring, wire, cancelled, signal, reading, found,
                   stopped>>

Stop ==
    /\ Up /\ stopped' = TRUE
    /\ UNCHANGED <<query, tx, pool, txs, ring, wire, heap, cancelled, signal,
                   loop, reading, calls, found, panicked>>

DsInit ==
    /\ query = [x \in Queries |-> [at |-> "new", obj |-> None, kind |-> None]]
    /\ tx = [o \in TxObjs |-> Blank] /\ pool = TxObjs
    /\ txs = [x \in Queries |-> None] /\ ring = << >> /\ wire = {}
    /\ heap = << >> /\ cancelled = {} /\ signal = FALSE /\ loop = "look"
    /\ reading = None /\ calls = [x \in Queries |-> 0]
    /\ found = [x \in Queries |-> "open"]
    /\ panicked = FALSE /\ stopped = FALSE

ClientSteps ==
    \/ \E x \in Queries : sendQuery(x) \/ enqueue(x) \/ arm(x)
    \/ sendLoop \/ Responded \/ timeoutLoop \/ expire

DsNext ==
    \/ ClientSteps \/ Stop
    \/ \E x \in Queries : GetPeers(x) \/ handleResponse(x)

\* The server's goroutines run and time passes; answers need not come.
DsSpec == DsInit /\ [][DsNext]_dsVars /\ WF_dsVars(ClientSteps)

(***************************************************************************)
(* A query's callback runs at most once, and never after sendQuery has     *)
(* failed, although answer and timeout race and records are reused; no     *)
(* record is pooled while a query is registered with it (handleResponse,   *)
(* timeoutLoop, pendingTxPool).                                           *)
(***************************************************************************)
DhtAnswers ==
    /\ \A x \in Queries : calls[x] <= 1
                          /\ (query[x].at = "failed" => calls[x] = 0)
    /\ \A x \in Queries : txs[x] # None =>
          txs[x] \notin pool /\ tx[txs[x]].callback = x

\* Unless the server ends, every query sent is answered or timed out.
AtRest ==
    \/ panicked \/ stopped
    \/ \A x \in Queries : query[x].at = "failed"
                          \/ (query[x].at = "sent" /\ calls[x] = 1)
=============================================================================
