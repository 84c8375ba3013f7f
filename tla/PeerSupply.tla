----------------------------- MODULE PeerSupply -----------------------------
(***************************************************************************)
(* Where a torrent's peers come from (internal/engine/bt_discovery.go and  *)
(* the dial of bt_session.go): addresses found by the trackers and the     *)
(* DHT, the connector that dials each of them in a goroutine of its own,   *)
(* at most LimitCap at a time, the race of a TCP and a uTP dial, and the   *)
(* download loop that takes the connected peers in and drops them again.   *)
(* Incoming connections reach the loop through the same channel.           *)
(***************************************************************************)
EXTENDS Naturals, Sequences, FiniteSets, SequencesExt

CONSTANTS Addrs,      \* peer addresses, as normalizePeerAddr returns them
          FoundCap,   \* capacity of the channel of discovered addresses
          LimitCap,   \* capacity of limit: dials at a time
          ResultCap,  \* capacity of resultCh
          PeersCap,   \* capacity of newPeers
          DropCap,    \* capacity of dropCh
          MaxPeers,   \* btMaxPeers, 0 for no limit
          Transports, \* 2 when the uTP socket is up, else 1
          MaxIncoming \* bound on the incoming connections

VARIABLES stopped,   \* discoveryCtx is cancelled
          found,     \* addrs: discovered addresses, not yet looked at
          ctl,       \* the connector: where it is, and with which address
          pending, connected,
          dial,      \* per address: the goroutine dialling it
          resultCh, newPeers, dropCh,
          swarm,     \* the peers of the download loop, in order
          incoming   \* incoming connections so far

psVars == <<stopped, found, ctl, pending, connected, dial, resultCh,
            newPeers, dropCh, swarm, incoming>>

NoDial == [at |-> "no", left |-> 0]
Idle == [at |-> "select", addr |-> "", ok |-> FALSE]
InLimit == {a \in Addrs : dial[a].at # "no"}

(***************************************************************************)
(* emitTrackerPeers drops what does not fit; the DHT loop waits for room.  *)
(***************************************************************************)
emitTrackerPeers ==
    /\ ~stopped
    /\ \E a \in Addrs :
          found' = IF Len(found) < FoundCap THEN Append(found, a) ELSE found
    /\ UNCHANGED <<stopped, ctl, pending, connected, dial, resultCh,
                   newPeers, dropCh, swarm, incoming>>

canAcceptMorePeers == MaxPeers = 0 \/ Len(swarm) < MaxPeers

WantedWhenNotConnected(a) == a \notin connected /\ canAcceptMorePeers \* mutant

Wanted(a) == a \notin pending /\ a \notin connected /\ canAcceptMorePeers

(***************************************************************************)
(* The connector's loop: one ready case of its select at a time.           *)
(***************************************************************************)
TakeAddress ==
    /\ ctl.at = "select" /\ found # << >>
    /\ found' = Tail(found)
    /\ IF Wanted(Head(found))
       THEN /\ pending' = pending \union {Head(found)}
            /\ ctl' = [ctl EXCEPT !.at = "limit", !.addr = Head(found)]
       ELSE UNCHANGED <<pending, ctl>>
    /\ UNCHANGED <<stopped, connected, dial, resultCh, newPeers, dropCh,
                   swarm, incoming>>

\* limit <- struct{}{} waits without a look at the context.
StartDial ==
    /\ ctl.at = "limit" /\ Cardinality(InLimit) < LimitCap
    /\ dial[ctl.addr].at = "no"
    /\ dial' = [dial EXCEPT ![ctl.addr] =
                   [at |-> "dialing", left |-> Transports]]
    /\ ctl' = Idle
    /\ UNCHANGED <<stopped, found, pending, connected, resultCh,
                   newPeers, dropCh, swarm, incoming>>

TakeResult ==
    /\ ctl.at = "select" /\ resultCh # << >>
    /\ LET res == Head(resultCh)
       IN  /\ pending' = pending \ {res.addr}
           /\ connected' = IF res.ok THEN connected \union {res.addr}
                           ELSE connected
           /\ ctl' = IF res.ok
                     THEN [at |-> "offer", addr |-> res.addr, ok |-> TRUE]
                     ELSE ctl
    /\ resultCh' = Tail(resultCh)
    /\ UNCHANGED <<stopped, found, dial, newPeers, dropCh, swarm,
                   incoming>>

Offer ==
    /\ ctl.at = "offer" /\ Len(newPeers) < PeersCap
    /\ newPeers' = Append(newPeers, [addr |-> ctl.addr, incoming |-> FALSE])
    /\ ctl' = Idle
    /\ UNCHANGED <<stopped, found, pending, connected, dial, resultCh,
                   dropCh, swarm, incoming>>

TakeDrop ==
    /\ ctl.at = "select" /\ dropCh # << >>
    /\ connected' = connected \ {Head(dropCh)}
    /\ dropCh' = Tail(dropCh)
    /\ UNCHANGED <<stopped, found, ctl, pending, dial, resultCh,
                   newPeers, swarm, incoming>>

\* The connector returns, and forgets a peer it was about to offer.
ConnectorStops ==
    /\ stopped /\ ctl.at \in {"select", "offer"}
    /\ ctl' = [ctl EXCEPT !.at = "gone"]
    /\ UNCHANGED <<stopped, found, pending, connected, dial, resultCh,
                   newPeers, dropCh, swarm, incoming>>

Connector ==
    \/ TakeAddress \/ StartDial \/ TakeResult \/ Offer \/ TakeDrop
    \/ ConnectorStops

(***************************************************************************)
(* BtSession.Dial: the first transport that succeeds wins; the loser       *)
(* touches nothing but its own connection.                                 *)
(***************************************************************************)
TransportEnds(a) ==
    /\ dial[a].at = "dialing"
    /\ \/ \E at \in {"ok", "err"} :        \* configurePeerConnection may fail
             dial' = [dial EXCEPT ![a] = [at |-> at, left |-> 0]]
       \/ dial' = [dial EXCEPT ![a] =
             IF dial[a].left > 1 THEN [@ EXCEPT !.left = @ - 1]
             ELSE [at |-> "err", left |-> 0]]
    /\ UNCHANGED <<stopped, found, ctl, pending, connected, resultCh, newPeers,
                   dropCh, swarm, incoming>>

\* The result is queued, or dropped with its connection once stopped.
sendPeerConnectResult(a) ==
    /\ dial[a].at \in {"ok", "err"}
    /\ \/ /\ Len(resultCh) < ResultCap
          /\ resultCh' = Append(resultCh, [addr |-> a,
                                           ok |-> dial[a].at = "ok"])
       \/ stopped /\ UNCHANGED resultCh
    /\ dial' = [dial EXCEPT ![a] = NoDial]
    /\ UNCHANGED <<stopped, found, ctl, pending, connected, newPeers,
                   dropCh, swarm, incoming>>

(***************************************************************************)
(* The download loop and the bridge of the incoming connections.  A uTP    *)
(* peer calls from the port it listens on, so an incoming connection may   *)
(* carry an address that is also dialled.                                  *)
(***************************************************************************)
addPeer ==
    /\ newPeers # << >>
    /\ swarm' = Append(swarm, Head(newPeers))
    /\ newPeers' = Tail(newPeers)
    /\ UNCHANGED <<stopped, found, ctl, pending, connected, dial,
                   resultCh, dropCh, incoming>>

removePeer ==
    /\ \E i \in DOMAIN swarm :
          /\ swarm' = RemoveAt(swarm, i)
          /\ dropCh' = IF Len(dropCh) < DropCap
                       THEN Append(dropCh, swarm[i].addr) ELSE dropCh
    /\ UNCHANGED <<stopped, found, ctl, pending, connected, dial,
                   resultCh, newPeers, incoming>>

runInboundPeerBridge ==
    /\ incoming < MaxIncoming /\ Len(newPeers) < PeersCap
    /\ incoming' = incoming + 1
    /\ \E a \in Addrs :
          newPeers' = Append(newPeers, [addr |-> a, incoming |-> TRUE])
    /\ UNCHANGED <<stopped, found, ctl, pending, connected, dial,
                   resultCh, dropCh, swarm>>

\* The loop has ended: complete, failed or cancelled.
stopDiscovery ==
    /\ ~stopped
    /\ stopped' = TRUE
    /\ UNCHANGED <<found, ctl, pending, connected, dial, resultCh,
                   newPeers, dropCh, swarm, incoming>>

PsInit ==
    /\ stopped = FALSE /\ found = << >> /\ ctl = Idle
    /\ pending = {} /\ connected = {}
    /\ dial = [a \in Addrs |-> NoDial]
    /\ resultCh = << >> /\ newPeers = << >> /\ dropCh = << >>
    /\ swarm = << >> /\ incoming = 0

DialGoroutines ==
    \E a \in Addrs : TransportEnds(a) \/ sendPeerConnectResult(a)

PsNext ==
    \/ emitTrackerPeers \/ Connector \/ DialGoroutines
    \/ addPeer \/ removePeer \/ runInboundPeerBridge \/ stopDiscovery

\* The connector and the dials keep running; every dial ends.
Progress == Connector \/ DialGoroutines

PsSpec == PsInit /\ [][PsNext]_psVars /\ WF_psVars(Progress)

(***************************************************************************)
(* Properties.                                                             *)
(***************************************************************************)
Outgoing(s, a) == Cardinality({i \in DOMAIN s : s[i] = [addr |-> a, incoming |-> FALSE]})

Live(a) ==
    (IF dial[a].at \in {"dialing", "ok"} THEN 1 ELSE 0)
      + Cardinality({i \in DOMAIN resultCh : resultCh[i] =
                        [addr |-> a, ok |-> TRUE]})
      + (IF ctl.at = "offer" /\ ctl.addr = a THEN 1 ELSE 0)
      + Outgoing(newPeers, a) + Outgoing(swarm, a)

(***************************************************************************)
(* No address is dialled while a dial, a queued result or a peer of it     *)
(* exists (pending, connected and dropCh of runPeerConnector), as long as  *)
(* no incoming peer has used an address of its own accord: its departure   *)
(* clears `connected' for an outgoing peer that is still there.            *)
(***************************************************************************)
DialedOnce == incoming = 0 => \A a \in Addrs : Live(a) <= 1

(***************************************************************************)
(* Once the discovery is stopped the connector returns, so the download's  *)
(* discoveryWG.Wait ends: even when it waits for a slot while the dials    *)
(* wait for room in resultCh.                                              *)
(***************************************************************************)
AtRest == stopped => ctl.at = "gone"
=============================================================================
