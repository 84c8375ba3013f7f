------------------------------ MODULE NetDialer ------------------------------
(***************************************************************************)
(* Name resolution and dialling (internal/netx): the resolver's cache and  *)
(* its one lookup at a time per host, the race of the A and AAAA lookups,  *)
(* the attempts over the addresses found, and the tunnel through an HTTP   *)
(* proxy.  Callers are connections of downloads that dial the same host.   *)
(***************************************************************************)
EXTENDS Integers, Sequences, FiniteSets

CONSTANTS Callers,
          Configs,   \* [proxy, bypass, disable6, lookup6]
          MaxDials

VARIABLES cfg, closed,
          cancelled, \* callers whose context is done
          pc, addrs, \* of each caller; addrs: the addresses left to try
          conn,      \* its connection: [open, deadline, family, ready]
          out,       \* what its last dial returned
          cache,     \* [addrs, fresh]; no addresses: no entry
          flight,    \* the call the singleflight group has: [leader, done, val]
          look,      \* the lookups of the flight: [v4, v6, ready6]
          dials

netVars == <<cfg, closed, cancelled, pc, addrs, conn, out, cache, flight,
             look, dials>>

None == "none"
NoConn == [open |-> FALSE, deadline |-> FALSE, family |-> None, ready |-> FALSE]
NoFlight == [leader |-> None, done |-> FALSE, val |-> <<>>]
NoCache == [addrs |-> <<>>, fresh |-> FALSE]
NoLook == [v4 |-> "wait", v6 |-> "wait", ready6 |-> FALSE]

Go(c, at) == pc' = [pc EXCEPT ![c] = at]

\* Every way out of a dial: the connection, if there is one, is closed.
Return(c, what) ==
    /\ Go(c, "idle") /\ out' = [out EXCEPT ![c] = what]
    /\ conn' = [conn EXCEPT ![c] = NoConn]

(***************************************************************************)
(* DialContext.                                                            *)
(***************************************************************************)
Proxied == cfg.proxy /\ ~cfg.bypass

DialContext(c) ==
    /\ pc[c] = "idle" /\ ~conn[c].open /\ dials < MaxDials
    /\ dials' = dials + 1 /\ cancelled' = cancelled \ {c}
    /\ IF closed THEN Return(c, "error")
       ELSE /\ Go(c, "lookup") /\ out' = [out EXCEPT ![c] = None]
            /\ UNCHANGED conn
    /\ UNCHANGED <<cfg, closed, addrs, cache, flight, look>>

(***************************************************************************)
(* LookupHost: a live cache entry, else the flight for the host, else one  *)
(* of its own.                                                             *)
(***************************************************************************)
Hit == cache.addrs # <<>> /\ cache.fresh

LookupHost(c) ==
    /\ pc[c] = "lookup"
    /\ \/ /\ c \in cancelled /\ Return(c, "cancelled")
          /\ UNCHANGED <<addrs, flight>>
       \/ /\ c \notin cancelled /\ Hit
          /\ addrs' = [addrs EXCEPT ![c] = cache.addrs] /\ Go(c, "connect")
          /\ UNCHANGED <<conn, out, flight>>
       \/ /\ c \notin cancelled /\ ~Hit
          /\ Go(c, "fly") /\ UNCHANGED <<addrs, conn, out, flight>>
    /\ UNCHANGED <<cfg, closed, cancelled, cache, look, dials>>

\* singleflightGroup.Do: join the flight, or start one.  A flight that is
\* done but not yet deleted is joined as well.
JoinFlight(c) ==
    /\ pc[c] = "fly" /\ flight.leader # None
    /\ IF ~flight.done THEN Go(c, "wait") /\ UNCHANGED <<addrs, conn, out>>
       ELSE IF flight.val = <<>> THEN Return(c, "error") /\ UNCHANGED addrs
       ELSE /\ addrs' = [addrs EXCEPT ![c] = flight.val] /\ Go(c, "connect")
            /\ UNCHANGED <<conn, out>>
    /\ UNCHANGED <<cfg, closed, cancelled, cache, flight, look, dials>>

AnyFlight(c) ==                                                \* mutant
    /\ pc[c] = "fly"
    /\ flight' = [NoFlight EXCEPT !.leader = c]
    /\ look' = NoLook /\ Go(c, "recheck")
    /\ UNCHANGED <<cfg, closed, cancelled, addrs, conn, out, cache, dials>>

StartFlight(c) ==
    /\ pc[c] = "fly" /\ flight.leader = None
    /\ flight' = [NoFlight EXCEPT !.leader = c]
    /\ look' = NoLook /\ Go(c, "recheck")
    /\ UNCHANGED <<cfg, closed, cancelled, addrs, conn, out, cache, dials>>

\* The leader has a value (none: an error); every caller that waits wakes up.
Land(c, val) ==
    LET waiting == {d \in Callers : pc[d] = "wait"}
    IN  /\ flight' = [flight EXCEPT !.done = TRUE, !.val = val]
        /\ addrs' = [d \in Callers |-> IF d \in waiting \union {c} THEN val
                                       ELSE addrs[d]]
        /\ pc' = [d \in Callers |-> IF d = c THEN "landed"
                                    ELSE IF d \in waiting
                                    THEN (IF val = <<>> THEN "failed"
                                          ELSE "connect")
                                    ELSE pc[d]]
        /\ UNCHANGED <<conn, out>>

Recheck(c) ==
    /\ pc[c] = "recheck"
    /\ IF Hit THEN Land(c, cache.addrs)
       ELSE Go(c, IF cfg.lookup6 THEN "peek6" ELSE "wait4")
            /\ UNCHANGED <<addrs, conn, out, flight>>
    /\ UNCHANGED <<cfg, closed, cancelled, cache, look, dials>>

\* The name server answers, with an address or with none.
Answer ==
    /\ flight.leader # None /\ ~flight.done
    /\ \E a \in {"some", "empty"} :
         \/ /\ look.v4 = "wait" /\ look' = [look EXCEPT !.v4 = a]
         \/ /\ cfg.lookup6 /\ look.v6 = "wait"
            /\ look' = [look EXCEPT !.v6 = a]
    /\ UNCHANGED <<cfg, closed, cancelled, pc, addrs, conn, out, cache, flight,
                   dials>>

CtxDone(c) == c \in cancelled /\ Land(c, <<>>) /\ UNCHANGED <<look, cache>>

Store(val) == cache' = [addrs |-> val, fresh |-> TRUE]

\* lookupHost: a look at the AAAA answer without waiting, then the A answer,
\* then, if there is no A address, the AAAA answer.
Peek6(c) ==
    /\ pc[c] = "peek6"
    /\ \/ CtxDone(c)
       \/ /\ c \notin cancelled \/ look.v6 # "wait"
          /\ look' = [look EXCEPT !.ready6 = look.v6 # "wait"]
          /\ Go(c, "wait4") /\ UNCHANGED <<addrs, conn, out, cache, flight>>
    /\ UNCHANGED <<cfg, closed, cancelled, dials>>

Both == (IF look.v6 = "some" THEN <<"v6">> ELSE <<>>) \o <<"v4">>

Wait4(c) ==
    /\ pc[c] = "wait4"
    /\ \/ CtxDone(c)
       \/ /\ look.v4 = "some"
          /\ Land(c, Both) /\ Store(Both) /\ UNCHANGED look
       \/ /\ look.v4 = "empty" /\ cfg.lookup6
          /\ Go(c, "wait6") /\ UNCHANGED <<addrs, conn, out, cache, flight,
                                           look>>
       \/ /\ look.v4 = "empty" /\ ~cfg.lookup6
          /\ Land(c, <<>>) /\ UNCHANGED <<look, cache>>
    /\ UNCHANGED <<cfg, closed, cancelled, dials>>

Wait6(c) ==
    /\ pc[c] = "wait6"
    /\ \/ CtxDone(c)
       \/ /\ look.v6 = "some"
          /\ Land(c, <<"v6">>) /\ Store(<<"v6">>) /\ UNCHANGED look
       \/ /\ look.v6 = "empty" /\ Land(c, <<>>) /\ UNCHANGED <<look, cache>>
    /\ UNCHANGED <<cfg, closed, cancelled, dials>>

\* The flight is deleted, and the leader goes on with its own value.
Landed(c) ==
    /\ pc[c] = "landed"
    /\ flight' = NoFlight /\ look' = NoLook
    /\ IF addrs[c] = <<>> THEN Return(c, IF c \in cancelled THEN "cancelled"
                                         ELSE "error")
       ELSE Go(c, "connect") /\ UNCHANGED <<conn, out>>
    /\ UNCHANGED <<cfg, closed, cancelled, addrs, cache, dials>>

\* A caller that waited gets the leader's error, a cancellation included.
Failed(c) ==
    /\ pc[c] = "failed" /\ Return(c, "error")
    /\ UNCHANGED <<cfg, closed, cancelled, addrs, cache, flight, look, dials>>

(***************************************************************************)
(* dialResolved: the addresses in turn.                                    *)
(***************************************************************************)
addressNetworkForIP(a) == ~(a = "v6" /\ cfg.disable6)

Connect(c) ==
    /\ pc[c] = "connect"
    /\ IF addrs[c] = <<>> THEN Return(c, "error") /\ UNCHANGED addrs
       ELSE LET a == Head(addrs[c])
            IN  \/ /\ addressNetworkForIP(a) /\ c \notin cancelled
                   /\ conn' = [conn EXCEPT ![c] = [NoConn EXCEPT
                                  !.open = TRUE, !.family = a]]
                   /\ IF Proxied THEN Go(c, "tunnel") /\ UNCHANGED out
                      ELSE Go(c, "idle") /\ out' = [out EXCEPT ![c] = "conn"]
                   /\ UNCHANGED addrs
                \/ /\ addrs' = [addrs EXCEPT ![c] = Tail(@)]
                   /\ UNCHANGED <<pc, conn, out>>
    /\ UNCHANGED <<cfg, closed, cancelled, cache, flight, look, dials>>

(***************************************************************************)
(* dialProxy: deadline, TLS and CONNECT; the deadline is lifted after the  *)
(* status line, and the header lines are read without one.                 *)
(***************************************************************************)
Connected(c, from, to, deadline) ==
    /\ pc[c] = from
    /\ \/ /\ conn' = [conn EXCEPT ![c].deadline = deadline,
                                  ![c].ready = to = "idle"]
          /\ Go(c, to)
          /\ out' = [out EXCEPT ![c] = IF to = "idle" THEN "conn" ELSE @]
       \/ Return(c, "error")
    /\ UNCHANGED <<cfg, closed, cancelled, addrs, cache, flight, look, dials>>

RequestTunnel(c) == Connected(c, "tunnel", "status", TRUE)
ReadStatus(c) == Connected(c, "status", "headers", FALSE)
ReadHeaders(c) == Connected(c, "headers", "idle", FALSE)

(***************************************************************************)
(* The rest of the world.                                                  *)
(***************************************************************************)
Cancel(c) ==
    /\ pc[c] # "idle" /\ c \notin cancelled
    /\ cancelled' = cancelled \union {c}
    /\ UNCHANGED <<cfg, closed, pc, addrs, conn, out, cache, flight, look,
                   dials>>

Expire ==
    /\ cache.fresh /\ cache' = [cache EXCEPT !.fresh = FALSE]
    /\ UNCHANGED <<cfg, closed, cancelled, pc, addrs, conn, out, flight, look,
                   dials>>

CloseDialer ==
    /\ ~closed /\ closed' = TRUE
    /\ UNCHANGED <<cfg, cancelled, pc, addrs, conn, out, cache, flight, look,
                   dials>>

\* The caller is done with its connection.
Hangup(c) ==
    /\ pc[c] = "idle" /\ conn[c].open
    /\ conn' = [conn EXCEPT ![c] = NoConn] /\ out' = [out EXCEPT ![c] = None]
    /\ UNCHANGED <<cfg, closed, cancelled, pc, addrs, cache, flight, look,
                   dials>>

NetInit ==
    /\ cfg \in Configs /\ closed = FALSE /\ cancelled = {} /\ dials = 0
    /\ pc = [c \in Callers |-> "idle"]
    /\ addrs = [c \in Callers |-> <<>>]
    /\ conn = [c \in Callers |-> NoConn]
    /\ out = [c \in Callers |-> None]
    /\ cache = NoCache /\ flight = NoFlight /\ look = NoLook

NetNext ==
    \/ \E c \in Callers :
          \/ DialContext(c) \/ LookupHost(c) \/ JoinFlight(c) \/ StartFlight(c)
          \/ Recheck(c) \/ Peek6(c) \/ Wait4(c) \/ Wait6(c) \/ Landed(c)
          \/ Failed(c) \/ Connect(c) \/ RequestTunnel(c) \/ ReadStatus(c)
          \/ ReadHeaders(c) \/ Cancel(c) \/ Hangup(c)
    \/ Answer \/ Expire \/ CloseDialer

NetSpec == NetInit /\ [][NetNext]_netVars

(***************************************************************************)
(* Properties.                                                             *)
(***************************************************************************)
Flying == {"recheck", "peek6", "wait4", "wait6"}

(***************************************************************************)
(* Whatever callers dial, wait and give up together: at most one lookup of *)
(* the host runs and every caller that waits has one to wait for           *)
(* (singleflightGroup.Do); a dial that returned has a connection exactly   *)
(* if it succeeded, so none is leaked on an error path (dialResolved,      *)
(* dialProxy); and a tunnel that is given out is past the proxy's headers  *)
(* and has no deadline left.                                               *)
(***************************************************************************)
DialSound ==
    /\ Cardinality({c \in Callers : pc[c] \in Flying}) <= 1
    /\ \A c \in Callers :
         /\ pc[c] = "wait" => /\ flight.leader # None /\ ~flight.done
                              /\ pc[flight.leader] \in Flying
         /\ pc[c] = "idle" => /\ conn[c].open <=> out[c] = "conn"
                              /\ ~conn[c].deadline
                              /\ conn[c].open /\ Proxied => conn[c].ready
=============================================================================
