------------------------------- MODULE DhtStore -------------------------------
(***************************************************************************)
(* Announcing a peer in the DHT (internal/dht/dht.go): this node's         *)
(* Announce and GetPeers, with the tokens it was given, against the        *)
(* get_peers and announce_peer handlers of the nodes it asks, which run    *)
(* the same code.  A token is a hash of info hash, address, port and the   *)
(* secret of the node that made it; here it names its maker and secret.    *)
(***************************************************************************)
EXTENDS Naturals, FiniteSets

CONSTANTS Nodes,      \* nodes closest to the info hash
          Ports,      \* ports announced; 0 is "no port"
          Rotations   \* bound on the rotations of the secrets

VARIABLES secrets,    \* node -> tokenSecrets
          turns,      \* rotations so far
          peers,      \* the nodes that store a peer of this node's address
          peerTokens, \* node -> the token it gave, at this node
          job,        \* node -> the goroutine of Announce for it
          judged,     \* ghost: every announce_peer was answered by the age
                      \* of its token
          result      \* what Announce returned

stVars == <<secrets, turns, peers, peerTokens, job, judged, result>>

NoToken == [by |-> "none", secret |-> 0, age |-> 0]

\* The age of a token, counted in rotations of its maker, is a ghost.
Aged(t, n) == IF t.by = n /\ t.age < 2 THEN [t EXCEPT !.age = @ + 1] ELSE t

generateToken(n) == [by |-> n, secret |-> secrets[n][1], age |-> 0]

TokenOfCurrentSecret(n, t) == t.by = n /\ t.secret = secrets[n][1] \* mutant

validateToken(n, t) == t.by = n /\ \E i \in 1 .. 2 : t.secret = secrets[n][i]

(***************************************************************************)
(* handleAnnouncePeer: the arguments may be missing or of the wrong kind.  *)
(* The port is the argument, or the sender's own if implied_port is set.   *)
(***************************************************************************)
Args == {"good", "implied_port", "no info_hash", "no token"}
SenderPort == 9

AnnouncedPort(a, port) ==
    IF a = "implied_port" THEN SenderPort ELSE port

ReplyTo(n, a, t, port) ==
    IF a \in {"no info_hash", "no token"} \/ ~validateToken(n, t) THEN 203
    ELSE IF AnnouncedPort(a, port) = 0 THEN 204 ELSE 200

handleAnnouncePeer(n, a, t, port) ==
    /\ LET code  == ReplyTo(n, a, t, port)
           young == t.by = n /\ t.age <= 1
       IN  judged' = /\ judged
                     /\ code = 200 => young
                     /\ code = 203 /\ a = "good" => ~young
    /\ peers' = IF ReplyTo(n, a, t, port) = 200 THEN peers \union {n}
                ELSE peers

\* Another client of the same host, with other arguments and no port.
OtherAnnounce(n) ==
    /\ \E a \in Args \ {"good"} : handleAnnouncePeer(n, a, peerTokens[n], 0)
    /\ UNCHANGED <<secrets, turns, peerTokens, job, result>>

\* updateTokenSecret at a node; a random secret is not one of the last two.
updateTokenSecret(n) ==
    /\ turns < Rotations
    /\ turns' = turns + 1
    /\ secrets' = [secrets EXCEPT ![n] = <<(@[1] + 1) % 3, @[1]>>]
    /\ peerTokens' = [m \in Nodes |-> Aged(peerTokens[m], n)]
    /\ job' = [m \in Nodes |-> [job[m] EXCEPT !.token = Aged(@, n)]]
    /\ UNCHANGED <<peers, judged, result>>

(***************************************************************************)
(* This node.  Its own rotation forgets the tokens it was given.           *)
(***************************************************************************)
ForgetTokens ==
    /\ peerTokens' = [n \in Nodes |-> NoToken]
    /\ UNCHANGED <<secrets, turns, peers, job, judged, result>>

storePeerToken(n, t) == peerTokens' = [peerTokens EXCEPT ![n] = t]

\* A reply to one of GetPeers' queries.
GetPeersReply(n) ==
    /\ storePeerToken(n, generateToken(n))
    /\ UNCHANGED <<secrets, turns, peers, job, judged, result>>

Goto(n, at, t) == job' = [job EXCEPT ![n] = [at |-> at, token |-> t]]

\* The node's own token; failing that, getPeerTokenByAddr: any of the hash.
Announce(n) ==
    /\ result = "none" /\ job[n].at = "start"
    /\ LET known == {m \in Nodes : peerTokens[m] # NoToken}
       IN  \/ n \in known /\ Goto(n, "announce", peerTokens[n])
           \/ /\ n \notin known
              /\ \E m \in known : Goto(n, "announce", peerTokens[m])
           \/ known = {} /\ Goto(n, "get", NoToken)
    /\ UNCHANGED <<secrets, turns, peers, peerTokens, judged, result>>

\* The get_peers query is answered with or without a token, or times out.
AskedToken(n) ==
    /\ job[n].at = "get"
    /\ \/ Goto(n, "announce", generateToken(n)) \/ Goto(n, "failed", NoToken)
    /\ UNCHANGED <<secrets, turns, peers, peerTokens, judged, result>>

SendAnnounce(n) ==
    /\ job[n].at = "announce"
    /\ \/ \E port \in Ports :
             /\ handleAnnouncePeer(n, "good", job[n].token, port)
             /\ LET stored == ReplyTo(n, "good", job[n].token, port) = 200
                IN  Goto(n, IF stored THEN "stored" ELSE "failed", NoToken)
       \/ Goto(n, "failed", NoToken) /\ UNCHANGED <<judged, peers>>
    /\ UNCHANGED <<secrets, turns, peerTokens, result>>

\* The answer comes before the query's timeout, or not.
AnnounceAnswer(n) ==
    /\ job[n].at = "stored"
    /\ \E at \in {"done", "failed"} : Goto(n, at, NoToken)
    /\ UNCHANGED <<secrets, turns, peers, peerTokens, judged, result>>

AnnounceReturns ==
    /\ result = "none"
    /\ \A n \in Nodes : job[n].at \in {"done", "failed"}
    /\ result' = IF \A n \in Nodes : job[n].at = "failed" THEN "err" ELSE "ok"
    /\ UNCHANGED <<secrets, turns, peers, peerTokens, job, judged>>

StInit ==
    /\ secrets = [n \in Nodes |-> <<0, 0>>] /\ turns = 0
    /\ peers = {}
    /\ peerTokens = [n \in Nodes |-> NoToken]
    /\ job = [n \in Nodes |-> [at |-> "start", token |-> NoToken]]
    /\ judged = TRUE
    /\ result = "none"

StNext ==
    \/ \E n \in Nodes :
          \/ updateTokenSecret(n) \/ OtherAnnounce(n) \/ GetPeersReply(n)
          \/ Announce(n) \/ AskedToken(n) \/ SendAnnounce(n)
          \/ AnnounceAnswer(n)
    \/ ForgetTokens \/ AnnounceReturns

StSpec == StInit /\ [][StNext]_stVars

(***************************************************************************)
(* A node stores a peer only for a token of its own, at most one rotation  *)
(* old, and refuses such a token only for its other arguments, never       *)
(* because of a rotation between get_peers and announce_peer               *)
(* (generateToken, validateToken, updateTokenSecret).  An announce that    *)
(* returned without an error left a peer at one node at least.             *)
(***************************************************************************)
AnnounceSound ==
    /\ judged
    /\ result = "ok" => peers # {}
=============================================================================
