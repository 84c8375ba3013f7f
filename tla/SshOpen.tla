------------------------------ MODULE SshOpen ------------------------------
(***************************************************************************)
(* How an SFTP session comes about (Open of internal/protocol/sftp/sftp.go *)
(* with internal/ssh/transport, userauth, knownhosts, agent and channel):  *)
(* the SSH handshake, the host key decision, the authentication methods    *)
(* tried one after the other, the session channel, the sftp subsystem and  *)
(* the INIT / VERSION exchange.                                            *)
(*                                                                         *)
(* Every request is answered by the next packet of the connection; nothing *)
(* names the request a reply belongs to.  `q` is what the server has sent  *)
(* and the client has not read.  A server may put a packet the client does *)
(* not expect (a debug message, say) before a reply: the client then gives *)
(* up the method it is trying, and the reply it did not wait for is read   *)
(* by the next one.                                                        *)
(***************************************************************************)
EXTENDS Naturals, Sequences

CONSTANTS AuthSets,    \* method lists the options give: Seq of {"password", "key", "agent"}
          Digests,     \* ssh-host-key-md: subsets of {"none", "match", "other", "bad"}
          KnownHosts,  \* known_hosts: sequences of [host, revoked, same]
          Offers,      \* algorithms of the server, per direction: [cs, sc]
          MaxStray     \* unexpected packets of the server

VARIABLES opt,      \* [auth, digest, hosts, offer]: options, files and server, fixed
          at,       \* the next step of Open
          keys,     \* "plain" | "derived" | "installed"
          ciphers,  \* what negotiateAlgorithms agreed on: [cs, sc]
          q,        \* packets sent by the server and not yet read
          todo,     \* authentication methods not yet tried
          granted,  \* the server has accepted an authentication request
          agent,    \* "none" | "open" | "closed": connection to the SSH agent
          sock,     \* "none" | "open" | "closed"
          stray,    \* unexpected packets sent so far
          out       \* "none" | "session" | "error"

sshVars == <<opt, at, keys, ciphers, q, todo, granted, agent, sock, stray,
             out>>

SshInit ==
  /\ opt \in [auth : AuthSets, digest : Digests, hosts : KnownHosts, offer : Offers]
  /\ at = "dial" /\ keys = "plain" /\ ciphers = [cs |-> "none", sc |-> "none"]
  /\ q = <<>> /\ todo = <<>> /\ granted = FALSE
  /\ agent = "none" /\ sock = "none" /\ stray = 0 /\ out = "none"

(* An error return of Open: the connection is closed, and the deferred     *)
(* close of the agent runs.                                                *)
Fail ==
  /\ out' = "error" /\ at' = "done"
  /\ sock' = IF sock = "open" THEN "closed" ELSE sock
  /\ agent' = IF agent = "open" THEN "closed" ELSE agent
  /\ UNCHANGED <<opt, keys, ciphers, q, todo, granted, stray>>

Dial ==
  /\ at = "dial"
  /\ \/ /\ sock' = "open" /\ at' = "versions"
        /\ UNCHANGED <<opt, keys, ciphers, q, todo, granted, agent, stray,
                       out>>
     \/ Fail

-----------------------------------------------------------------------------
(***************************************************************************)
(* ClientHandshake.  Each exchange writes a packet and reads one; a failed *)
(* one makes Open close the connection.                                    *)
(***************************************************************************)
exchangeVersions ==
  /\ at = "versions"
  /\ \/ at' = "kexinit" /\ UNCHANGED <<opt, keys, ciphers, q, todo, granted,
                                       agent, sock, stray, out>>
     \/ Fail

Ciphers == <<"aes128", "aes256">>

(* agreeFirst: the client's first choice among the server's.               *)
agreeFirst(server) ==
  IF \E i \in 1..Len(Ciphers) : Ciphers[i] \in server
  THEN Ciphers[CHOOSE i \in 1..Len(Ciphers) :
                 Ciphers[i] \in server /\ \A j \in 1..(i - 1) : Ciphers[j] \notin server]
  ELSE "none"

(* exchangeKEXInit and negotiateAlgorithms: each direction has a cipher of *)
(* its own.                                                                *)
negotiateAlgorithms ==
  /\ at = "kexinit"
  /\ LET cs == agreeFirst(opt.offer.cs)
         sc == agreeFirst(opt.offer.sc)
     IN  IF cs = "none" \/ sc = "none"
         THEN Fail
         ELSE /\ ciphers' = [cs |-> cs, sc |-> sc]
              /\ at' = "kex"
              /\ UNCHANGED <<opt, keys, q, todo, granted, agent, sock, stray,
                             out>>

(* performKEX and deriveKeys: one key length, that of the client's cipher, *)
(* for both directions.                                                    *)
performKEX ==
  /\ at = "kex"
  /\ \/ /\ keys' = "derived" /\ at' = "newkeys"
        /\ UNCHANGED <<opt, ciphers, q, todo, granted, agent, sock, stray,
                       out>>
     \/ Fail

deriveKeysSHA256 == [cs |-> ciphers.cs, sc |-> ciphers.cs]

(* exchangeNewKeys and installKeys: a key of the wrong length is refused.  *)
installKeys ==
  /\ at = "newkeys"
  /\ IF deriveKeysSHA256.sc = ciphers.sc
     THEN /\ keys' = "installed" /\ at' = "service"
          /\ UNCHANGED <<opt, ciphers, q, todo, granted, agent, sock, stray,
                         out>>
     ELSE Fail

requestService ==
  /\ at = "service"
  /\ \/ at' = "hostkey" /\ UNCHANGED <<opt, keys, ciphers, q, todo, granted,
                                       agent, sock, stray, out>>
     \/ Fail

-----------------------------------------------------------------------------
(***************************************************************************)
(* verifyHostKey.  A configured digest alone decides; otherwise the        *)
(* known_hosts file does, when it lists the host.                          *)
(***************************************************************************)
(* The first matching entry with the same key decides; a host that is only *)
(* listed with other keys is a mismatch.                                   *)
HostKeyCallback(entries) ==
  LET mine == SelectSeq(entries, LAMBDA e : e.host)
      same == SelectSeq(mine, LAMBDA e : e.same)
  IN  IF mine = <<>> THEN "unknown"
      ELSE IF same = <<>> THEN "mismatch"
      ELSE IF same[1].revoked THEN "revoked" ELSE "known"

verifyHostKeyDigest == opt.digest \in {"none", "match"}

\* mutant of verifyHostKey: the file is not consulted
DigestOnly == verifyHostKeyDigest

verifyHostKey ==
  /\ verifyHostKeyDigest
  /\ opt.digest = "none" => HostKeyCallback(opt.hosts) \in {"unknown", "known"}

HostKey ==
  /\ at = "hostkey"
  /\ IF verifyHostKey
     THEN /\ at' = "methods"
          /\ UNCHANGED <<opt, keys, ciphers, q, todo, granted, agent, sock,
                         stray, out>>
     ELSE Fail

-----------------------------------------------------------------------------
(***************************************************************************)
(* The list of methods.  An unreadable key file ends Open; an agent that   *)
(* cannot be reached or listed does so only when it is the only method.    *)
(***************************************************************************)
Methods ==
  /\ at = "methods"
  /\ LET others == SelectSeq(opt.auth, LAMBDA m : m # "agent")
         asked == \E i \in 1..Len(opt.auth) : opt.auth[i] = "agent"
     IN  \/ /\ \E ids \in 0..1 :
                 /\ ~asked => ids = 0
                 /\ todo' = others \o [i \in 1..ids |-> "key"]
                 /\ todo' # <<>>
            /\ agent' = IF asked THEN "open" ELSE agent
            /\ at' = "auth"
            /\ UNCHANGED <<opt, keys, ciphers, q, granted, sock, stray, out>>
         \/ /\ asked /\ others # <<>>
            /\ todo' = others /\ at' = "auth"
            /\ UNCHANGED <<opt, keys, ciphers, q, granted, agent, sock, stray,
                           out>>
         \/ Fail

(* The server answers an authentication request once; after it accepted    *)
(* one it ignores the others.                                              *)
Answer(reply) == IF granted THEN q ELSE Append(q, reply)

ServerStray ==
  /\ at \in {"auth", "password", "probe", "signed", "channel", "subsystem"} /\ stray < MaxStray
  /\ q' = Append(q, "stray") /\ stray' = stray + 1
  /\ UNCHANGED <<opt, at, keys, ciphers, todo, granted, agent, sock, out>>

(* Authenticate sends the next method's request; a key is probed first.    *)
Authenticate ==
  /\ at = "auth"
  /\ IF todo = <<>>
     THEN Fail
     ELSE /\ todo' = Tail(todo)
          /\ IF Head(todo) = "password"
             THEN /\ at' = "password"
                  /\ \E ok \in BOOLEAN :
                       /\ q' = Answer(IF ok THEN "success" ELSE "failure")
                       /\ granted' = (granted \/ ok)
             ELSE /\ at' = "probe"
                  /\ \E ok \in BOOLEAN : q' = Answer(IF ok THEN "pk_ok" ELSE "failure")
                  /\ UNCHANGED granted
          /\ UNCHANGED <<opt, keys, ciphers, agent, sock, stray, out>>

Read == Head(q)

(* authenticatePublicKey after its probe: only a PK_OK leads to the signed *)
(* request, anything else to the next method.                              *)
Probed ==
  /\ at = "probe" /\ q # <<>>
  /\ IF Read = "pk_ok"
     THEN /\ at' = "signed"
          /\ \E ok \in BOOLEAN :
               /\ q' = Tail(Answer(IF ok THEN "success" ELSE "failure"))
               /\ granted' = (granted \/ ok)
     ELSE /\ at' = "auth" /\ q' = Tail(q) /\ UNCHANGED granted
  /\ UNCHANGED <<opt, keys, ciphers, todo, agent, sock, stray, out>>

Accepted(reply) == reply = "success"

receiveAuthResponse ==
  /\ at \in {"password", "signed"} /\ q # <<>>
  /\ at' = IF Accepted(Read) THEN "channel" ELSE "auth"
  /\ q' = Tail(q)
  /\ UNCHANGED <<opt, keys, ciphers, todo, granted, agent, sock, stray, out>>

(* A connection that breaks while a reply is awaited: Receive fails for    *)
(* this method and for every later one.                                    *)
Breaks ==
  /\ at \in {"password", "probe", "signed", "channel", "subsystem", "init"}
  /\ Fail

-----------------------------------------------------------------------------
(* OpenSession, Subsystem and init: each sends a request and reads one     *)
(* packet, and anything but the expected reply ends Open.                  *)
Exchange(here, there, good) ==
  /\ at = here
  /\ \E reply \in {good, "refused"} :
       LET packets == Append(q, reply)
       IN  IF Head(packets) = good
           THEN /\ at' = there /\ q' = Tail(packets)
                /\ UNCHANGED <<opt, keys, ciphers, todo, granted, agent, sock,
                               stray, out>>
           ELSE Fail

OpenSession == Exchange("channel", "subsystem", "confirmation")

Subsystem == Exchange("subsystem", "init", "success")

init == Exchange("init", "return", "version")

Return ==
  /\ at = "return"
  /\ at' = "done" /\ out' = "session"
  /\ agent' = IF agent = "open" THEN "closed" ELSE agent
  /\ UNCHANGED <<opt, keys, ciphers, q, todo, granted, sock, stray>>

Done == at = "done" /\ UNCHANGED sshVars

SshNext ==
  \/ Dial \/ exchangeVersions \/ negotiateAlgorithms \/ performKEX \/ installKeys \/ requestService
  \/ HostKey \/ Methods \/ ServerStray \/ Authenticate \/ Probed \/ receiveAuthResponse \/ Breaks
  \/ OpenSession \/ Subsystem \/ init \/ Return \/ Done

SshSpec == SshInit /\ [][SshNext]_sshVars

-----------------------------------------------------------------------------
(* Open returns a session only on a connection whose keys fit the ciphers  *)
(* agreed on, whose host key was not refused and on which the server has   *)
(* accepted one of the methods, even when stray packets have shifted the   *)
(* replies against the methods; no reply of the setup is left unread that  *)
(* the first SFTP request would take for its own; and whatever Open        *)
(* returns, the agent connection is closed, and the SSH connection too     *)
(* when it is an error.                                                    *)
OpenSound ==
  /\ out = "session" =>
       /\ keys = "installed" /\ sock = "open"
       /\ \/ opt.digest = "match"
          \/ opt.digest = "none" /\ HostKeyCallback(opt.hosts) \notin {"mismatch", "revoked"}
       /\ granted
       /\ \A i \in 1..Len(q) : q[i] = "stray"
  /\ out = "error" => sock \in {"none", "closed"}
  /\ out # "none" => agent # "open"
=============================================================================
