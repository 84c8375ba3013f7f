--------------------------- MODULE PeerHandshake ---------------------------
(***************************************************************************)
(* How two peers of this program open a connection: DialTransport and      *)
(* AcceptAny of internal/protocol/bittorrent/peer, with the message stream *)
(* encryption of internal/mse below the BitTorrent handshake.              *)
(*                                                                         *)
(* The two directions of the connection are sequences of symbols.  A       *)
(* symbol stands for a field of the protocol, and a read may stop between  *)
(* any two of them.  An encrypted symbol carries the key and the position  *)
(* of the key stream it was encrypted with, and only the same key and      *)
(* position give the plain symbol back.                                    *)
(***************************************************************************)
EXTENDS Integers, Sequences, SequencesExt

CONSTANTS
    Policies,   \* what the two ends are configured with: [mode, hash, configs]
    MaxPad,     \* maxPadLength, in symbols
    MaxData     \* bound on the messages an end sends once it is ready

VARIABLES
    ini,        \* the end that dials
    acc,        \* the end that accepts
    toAcc, toIni,  \* the bytes on their way
    cut,        \* the connection is closed or broken
    policy

hsVars == <<ini, acc, toAcc, toIni, cut, policy>>

Sym(t) == [t |-> t, v |-> 0]
Num(v) == [t |-> "num", v |-> v]
Rest(h) == [t |-> "rest", v |-> h]
Pad(n) == [i \in 1..n |-> Sym("pad")]
Garbled == Sym("garbled")

\* The keys of the two directions (deriveCipherKeys).
LocalKey(initiator) == IF initiator THEN "keyA" ELSE "keyB"
PeerKey(initiator) == LocalKey(~initiator)

Encrypt(s, k, n) ==
    [i \in 1..Len(s) |-> [t |-> "enc", k |-> k, n |-> n + i - 1, p |-> s[i]]]

Decrypt(s, k, n) ==
    [i \in 1..Len(s) |->
        IF s[i].t = "enc" /\ s[i].k = k /\ s[i].n = n + i - 1
        THEN s[i].p ELSE Garbled]

\* An end before it knows whether it encrypts: its connection, the positions
\* in its key streams, what it read ahead, and the plain symbols it has sent
\* and read as a peer.
NewEnd(pc) == [pc |-> pc, enc |-> FALSE, epos |-> 0, dpos |-> 0, pad |-> 0,
               buf |-> <<>>, pending |-> <<>>, sent |-> <<>>, got |-> <<>>,
               hash |-> "none"]

Configs == policy.configs

Init ==
    /\ policy \in Policies
    /\ ini = NewEnd("dial") /\ acc = NewEnd("none")
    /\ toAcc = <<>> /\ toIni = <<>> /\ cut = FALSE

-----------------------------------------------------------------------------
(* Reads and writes of an established transport: a plain connection, or    *)
(* mse.Conn with its pending bytes.                                        *)

\* What the end sees when it writes s.
Written(end, initiator, s) ==
    IF end.enc THEN Encrypt(s, LocalKey(initiator), end.epos) ELSE s

\* What io.ReadFull of n symbols returns, with n available.
ReadFull(end, initiator, stream, n) ==
    LET k == IF Len(end.pending) < n THEN Len(end.pending) ELSE n
        raw == SubSeq(stream, 1, n - k)
    IN [data |-> SubSeq(end.pending, 1, k) \o
                 IF end.enc THEN Decrypt(raw, PeerKey(initiator), end.dpos) ELSE raw,
        pending |-> SubSeq(end.pending, k + 1, Len(end.pending)),
        dpos |-> end.dpos + (n - k), used |-> n - k]

Available(end, stream) == Len(end.pending) + Len(stream)

DropFirst(s, n) == SubSeq(s, n + 1, Len(s))

Position(s, x) == SelectInSeq(s, LAMBDA y : y = x)

\* readUntil: the buffer holds at least n symbols, and more only if it did.
FilledTo(buf, stream, n) ==
    IF Len(buf) >= n THEN buf ELSE buf \o SubSeq(stream, 1, n - Len(buf))

-----------------------------------------------------------------------------
(* The dialing end.                                                        *)

plainFallbackAllowed(mode) == mode \in {"allow", "prefer"}

\* A fresh connection: encrypted first unless the mode is off or the
\* encrypted handshake has failed before.
Dial ==
    /\ ini.pc \in {"dial", "redial"}
    /\ toAcc' = <<>> /\ toIni' = <<>> /\ cut' = FALSE
    /\ ini' = NewEnd(IF policy.mode = "off" \/ ini.pc = "redial"
                     THEN "hello" ELSE "key")
    /\ acc' = NewEnd("prefix")
    /\ UNCHANGED policy

DialFails ==
    /\ ini.pc \in {"dial", "redial"}
    /\ ini' = NewEnd("failed")
    /\ UNCHANGED <<acc, toAcc, toIni, cut, policy>>

\* Initiate failed: the connection is closed, and where the mode allows it a
\* plain handshake is tried on a new one.
EncryptFails ==
    /\ ini' = NewEnd(IF plainFallbackAllowed(policy.mode) THEN "redial" ELSE "failed")
    /\ cut' = TRUE

\* The random private key makes the public one acceptable or not.
writeDHPublicKey == {Sym("key"), Sym("weakKey")}

validateDHKey(sym) == sym = Sym("key")

\* initiateHandshake up to the read of the peer's key.
InitiateKey ==
    /\ ini.pc = "key" /\ ~cut
    /\ \E k \in writeDHPublicKey, n \in 0..MaxPad :
          /\ toAcc' = Append(toAcc, k)
          /\ ini' = [ini EXCEPT !.pc = "peerKey", !.pad = n]
    /\ UNCHANGED <<acc, toIni, cut, policy>>

\* What initiateHandshake sends once it knows the secret.
InitiatorBlob(padC) ==
    Encrypt(<<Sym("vc"), Sym("arc4"), Num(padC)>> \o Pad(padC) \o <<Num(0)>>,
            LocalKey(TRUE), 0)

\* The two marks that tell the secret and, with it, the torrent.
Requests(h) == <<Sym("req1"), [t |-> "req23", v |-> h]>>

InitiateRequest ==
    /\ ini.pc = "peerKey" /\ toIni # <<>>
    /\ toIni' = Tail(toIni)
    /\ IF ~validateDHKey(Head(toIni)) THEN EncryptFails /\ UNCHANGED toAcc
       ELSE \E padC \in 0..MaxPad :
              /\ ini' = [ini EXCEPT !.pc = "marker", !.epos = 4 + padC]
              /\ toAcc' = IF cut THEN toAcc
                          ELSE toAcc \o Pad(ini.pad) \o
                               Requests(policy.hash) \o InitiatorBlob(padC)
              /\ UNCHANGED cut
    /\ UNCHANGED <<acc, policy>>

Marker == Encrypt(<<Sym("vc")>>, PeerKey(TRUE), 0)[1]

\* One read of the search for the marker, of any length.
SearchMarker ==
    /\ ini.pc = "marker" /\ Position(ini.buf, Marker) = 0
    /\ \E n \in 1..Len(toIni) :
          LET buf == ini.buf \o SubSeq(toIni, 1, n)
          IN /\ toIni' = DropFirst(toIni, n)
             /\ IF Position(buf, Marker) = 0 /\ Len(buf) >= MaxPad + 1
                THEN EncryptFails
                ELSE ini' = [ini EXCEPT !.buf = buf] /\ UNCHANGED cut
    /\ UNCHANGED <<acc, toAcc, policy>>

ConsumedWithoutPad(padD, extra) == 3 + extra

\* How far the key stream is when parseInitiatorReceive returns: it decrypts
\* the header, the padding and what it has read beyond.
InitiatorConsumed(padD, extra) == 3 + padD + extra

\* parseInitiatorReceive, with what readUntil waits for.
ParseAnswer ==
    LET at == Position(ini.buf, Marker)
        head == FilledTo(ini.buf, toIni, at + 2)
        hdr == Decrypt(SubSeq(head, at, at + 2), PeerKey(TRUE), 0)
        end == at + 2 + hdr[3].v
        buf == FilledTo(head, DropFirst(toIni, Len(head) - Len(ini.buf)), end)
        extra == DropFirst(buf, end)
        bad == hdr[1] # Sym("vc") \/ hdr[2] # Sym("arc4") \/ hdr[3].v > MaxPad
    IN /\ ini.pc = "marker" /\ at # 0
       /\ Len(ini.buf) + Len(toIni) >= at + 2
       /\ bad \/ Len(ini.buf) + Len(toIni) >= end
       /\ IF bad THEN EncryptFails /\ UNCHANGED toIni
          ELSE LET n == 3 + hdr[3].v
               IN /\ toIni' = DropFirst(toIni, Len(buf) - Len(ini.buf))
                  /\ ini' = [ini EXCEPT !.pc = "hello", !.enc = TRUE, !.buf = <<>>,
                                !.pending = Decrypt(extra, PeerKey(TRUE), n),
                                !.dpos = InitiatorConsumed(hdr[3].v, Len(extra))]
                  /\ UNCHANGED cut
       /\ UNCHANGED <<acc, toAcc, policy>>

marshalHandshake(h) == <<Sym("pstr"), Rest(h)>>

\* parseHandshake and the check of the info hash.
GoodHandshake(hs, h) == hs = marshalHandshake(h)

\* dialHandshake: our handshake out, the peer's in.
SendHandshake ==
    /\ ini.pc = "hello" /\ ~cut
    /\ LET hs == marshalHandshake(policy.hash)
       IN /\ toAcc' = toAcc \o Written(ini, TRUE, hs)
          /\ ini' = [ini EXCEPT !.pc = "answer", !.epos = @ + 2, !.sent = hs]
    /\ UNCHANGED <<acc, toIni, cut, policy>>

ReadHandshake ==
    /\ ini.pc = "answer" /\ Available(ini, toIni) >= 2
    /\ LET r == ReadFull(ini, TRUE, toIni, 2)
       IN /\ toIni' = DropFirst(toIni, r.used)
          /\ IF GoodHandshake(r.data, policy.hash)
             THEN /\ ini' = [ini EXCEPT !.pc = "ready", !.pending = r.pending,
                                !.dpos = r.dpos, !.got = r.data, !.hash = policy.hash]
                  /\ UNCHANGED cut
             ELSE ini' = [ini EXCEPT !.pc = "failed", !.got = r.data] /\ cut' = TRUE
    /\ UNCHANGED <<acc, toAcc, policy>>

\* A read or a write of a closed connection, or the deadline of the
\* handshake.  The encrypted part has no deadline of its own.
DialEndFails ==
    \/ /\ cut /\ ini.pc \in {"key", "peerKey", "marker"}
       /\ EncryptFails
       /\ UNCHANGED <<acc, toAcc, toIni, policy>>
    \/ /\ ini.pc \in {"hello", "answer"}
       /\ ini' = [ini EXCEPT !.pc = "failed"] /\ cut' = TRUE
       /\ UNCHANGED <<acc, toAcc, toIni, policy>>

-----------------------------------------------------------------------------
(* The accepting end.                                                      *)

AcceptFails == acc' = [acc EXCEPT !.pc = "failed", !.buf = <<>>] /\ cut' = TRUE

\* The first bytes tell a plain handshake from an encrypted one; both are
\* read again through prefixConn.
AcceptAny ==
    /\ acc.pc = "prefix"
    /\ IF DOMAIN Configs = {} THEN AcceptFails
       ELSE /\ toAcc # <<>>
            /\ acc' = [acc EXCEPT !.pc = IF Head(toAcc) = Sym("pstr")
                                         THEN "legacy" ELSE "dhKey"]
            /\ UNCHANGED cut
    /\ UNCHANGED <<ini, toAcc, toIni, policy>>

\* Whether a torrent takes a handshake that is not encrypted.
PlainAccepted(h) == h \in DOMAIN Configs /\ Configs[h] # "require"

acceptLegacyInbound ==
    /\ acc.pc = "legacy" /\ Len(toAcc) >= 2
    /\ IF PlainAccepted(toAcc[2].v)
       THEN acc' = [acc EXCEPT !.pc = "accept", !.hash = toAcc[2].v] /\ UNCHANGED cut
       ELSE AcceptFails
    /\ UNCHANGED <<ini, toAcc, toIni, policy>>

\* receiveHandshake up to our public key.
ReceiveKey ==
    /\ acc.pc = "dhKey" /\ toAcc # <<>>
    /\ toAcc' = Tail(toAcc)
    /\ IF ~validateDHKey(Head(toAcc)) THEN AcceptFails /\ UNCHANGED toIni
       ELSE \E k \in writeDHPublicKey, n \in 0..MaxPad :
              /\ toIni' = IF cut THEN toIni ELSE Append(toIni, k)
              /\ acc' = [acc EXCEPT !.pc = "req1", !.pad = n]
              /\ UNCHANGED cut
    /\ UNCHANGED <<ini, policy>>

SearchRequest ==
    /\ acc.pc = "req1" /\ Position(acc.buf, Sym("req1")) = 0
    /\ \E n \in 1..Len(toAcc) :
          LET buf == acc.buf \o SubSeq(toAcc, 1, n)
          IN /\ toAcc' = DropFirst(toAcc, n)
             /\ IF Position(buf, Sym("req1")) = 0 /\ Len(buf) >= MaxPad + 1
                THEN AcceptFails
                ELSE acc' = [acc EXCEPT !.buf = buf] /\ UNCHANGED cut
    /\ UNCHANGED <<ini, toIni, policy>>

ReceiverBlob(padD) ==
    Encrypt(<<Sym("vc"), Sym("arc4"), Num(padD)>> \o Pad(padD), LocalKey(FALSE), 0)

\* parseReceiverReceive: the torrent is the one whose hash the request names;
\* the header, the padding and an empty initial payload are read, and what
\* came with them is kept for the first reads.
ParseRequest ==
    LET at == Position(acc.buf, Sym("req1")) + 1
        all == acc.buf \o toAcc
        h == all[at].v
        hdr == Decrypt(SubSeq(all, at + 1, at + 3), PeerKey(FALSE), 0)
        end == at + 4 + hdr[3].v
        extra == DropFirst(acc.buf, end)
        bad == \/ h \notin DOMAIN Configs
               \/ hdr[1] # Sym("vc") \/ hdr[2] # Sym("arc4") \/ hdr[3].v > MaxPad
    IN /\ acc.pc = "req1" /\ at # 1
       /\ Len(all) >= at + 3
       /\ bad \/ Len(all) >= end
       /\ IF bad THEN AcceptFails /\ UNCHANGED <<toAcc, toIni>>
          ELSE /\ toAcc' = DropFirst(all, IF Len(acc.buf) > end
                                          THEN Len(acc.buf) ELSE end)
               /\ \E padD \in 0..MaxPad :
                    /\ toIni' = IF cut THEN toIni
                                ELSE toIni \o Pad(acc.pad) \o ReceiverBlob(padD)
                    /\ acc' = [acc EXCEPT !.pc = "accept", !.enc = TRUE,
                                  !.buf = <<>>, !.hash = h, !.epos = 3 + padD,
                                  !.pending = Decrypt(extra, PeerKey(FALSE), end - at),
                                  !.dpos = end - at + Len(extra)]
               /\ UNCHANGED cut
       /\ UNCHANGED <<ini, policy>>

acceptHandshake ==
    /\ acc.pc = "accept" /\ Available(acc, toAcc) >= 2
    /\ LET r == ReadFull(acc, FALSE, toAcc, 2)
           hs == marshalHandshake(acc.hash)
       IN IF GoodHandshake(r.data, acc.hash) /\ ~cut
          THEN /\ toIni' = toIni \o Written(acc, FALSE, hs)
               /\ toAcc' = DropFirst(toAcc, r.used)
               /\ acc' = [acc EXCEPT !.pc = "ready", !.pending = r.pending,
                             !.dpos = r.dpos, !.epos = @ + 2,
                             !.got = r.data, !.sent = hs]
               /\ UNCHANGED cut
          ELSE /\ acc' = [acc EXCEPT !.pc = "failed", !.got = r.data]
               /\ cut' = TRUE
               /\ UNCHANGED <<toAcc, toIni>>
    /\ UNCHANGED <<ini, policy>>

\* A closed connection, the deadline of the whole acceptance or the end of
\* its context.
AcceptEndFails ==
    /\ acc.pc \in {"prefix", "legacy", "dhKey", "req1", "accept"}
    /\ AcceptFails
    /\ UNCHANGED <<ini, toAcc, toIni, policy>>

-----------------------------------------------------------------------------
(* The established connection, and the network.                            *)

Sends(end) == end.pc = "ready" /\ Len(end.sent) < 2 + MaxData /\ ~cut

Exchange ==
    \/ /\ Sends(ini)
       /\ LET m == <<Num(Len(ini.sent))>>
          IN /\ toAcc' = toAcc \o Written(ini, TRUE, m)
             /\ ini' = [ini EXCEPT !.sent = @ \o m, !.epos = @ + 1]
       /\ UNCHANGED <<acc, toIni, cut, policy>>
    \/ /\ Sends(acc)
       /\ LET m == <<Num(Len(acc.sent))>>
          IN /\ toIni' = toIni \o Written(acc, FALSE, m)
             /\ acc' = [acc EXCEPT !.sent = @ \o m, !.epos = @ + 1]
       /\ UNCHANGED <<ini, toAcc, cut, policy>>
    \/ /\ ini.pc = "ready"
       /\ \E n \in 1..Available(ini, toIni) :
            LET r == ReadFull(ini, TRUE, toIni, n)
            IN /\ toIni' = DropFirst(toIni, r.used)
               /\ ini' = [ini EXCEPT !.pending = r.pending, !.dpos = r.dpos,
                             !.got = @ \o r.data]
       /\ UNCHANGED <<acc, toAcc, cut, policy>>
    \/ /\ acc.pc = "ready"
       /\ \E n \in 1..Available(acc, toAcc) :
            LET r == ReadFull(acc, FALSE, toAcc, n)
            IN /\ toAcc' = DropFirst(toAcc, r.used)
               /\ acc' = [acc EXCEPT !.pending = r.pending, !.dpos = r.dpos,
                             !.got = @ \o r.data]
       /\ UNCHANGED <<ini, toIni, cut, policy>>

\* The network breaks the connection.
Break ==
    /\ ~cut /\ ini.pc \notin {"dial", "redial", "failed"}
    /\ cut' = TRUE
    /\ UNCHANGED <<ini, acc, toAcc, toIni, policy>>

DialStep == \/ Dial \/ InitiateKey \/ InitiateRequest \/ SearchMarker \/ ParseAnswer
            \/ SendHandshake \/ ReadHandshake \/ DialEndFails

AcceptStep == \/ AcceptAny \/ acceptLegacyInbound \/ ReceiveKey \/ SearchRequest
              \/ ParseRequest \/ acceptHandshake \/ AcceptEndFails

Next == DialStep \/ AcceptStep \/ DialFails \/ Exchange \/ Break

Progress == DialStep \/ AcceptStep

Spec == Init /\ [][Next]_hsVars /\ WF_hsVars(Progress)

-----------------------------------------------------------------------------

\* What an end reads as a peer is what the other end wrote as one, in order
\* and without a gap, whatever the two handshakes had read ahead: the key
\* streams of mse.Conn never lose step.  Two ends that are ready share the
\* torrent and agree on encryption, and an end whose torrent requires
\* encryption is never ready without it.
StreamsAgree ==
    /\ IsPrefix(ini.got, acc.sent) /\ IsPrefix(acc.got, ini.sent)
    /\ ini.pc = "ready" /\ acc.pc = "ready" =>
          ini.hash = acc.hash /\ ini.enc = acc.enc
    /\ ini.pc = "ready" /\ policy.mode = "require" => ini.enc
    /\ acc.pc = "ready" /\ Configs[acc.hash] = "require" => acc.enc

\* Both ends come to rest: ready or failed.
AtRest == ini.pc \in {"ready", "failed"} /\ acc.pc \in {"none", "ready", "failed"}
=============================================================================
