--------------------------- MODULE MagnetMetadata ---------------------------
(***************************************************************************)
(* A magnet link's download of the torrent's metadata from peers           *)
(* (internal/engine/bt_magnet.go): a saved torrent is tried first; else    *)
(* the peers found are dialled, their extension handshakes give the size,  *)
(* the pieces are requested from one peer each, and the assembled metadata *)
(* counts only when its hash is the link's.  Peers may answer anything, at *)
(* any time: a late answer and a wrong one are among it.                   *)
(***************************************************************************)
EXTENDS Integers, FiniteSets, Functions

CONSTANTS MetaPeers,  \* peers found
          Sizes,      \* metadata sizes, in pieces, that a handshake may claim
          RealSize,   \* the size of the real metadata, in pieces
          MaxSize     \* MaxMetadataSize, in pieces

VARIABLES stage,   \* "load", "connect", "session", or how it ended
          saved,   \* the file <hash>.torrent: "absent", "good", "bad"
          size,    \* totalSize, 0 while unknown
          got,     \* per piece: "none", "real" or "forged"
          inflight,\* piece -> peer
          mp       \* per peer: its fields

mmVars == <<stage, saved, size, got, inflight, mp>>

Pieces == 0 .. size - 1
NoPeer == [conn |-> "none", ext |-> FALSE, requested |-> -1, closed |-> FALSE,
           told |-> TRUE]

Joined == {p \in MetaPeers : mp[p].conn # "none"}

(***************************************************************************)
(* tryLoadSavedMagnetTorrent: a file that does not parse or has another    *)
(* hash is passed over.                                                    *)
(***************************************************************************)
tryLoadSavedMagnetTorrent ==
    /\ stage = "load"
    /\ \E load \in BOOLEAN :                        \* BTLoadSavedMetadata
          stage' = IF load /\ saved = "good" THEN "loaded" ELSE "connect"
    /\ UNCHANGED <<saved, size, got, inflight, mp>>

\* The peers whose dial and extension bit were good; none is an error.
connectMetadataPeers ==
    /\ stage = "connect"
    /\ \E up \in SUBSET MetaPeers :
          /\ mp' = [p \in MetaPeers |->
                       IF p \in up THEN [NoPeer EXCEPT !.conn = "open"]
                       ELSE NoPeer]
          /\ stage' = IF up = {} THEN "failed" ELSE "session"
    /\ UNCHANGED <<saved, size, got, inflight>>

(***************************************************************************)
(* assignMetadataRequests: each idle peer in turn takes the first piece    *)
(* that is neither received nor in flight; the peers of `broken' fail to   *)
(* send the request.  clearInflight then looks at `requested', which is    *)
(* still -1, so the piece stays in flight.                                 *)
(***************************************************************************)
Asks(st, p, broken) ==
    LET free == {i \in DOMAIN st.got : st.got[i] = "none"
                                       /\ i \notin DOMAIN st.inflight}
        i    == CHOOSE j \in free : \A k \in free : j <= k
    IN  IF st.mp[p].closed \/ ~st.mp[p].ext \/ st.mp[p].requested >= 0
           \/ free = {}
        THEN st
        ELSE [st EXCEPT
                !.inflight = [j \in DOMAIN st.inflight \union {i} |->
                                 IF j = i THEN p ELSE st.inflight[j]],
                !.mp[p].requested = IF p \in broken THEN -1 ELSE i]

assignMetadataRequests(st) ==
    {FoldFunctionOnSet(LAMBDA p, s : Asks(s, p, broken), st,
                       [p \in MetaPeers |-> p], Joined) :
        broken \in SUBSET {p \in Joined : mp[p].conn # "open"}}

Become(st) ==
    /\ size' = st.size /\ got' = st.got /\ inflight' = st.inflight
    /\ mp' = st.mp

Now == [size |-> size, got |-> got, inflight |-> inflight, mp |-> mp]

Hang(p) == [mp EXCEPT ![p].conn = IF @ = "open" THEN "closing" ELSE @]

\* conn.Close: the peer's reader will notice.
ClosePeer(p) == mp' = Hang(p) /\ UNCHANGED <<stage, saved, size, got,
                                             inflight>>

Sized(st, n) ==
    [st EXCEPT !.size = n,
               !.got = IF st.size = 0 THEN [i \in 0 .. n - 1 |-> "none"] ELSE @]

\* setMetadataSize: the first size stands.
SizeOK(n) == n > 0 /\ n <= MaxSize /\ size \in {0, n}

(***************************************************************************)
(* The messages of a peer.                                                 *)
(***************************************************************************)
Talks(p) == stage = "session" /\ mp[p].conn \in {"open", "closing"}
                              /\ ~mp[p].closed

extendedHandshake(p) ==
    /\ Talks(p)
    /\ \E ext \in BOOLEAN, n \in Sizes :
          IF ext /\ SizeOK(n)
          THEN /\ \E st \in assignMetadataRequests(
                              [Sized(Now, n) EXCEPT !.mp[p].ext = TRUE]) :
                     Become(st)
               /\ UNCHANGED <<stage, saved>>
          ELSE /\ mp' = [Hang(p) EXCEPT ![p].ext = ext]
               /\ UNCHANGED <<stage, saved, size, got, inflight>>

\* The sum of the pieces is the info hash.
HashOK(g) == size = RealSize /\ \A i \in DOMAIN g : g[i] = "real"

\* The request a peer has answered is no longer in flight.
Answered(st, p, i) ==
    IF st.mp[p].requested = i
    THEN [st EXCEPT !.inflight = Restrict(@, DOMAIN @ \ {i}),
                    !.mp[p].requested = -1]
    ELSE st

\* What the store of a piece leads to.
Reset(st) ==
    [st EXCEPT !.got = [i \in DOMAIN @ |-> "none"], !.inflight = << >>,
               !.mp = [p \in MetaPeers |-> [@[p] EXCEPT !.requested = -1]]]

storePiece(p) ==
    /\ Talks(p) /\ mp[p].ext
    /\ \E i \in 0 .. MaxSize, n \in Sizes, what \in {"real", "forged"} :
          /\ what = "real" => n = RealSize
          /\ IF ~SizeOK(n) \/ i >= n
             THEN ClosePeer(p)
             ELSE LET st  == Answered(Sized(Now, n), p, i)
                      new == [st EXCEPT !.got[i] =
                                 IF @ = "none" THEN what ELSE @]
                      all == st.got[i] = "none"
                             /\ \A j \in DOMAIN new.got : new.got[j] # "none"
                  IN  IF ~all
                      THEN /\ \E s2 \in assignMetadataRequests(new) : Become(s2)
                           /\ UNCHANGED <<stage, saved>>
                      ELSE IF HashOK(new.got)
                      THEN /\ Become([new EXCEPT !.mp =
                                [q \in MetaPeers |->
                                    [@[q] EXCEPT !.conn = "none"]]])
                           /\ stage' = "assembled" /\ UNCHANGED saved
                      ELSE /\ Become([Reset(new) EXCEPT !.mp[p].conn =
                                         "closing"])
                           /\ UNCHANGED <<stage, saved>>

\* A message that does not parse, or a reject.
badMessage(p) == Talks(p) /\ mp[p].conn = "open" /\ ClosePeer(p)

(***************************************************************************)
(* readMetadataPeer: the end of a connection reaches the session, unless   *)
(* the reader happens to see the closed message channel first.             *)
(***************************************************************************)
readerEnds(p) ==
    /\ stage = "session" /\ mp[p].conn \in {"open", "closing"}
    /\ \E told \in BOOLEAN :
          mp' = [mp EXCEPT ![p].conn = "gone", ![p].told = told]
    /\ UNCHANGED <<stage, saved, size, got, inflight>>

closedEnvelope(p) ==
    /\ stage = "session" /\ mp[p].conn = "gone" /\ mp[p].told
    /\ ~mp[p].closed
    /\ LET st == [Answered(Now, p, mp[p].requested) EXCEPT
                     !.mp[p].closed = TRUE, !.mp[p].requested = -1]
       IN  IF \A q \in Joined : st.mp[q].closed
           THEN Become(st) /\ stage' = "failed" /\ UNCHANGED saved
           ELSE /\ \E s2 \in assignMetadataRequests(st) : Become(s2)
                /\ UNCHANGED <<stage, saved>>

ExpiryKeepsRequest(st, p) ==                                      \* mutant
    [st EXCEPT !.inflight = Restrict(@, DOMAIN @ \ {st.mp[p].requested})]

Expired(st, p) == Answered(st, p, st.mp[p].requested)

\* The ticker: requests out for too long are given up, then asked anew.
expireTimedOutRequests ==
    /\ stage = "session"
    /\ \E late \in SUBSET {p \in Joined : ~mp[p].closed
                                          /\ mp[p].requested >= 0} :
          LET st == FoldFunctionOnSet(LAMBDA p, s : Expired(s, p), Now,
                                      [p \in MetaPeers |-> p], late)
          IN  \E s2 \in assignMetadataRequests(st) : Become(s2)
    /\ UNCHANGED <<stage, saved>>

(***************************************************************************)
(* finishMagnetMetadata: the torrent is saved unless the file exists; then *)
(* the download it describes is added.  Either may fail.                   *)
(***************************************************************************)
finishMagnetMetadata ==
    /\ stage = "assembled"
    /\ \E save \in BOOLEAN, only \in BOOLEAN :
          /\ saved' = IF save /\ saved = "absent" THEN "good" ELSE saved
          /\ \E end \in {IF only THEN "metadata only" ELSE "added", "failed"} :
                stage' = end
    /\ UNCHANGED <<size, got, inflight, mp>>

cancelled ==
    /\ stage = "session" /\ stage' = "failed"
    /\ UNCHANGED <<saved, size, got, inflight, mp>>

MmInit ==
    /\ stage = "load" /\ saved \in {"absent", "good", "bad"}
    /\ size = 0 /\ got = << >> /\ inflight = << >>
    /\ mp = [p \in MetaPeers |-> NoPeer]

MmNext ==
    \/ tryLoadSavedMagnetTorrent \/ connectMetadataPeers
    \/ expireTimedOutRequests \/ finishMagnetMetadata \/ cancelled
    \/ \E p \in MetaPeers : extendedHandshake(p) \/ storePiece(p)
                            \/ badMessage(p) \/ readerEnds(p)
                            \/ closedEnvelope(p)

MmSpec == MmInit /\ [][MmNext]_mmVars

(***************************************************************************)
(* What is assembled, and so what may be saved and added, is the real      *)
(* metadata whatever the peers sent and in whatever order (storePiece);    *)
(* and no piece is asked of two peers at a time, across timeouts, late     *)
(* answers, closed peers and the start over after a wrong hash             *)
(* (nextPieceFor, expireTimedOutRequests).                                 *)
(***************************************************************************)
MetadataSound ==
    /\ stage \in {"assembled", "metadata only", "added"} =>
          size = RealSize /\ \A i \in Pieces : got[i] = "real"
    /\ \A p, q \in MetaPeers :
          (p # q /\ mp[p].requested >= 0) => mp[p].requested # mp[q].requested
=============================================================================
