---------------------------- MODULE SftpSession ----------------------------
(***************************************************************************)
(* The SFTP requests of a download (internal/protocol/sftp/sftp.go): STAT, *)
(* OPEN, the READs of fileReader and CLOSE, each with an id, a reply that  *)
(* must carry it, and a body read into a buffer of the pool all sessions   *)
(* share.                                                                  *)
(*                                                                         *)
(* readFullCtx reads in a goroutine of its own and does not wait for it    *)
(* when the context ends.  The buffer goes back to the pool all the same:  *)
(* the goroutine may still write into it, whoever uses it by then.  And    *)
(* fileReader.Close sends a CLOSE after a read that was given up, so that  *)
(* the next bytes it reads may belong to any earlier reply.                *)
(***************************************************************************)
EXTENDS Naturals, FiniteSets

CONSTANTS Sessions,
          Buffers,     \* one for each session: sync.Pool makes more on demand
          FileLen,     \* length of the remote file
          Starts,      \* offsets a download may start from
          ReadSize     \* the largest READ

VARIABLES ss,       \* a record for each session, see Fresh
          pool,     \* bodyPool: the free buffers
          orphan,   \* buffers an abandoned goroutine still reads into
          canceled  \* sessions whose context has ended

sftpVars == <<ss, pool, orphan, canceled>>

(* reply: whose reply, and to which id, the buffer holds once its body is  *)
(* complete; bad: a reply was accepted that does not answer the request.   *)
Fresh(start) ==
  [at |-> "idle", op |-> "STAT", id |-> 0, off |-> start, start |-> start,
   got |-> 0, buf |-> 0, reply |-> <<>>, bad |-> FALSE]

SftpInit ==
  /\ ss \in [Sessions -> {Fresh(n) : n \in Starts}]
  /\ pool = Buffers
  /\ orphan = [s \in Sessions |-> {}]
  /\ canceled = {}

Set(s, r) == ss' = [ss EXCEPT ![s] = r]

(* Stat, OpenFile, Read and Close: the next id and the request.            *)
Request(s) ==
  /\ ss[s].at = "idle"
  /\ Set(s, [ss[s] EXCEPT !.at = "header", !.id = @ + 1])
  /\ UNCHANGED <<pool, orphan, canceled>>

(* After an error the reader is closed, if there is one, and the session.  *)
Failed(r) ==
  IF r.op = "READ" THEN [r EXCEPT !.at = "idle", !.op = "CLOSE"]
                   ELSE [r EXCEPT !.at = "closing", !.op = "failed"]

Unbuffered(s) == [ss[s] EXCEPT !.buf = 0, !.reply = <<>>]

(* The length is there: a buffer for the body.                             *)
getBodyBuf(s, b) ==
  /\ ss[s].at = "header"
  /\ b \in pool
  /\ pool' = pool \ {b}
  /\ Set(s, [ss[s] EXCEPT !.at = "body", !.buf = b])
  /\ UNCHANGED <<orphan, canceled>>

(* The request cannot be written, or the header cannot be read or used.    *)
HeaderFails(s) ==
  /\ ss[s].at = "header"
  /\ Set(s, Failed(ss[s]))
  /\ \/ UNCHANGED canceled
     \/ canceled' = canceled \cup {s}
  /\ UNCHANGED <<pool, orphan>>

(* The goroutine of readFullCtx has the whole body.  Once a read was given *)
(* up, what comes next on the channel may be any earlier reply.            *)
Replies(s) == IF s \in canceled THEN 1..ss[s].id ELSE {ss[s].id}

Arrive(s) ==
  /\ ss[s].at = "body"
  /\ \E i \in Replies(s) :
       Set(s, [ss[s] EXCEPT !.at = "parsing", !.reply = <<s, i>>])
  /\ UNCHANGED <<pool, orphan, canceled>>

putBodyBuf(b) == pool' = pool \cup {b}

Matches(s) == ss[s].reply[2] = ss[s].id

(* What an accepted reply makes of the session: a READ may return less     *)
(* than was asked for, or the end of the file.                             *)
Stat(r) == {[r EXCEPT !.op = "OPEN"]}

OpenFile(r) == {[r EXCEPT !.op = "READ"]}

\* mutant of Read: the offset moves by what was asked for
ReadByAsked(r) ==
  IF r.off >= FileLen
  THEN {[r EXCEPT !.op = "CLOSE"]}
  ELSE {[r EXCEPT !.off = @ + ReadSize, !.got = @ + n] :
          n \in {k \in 1..ReadSize : r.off + k <= FileLen}}

Read(r) ==
  IF r.off >= FileLen
  THEN {[r EXCEPT !.op = "CLOSE"]}
  ELSE {[r EXCEPT !.off = @ + n, !.got = @ + n] :
          n \in {k \in 1..ReadSize : r.off + k <= FileLen}}

Close(r) == {[r EXCEPT !.at = "closing", !.op = "ended"]}

Accepted(r) ==
  CASE r.op = "STAT" -> Stat(r)
    [] r.op = "OPEN" -> OpenFile(r)
    [] r.op = "READ" -> Read(r)
    [] r.op = "CLOSE" -> Close(r)

(* A status other than the expected one, a reply of another type or id and *)
(* a malformed body are errors.                                            *)
Parse(s) ==
  /\ ss[s].at = "parsing"
  /\ \/ /\ Matches(s)
        /\ \E q \in Accepted([Unbuffered(s) EXCEPT !.at = "idle",
                                !.bad = @ \/ ss[s].reply # <<s, ss[s].id>>]) :
             Set(s, q)
     \/ Set(s, Failed(Unbuffered(s)))
  /\ putBodyBuf(ss[s].buf)
  /\ UNCHANGED <<orphan, canceled>>

(* readFullCtx when the context ends: the caller has its error and its     *)
(* buffer is back in the pool; the goroutine goes on.                      *)
CtxDone(s) ==
  /\ ss[s].at = "body"
  /\ canceled' = canceled \cup {s}
  /\ orphan' = [orphan EXCEPT ![s] = @ \cup {ss[s].buf}]
  /\ putBodyBuf(ss[s].buf)
  /\ Set(s, Failed(Unbuffered(s)))

(* It matters when a session has the whole of its body in that buffer.     *)
OrphanWrites(s) ==
  /\ \E b \in orphan[s], i \in Replies(s) :
       /\ ss' = [t \in Sessions |->
                   IF ss[t].buf = b /\ ss[t].at = "parsing"
                   THEN [ss[t] EXCEPT !.reply = <<s, i>>] ELSE ss[t]]
       /\ orphan' = [orphan EXCEPT ![s] = @ \ {b}]
  /\ UNCHANGED <<pool, canceled>>

(* Session.Close: the channel and the connection, which ends a goroutine   *)
(* that still reads.                                                       *)
CloseSession(s) ==
  /\ ss[s].at = "closing"
  /\ Set(s, [ss[s] EXCEPT !.at = "closed"])
  /\ orphan' = [orphan EXCEPT ![s] = {}]
  /\ UNCHANGED <<pool, canceled>>

SftpNext ==
  \E s \in Sessions :
    \/ Request(s)
    \/ \E b \in Buffers : getBodyBuf(s, b)
    \/ HeaderFails(s)
    \/ Arrive(s)
    \/ Parse(s)
    \/ CtxDone(s)
    \/ OrphanWrites(s)
    \/ CloseSession(s)

SftpSpec == SftpInit /\ [][SftpNext]_sftpVars

-----------------------------------------------------------------------------
(* The bytes a download gets are those of the remote file from its start,  *)
(* in order, however short the replies are; two sessions never hold the    *)
(* same buffer; and a reply that does not answer the request is accepted   *)
(* only when another session was cancelled in the middle of a read, never  *)
(* because of the session's own earlier replies (readPacket, readFullCtx,  *)
(* fileReader.Read and Close).                                             *)
SftpSound ==
  /\ \A s \in Sessions : ss[s].off = ss[s].start + ss[s].got
  /\ \A s, t \in Sessions : (s # t /\ ss[s].buf = ss[t].buf) => ss[s].buf = 0
  /\ \A s \in Sessions : ss[s].bad => canceled \ {s} # {}
=============================================================================
