------------------------------ MODULE Transfer ------------------------------
(***************************************************************************)
(* An HTTP transfer of one file of Total bytes and its .aria2 control file *)
(* (runHTTPDownload, downloadToAdaptor, initControlInfo, saveControlFile   *)
(* and finishControlFile in internal/engine/engine.go, Save and Load in    *)
(* protocol/bittorrent/progress/progress.go, disk.SingleFile).             *)
(*                                                                         *)
(* The actors are the goroutine of runDownload, the segment workers it     *)
(* starts, the auto-save ticker, the queue manager that reaps the          *)
(* download, and a machine that may kill the process or lose power.  A     *)
(* write is one byte: the least that can happen between two steps of       *)
(* another actor.  The bytes of the resource do not change, so a byte of   *)
(* the file is either downloaded or not.                                   *)
(*                                                                         *)
(* Three goroutines may save the control file at once, all through the     *)
(* same temporary name: sfile says which name the file that a saver has    *)
(* open goes by at the moment.                                             *)
(***************************************************************************)
EXTENDS Segments

CONSTANTS
    Total,        \* length of the resource
    PieceLength,  \* piece length of the control file
    Workers,      \* the URIs of the download
    Selections,   \* what selectDownloadURIs may return: one worker for each URI
    Split,        \* the split option
    Ignoring,     \* the URIs whose server answers a range with the whole file
    Continue,     \* the continue option
    Preallocate,  \* whether file-allocation extends the file when it is opened
    AutoSave,     \* whether auto-save-interval is above 0
    MaxStops      \* bound on the pauses, shutdowns, kills and power failures

ASSUME TotalAssumption == Total \in Nat \ {0}
ASSUME PieceLengthAssumption == PieceLength \in Nat \ {0}
ASSUME WorkersAssumption == IsFiniteSet(Workers) /\ Ignoring \subseteq Workers
ASSUME SelectionsAssumption == Selections \subseteq (SUBSET Workers \ {{}})
ASSUME SplitAssumption == Split \in Nat
ASSUME OptionAssumption == {Continue, Preallocate, AutoSave} \subseteq BOOLEAN
ASSUME StopsAssumption == MaxStops \in Nat

VARIABLES
    \* the disk
    size,           \* length of the payload file, -1 when there is none
    data,           \* the bytes of the payload that have been downloaded
    durable,        \* the ones a power failure cannot take away
    ctl, tmp,       \* <path>.aria2 and <path>.aria2__temp
    sfile,          \* per saver: the name of the file it writes, if it has one
    \* the request group
    info,           \* controlInfo is set
    bits, counts, loaded,  \* its Bitfield, controlPieceBytes, controlLoaded
    handle, open,   \* the number of the adaptor in rg.adaptor; it is not closed
    code,           \* errCode: "none" is 0, which is also ExitSuccess
    state,          \* "active", "waiting", "stopping", or "gone" from the map
    pauseReq, shuttingDown,
    graceful,       \* haltRequested is set and forceHaltReq is not
    stop,           \* the context of the current run is cancelled
    completedLength,
    complete,       \* history: the download was declared complete
    \* goroutines
    pc, existing,   \* runDownload and its existingSize or baseCompleted
    uris,           \* selectedURIs
    segs, nextIdx, failed,  \* segMan, and firstErr # nil
    wpc, wseg, wpos,        \* per worker: where it is, its segment, its offset
    spc, sbits, shandle,    \* per saver: where saveControlFile is, its clone
    stops

disk == <<size, data, durable>>
files == <<ctl, tmp, sfile>>
control == <<info, bits, counts, loaded>>
adaptor == <<handle, open>>
flags == <<state, pauseReq, shuttingDown, graceful, stop>>
outcome == <<code, completedLength, complete>>
plan == <<existing, uris, segs, nextIdx, failed>>
workers == <<wpc, wseg, wpos>>
savers == <<spc, sbits, shandle>>
vars == <<disk, files, control, adaptor, flags, outcome, pc, plan, workers,
          savers, stops>>

Bytes == 0..(Total - 1)
Pieces == PieceNumbers(Total, PieceLength)
Savers == {"worker", "ticker", "manager"}
MultiConnection == Cardinality(uris) > 1

\* addStoppedLocked saves the control file with the lock of the group held.
Locked == state = "stopping" /\ spc["manager"] # "idle"

\* A control file: whether there is one, it can be decoded, and its bitfield.
Absent == [here |-> FALSE, ok |-> FALSE, bits |-> {}]
Torn == [here |-> TRUE, ok |-> FALSE, bits |-> {}]
Saved(b) == [here |-> TRUE, ok |-> TRUE, bits |-> b]

\* os.Remove: a saver that has the file open writes to one without a name.
RemoveControl ==
    /\ ctl' = Absent
    /\ sfile' = [s \in Savers |-> IF sfile[s] = "ctl" THEN "none" ELSE sfile[s]]

(***************************************************************************)
(* saveControlFile, by the download, the ticker or the queue manager       *)
(***************************************************************************)

\* The clone taken under controlMu; nothing is saved before initControlInfo.
BeginSave(s, clone) ==
    /\ spc' = [spc EXCEPT ![s] = "sync"]
    /\ sbits' = [sbits EXCEPT ![s] = clone]
    /\ shandle' = [shandle EXCEPT ![s] = handle]

EndSave(s) ==
    /\ spc' = [spc EXCEPT ![s] = "idle"]
    /\ sbits' = [sbits EXCEPT ![s] = {}]
    /\ shandle' = [shandle EXCEPT ![s] = 0]

\* saveControlFiles of the auto-save ticker, for this group.
TickerSave ==
    /\ AutoSave /\ pc # "off" /\ spc["ticker"] = "idle"
    /\ state # "gone" /\ ~Locked /\ info
    /\ BeginSave("ticker", bits)
    /\ UNCHANGED <<disk, files, control, adaptor, flags, outcome, pc, plan,
                   workers, stops>>

\* Mutant: the payload is not synced before the control file is saved.
SaveSyncSkipped(s) ==
    /\ spc[s] = "sync"
    /\ spc' = [spc EXCEPT ![s] = "create"]
    /\ UNCHANGED <<disk, files, control, adaptor, flags, outcome, pc, plan, workers,
                   sbits, shandle, stops>>

\* adaptor.Sync(), unless the adaptor of the clone is nil or closed.
SaveSync(s) ==
    /\ spc[s] = "sync"
    /\ spc' = [spc EXCEPT ![s] = "create"]
    /\ durable' = IF open /\ shandle[s] = handle THEN data ELSE durable
    /\ UNCHANGED <<size, data, files, control, adaptor, flags, outcome, pc, plan,
                   workers, sbits, shandle, stops>>

\* os.Create(tmpPath): a new file, or the existing one cut to nothing.
SaveCreate(s) ==
    /\ spc[s] = "create"
    /\ tmp' = Torn /\ sfile' = [sfile EXCEPT ![s] = "tmp"]
    /\ spc' = [spc EXCEPT ![s] = "write"]
    /\ UNCHANGED <<disk, ctl, control, adaptor, flags, outcome, pc, plan, workers,
                   sbits, shandle, stops>>

\* Mutant: an error of encode is ignored and the file renamed all the same.
SaveWriteUnchecked(s) ==
    /\ spc[s] = "write"
    /\ sfile' = [sfile EXCEPT ![s] = "none"]
    /\ spc' = [spc EXCEPT ![s] = "rename"]
    /\ UNCHANGED <<disk, ctl, tmp, control, adaptor, flags, outcome, pc, plan, workers,
                   sbits, shandle, stops>>

\* encode and f.Close().
SaveWrite(s) ==
    /\ spc[s] = "write"
    /\ ctl' = IF sfile[s] = "ctl" THEN Saved(sbits[s]) ELSE ctl
    /\ tmp' = IF sfile[s] = "tmp" THEN Saved(sbits[s]) ELSE tmp
    /\ sfile' = [sfile EXCEPT ![s] = "none"]
    /\ spc' = [spc EXCEPT ![s] = "rename"]
    /\ UNCHANGED <<disk, control, adaptor, flags, outcome, pc, plan, workers, sbits,
                   shandle, stops>>

\* os.Rename of whatever has the temporary name.
SaveRename(s) ==
    /\ spc[s] = "rename" /\ tmp.here
    /\ ctl' = tmp /\ tmp' = Absent
    /\ sfile' = [r \in Savers |-> IF sfile[r] = "tmp" THEN "ctl" ELSE "none"]
    /\ EndSave(s)
    /\ UNCHANGED <<disk, control, adaptor, flags, outcome, pc, plan, workers, stops>>

\* Nothing has it, for another saver has renamed it: Save fails, and removes
\* the temporary file, which may be the next one of another saver.
SaveRenameFails(s) ==
    /\ spc[s] = "rename" /\ ~tmp.here
    /\ spc' = [spc EXCEPT ![s] = "remove"]
    /\ UNCHANGED <<disk, files, control, adaptor, flags, outcome, pc, plan, workers,
                   sbits, shandle, stops>>

SaveRemove(s) ==
    /\ spc[s] = "remove"
    /\ tmp' = Absent
    /\ sfile' = [r \in Savers |-> IF sfile[r] = "tmp" THEN "none" ELSE sfile[r]]
    /\ EndSave(s)
    /\ UNCHANGED <<disk, ctl, control, adaptor, flags, outcome, pc, plan,
                   workers, stops>>

Save(s) ==
    \/ SaveSync(s) \/ SaveCreate(s) \/ SaveWrite(s)
    \/ SaveRename(s) \/ SaveRenameFails(s) \/ SaveRemove(s)

(***************************************************************************)
(* The goroutine of the download                                           *)
(***************************************************************************)

FileExists == size >= 0
ControlExists == ctl.here
ControlReadable == ctl.ok

\* resolveFileCollision with controlFileAllowsResume: a control file that
\* cannot be decoded, or has no payload, is removed; a payload without a
\* control file is a collision unless continue is set.
Resolve ==
    /\ pc = "resolve"
    /\ LET resume == ControlReadable /\ FileExists IN
       /\ IF resume THEN UNCHANGED <<ctl, sfile>> ELSE RemoveControl
       /\ IF ~resume /\ FileExists /\ ~Continue
          THEN pc' = "finish" /\ code' = "failed"
          ELSE pc' = "init" /\ UNCHANGED code
    /\ UNCHANGED <<disk, tmp, control, adaptor, flags, completedLength, complete,
                   plan, workers, savers, stops>>

\* The probe of prepareHTTPMetadata fails, before or after the collision check.
ProbeFails ==
    /\ pc \in {"resolve", "init"}
    /\ pc' = "finish" /\ code' = "failed"
    /\ UNCHANGED <<disk, files, control, adaptor, flags, completedLength, complete,
                   plan, workers, savers, stops>>

\* initControlInfo up to its saveControlFile.
InitControl ==
    /\ pc = "init"
    /\ bits' = IF ControlReadable THEN ctl.bits ELSE {}
    /\ counts' = seedControlPieceBytes(Total, PieceLength, bits')
    /\ loaded' = ControlReadable /\ info' = TRUE
    /\ IF ControlReadable THEN UNCHANGED <<ctl, sfile>> ELSE RemoveControl
    /\ BeginSave("worker", bits')
    /\ pc' = "initSave"
    /\ UNCHANGED <<disk, tmp, adaptor, flags, outcome, plan, workers, stops>>

\* controlResumeOffset.
ControlOffset ==
    IF ~loaded THEN 0
    ELSE LET offset == controlContiguousLength(Total, PieceLength, bits) IN
         IF FileExists THEN Smaller(offset, size) ELSE offset

\* existingSize.
ExistingSize ==
    IF ControlOffset > 0 THEN ControlOffset
    ELSE IF Continue /\ FileExists THEN size ELSE 0

\* The download is declared complete.
Succeed(length) ==
    /\ complete' = TRUE /\ completedLength' = length /\ code' = "none"

\* disk.NewSingleFile: the allocator extends the file, or leaves it as it is.
OpenAdaptor ==
    /\ size' = IF Preallocate THEN Total ELSE Larger(size, 0)
    /\ handle' = handle + 1 /\ open' = TRUE
    /\ UNCHANGED <<data, durable>>

\* Everything is there already.
AlreadyComplete ==
    /\ pc = "initSave" /\ spc["worker"] = "idle"
    /\ ExistingSize >= Total
    /\ Succeed(Total)
    /\ pc' = "finish"
    /\ UNCHANGED <<disk, files, control, adaptor, flags, plan, workers, savers, stops>>

\* os.Stat or disk.NewSingleFile fails.
OpenFails ==
    /\ pc = "initSave" /\ spc["worker"] = "idle"
    /\ pc' = "finish" /\ code' = "failed"
    /\ UNCHANGED <<disk, files, control, adaptor, flags, completedLength, complete,
                   plan, workers, savers, stops>>

\* The segments of a transfer over several connections.
PlannedSegments ==
    IF loaded THEN newControlSegmentMan(Total, PieceLength, bits)
    ELSE IF ExistingSize > 0 THEN newResumeSegmentMan(Total, Split, ExistingSize)
    ELSE NewSegmentMan(Total, Split)

PlanSegments(selected) ==
    /\ pc = "initSave" /\ spc["worker"] = "idle"
    /\ ExistingSize < Total /\ Cardinality(selected) > 1
    /\ OpenAdaptor
    /\ existing' = IF loaded THEN controlCompletedLength(Total, PieceLength, bits) ELSE 0
    /\ uris' = selected
    /\ segs' = PlannedSegments /\ nextIdx' = 0 /\ failed' = FALSE
    /\ wpc' = [w \in Workers |-> IF w \in selected THEN "idle" ELSE "out"]
    /\ pc' = "run"
    /\ UNCHANGED <<files, control, flags, outcome, wseg, wpos, savers, stops>>

\* One connection: the file is opened once the server has answered.
PlanSingle(w) ==
    /\ pc = "initSave" /\ spc["worker"] = "idle"
    /\ ExistingSize < Total
    /\ existing' = ExistingSize
    /\ uris' = {w}
    /\ segs' = <<[Segment(ExistingSize, Total) EXCEPT !.claimed = TRUE]>>
    /\ nextIdx' = 0 /\ failed' = FALSE
    /\ wpc' = [v \in Workers |-> IF v = w THEN "request" ELSE "out"]
    /\ wseg' = [wseg EXCEPT ![w] = 1]
    /\ pc' = "run"
    /\ UNCHANGED <<disk, files, control, adaptor, flags, outcome, wpos, savers, stops>>

\* All workers are out and none failed: the file is synced.
Finished ==
    /\ pc = "run" /\ \A w \in Workers : wpc[w] = "out"
    /\ ~failed
    /\ Succeed(Smaller(existing + WrittenBytes(segs), Total))
    /\ durable' = data
    /\ pc' = "close"
    /\ UNCHANGED <<size, data, files, control, adaptor, flags, plan, workers,
                   savers, stops>>

\* All workers are out and none failed, but the file cannot be synced.
SyncFails ==
    /\ pc = "run" /\ \A w \in Workers : wpc[w] = "out"
    /\ ~failed
    /\ code' = "failed" /\ pc' = "close"
    /\ UNCHANGED <<disk, files, control, adaptor, flags, completedLength, complete,
                   plan, workers, savers, stops>>

\* Mutant: firstErr is logged and not stored in the group.
FailedKeepsCode ==
    /\ pc = "run" /\ \A w \in Workers : wpc[w] = "out"
    /\ failed
    /\ pc' = "close"
    /\ UNCHANGED <<disk, files, control, adaptor, flags, outcome, plan, workers, savers,
                   stops>>

\* A failed transfer over several connections reports its first error; over one
\* connection the code is what the transfer loop set.
Failed ==
    /\ pc = "run" /\ \A w \in Workers : wpc[w] = "out"
    /\ failed
    /\ code' = IF MultiConnection THEN "failed" ELSE code
    /\ pc' = "close"
    /\ UNCHANGED <<disk, files, control, adaptor, flags, completedLength, complete,
                   plan, workers, savers, stops>>

\* The deferred syncControlAdaptor and adaptor.Close().
Close ==
    /\ pc = "close"
    /\ durable' = IF open THEN data ELSE durable
    /\ open' = FALSE
    /\ wpc' = [w \in Workers |-> "none"]
    /\ segs' = <<>> /\ nextIdx' = 0
    /\ wseg' = [w \in Workers |-> 0] /\ wpos' = [w \in Workers |-> 0]
    /\ existing' = 0 /\ failed' = FALSE /\ UNCHANGED uris
    /\ pc' = "finish"
    /\ UNCHANGED <<size, data, files, control, handle, flags, outcome, savers, stops>>

\* finishControlFile: nothing if the group was reaped meanwhile; otherwise the
\* control file is removed on success and saved on failure.
FinishReaped ==
    /\ pc = "finish" /\ state = "gone"
    /\ pc' = "over"
    /\ UNCHANGED <<disk, files, control, adaptor, flags, outcome, plan, workers,
                   savers, stops>>

FinishRemove ==
    /\ pc = "finish" /\ state # "gone" /\ ~Locked /\ code = "none"
    /\ RemoveControl
    /\ pc' = "over"
    /\ UNCHANGED <<disk, tmp, control, adaptor, flags, outcome, plan,
                   workers, savers, stops>>

FinishSave ==
    /\ pc = "finish" /\ state # "gone" /\ ~Locked /\ code # "none"
    /\ IF info THEN BeginSave("worker", bits) ELSE UNCHANGED savers
    /\ pc' = "finishSave"
    /\ UNCHANGED <<disk, files, control, adaptor, flags, outcome, plan, workers, stops>>

Over ==
    /\ pc = "finishSave" /\ spc["worker"] = "idle"
    /\ pc' = "over"
    /\ UNCHANGED <<disk, files, control, adaptor, flags, outcome, plan, workers,
                   savers, stops>>

Downloader ==
    \/ Resolve \/ ProbeFails \/ InitControl \/ AlreadyComplete \/ OpenFails
    \/ \E selected \in Selections : PlanSegments(selected)
    \/ \E w \in Workers : {w} \in Selections /\ PlanSingle(w)
    \/ Finished \/ SyncFails \/ Failed \/ Close
    \/ FinishReaped \/ FinishRemove \/ FinishSave \/ Over

(***************************************************************************)
(* The workers of the transfer                                             *)
(***************************************************************************)

\* The context of a worker is done: the download was halted, or a sibling
\* failed and cancelled segmentCtx.
Cancelled == stop \/ (failed /\ MultiConnection)

\* segMan.Next() returns a segment.
Claim(w) ==
    /\ wpc[w] = "idle" /\ Free(segs) # {}
    /\ LET i == NextSegment(segs, nextIdx) IN
       /\ segs' = [segs EXCEPT ![i].claimed = TRUE]
       /\ nextIdx' = i % Len(segs)
       /\ wseg' = [wseg EXCEPT ![w] = i]
    /\ wpc' = [wpc EXCEPT ![w] = "request"]
    /\ UNCHANGED <<disk, files, control, adaptor, flags, outcome, pc, existing, uris,
                   failed, wpos, savers, stops>>

\* Mutant: the poll for a segment does not look at segmentCtx.
LeaveOnlyWhenDone(w) ==
    /\ wpc[w] = "idle" /\ Free(segs) = {}
    /\ AllDone(segs)
    /\ wpc' = [wpc EXCEPT ![w] = "out"]
    /\ UNCHANGED <<disk, files, control, adaptor, flags, outcome, pc, plan, wseg,
                   wpos, savers, stops>>

\* It returns nil: the worker ends when every segment is done or its context
\* is, and polls otherwise.
Leave(w) ==
    /\ wpc[w] = "idle" /\ Free(segs) = {}
    /\ AllDone(segs) \/ Cancelled
    /\ wpc' = [wpc EXCEPT ![w] = "out"]
    /\ UNCHANGED <<disk, files, control, adaptor, flags, outcome, pc, plan, wseg,
                   wpos, savers, stops>>

\* The server answers.  One that ignores ranges gets ErrRangeIgnored for an
\* offset above 0, and sends the whole file for offset 0.
RequestSucceeds(w) ==
    /\ wpc[w] = "request"
    /\ w \in Ignoring => segs[wseg[w]].start = 0
    /\ wpc' = [wpc EXCEPT ![w] = "body"]
    /\ wpos' = [wpos EXCEPT ![w] = segs[wseg[w]].start]
    /\ IF MultiConnection THEN UNCHANGED <<disk, adaptor>> ELSE OpenAdaptor
    /\ UNCHANGED <<files, control, flags, outcome, pc, plan, wseg, savers, stops>>

\* No answer after the retries, a refusal, or the context is done.
RequestFails(w) ==
    /\ wpc[w] = "request"
    /\ wpc' = [wpc EXCEPT ![w] = "out"]
    /\ failed' = TRUE
    /\ code' = IF MultiConnection THEN code ELSE "failed"
    /\ UNCHANGED <<disk, files, control, adaptor, flags, completedLength, complete,
                   pc, existing, uris, segs, nextIdx, wseg, wpos, savers, stops>>

\* Where the body ends.
BodyEnd(w) == IF w \in Ignoring THEN Total ELSE segs[wseg[w]].end

\* downloadToAdaptor writes the next byte of the body ...
Receive(w) ==
    /\ wpc[w] = "body" /\ wpos[w] < BodyEnd(w)
    /\ data' = data \cup {wpos[w]}
    /\ size' = Larger(size, wpos[w] + 1)
    /\ wpc' = [wpc EXCEPT ![w] = "mark"]
    /\ UNCHANGED <<durable, files, control, adaptor, flags, outcome, pc, plan, wseg,
                   wpos, savers, stops>>

\* ... and markControlWritten counts it.
Mark(w) ==
    /\ wpc[w] = "mark"
    /\ bits' = BitsWritten(Total, PieceLength, bits, counts, wpos[w], 1)
    /\ counts' = CountWritten(Total, PieceLength, bits, counts, wpos[w], 1)
    /\ wpos' = [wpos EXCEPT ![w] = @ + 1]
    /\ wpc' = [wpc EXCEPT ![w] = "body"]
    /\ UNCHANGED <<disk, files, info, loaded, adaptor, flags, outcome, pc, plan,
                   wseg, savers, stops>>

\* End of the body: MarkDone, and back for another segment.
BodyEnds(w) ==
    /\ wpc[w] = "body" /\ wpos[w] = BodyEnd(w)
    /\ segs' = MarkDone(segs, wseg[w], wpos[w] - segs[wseg[w]].start)
    /\ wpc' = [wpc EXCEPT ![w] = IF MultiConnection THEN "idle" ELSE "out"]
    /\ wseg' = [wseg EXCEPT ![w] = 0] /\ wpos' = [wpos EXCEPT ![w] = 0]
    /\ UNCHANGED <<disk, files, control, adaptor, flags, outcome, pc, existing, uris,
                   nextIdx, failed, savers, stops>>

\* The connection breaks, or the disk or the speed guard ends the transfer.
BodyFails(w) ==
    /\ wpc[w] = "body"
    /\ wpc' = [wpc EXCEPT ![w] = "out"]
    /\ failed' = TRUE /\ code' = "failed"
    /\ UNCHANGED <<disk, files, control, adaptor, flags, completedLength, complete,
                   pc, existing, uris, segs, nextIdx, wseg, wpos, savers, stops>>

\* Mutant: a cancelled transfer returns without an error.
BodyCanceledSilently(w) ==
    /\ wpc[w] = "body" /\ Cancelled
    /\ wpc' = [wpc EXCEPT ![w] = "out"]
    /\ code' = IF graceful THEN "none" ELSE "removed"
    /\ UNCHANGED <<disk, files, control, adaptor, flags, completedLength, complete,
                   pc, plan, wseg, wpos, savers, stops>>

\* The transfer sees that its context is done: markTransferCanceled.
BodyCanceled(w) ==
    /\ wpc[w] = "body" /\ Cancelled
    /\ wpc' = [wpc EXCEPT ![w] = "out"]
    /\ failed' = TRUE
    /\ code' = IF graceful THEN "none" ELSE "removed"
    /\ UNCHANGED <<disk, files, control, adaptor, flags, completedLength, complete,
                   pc, existing, uris, segs, nextIdx, wseg, wpos, savers, stops>>

Worker(w) ==
    \/ Claim(w) \/ Leave(w) \/ RequestSucceeds(w) \/ RequestFails(w)
    \/ Receive(w) \/ Mark(w) \/ BodyEnds(w) \/ BodyFails(w) \/ BodyCanceled(w)

(***************************************************************************)
(* Clients and the queue manager                                           *)
(***************************************************************************)

\* A halt cancels the context; one that is forced overrides the others.
Halt(force) ==
    /\ stops < MaxStops /\ stops' = stops + 1
    /\ pc # "off"
    /\ graceful' = ((stop => graceful) /\ ~force)
    /\ stop' = TRUE

Pause(force) ==
    /\ state = "active" /\ ~pauseReq
    /\ Halt(force)
    /\ pauseReq' = TRUE
    /\ UNCHANGED <<disk, files, control, adaptor, state, shuttingDown, outcome, pc,
                   plan, workers, savers>>

Shutdown(force) ==
    /\ state \in {"active", "waiting"} /\ ~shuttingDown
    /\ Halt(force)
    /\ shuttingDown' = TRUE
    /\ UNCHANGED <<disk, files, control, adaptor, state, pauseReq, outcome, pc, plan,
                   workers, savers>>

\* addStoppedLocked: the group gets its final code, and the control file is
\* removed on success and saved otherwise.
AddStopped(final) ==
    /\ state' = "stopping" /\ code' = final
    /\ IF final = "none" THEN RemoveControl ELSE UNCHANGED <<ctl, sfile>>
    /\ IF final # "none" /\ info THEN BeginSave("manager", bits) ELSE UNCHANGED savers
    /\ UNCHANGED <<disk, tmp, control, adaptor, pauseReq, shuttingDown, graceful, stop,
                   completedLength, complete, pc, plan, workers, stops>>

\* The code of a download that was halted: ExitInProgress unless it failed.
HaltCode == IF code = "none" THEN "inProgress" ELSE code

\* The context is done, by a halt or by the rg.cancel() that precedes the
\* deferred finishControlFile: the goroutine may still run.
CtxDone == stop \/ pc \in {"finish", "finishSave", "over"}

\* removeStoppedGroup: a paused download goes back to the waiting queue ...
ReapPaused ==
    /\ state = "active" /\ CtxDone /\ pauseReq
    /\ state' = "waiting" /\ graceful' = FALSE
    /\ UNCHANGED <<disk, files, control, adaptor, pauseReq, shuttingDown, stop,
                   outcome, pc, plan, workers, savers, stops>>

\* ... and any other is stopped.
ReapStopped ==
    /\ state = "active" /\ CtxDone /\ ~pauseReq
    /\ AddStopped(IF shuttingDown THEN HaltCode ELSE code)

\* onEndOfRun.
DrainActive ==
    /\ shuttingDown /\ state = "active"
    /\ AddStopped(HaltCode)

DrainWaiting ==
    /\ shuttingDown /\ state = "waiting"
    /\ AddStopped("removed")

\* The lock is released, and the group is deleted after that.
Delete ==
    /\ state = "stopping" /\ ~Locked
    /\ state' = "gone"
    /\ UNCHANGED <<disk, files, control, adaptor, pauseReq, shuttingDown, graceful,
                   stop, outcome, pc, plan, workers, savers, stops>>

\* Resume and the promotion that follows, once the old worker has returned.
Resume ==
    /\ state = "waiting" /\ pc = "over" /\ ~shuttingDown
    /\ state' = "active" /\ pauseReq' = FALSE /\ stop' = FALSE
    /\ pc' = "resolve" /\ complete' = FALSE
    /\ UNCHANGED <<disk, files, control, adaptor, shuttingDown, graceful, code,
                   completedLength, plan, workers, savers, stops>>

(***************************************************************************)
(* The process and the machine                                             *)
(***************************************************************************)

\* The memory of the process is lost.
Forget ==
    /\ info' = FALSE /\ bits' = {} /\ loaded' = FALSE
    /\ counts' = seedControlPieceBytes(Total, PieceLength, {})
    /\ handle' = 0 /\ open' = FALSE
    /\ state' = "active" /\ pauseReq' = FALSE /\ shuttingDown' = FALSE
    /\ graceful' = FALSE /\ stop' = FALSE
    /\ code' = "none" /\ completedLength' = 0 /\ complete' = FALSE
    /\ pc' = "off" /\ existing' = 0 /\ uris' = {}
    /\ segs' = <<>> /\ nextIdx' = 0 /\ failed' = FALSE
    /\ wpc' = [w \in Workers |-> "none"]
    /\ wseg' = [w \in Workers |-> 0] /\ wpos' = [w \in Workers |-> 0]
    /\ spc' = [s \in Savers |-> "idle"] /\ sbits' = [s \in Savers |-> {}]
    /\ shandle' = [s \in Savers |-> 0] /\ sfile' = [s \in Savers |-> "none"]

\* Run returns once the worker and the ticker have.
Exit ==
    /\ shuttingDown /\ state = "gone" /\ pc = "over" /\ spc["ticker"] = "idle"
    /\ Forget
    /\ UNCHANGED <<disk, ctl, tmp, stops>>

Kill ==
    /\ pc # "off" /\ stops < MaxStops /\ stops' = stops + 1
    /\ Forget
    /\ UNCHANGED <<disk, ctl, tmp>>

\* Bytes that were not synced may be lost, with the length they gave the file,
\* and so may the contents of the control file, which Save does not sync.
PowerFailure ==
    /\ pc # "off" /\ stops < MaxStops /\ stops' = stops + 1
    /\ Forget
    /\ \E lost \in SUBSET (data \ durable) : data' = data \ lost
    /\ durable' = data'
    /\ size' \in {n \in {size} \cup Bytes : n <= size /\ \A b \in data' : b < n}
    /\ ctl' \in {ctl, IF ctl.here THEN Torn ELSE Absent}
    /\ UNCHANGED tmp

\* The program is run again for the same download.
Start ==
    /\ pc = "off"
    /\ pc' = "resolve"
    /\ UNCHANGED <<disk, files, control, adaptor, flags, outcome, plan, workers,
                   savers, stops>>

(***************************************************************************)
(* The specification                                                       *)
(***************************************************************************)

\* The program has not run yet; a part of the file may be there already, left
\* by another program.
Init ==
    /\ \E n \in Bytes : data = 0..(n - 1) /\ size = IF n = 0 THEN -1 ELSE n
    /\ durable = data
    /\ ctl = Absent /\ tmp = Absent
    /\ info = FALSE /\ bits = {} /\ loaded = FALSE
    /\ counts = seedControlPieceBytes(Total, PieceLength, {})
    /\ handle = 0 /\ open = FALSE
    /\ state = "active" /\ pauseReq = FALSE /\ shuttingDown = FALSE
    /\ graceful = FALSE /\ stop = FALSE
    /\ code = "none" /\ completedLength = 0 /\ complete = FALSE
    /\ pc = "off" /\ existing = 0 /\ uris = {}
    /\ segs = <<>> /\ nextIdx = 0 /\ failed = FALSE
    /\ wpc = [w \in Workers |-> "none"]
    /\ wseg = [w \in Workers |-> 0] /\ wpos = [w \in Workers |-> 0]
    /\ spc = [s \in Savers |-> "idle"] /\ sbits = [s \in Savers |-> {}]
    /\ shandle = [s \in Savers |-> 0] /\ sfile = [s \in Savers |-> "none"]
    /\ stops = 0

Next ==
    \/ Downloader
    \/ \E w \in Workers : Worker(w)
    \/ TickerSave
    \/ \E s \in Savers : Save(s)
    \/ \E force \in BOOLEAN : Pause(force) \/ Shutdown(force)
    \/ ReapPaused \/ ReapStopped \/ DrainActive \/ DrainWaiting \/ Delete \/ Resume
    \/ Exit \/ Kill \/ PowerFailure \/ Start

\* The goroutines are scheduled, a request or a read ends in data or in an
\* error (the driver has timeouts), and a save that has begun goes on.
Fairness ==
    /\ WF_vars(Downloader)
    /\ \A w \in Workers : WF_vars(Worker(w))
    /\ \A s \in Savers : WF_vars(Save(s))

Spec == Init /\ [][Next]_vars /\ Fairness

(***************************************************************************)
(* Properties                                                              *)
(***************************************************************************)

\* The state of the transfer, of the control information and of the two names
\* of the control file stays in its types.
TypeOK ==
    /\ size \in -1..Total /\ data \subseteq Bytes /\ durable \subseteq data
    /\ {ctl, tmp} \subseteq {Absent, Torn} \cup {Saved(b) : b \in SUBSET Pieces}
    /\ info \in BOOLEAN /\ bits \subseteq Pieces /\ loaded \in BOOLEAN
    /\ counts \in [Pieces -> 0..PieceLength]
    /\ handle \in Nat /\ open \in BOOLEAN
    /\ state \in {"active", "waiting", "stopping", "gone"} /\ pauseReq \in BOOLEAN
    /\ shuttingDown \in BOOLEAN /\ graceful \in BOOLEAN /\ stop \in BOOLEAN
    /\ code \in {"none", "removed", "failed", "inProgress"}
    /\ completedLength \in 0..Total /\ complete \in BOOLEAN
    /\ pc \in {"off", "resolve", "init", "initSave", "run", "close", "finish",
               "finishSave", "over"}
    /\ existing \in 0..Total /\ uris \subseteq Workers
    /\ segs \in Seq([start : 0..Total, end : 0..Total, written : 0..Total,
                     done : BOOLEAN, claimed : BOOLEAN])
    /\ nextIdx \in Nat /\ failed \in BOOLEAN
    /\ wpc \in [Workers -> {"none", "idle", "request", "body", "mark", "out"}]
    /\ wseg \in [Workers -> Nat] /\ wpos \in [Workers -> 0..Total]
    /\ spc \in [Savers -> {"idle", "sync", "create", "write", "rename", "remove"}]
    /\ sbits \in [Savers -> SUBSET Pieces] /\ shandle \in [Savers -> Nat]
    /\ sfile \in [Savers -> {"none", "ctl", "tmp"}]
    /\ stops \in 0..MaxStops

\* Whatever the control file on disk vouches for is on disk: at no moment,
\* between any two steps of the workers, the ticker and the downloader, can a
\* power failure leave a bit set for a piece with a byte missing.
ControlSound ==
    ControlReadable => Claimed(Total, PieceLength, ctl.bits) \subseteq durable

\* Whoever saves at the same time as whom, and whichever of them renames, cuts
\* short or removes the temporary file of the other: once initControlInfo has
\* been through, a control file that cannot be decoded is one that a saver is
\* about to fill.
TornIsTransient ==
    info /\ ControlExists /\ ~ControlReadable =>
      \E s \in Savers : spc[s] = "write" /\ sfile[s] = "ctl"

\* While a transfer runs, every byte that is missing is ahead of a worker in the
\* segment it has claimed, or in a segment nobody has claimed: no byte is lost
\* between the segments, also after a resume from a bitfield with holes.
NothingSkipped ==
    pc = "run" /\ ~failed =>
      \A b \in Bytes \ data : \E i \in DOMAIN segs :
        /\ ~segs[i].done /\ segs[i].start <= b /\ b < segs[i].end
        /\ \A w \in uris : wseg[w] = i /\ wpc[w] \in {"body", "mark"} => wpos[w] <= b

\* A download is declared complete only when every byte is durable, and it then
\* reports its full length.
CompleteMeansAllBytes ==
    complete => durable = Bytes /\ completedLength = Total

\* The control file of a payload that is not complete is removed only when it
\* cannot be decoded, or by a halted transfer over one connection.
ControlOutlivesFailure ==
    [][ControlExists /\ ~ctl'.here
         => complete \/ ~ControlReadable \/ ~FileExists \/ (stop /\ ~MultiConnection)]_vars

\* Workers that wait for each other's segments, and siblings of a worker that
\* failed, all end: a transfer that runs is over at last, or the process is.
TransferEnds == pc = "run" ~> pc \in {"over", "off"}

\* "A `.aria2` file is saved alongside the download to track progress.  It is
\* deleted on successful completion.  Its absence prevents resume"
\* (plans/contracts/config-keys.md): finishControlFile and addStoppedLocked never
\* remove the control file of a payload that is not complete, as long as it can
\* be decoded.
ControlKept ==
    [][ControlExists /\ ~ctl'.here => complete \/ ~ControlReadable \/ ~FileExists]_vars
=============================================================================
