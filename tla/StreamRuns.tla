----------------------------- MODULE StreamRuns -----------------------------
(***************************************************************************)
(* A download over one FTP or SFTP stream (runFTPDownload, runSFTPDownload *)
(* of internal/engine/engine.go: the same run over two kinds of            *)
(* connection), and the metalink run that tries one mirror after the other *)
(* (runMetalinkDownload): where to resume, what to do with a file that     *)
(* looks complete, the transfer, the integrity check, and the runs that    *)
(* start over after a failed check.                                        *)
(*                                                                         *)
(* The remote file is Size bytes, each right ("r") when it is as the       *)
(* digests say; a mirror may serve wrong ones ("w").  Every byte is a      *)
(* piece, so the control information is a set of positions.                *)
(***************************************************************************)
EXTENDS Naturals, Sequences, FiniteSets

CONSTANTS Size,        \* length of the remote file
          Mirrors,     \* sequences of protocols: "ftp" | "sftp" | "other"
          Checks,      \* digests known: "none" | "whole" | "piece"
          Options,     \* [continue, hashOnly, realtime, metalink]
          Disks,       \* files found on disk: sequences of "r" and "w"
          Saved,       \* control files found: sets of positions, or {0} for none
          MaxTries     \* the max-tries option

VARIABLES cfg,      \* [mirrors, check, opts]
          at,       \* the next step of the run
          mirror,   \* index of the mirror in use
          disk,     \* the file, <<>> when absent or empty
          done,     \* positions the control information holds
          saved,    \* the control file, {0} when there is none
          length,   \* the length the server told, 0 when it did not
          offset,   \* where the stream starts
          written,  \* bytes written from there
          retry,    \* integrityRetry
          code,     \* rg.errCode
          canceled  \* ctx.Done

srVars == <<cfg, at, mirror, disk, done, saved, length, offset, written, retry,
            code, canceled>>

NoFile == {0}

SrInit ==
  /\ cfg \in [mirrors : Mirrors, check : Checks, opts : Options]
  /\ cfg.opts.metalink \/ Len(cfg.mirrors) = 1
  /\ disk \in Disks /\ saved \in Saved
  /\ saved # NoFile => \A i \in saved : i <= Len(disk)
  /\ at = "dial" /\ mirror = 1 /\ done = {} /\ length = 0
  /\ offset = 0 /\ written = 0 /\ retry = 0 /\ code = "none" /\ canceled = FALSE

Proto == cfg.mirrors[mirror]

(* The end of one run before the stream is opened.                         *)
End(c) ==
  /\ at' = "ended" /\ code' = c
  /\ UNCHANGED <<cfg, mirror, disk, done, saved, length, offset, written,
                 retry, canceled>>

(* The end of one run after it: the deferred syncControlAdaptor saves what *)
(* the control information holds, when there still is any.                 *)
Save(d) == saved' = IF saved = NoFile THEN NoFile ELSE d

EndBody(c, d) ==
  /\ at' = "ended" /\ code' = c /\ done' = d /\ Save(d)
  /\ UNCHANGED <<cfg, mirror, disk, length, offset, written, retry, canceled>>

Goto(step) ==
  /\ at' = step
  /\ UNCHANGED <<cfg, mirror, disk, done, saved, length, offset, written,
                 retry, code, canceled>>

-----------------------------------------------------------------------------
Cancel ==
  /\ at \notin {"ended", "stop"} /\ ~canceled
  /\ canceled' = TRUE
  /\ UNCHANGED <<cfg, at, mirror, disk, done, saved, length, offset, written,
                 retry, code>>

Dial ==
  /\ at = "dial"
  /\ \/ Proto # "other" /\ Goto("size")
     \/ End(IF Proto = "other" THEN "notfound" ELSE "protocol")

(***************************************************************************)
(* Size, or Stat: an FTP server may not tell.  Then initControlInfo, which *)
(* keeps a control file that fits the length and removes any other, and    *)
(* controlResumeOffset.                                                    *)
(***************************************************************************)
Contiguous(s) ==
  CHOOSE n \in 0..Size :
    /\ \A i \in 1..n : i \in s
    /\ n = Size \/ (n + 1) \notin s

controlResumeOffset(s) ==
  LET n == Contiguous(s) IN IF Len(disk) < n THEN Len(disk) ELSE n

initControlInfo(total) ==
  LET loaded == saved # NoFile /\ total = Size
  IN  /\ done' = IF loaded THEN saved ELSE {}
      /\ saved' = IF loaded THEN saved ELSE {}
      /\ offset' = IF loaded THEN controlResumeOffset(saved) ELSE 0

LearnSize ==
  /\ at = "size"
  /\ \/ /\ \E total \in {0, Size} :
             /\ total = 0 => Proto = "ftp"
             /\ length' = total
             /\ initControlInfo(total)
        /\ at' = "resume"
        /\ UNCHANGED <<cfg, mirror, disk, written, retry, code, canceled>>
     \/ End("protocol")

(***************************************************************************)
(* With --continue and no progress on record the file's own length is the  *)
(* place to resume at; a file that is long enough is checked, and is a     *)
(* finished download when the check does not object.                       *)
(***************************************************************************)
Prefix(n) == \A i \in 1..n : i <= Len(disk) /\ disk[i] = "r"

(* verifyIntegrity: every piece, or the digest of the whole file.          *)
verifyIntegrity ==
  CASE cfg.check = "piece" -> Prefix(Size)
    [] cfg.check = "whole" -> Prefix(Size) /\ Len(disk) = Size
    [] OTHER -> TRUE

allowIntegrityRetry == retry < (IF MaxTries <= 0 THEN 1 ELSE MaxTries)

(* resetControlState and the truncation before the next attempt.           *)
StartOver(step) ==
  /\ saved' = NoFile /\ done' = {} /\ disk' = <<>>
  /\ retry' = retry + 1 /\ offset' = 0 /\ written' = 0
  /\ at' = step
  /\ UNCHANGED <<cfg, mirror, length, code, canceled>>

\* mutant of LooksComplete: a long enough file needs no check
TrustsLength(n) ==
  IF length > 0 /\ n >= length
  THEN End("success")
  ELSE /\ offset' = n /\ at' = "open"
       /\ UNCHANGED <<cfg, mirror, disk, done, saved, length, written, retry,
                      code, canceled>>

LooksComplete(n) ==
  IF length > 0 /\ n >= length
  THEN IF verifyIntegrity THEN End("success")
       ELSE IF allowIntegrityRetry THEN StartOver("open")
       ELSE End("checksum")
  ELSE /\ offset' = n /\ at' = "open"
       /\ UNCHANGED <<cfg, mirror, disk, done, saved, length, written, retry,
                      code, canceled>>

Resume ==
  /\ at = "resume"
  /\ IF offset = 0 /\ cfg.opts.continue /\ disk # <<>>
     THEN LooksComplete(Len(disk)) \/ End("io")
     ELSE Goto("open")

(* --hash-check-only stops here; then the output file and the stream.      *)
Open ==
  /\ at = "open"
  /\ IF cfg.opts.hashOnly
     THEN End("unknown")
     ELSE \/ End("create")
          \/ End("protocol")
          \/ /\ written' = 0 /\ at' = "body"
             /\ UNCHANGED <<cfg, mirror, disk, done, saved, length, offset,
                            retry, code, canceled>>

-----------------------------------------------------------------------------
(***************************************************************************)
(* downloadToAdaptor.  With the realtime check a wrong piece stops the     *)
(* stream; the run starts over where the good pieces end.                  *)
(***************************************************************************)
Put(i, b) ==
  IF i <= Len(disk) THEN [disk EXCEPT ![i] = b] ELSE Append(disk, b)

\* mutant of Keeps: a piece found wrong stays in the control information
KeepsWrong(b) == TRUE

Keeps(b) == ~(cfg.opts.realtime /\ cfg.check = "piece" /\ b = "w")

Receive ==
  /\ at = "body" /\ ~canceled /\ offset + written < Size
  /\ \E b \in {"r", "w"} :
       LET i == offset + written + 1
       IN  /\ disk' = Put(i, b)
           /\ written' = written + 1
           /\ done' = IF length = 0 \/ saved = NoFile THEN done
                      ELSE IF Keeps(b) THEN done \cup {i} ELSE done \ {i}
           /\ IF cfg.opts.realtime /\ cfg.check = "piece" /\ b = "w"
              THEN at' = "again" /\ code' = "checksum"
              ELSE UNCHANGED <<at, code>>
  /\ UNCHANGED <<cfg, mirror, saved, length, offset, retry, canceled>>

(* Every way the stream stops short: a read or a write error, a download   *)
(* too slow for the limit, a cancelled context.                            *)
BodyFails ==
  /\ at = "body"
  /\ \E c \in IF canceled THEN {"removed"} ELSE {"network", "io", "slow"} : EndBody(c, done)

(* shouldRetryRealtimePieceCheck, the save of the control file, and the    *)
(* run that starts over.                                                   *)
Again ==
  /\ at = "again"
  /\ Save(done)
  /\ IF allowIntegrityRetry
     THEN /\ retry' = retry + 1 /\ at' = "dial"
          /\ UNCHANGED code
     ELSE /\ at' = "ended"
          /\ UNCHANGED <<retry, code>>
  /\ UNCHANGED <<cfg, mirror, disk, done, length, offset, written, canceled>>

(* End of file, wherever the server puts it: close of the stream, sync,    *)
(* and the check of the result, which takes wrong pieces off the record.   *)
BodyEnds ==
  /\ at = "body"
  /\ \/ EndBody("protocol", done)
     \/ EndBody("io", done)
     \/ IF verifyIntegrity THEN EndBody("success", done)
        ELSE IF cfg.check = "whole" /\ allowIntegrityRetry THEN StartOver("dial")
        ELSE EndBody("checksum", IF cfg.check = "piece" THEN {i \in done : disk[i] = "r"} ELSE done)

-----------------------------------------------------------------------------
(***************************************************************************)
(* After a run: a metalink run checks its result once more, and goes to    *)
(* the next mirror when the run failed and was not removed.                *)
(***************************************************************************)
verifyMetalinkDownload == verifyIntegrity

NextMirror ==
  /\ at = "ended"
  /\ IF code = "success"
     THEN /\ at' = "stop"
          /\ code' = IF cfg.opts.metalink /\ ~verifyMetalinkDownload THEN "checksum" ELSE code
          /\ UNCHANGED mirror
     ELSE IF code = "removed" \/ canceled \/ mirror = Len(cfg.mirrors)
     THEN at' = "stop" /\ UNCHANGED <<code, mirror>>
     ELSE at' = "dial" /\ mirror' = mirror + 1 /\ code' = "none"
  /\ UNCHANGED <<cfg, disk, done, saved, length, offset, written, retry,
                 canceled>>

Stop == at = "stop" /\ UNCHANGED srVars

SrNext ==
  \/ Cancel \/ Dial \/ LearnSize \/ Resume \/ Open
  \/ Receive \/ BodyFails \/ Again \/ BodyEnds \/ NextMirror \/ Stop

SrSpec == SrInit /\ [][SrNext]_srVars

-----------------------------------------------------------------------------
(* Whatever was on disk, however often a check sent the run back to the    *)
(* start and whichever mirrors served wrong bytes: a download that reports *)
(* success has, under its digests, every byte right on disk; a piece the   *)
(* realtime check saw is in the control information only when it is right, *)
(* so the run that starts over does not skip a wrong one; and the runs     *)
(* that start over are bounded by max-tries (runFTPDownload,               *)
(* runSFTPDownload, runMetalinkDownload, verifyIntegrity,                  *)
(* allowIntegrityRetry, markControlPiece).                                 *)
StreamRunSound ==
  /\ (at = "stop" /\ code = "success" /\ cfg.check # "none") => Prefix(Size)
  /\ (at \in {"body", "again"} /\ cfg.opts.realtime /\ cfg.check = "piece" /\ length > 0) =>
       \A i \in done : offset < i /\ i <= offset + written => disk[i] = "r"
  /\ retry <= (IF MaxTries <= 0 THEN 1 ELSE MaxTries)
=============================================================================
