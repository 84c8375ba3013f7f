---------------------------- MODULE SessionFile ----------------------------
(***************************************************************************)
(* The session file: SaveSession and LoadSession of the engine, and        *)
(* internal/sessionfile, which writes the downloads that are not over as   *)
(* lines of text to a temporary file and renames it.  The saves of the RPC *)
(* method, of the timer and of the end of the run share one temporary name *)
(* and the hash of what was saved last.                                    *)
(*                                                                         *)
(* A file is an inode; a line has a key ("" for the line of URIs) and      *)
(* values.  A power failure may lose what was not synced, and the rename.  *)
(***************************************************************************)
EXTENDS Integers, Sequences, FiniteSets, SequencesExt

CONSTANTS Savers,      \* goroutines that call SaveSession
          Downloads,   \* Downloads[i]: what the engine has after i changes
          MaxSaves,    \* calls of SaveSession
          MaxFaults    \* steps of a save that fail

VARIABLES live,        \* the downloads in the queues, in the order they are saved
          phase,       \* "run", "draining" (onEndOfRun), "drained" or "off"
          kept,        \* e.shutdownSession
          hash,        \* [has, of]: e.hasSessionHash, e.lastSessionHash
          disk,        \* [tmp, path, old, ino]: names and inodes, 0 for none
          sv,          \* the saves, see NoSave
          count,       \* [version, saves, faults]
          tried,       \* the entries that a save has begun to write
          upset        \* what lets a file differ from the last save

sessVars == <<live, phase, kept, hash, disk, sv, count, tried, upset>>

NoSave == [pc |-> "idle", gids |-> <<>>, entries |-> <<>>, f |-> 0, n |-> 0,
           late |-> FALSE]

Empty == [lines |-> <<>>, synced |-> FALSE]

(* What is left of a file that two saves write at once.                    *)
Mixed == [lines |-> <<[key |-> "mixed", vals |-> <<>>]>>, synced |-> FALSE]

SessionInit ==
  /\ live = Downloads[1] /\ phase = "run" /\ kept = <<>>
  /\ hash = [has |-> FALSE, of |-> <<>>]
  /\ disk = [tmp |-> 0, path |-> 0, old |-> 0, ino |-> <<>>]
  /\ sv = [s \in Savers |-> NoSave]
  /\ count = [version |-> 1, saves |-> 0, faults |-> 0]
  /\ tried = {} /\ upset = {}

(***************************************************************************)
(* The format.                                                             *)
(***************************************************************************)
Line(key, vals) == [key |-> key, vals |-> vals]

(* writeOptionLine of a cumulative key, one line for each value.           *)
Cumulative(key, vals) ==
  [i \in DOMAIN SelectSeq(vals, LAMBDA v : v # "") |->
     Line(key, <<SelectSeq(vals, LAMBDA v : v # "")[i]>>)]

writeEntry(e) ==
  IF e.uris = <<>> THEN <<>>
  ELSE <<Line("", e.uris), Line("gid", <<e.gid>>)>>
       \o (IF e.paused THEN <<Line("pause", <<"true">>)>> ELSE <<>>)
       \o (IF e.dir = "" THEN <<>> ELSE <<Line("dir", <<e.dir>>)>>)
       \o Cumulative("header", e.header)

writeEntries(es) == FlattenSeq([i \in DOMAIN es |-> writeEntry(es[i])])

(* Parser.Next: an option line belongs to the URIs before it, and one that *)
(* comes before any is skipped.                                            *)
\* mutant of ParseOption: the last value of a cumulative option wins
LastHeader(e, l) ==
  CASE l.key = "gid" -> [e EXCEPT !.gid = l.vals[1]]
    [] l.key = "pause" -> [e EXCEPT !.paused = l.vals[1] = "true"]
    [] l.key = "dir" -> [e EXCEPT !.dir = l.vals[1]]
    [] l.key = "header" -> [e EXCEPT !.header = l.vals]
    [] OTHER -> e

ParseOption(e, l) ==
  CASE l.key = "gid" -> [e EXCEPT !.gid = l.vals[1]]
    [] l.key = "pause" -> [e EXCEPT !.paused = l.vals[1] = "true"]
    [] l.key = "dir" -> [e EXCEPT !.dir = l.vals[1]]
    [] l.key = "header" -> [e EXCEPT !.header = @ \o l.vals]
    [] OTHER -> e

Parse(lines) ==
  FoldLeft(LAMBDA es, l :
             IF l.key = ""
             THEN Append(es, [gid |-> "new", uris |-> l.vals, paused |-> FALSE,
                              dir |-> "", header |-> <<>>])
             ELSE IF es = <<>> THEN es
             ELSE Append(Front(es), ParseOption(Last(es), l)),
           <<>>, lines)

(***************************************************************************)
(* The engine.                                                             *)
(***************************************************************************)
(* Downloads are added, paused, changed or end.                            *)
Change ==
  /\ phase = "run" /\ count.version < Len(Downloads)
  /\ count' = [count EXCEPT !.version = @ + 1]
  /\ live' = Downloads[count.version + 1]
  /\ UNCHANGED <<phase, kept, hash, disk, sv, tried, upset>>

(* onEndOfRun keeps the entries, and then empties the queues.              *)
onEndOfRun ==
  /\ phase = "run"
  /\ phase' = "draining"
  /\ kept' = live
  /\ UNCHANGED <<live, hash, disk, sv, count, tried, upset>>

DrainOne ==
  /\ phase = "draining" /\ live # <<>>
  /\ live' = Tail(live)
  /\ UNCHANGED <<phase, kept, hash, disk, sv, count, tried, upset>>

Drained ==
  /\ phase = "draining" /\ live = <<>>
  /\ phase' = "drained"
  /\ UNCHANGED <<live, kept, hash, disk, sv, count, tried, upset>>

(***************************************************************************)
(* SaveSession.                                                            *)
(***************************************************************************)
At(s, pc) == phase # "off" /\ sv[s].pc = pc

Save(s, r) == sv' = [sv EXCEPT ![s] = r]

Busy == {s \in Savers : sv[s].pc \notin {"idle", "ok", "skipped", "error"}}

Overlap == IF Busy = {} THEN {} ELSE {"overlap"}

(* The queues are copied, or the entries that onEndOfRun kept are taken.   *)
sessionEntriesForSave(s) ==
  /\ phase # "off" /\ sv[s].pc \in {"idle", "ok", "skipped", "error"}
  /\ count.saves < MaxSaves
  /\ count' = [count EXCEPT !.saves = @ + 1]
  /\ upset' = upset \cup Overlap
  /\ Save(s, IF phase # "run" /\ live = <<>> /\ kept # <<>>
             THEN [NoSave EXCEPT !.pc = "hash", !.entries = kept, !.late = TRUE]
             ELSE [NoSave EXCEPT !.pc = "read", !.late = phase = "drained",
                                 !.gids = [i \in DOMAIN live |-> live[i].gid]])
  /\ UNCHANGED <<live, phase, kept, hash, disk, tried>>

(* The groups that are still there, as they are now.                       *)
sessionEntriesFromQueues(s) ==
  /\ At(s, "read")
  /\ LET there == SelectSeq(sv[s].gids, LAMBDA g : \E i \in DOMAIN live : live[i].gid = g)
     IN  Save(s, [sv[s] EXCEPT !.pc = "hash",
                    !.entries = [i \in DOMAIN there |->
                                   live[CHOOSE j \in DOMAIN live : live[j].gid = there[i]]]])
  /\ UNCHANGED <<live, phase, kept, hash, disk, count, tried, upset>>

\* mutant of CompareHash: the file is not looked for
SkipWithoutFile(s) ==
  /\ At(s, "hash")
  /\ IF hash.has /\ hash.of = writeEntries(sv[s].entries)
     THEN Save(s, [sv[s] EXCEPT !.pc = "skipped"]) /\ UNCHANGED hash
     ELSE /\ hash' = [has |-> TRUE, of |-> writeEntries(sv[s].entries)]
          /\ Save(s, [sv[s] EXCEPT !.pc = "create"])
  /\ UNCHANGED <<live, phase, kept, disk, count, tried, upset>>

CompareHash(s) ==
  /\ At(s, "hash")
  /\ IF hash.has /\ hash.of = writeEntries(sv[s].entries) /\ disk.path # 0
     THEN Save(s, [sv[s] EXCEPT !.pc = "skipped"]) /\ UNCHANGED hash
     ELSE /\ hash' = [has |-> TRUE, of |-> writeEntries(sv[s].entries)]
          /\ Save(s, [sv[s] EXCEPT !.pc = "create"])
  /\ UNCHANGED <<live, phase, kept, disk, count, tried, upset>>

(***************************************************************************)
(* AtomicSave.                                                             *)
(***************************************************************************)
Shared(s, f) == \E t \in Busy \ {s} : sv[t].f = f

(* os.Create empties a temporary file that another save has left or is     *)
(* writing.                                                                *)
Create(s) ==
  LET fresh == Len(disk.ino) + 1
      f == IF disk.tmp = 0 THEN fresh ELSE disk.tmp
  IN  /\ At(s, "create")
      /\ disk' = [disk EXCEPT !.tmp = f,
                    !.ino = IF f = fresh THEN Append(@, Empty)
                            ELSE [@ EXCEPT ![f] = IF Shared(s, f) THEN Mixed ELSE Empty]]
      /\ tried' = tried \cup {sv[s].entries}
      /\ Save(s, [sv[s] EXCEPT !.pc = "write", !.f = f])
      /\ UNCHANGED <<live, phase, kept, hash, count, upset>>

WriteNext(s) ==
  LET r == sv[s]
  IN  /\ At(s, "write") /\ r.n < Len(r.entries)
      /\ disk' = [disk EXCEPT !.ino[r.f] =
                    IF Shared(s, r.f) THEN Mixed
                    ELSE [lines |-> @.lines \o writeEntry(r.entries[r.n + 1]),
                          synced |-> FALSE]]
      /\ Save(s, [r EXCEPT !.n = @ + 1])
      /\ UNCHANGED <<live, phase, kept, hash, count, tried, upset>>

\* mutant of Sync: the file is renamed without it
SkipSync(s) ==
  /\ At(s, "write") /\ sv[s].n = Len(sv[s].entries)
  /\ Save(s, [sv[s] EXCEPT !.pc = "rename"])
  /\ UNCHANGED <<live, phase, kept, hash, disk, count, tried, upset>>

Sync(s) ==
  /\ At(s, "write") /\ sv[s].n = Len(sv[s].entries)
  /\ disk' = [disk EXCEPT !.ino[sv[s].f].synced = TRUE]
  /\ Save(s, [sv[s] EXCEPT !.pc = "rename"])
  /\ UNCHANGED <<live, phase, kept, hash, count, tried, upset>>

(* The name is renamed, whatever file it has now; it is gone when another  *)
(* save has renamed or removed it.                                         *)
Rename(s) ==
  /\ At(s, "rename")
  /\ disk' = IF disk.tmp = 0 THEN disk
             ELSE [disk EXCEPT !.path = disk.tmp, !.old = disk.path, !.tmp = 0]
  /\ Save(s, [sv[s] EXCEPT !.pc = IF disk.tmp = 0 THEN "fail" ELSE "remove"])
  /\ UNCHANGED <<live, phase, kept, hash, count, tried, upset>>

(* Any step fails; SaveSession returns the error and the hash stays.       *)
Fails(s) ==
  /\ phase # "off" /\ sv[s].pc \in {"create", "write", "rename"}
  /\ count.faults < MaxFaults
  /\ count' = [count EXCEPT !.faults = @ + 1]
  /\ Save(s, [sv[s] EXCEPT !.pc = IF @ = "create" THEN "error" ELSE "fail"])
  /\ upset' = upset \cup {"failed"}
  /\ UNCHANGED <<live, phase, kept, hash, disk, tried>>

(* defer os.Remove(tmpPath)                                                *)
RemoveTemp(s) ==
  /\ phase # "off" /\ sv[s].pc \in {"remove", "fail"}
  /\ disk' = [disk EXCEPT !.tmp = 0]
  /\ Save(s, [sv[s] EXCEPT !.pc = IF @ = "remove" THEN "ok" ELSE "error"])
  /\ UNCHANGED <<live, phase, kept, hash, count, tried, upset>>

(* Somebody removes the session file between two saves.                    *)
Deleted ==
  /\ phase # "off" /\ Busy = {} /\ disk.path # 0 /\ count.faults < MaxFaults
  /\ count' = [count EXCEPT !.faults = @ + 1]
  /\ disk' = [disk EXCEPT !.path = 0, !.old = 0]
  /\ sv' = [s \in Savers |-> NoSave]
  /\ UNCHANGED <<live, phase, kept, hash, tried, upset>>

(* A power failure, or the end of the program; a file that was not synced  *)
(* keeps some of its lines, and the last rename may be lost.  LoadSession  *)
(* then reads the file.                                                    *)
PowerFails ==
  /\ phase # "off"
  /\ phase' = "off"
  /\ \E f \in {disk.path, disk.old} :
       IF f = 0 THEN live' = <<>>
       ELSE \E n \in 0..Len(disk.ino[f].lines) :
              /\ disk.ino[f].synced => n = Len(disk.ino[f].lines)
              /\ live' = Parse(SubSeq(disk.ino[f].lines, 1, n))
  /\ kept' = <<>> /\ hash' = [has |-> FALSE, of |-> <<>>]
  /\ sv' = [s \in Savers |-> NoSave]
  /\ UNCHANGED <<disk, count, tried, upset>>

SessionNext ==
  \/ Change \/ onEndOfRun \/ DrainOne \/ Drained \/ Deleted \/ PowerFails
  \/ \E s \in Savers :
       \/ sessionEntriesForSave(s) \/ sessionEntriesFromQueues(s) \/ CompareHash(s)
       \/ Create(s) \/ WriteNext(s) \/ Sync(s) \/ Rename(s) \/ Fails(s) \/ RemoveTemp(s)

SessionSpec == SessionInit /\ [][SessionNext]_sessVars

-----------------------------------------------------------------------------
(* What can be saved of a list of downloads.                               *)
Savable(es) == SelectSeq(es, LAMBDA e : e.uris # <<>>)

(* As long as no two saves overlap: after a power failure the downloads    *)
(* that are loaded are all those of one save, as it had them, or none; a   *)
(* save that says it is done, or that there was nothing to do, has left    *)
(* its entries in the file, unless an earlier save failed; and once the    *)
(* queues are empty a save has the downloads of the end of the run         *)
(* (SaveSession, AtomicSave, LoadSession, onEndOfRun).                     *)
SessionSound ==
  "overlap" \notin upset =>
    /\ phase = "off" => live \in {Savable(es) : es \in tried} \cup {<<>>}
    /\ \A s \in Savers :
         LET r == sv[s]
         IN  /\ (r.pc \in {"ok", "skipped"} /\ phase # "off"
                   /\ \A t \in Savers \ {s} : sv[t].pc = "idle") =>
                  \/ "failed" \in upset
                  \/ disk.path # 0 /\ disk.ino[disk.path].lines = writeEntries(r.entries)
             /\ (r.late /\ r.pc \in {"ok", "skipped"}) => Savable(r.entries) = Savable(kept)
=============================================================================
