----------------------------- MODULE WriteBehind -----------------------------
(***************************************************************************)
(* The two write-behind layers of internal/disk: WriteCache, an LRU cache  *)
(* with one contiguous entry per file, and WriteBuffer, one buffer of      *)
(* fixed size in front of a writer.  A write to the disk may fail.         *)
(***************************************************************************)
EXTENDS Integers, Sequences, SequencesExt

CONSTANTS Files, Bytes,
          MaxSize,    \* of the cache, and of the buffer
          MaxOffset,  \* offsets and lengths that are tried
          MaxAdds

VARIABLES layer,      \* "cache" or "buffer"
          disk,       \* what is on the disk: a byte for every offset, 0 at first
          latest,     \* what the accepted writes should leave there
          entries,    \* [goff, data] of each file; no data means no entry
          totalSize, lru,
          evicting,   \* evictLocked runs, with the cache locked
          dirty,
          lost,       \* a failed flush of the buffer has dropped its data
          adds

wbVars == <<layer, disk, latest, entries, totalSize, lru, evicting, dirty,
            lost, adds>>

Over(c, data, off) ==
    [x \in DOMAIN c |-> IF x >= off /\ x < off + Len(data)
                        THEN data[x - off + 1] ELSE c[x]]

NoEntry == [goff |-> 0, data |-> <<>>]

(***************************************************************************)
(* WriteCache.                                                             *)
(***************************************************************************)
removeFromLRULocked(f) == SelectSeq(lru, LAMBDA g : g # f)
touchLRULocked(f) == Append(removeFromLRULocked(f), f)

\* flushEntryLocked that succeeds.
Flushed(f) ==
    /\ disk' = [disk EXCEPT ![f] = Over(@, entries[f].data, entries[f].goff)]
    /\ entries' = [entries EXCEPT ![f] = NoEntry]

Remember(f, data, off) ==
    /\ latest' = [latest EXCEPT ![f] = Over(@, data, off)]
    /\ lru' = touchLRULocked(f)
    /\ evicting' = TRUE /\ adds' = adds + 1

Contiguous(f, off) ==
    entries[f].data # <<>> /\ entries[f].goff + Len(entries[f].data) = off

Idle(l) == layer = l /\ ~evicting /\ adds < MaxAdds

AddContiguous(f, data, off) ==
    /\ Idle("cache") /\ Contiguous(f, off)
    /\ entries' = [entries EXCEPT ![f].data = @ \o data]
    /\ totalSize' = totalSize + Len(data)
    /\ Remember(f, data, off)
    /\ UNCHANGED <<layer, disk, dirty, lost>>

AddOverEntry(f, data, off) ==                              \* mutant
    /\ Idle("cache") /\ ~Contiguous(f, off)
    /\ entries' = [entries EXCEPT ![f] = [goff |-> off, data |-> data]]
    /\ totalSize' = totalSize - Len(entries[f].data) + Len(data)
    /\ Remember(f, data, off)
    /\ UNCHANGED <<layer, disk, dirty, lost>>

AddFresh(f, data, off) ==
    /\ Idle("cache") /\ ~Contiguous(f, off)
    /\ disk' = [disk EXCEPT ![f] = Over(@, entries[f].data, entries[f].goff)]
    /\ entries' = [entries EXCEPT ![f] = [goff |-> off, data |-> data]]
    /\ totalSize' = totalSize - Len(entries[f].data) + Len(data)
    /\ Remember(f, data, off)
    /\ UNCHANGED <<layer, dirty, lost>>

\* A failed flush, from Add, Flush or Close: some of the bytes may be on the
\* disk, the entry stays and the error is returned.
FlushFails(f) ==
    /\ Idle("cache") /\ entries[f].data # <<>>
    /\ \E n \in 0 .. (Len(entries[f].data) - 1) :
          disk' = [disk EXCEPT ![f] = Over(@, SubSeq(entries[f].data, 1, n),
                                           entries[f].goff)]
    /\ adds' = adds + 1
    /\ UNCHANGED <<layer, latest, entries, totalSize, lru, evicting, dirty,
                   lost>>

FlushFile(f) ==
    /\ layer = "cache" /\ ~evicting /\ entries[f].data # <<>>
    /\ Flushed(f)
    /\ totalSize' = totalSize - Len(entries[f].data)
    /\ lru' = removeFromLRULocked(f)
    /\ UNCHANGED <<layer, latest, evicting, dirty, lost, adds>>

\* evictLocked: a flush that fails is tried again, without end.
Evict ==
    /\ layer = "cache" /\ evicting /\ totalSize > MaxSize /\ lru # <<>>
    /\ Flushed(Head(lru))
    /\ totalSize' = totalSize - Len(entries[Head(lru)].data)
    /\ lru' = removeFromLRULocked(Head(lru))
    /\ UNCHANGED <<layer, latest, evicting, dirty, lost, adds>>

EvictFails ==
    /\ layer = "cache" /\ evicting /\ totalSize > MaxSize /\ lru # <<>>
    /\ UNCHANGED wbVars

EvictDone ==
    /\ layer = "cache" /\ evicting
    /\ totalSize <= MaxSize \/ lru = <<>>
    /\ evicting' = FALSE
    /\ UNCHANGED <<layer, disk, latest, entries, totalSize, lru, dirty, lost,
                   adds>>

(***************************************************************************)
(* WriteBuffer, in front of file B: entries[B] is its start and contents.  *)
(***************************************************************************)
B == CHOOSE f \in Files : TRUE

\* The buffer, the disk and the outcome after flush, when it succeeds.
flush(s) == [s EXCEPT !.disk = Over(@, s.buf, s.start), !.buf = <<>>,
                      !.dirty = FALSE]

\* WriteAt, every write to the disk succeeding: coalesce, flush, then write
\* through what is left if it fills the buffer, else buffer it.
Coalesced(s, data, off) ==
    IF off = s.start + Len(s.buf) /\ Len(s.buf) < MaxSize
    THEN LET n == IF MaxSize - Len(s.buf) > Len(data) THEN Len(data)
                  ELSE MaxSize - Len(s.buf)
             t == [s EXCEPT !.dirty = TRUE, !.buf = @ \o SubSeq(data, 1, n)]
         IN  [s |-> IF Len(t.buf) = MaxSize THEN flush(t) ELSE t, n |-> n]
    ELSE [s |-> s, n |-> 0]

Buffered(s, data, off) ==
    LET c == Coalesced(s, data, off)
        rest == SubSeq(data, c.n + 1, Len(data))
        t == IF c.s.dirty THEN flush(c.s) ELSE c.s
    IN  IF rest = <<>> THEN c.s
        ELSE IF Len(rest) >= MaxSize
        THEN [t EXCEPT !.disk = Over(@, rest, off + c.n)]
        ELSE [t EXCEPT !.start = off + c.n, !.buf = rest, !.dirty = TRUE]

Buffer == [disk |-> disk[B], start |-> entries[B].goff,
           buf |-> entries[B].data, dirty |-> dirty]

Take(s) ==
    /\ disk' = [disk EXCEPT ![B] = s.disk]
    /\ entries' = [entries EXCEPT ![B] = [goff |-> s.start, data |-> s.buf]]
    /\ dirty' = s.dirty

WriteAt(data, off) ==
    /\ Idle("buffer")
    /\ Take(Buffered(Buffer, data, off))
    /\ latest' = [latest EXCEPT ![B] = Over(@, data, off)]
    /\ adds' = adds + 1
    /\ UNCHANGED <<layer, totalSize, lru, evicting, lost>>

\* A write to the disk fails: what was buffered is gone, and so may be data
\* of earlier, accepted writes.
WriteAtFails ==
    /\ Idle("buffer")
    /\ Take([Buffer EXCEPT !.buf = <<>>, !.dirty = FALSE])
    /\ lost' = TRUE /\ adds' = adds + 1
    /\ UNCHANGED <<layer, latest, totalSize, lru, evicting>>

Flush ==
    /\ layer = "buffer" /\ dirty
    /\ Take(flush(Buffer))
    /\ UNCHANGED <<layer, latest, totalSize, lru, evicting, lost, adds>>

Discard ==
    /\ layer = "buffer" /\ dirty
    /\ Take([Buffer EXCEPT !.buf = <<>>, !.dirty = FALSE])
    /\ latest' = [latest EXCEPT ![B] = disk[B]]
    /\ UNCHANGED <<layer, totalSize, lru, evicting, lost, adds>>

WbInit ==
    /\ layer \in {"cache", "buffer"}
    /\ disk = [f \in Files |-> [x \in 0 .. 2 * MaxOffset |-> 0]]
    /\ latest = disk
    /\ entries = [f \in Files |-> NoEntry]
    /\ totalSize = 0 /\ lru = <<>> /\ evicting = FALSE /\ dirty = FALSE
    /\ lost = FALSE /\ adds = 0

Data == UNION {[1 .. n -> Bytes] : n \in 1 .. MaxOffset}

WbNext ==
    \/ \E f \in Files, off \in 0 .. MaxOffset, data \in Data :
          AddContiguous(f, data, off) \/ AddFresh(f, data, off)
    \/ \E f \in Files : FlushFails(f) \/ FlushFile(f)
    \/ Evict \/ EvictFails \/ EvictDone
    \/ \E off \in 0 .. MaxOffset, data \in Data : WriteAt(data, off)
    \/ WriteAtFails \/ Flush \/ Discard

WbSpec == WbInit /\ [][WbNext]_wbVars

(***************************************************************************)
(* Properties.                                                             *)
(***************************************************************************)
(***************************************************************************)
(* No write is lost or overtaken by an older one: for every file the disk  *)
(* with the cached entry or the buffer over it is what the accepted writes *)
(* left, whatever was flushed, evicted, written through or failed on the   *)
(* way - for WriteBuffer as long as no flush failed, which drops its data. *)
(* The cache accounts for exactly its entries and is within its size       *)
(* whenever a caller can see it (WriteCache.Add, evictLocked); the buffer  *)
(* is never full between calls (WriteBuffer.WriteAt).                      *)
(***************************************************************************)
WriteBehindSound ==
    /\ ~lost => \A f \in Files :
                   Over(disk[f], entries[f].data, entries[f].goff) = latest[f]
    /\ layer = "cache" =>
         /\ totalSize = FoldLeft(LAMBDA n, f : n + Len(entries[f].data), 0, lru)
         /\ ToSet(lru) = {f \in Files : entries[f].data # <<>>}
         /\ IsInjective(lru)
         /\ ~evicting => totalSize <= MaxSize
    /\ layer = "buffer" => /\ Len(entries[B].data) < MaxSize
                           /\ dirty <=> entries[B].data # <<>>
=============================================================================
