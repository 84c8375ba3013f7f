------------------------------ MODULE DiskFiles ------------------------------
(***************************************************************************)
(* The disk adaptors (internal/disk): SingleFile, MultiFile, which maps a  *)
(* flat range of bytes to the files of a torrent, the allocators they open *)
(* files with, and the piece check over a SingleFile (Verifier, called by  *)
(* verifyIntegrity).  A byte is 0 (never written), 1 (what the download    *)
(* should have there) or 2 (anything else).                                *)
(***************************************************************************)
EXTENDS Integers, Sequences, FiniteSetsExt

CONSTANTS Layouts,    \* sequences of [offset, length], as NewMultiFile takes them
          Allocators, \* "none" leaves the file alone, "full" sizes it
          OldSizes,   \* sizes a file left by an earlier download may have
          PieceLen, MaxWrites

VARIABLES kind,       \* "single" or "multi"
          files, alloc,
          state,      \* "new", "open", "closed"
          disk,       \* the contents of each file
          pieces,     \* the pieces marked complete
          verified,   \* verifyIntegrity's verdict still stands
          flat,       \* what a read should give: the bytes of the whole range
          writes

diskVars == <<kind, files, alloc, state, disk, pieces, verified, flat, writes>>

Total == files[Len(files)].offset + files[Len(files)].length
Range0 == 0 .. (Total - 1)
Lowest(a, b) == IF a < b THEN a ELSE b

\* NewMultiFile rejects files that are not in order or overlap.
Accepted(fs) ==
    /\ fs # <<>>
    /\ \A i \in 2 .. Len(fs) :
          fs[i].offset >= fs[i - 1].offset + fs[i - 1].length

(***************************************************************************)
(* Which file holds a byte.  0 stands for "none".                          *)
(***************************************************************************)
fileAtOffset(off) ==
    LET search[lo \in 1 .. Len(files) + 1, hi \in 1 .. Len(files) + 1] ==
            IF lo >= hi THEN lo
            ELSE LET mid == lo + (hi - lo) \div 2
                 IN  IF files[mid].offset + files[mid].length <= off
                     THEN search[mid + 1, hi] ELSE search[lo, mid]
        i == search[1, Len(files) + 1]
    IN  IF i > Len(files) \/ off < files[i].offset THEN <<0, 0>>
        ELSE <<i, off - files[i].offset>>

nextFileOffset(off) ==
    LET later == {files[i].offset : i \in {j \in DOMAIN files :
                                              files[j].offset > off}}
    IN  IF later = {} THEN Total ELSE Min(later)

(***************************************************************************)
(* Files as the operating system keeps them.                               *)
(***************************************************************************)
Resized(c, n) == [i \in 1 .. n |-> IF i <= Len(c) THEN c[i] ELSE 0]

Pwrite(c, v, n, off) ==
    LET grown == IF Len(c) < off + n THEN Resized(c, off + n) ELSE c
    IN  [i \in DOMAIN grown |-> IF i > off /\ i <= off + n THEN v ELSE grown[i]]

\* AllocatorTrunc, AllocatorPrealloc and AllocatorFalloc end at the same size.
Allocate(c, n) == IF alloc = "none" THEN c ELSE Resized(c, n)

Prepared(i) ==
    LET n == files[i].length
        cut == IF Len(disk[i]) > n THEN Resized(disk[i], n) ELSE disk[i]
    IN  IF n = 0 THEN disk[i] ELSE Allocate(cut, n)

(***************************************************************************)
(* Opening.  A step may fail at file k: the files before it are done, file *)
(* k is cut or partly allocated, and every handle is closed again.         *)
(***************************************************************************)
MultiOpen ==
    /\ kind = "multi" /\ state = "new"
    /\ state' = "open"
    /\ disk' = [i \in DOMAIN files |-> Prepared(i)]
    /\ UNCHANGED <<kind, files, alloc, pieces, verified, flat, writes>>

MultiOpenFails ==
    /\ kind = "multi" /\ state = "new"
    /\ \E k \in DOMAIN files, done \in BOOLEAN :
          disk' = [i \in DOMAIN files |->
                     IF i < k \/ (i = k /\ done) THEN Prepared(i) ELSE disk[i]]
    /\ UNCHANGED <<kind, files, alloc, state, pieces, verified, flat, writes>>

\* NewSingleFile; the size is not cut here unless the allocator does.
NewSingleFile ==
    /\ kind = "single" /\ state = "new"
    /\ state' = "open"
    /\ disk' = [disk EXCEPT ![1] = Allocate(@, Total)]
    /\ UNCHANGED <<kind, files, alloc, pieces, verified, flat, writes>>

NewSingleFileFails ==
    /\ kind = "single" /\ state = "new"
    /\ state' = "closed"
    /\ \E n \in Len(disk[1]) .. Total :
          disk' = [disk EXCEPT ![1] = IF alloc = "none" THEN @
                                      ELSE Resized(@, n)]
    /\ UNCHANGED <<kind, files, alloc, pieces, verified, flat, writes>>

(***************************************************************************)
(* WriteAt: the pieces of the range, file by file, up to a gap.            *)
(***************************************************************************)
MultiChunksAtFirst(offset, n) ==                            \* mutant
    LET at == fileAtOffset(offset)
        chunk[k \in 0 .. n] ==
            IF k = 0 \/ at[1] = 0 THEN <<>>
            ELSE LET len == Lowest(k, files[at[1]].length - at[2])
                 IN  <<[file |-> at[1], at |-> at[2], len |-> len]>>
                     \o chunk[k - len]
    IN  chunk[n]

MultiChunks(offset, n) ==
    LET chunk[k \in 0 .. n] ==        \* k bytes remain
            LET off == offset + n - k
                at == fileAtOffset(off)
            IN  IF k = 0 \/ at[1] = 0 THEN <<>>
                ELSE LET len == Lowest(k, files[at[1]].length - at[2])
                     IN  <<[file |-> at[1], at |-> at[2], len |-> len]>>
                         \o chunk[k - len]
    IN  chunk[n]

Chunks(offset, n) ==
    IF kind = "multi" THEN MultiChunks(offset, n)
    ELSE IF n > Total - offset THEN <<>>
    ELSE <<[file |-> 1, at |-> offset, len |-> n]>>

\* The contents after the first m chunks and `short` bytes of the next.
Written(cs, v, m, short) ==
    [i \in DOMAIN files |->
        LET mine(j) == cs[j].file = i /\ (j <= m \/ (j = m + 1 /\ short > 0))
            Apply[j \in 0 .. Len(cs)] ==
                IF j = 0 THEN disk[i]
                ELSE IF ~mine(j) THEN Apply[j - 1]
                ELSE Pwrite(Apply[j - 1], v, IF j <= m THEN cs[j].len ELSE short,
                            cs[j].at)
        IN  Apply[Len(cs)]]

LenOf(cs, m) == LET sum[j \in 0 .. m] == IF j = 0 THEN 0
                                         ELSE sum[j - 1] + cs[j].len
                IN  sum[m]

\* A write that fails in chunk m + 1 has written `short` bytes of it.
WriteAt(v, offset, n) ==
    LET cs == Chunks(offset, n)
    IN  \E m \in 0 .. Len(cs) :
        \E short \in IF m < Len(cs) THEN 0 .. (cs[m + 1].len - 1) ELSE {0} :
          LET wrote == LenOf(cs, m) + short
          IN  /\ state = "open" /\ writes < MaxWrites
              /\ disk' = Written(cs, v, m, short)
              /\ flat' = [x \in Range0 |-> IF x >= offset /\ x < offset + wrote
                                           THEN v ELSE flat[x]]
              /\ verified' = FALSE /\ writes' = writes + 1
              /\ UNCHANGED <<kind, files, alloc, state, pieces>>

(***************************************************************************)
(* ReadAt, without a read error: the bytes, and whether it says EOF.       *)
(***************************************************************************)
Pread(c, n, off) == SubSeq(c, off + 1, Lowest(off + n, Len(c)))

MultiRead(offset, n) ==
    LET read[k \in 0 .. n] ==
            LET off == offset + n - k
                at == fileAtOffset(off)
            IN  IF k = 0 \/ off >= Total THEN <<>>
                ELSE IF at[1] = 0
                THEN LET gap == Lowest(k, nextFileOffset(off) - off)
                     IN  [i \in 1 .. gap |-> 0] \o read[k - gap]
                ELSE LET len == Lowest(k, files[at[1]].length - at[2])
                     IN  Resized(Pread(disk[at[1]], len, at[2]), len)
                         \o read[k - len]
    IN  [data |-> read[n], eof |-> n > 0 /\ offset + n >= Total]

SingleRead(offset, n) ==
    LET data == Pread(disk[1], n, offset)
    IN  [data |-> data, eof |-> Len(data) < n]

ReadAt(offset, n) ==
    IF kind = "multi" THEN MultiRead(offset, n) ELSE SingleRead(offset, n)

(***************************************************************************)
(* The rest of the adaptor.                                                *)
(***************************************************************************)
CutTrailingGarbage ==
    /\ state = "open" \/ (state = "new" /\ kind = "multi")
    /\ disk' = [i \in DOMAIN files |->
                  IF files[i].length > 0 /\ Len(disk[i]) > files[i].length
                  THEN Resized(disk[i], files[i].length) ELSE disk[i]]
    /\ UNCHANGED <<kind, files, alloc, state, pieces, verified, flat, writes>>

Close ==
    /\ state = "open" /\ state' = "closed"
    /\ UNCHANGED <<kind, files, alloc, disk, pieces, verified, flat, writes>>

(***************************************************************************)
(* Verify on all pieces; failing ones are those it cannot read.            *)
(***************************************************************************)
Pieces == 0 .. ((Total + PieceLen - 1) \div PieceLen - 1)
PieceRange(i) ==
    LET from == i * PieceLen
    IN  <<from, Lowest(PieceLen, Total - from)>>

Verify(failing) ==
    {i \in Pieces :
       LET r == ReadAt(PieceRange(i)[1], PieceRange(i)[2])
       IN  \/ i \in failing \/ r.eof \/ Len(r.data) < PieceRange(i)[2]
           \/ \E j \in DOMAIN r.data : r.data[j] # 1}

verifyIntegrity ==
    /\ kind = "single" /\ state = "open"
    /\ \E failing \in SUBSET Pieces : pieces' = Pieces \ Verify(failing)
    /\ verified' = TRUE
    /\ UNCHANGED <<kind, files, alloc, state, disk, flat, writes>>

(***************************************************************************)
(* The specification.  The files may be there from an earlier download.    *)
(***************************************************************************)
Old == UNION {[1 .. n -> {2}] : n \in OldSizes}
InFile(fs, i, x) == x >= fs[i].offset /\ x < fs[i].offset + fs[i].length

DiskInit ==
    /\ files \in {fs \in Layouts : Accepted(fs)}
    /\ kind \in IF Len(files) = 1 THEN {"single", "multi"} ELSE {"multi"}
    /\ alloc \in Allocators /\ state = "new"
    /\ disk \in [DOMAIN files -> Old]
    /\ pieces = {} /\ verified = FALSE /\ writes = 0
    /\ flat = [x \in Range0 |->
                 IF \E i \in DOMAIN files :
                       /\ InFile(files, i, x)
                       /\ x - files[i].offset < Len(disk[i])
                 THEN 2 ELSE 0]

DiskNext ==
    \/ MultiOpen \/ MultiOpenFails \/ NewSingleFile \/ NewSingleFileFails
    \/ \E v \in {1, 2}, o \in Range0, n \in 1 .. Total : WriteAt(v, o, n)
    \/ CutTrailingGarbage \/ Close \/ verifyIntegrity

DiskSpec == DiskInit /\ [][DiskNext]_diskVars

(***************************************************************************)
(* Properties.                                                             *)
(***************************************************************************)
(***************************************************************************)
(* Whatever files there were, whichever writes succeeded, failed half-way  *)
(* or crossed files, empty files and gaps: a read of any range of an open  *)
(* MultiFile gives exactly the bytes that WriteAt reported as written and  *)
(* zeros elsewhere, and a read of a SingleFile does so up to a short end   *)
(* it reports as EOF (WriteAt, ReadAt, fileAtOffset).  A piece marked by   *)
(* verifyIntegrity is right, byte by byte, as long as nothing is written   *)
(* after the check.                                                        *)
(***************************************************************************)
DiskReadsBack ==
    /\ state = "open" =>
         \A o \in Range0, n \in 0 .. Total :
           LET r == ReadAt(o, n)
           IN  /\ \A i \in DOMAIN r.data : o + i - 1 < Total =>
                                           r.data[i] = flat[o + i - 1]
               /\ kind = "multi" => Len(r.data) = Lowest(n, Total - o)
               /\ Len(r.data) < n => r.eof
    /\ verified => \A i \in pieces :
                      \A x \in Range0 : x \div PieceLen = i => flat[x] = 1
=============================================================================
