------------------------------ MODULE Segments ------------------------------
(***************************************************************************)
(* The arithmetic of a split transfer: the segment list of                 *)
(* internal/engine/segment.go and the piece bitfield of the .aria2 control *)
(* file (controlNumPieces ... newControlSegmentMan in engine.go).          *)
(*                                                                         *)
(* Bytes are numbered from 0 and pieces too, as in the source; a bitfield  *)
(* is the set of the pieces whose bit is set; a list of segments is a      *)
(* sequence, and segment i of it has Index i - 1.                          *)
(***************************************************************************)
EXTENDS Integers, Sequences, FiniteSets, FiniteSetsExt, SequencesExt

Smaller(a, b) == IF a <= b THEN a ELSE b
Larger(a, b) == IF a >= b THEN a ELSE b

(***************************************************************************)
(* Pieces                                                                  *)
(***************************************************************************)

controlNumPieces(total, len) ==
    IF total <= 0 \/ len <= 0 THEN 0 ELSE (total + len - 1) \div len

PieceNumbers(total, len) == 0..(controlNumPieces(total, len) - 1)

\* The first byte of piece i, and the byte after its last one.
PieceStart(len, i) == i * len

\* Mutant: the last piece is as long as the others.
PieceEndUnclamped(total, len, i) == PieceStart(len, i) + len

PieceEnd(total, len, i) == Smaller(PieceStart(len, i) + len, total)

controlPieceSize(total, len, i) ==
    IF PieceStart(len, i) >= total THEN 0 ELSE PieceEnd(total, len, i) - PieceStart(len, i)

PieceBytes(total, len, i) == PieceStart(len, i)..(PieceEnd(total, len, i) - 1)

\* The bytes that a bitfield vouches for.
Claimed(total, len, bits) == UNION {PieceBytes(total, len, i) : i \in bits}

seedControlPieceBytes(total, len, bits) ==
    [i \in PieceNumbers(total, len) |->
        IF i \in bits THEN controlPieceSize(total, len, i) ELSE 0]

controlCompletedLength(total, len, bits) ==
    MapThenSumSet(LAMBDA i : controlPieceSize(total, len, i), bits)

\* The length of the longest prefix of complete pieces.
controlContiguousLength(total, len, bits) ==
    LET missing == PieceNumbers(total, len) \ bits IN
    IF missing = {} THEN Larger(total, 0) ELSE PieceStart(len, Min(missing))

\* Mutant: only the old piece with the first byte is looked at.
ConvertByFirstByte(bits, total, srcLen, dstLen) ==
    {i \in PieceNumbers(total, dstLen) : PieceStart(dstLen, i) \div srcLen \in bits}

\* convertControlBitfield: each piece of the new length is walked from one
\* old piece that it meets to the next, until one is missing.
convertControlBitfield(bits, total, srcLen, dstLen) ==
    LET Complete(i) ==
          LET end == PieceEnd(total, dstLen, i)
              from[pos \in 0..total] ==
                \/ pos >= end
                \/ /\ pos \div srcLen \in bits
                   /\ from[Smaller((pos \div srcLen + 1) * srcLen, end)]
          IN from[PieceStart(dstLen, i)]
    IN {i \in PieceNumbers(total, dstLen) : Complete(i)}

\* The overlap of length bytes written at start with piece i.
Overlap(total, len, i, start, length) ==
    Smaller(Smaller(start + length, total), PieceEnd(total, len, i))
      - Larger(start, PieceStart(len, i))

\* markControlWritten on the counters, and the bits that it sets.
CountWritten(total, len, bits, counts, start, length) ==
    [i \in DOMAIN counts |->
        IF i \in bits \/ Overlap(total, len, i, start, length) <= 0 THEN counts[i]
        ELSE Smaller(counts[i] + Overlap(total, len, i, start, length),
                     controlPieceSize(total, len, i))]

BitsWritten(total, len, bits, counts, start, length) ==
    bits \cup {i \in DOMAIN counts :
                 /\ Overlap(total, len, i, start, length) > 0
                 /\ counts[i] + Overlap(total, len, i, start, length)
                      >= controlPieceSize(total, len, i)}

(***************************************************************************)
(* Segments                                                                *)
(***************************************************************************)

Segment(start, end) ==
    [start |-> start, end |-> end, written |-> 0, done |-> FALSE, claimed |-> FALSE]

\* Mutant: the remainder of the division is dropped.
PartsWithoutRemainder(start, total, n) ==
    LET chunk == (total - start) \div n IN
    [i \in 1..n |-> Segment(start + (i - 1) * chunk, start + i * chunk)]

\* Equal parts of start..total, the last one taking the remainder.
Parts(start, total, n) ==
    LET chunk == (total - start) \div n IN
    [i \in 1..n |-> Segment(start + (i - 1) * chunk,
                            IF i = n THEN total ELSE start + i * chunk)]

NewSegmentMan(total, n) == Parts(0, total, Smaller(Larger(n, 1), total))

newResumeSegmentMan(total, n, completed) ==
    IF n <= 1 \/ completed <= 0 THEN NewSegmentMan(total, n)
    ELSE LET have == Smaller(completed, total)
             done == [Segment(0, have) EXCEPT !.written = have, !.done = TRUE]
         IN  IF have = total THEN <<done>>
             ELSE <<done>> \o Parts(have, total, Smaller(n - 1, total - have))

\* newControlSegmentMan: the maximal runs of missing pieces, in order.
newControlSegmentMan(total, len, bits) ==
    LET missing == PieceNumbers(total, len) \ bits
        starts == SetToSortSeq({i \in missing : i - 1 \notin missing}, <)
        lastOf(i) == Min({j \in missing : j >= i /\ j + 1 \notin missing})
    IN  [k \in DOMAIN starts |->
            Segment(PieceStart(len, starts[k]), PieceEnd(total, len, lastOf(starts[k])))]

\* The indices Next may return: unclaimed and not done.
Free(segs) == {i \in DOMAIN segs : ~segs[i].done /\ ~segs[i].claimed}

\* The one it returns: the first in the circular scan from nextIdx (0-based).
NextSegment(segs, nextIdx) ==
    CHOOSE i \in Free(segs) :
      \A j \in Free(segs) :
        (i - 1 - nextIdx) % Len(segs) <= (j - 1 - nextIdx) % Len(segs)

AllDone(segs) == \A i \in DOMAIN segs : segs[i].done

MarkDone(segs, i, written) ==
    [segs EXCEPT ![i].written = written, ![i].done = TRUE, ![i].claimed = FALSE]

\* SegmentMan.Written.
WrittenBytes(segs) == FoldLeft(LAMBDA sum, s : sum + s.written, 0, segs)
=============================================================================
