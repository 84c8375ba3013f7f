------------------------------- MODULE PieceMap -------------------------------
(***************************************************************************)
(* The piece map of the disk layer (internal/disk/piece_map.go): which     *)
(* pieces are there, in use and selected, the lengths and counts it        *)
(* caches, and the ways to choose the next piece.  A bitfield is the set   *)
(* of its set bits; its last byte may have bits that stand for no piece.   *)
(***************************************************************************)
EXTENDS Integers, FiniteSets, FiniteSetsExt, SequencesExt

CONSTANTS ByteBits,     \* 8
          BlockLength, TotalLength,
          Counts,       \* arguments of setCount
          SplitSizes,   \* values of minSplitSize
          GeomBase      \* the base of the geometric selection

VARIABLE pm

pmVars == <<pm>>

Blocks(total) == (total + BlockLength - 1) \div BlockLength
Bytes(n) == n \div ByteBits + (IF n % ByteBits # 0 THEN 1 ELSE 0)
Bits(n) == 0 .. (Bytes(n) * ByteBits - 1)
Pieces == 0 .. (pm.blocks - 1)

getLastBlockLength(p) == p.totalLength - BlockLength * (p.blocks - 1)

getBlockLengthForIndex(p, i) ==
    IF i = p.blocks - 1 THEN getLastBlockLength(p) ELSE BlockLength

countSetBits(b, n) == Cardinality({i \in b : i < n})

(***************************************************************************)
(* updateCache.                                                            *)
(***************************************************************************)
Filters(p) == p.filterEnabled /\ p.hasFilter

LengthOfFullBlocks(p, b) == countSetBits(b, p.blocks) * BlockLength \* mutant

\* The length of the pieces of b, as computeCompletedLen counts it.
LengthOf(p, b) ==
    LET n == countSetBits(b, p.blocks)
    IN  IF n = 0 THEN 0
        ELSE IF (p.blocks - 1) \in b
             THEN (n - 1) * BlockLength + getLastBlockLength(p)
             ELSE n * BlockLength

updateCache(p) ==
    [p EXCEPT !.cache =
        IF p.blocks = 0
        THEN [missing |-> 0, filtered |-> 0, filteredTotal |-> 0,
              completed |-> 0, filteredCompleted |-> 0]
        ELSE [missing |->
                 IF Filters(p)
                 THEN countSetBits(p.filter, p.blocks)
                      - countSetBits(p.have \cap p.filter, p.blocks)
                 ELSE p.blocks - countSetBits(p.have, p.blocks),
              filtered |->
                 IF Filters(p) THEN countSetBits(p.filter, p.blocks) ELSE 0,
              filteredTotal |->
                 IF p.hasFilter THEN LengthOf(p, p.filter) ELSE 0,
              completed |-> LengthOf(p, p.have),
              filteredCompleted |->
                 LengthOf(p, IF Filters(p) THEN p.have \cap p.filter
                             ELSE p.have)]]

newPieceMap ==
    updateCache([blocks |-> Blocks(TotalLength), totalLength |-> TotalLength,
                 have |-> {}, use |-> {}, filter |-> {}, hasFilter |-> FALSE,
                 filterEnabled |-> FALSE, cache |-> 0])

(***************************************************************************)
(* The operations.                                                         *)
(***************************************************************************)
With(b, is, on) == IF on THEN b \union is ELSE b \ is

\* setBit, unsetBit, setBitRange and unsetBitRange, setAllBit.
SetBits(from, to, on) ==
    pm' = updateCache([pm EXCEPT !.have = With(@, (from .. to) \cap Pieces, on)])

SetUseBits(from, to, on) ==
    pm' = updateCache([pm EXCEPT !.use = With(@, (from .. to) \cap Pieces, on)])

clearAllBit == pm' = updateCache([pm EXCEPT !.have = {}])
clearAllUseBit == pm' = updateCache([pm EXCEPT !.use = {}])
setAllUseBit == pm' = [pm EXCEPT !.use = @ \union Pieces]

\* The bits beyond the last piece are taken over as they are.
setBitfield(b) == pm' = updateCache([pm EXCEPT !.have = b, !.use = {}])

\* The blocks that the bytes [offset, offset + length) touch.
Touched(offset, length) ==
    IF length <= 0 THEN {}
    ELSE (offset \div BlockLength .. (offset + length - 1) \div BlockLength)
         \cap Pieces

setFilter(offset, length, on) ==
    pm' = updateCache([pm EXCEPT !.hasFilter = TRUE,
                          !.filter = With(@, Touched(offset, length), on)])

addNotFilter(offset, length) ==
    pm' = updateCache([pm EXCEPT !.hasFilter = TRUE,
              !.filter = IF length <= 0 THEN @
                         ELSE @ \union {i \in Pieces :
                                 \/ i < offset \div BlockLength
                                 \/ i > (offset + length - 1) \div BlockLength}])

clearFilter ==
    pm' = updateCache([pm EXCEPT !.hasFilter = FALSE, !.filter = {},
                                 !.filterEnabled = FALSE])

enableFilter(on) ==
    pm' = updateCache([pm EXCEPT !.hasFilter = @ \/ on, !.filterEnabled = on])

setCount(n) ==
    /\ n # pm.blocks
    /\ pm' = updateCache([pm EXCEPT !.blocks = n, !.have = {}, !.use = {},
                             !.filter = {}, !.hasFilter = FALSE,
                             !.filterEnabled = FALSE,
                             !.totalLength = BlockLength * n])

(***************************************************************************)
(* Choosing a piece.  combined holds what cannot be chosen.                *)
(***************************************************************************)
combinedMissing(ignore) ==
    pm.have \union pm.use \union ignore
    \union (IF Filters(pm) THEN Bits(pm.blocks) \ pm.filter ELSE {})

\* The maximal runs [s, e) of pieces outside combined, in order.
Gaps(c) ==
    LET runs == {r \in Pieces \X (1 .. pm.blocks) :
                   /\ r[1] < r[2] /\ \A i \in r[1] .. (r[2] - 1) : i \notin c
                   /\ r[1] = 0 \/ (r[1] - 1) \in c
                   /\ r[2] = pm.blocks \/ r[2] \in c}
    IN  SetToSortSeq(runs, LAMBDA a, b : a[1] < b[1])

\* A run behind a piece in use is taken from its middle on.
Shifted(r) ==
    IF r[1] > 0 /\ (r[1] - 1) \in pm.use
    THEN <<(r[2] - r[1]) \div 2 + r[1], r[2]>> ELSE r

Better(c, best, r) ==
    LET n == best[2] - best[1]
        m == r[2] - r[1]
    IN  \/ n < m
        \/ /\ n = m /\ best[1] > 0 /\ r[1] > 0
           /\ (best[1] - 1) \notin c \/ (best[1] - 1) \in pm.use
           /\ (r[1] - 1) \in c /\ (r[1] - 1) \notin pm.use

\* -1 stands for "none".
sparseSelect(c, minSplit) ==
    LET best == FoldLeft(LAMBDA b, g : IF Better(c, b, Shifted(g))
                                       THEN Shifted(g) ELSE b,
                         <<0, 0>>, Gaps(c))
    IN  IF best[2] = best[1] THEN -1
        ELSE IF \/ best[1] = 0
                \/ (best[1] - 1) \notin pm.use /\ (best[1] - 1) \in c
                \/ (best[2] - best[1]) * BlockLength >= minSplit
             THEN best[1] ELSE -1

\* The i-th window, counted from the offset.
Window(i, offset) ==
    LET from == IF i = 0 THEN 0 ELSE GeomBase^(i - 1)
    IN  (from + offset) .. (Min({GeomBase^i + offset, pm.blocks}) - 1)

InWindow(c, w) ==
    {i \in w : i \notin c /\ \A j \in w : j < i => j \in c /\ j \notin pm.use}

geomSelect(c, minSplit, offset) ==
    LET hits == {i \in 0 .. pm.blocks :
                   InWindow(c, Window(i, offset)) # {}}
    IN  IF hits = {} THEN sparseSelect(c, minSplit)
        ELSE CHOOSE p \in InWindow(c, Window(Min(hits), offset)) : TRUE

Taken(c, i) == i \in c \/ i \in pm.use

inorderSelect(c, minSplit, from, to) ==
    LET upTo == Min({to, pm.blocks})
        Room(i) == {j \in i .. (pm.blocks - 1) :
                      /\ \A k \in i .. j : ~Taken(c, k)
                      /\ (j - i + 1) * BlockLength >= minSplit}
        After(i) == Min({k \in i .. pm.blocks : k = pm.blocks \/ Taken(c, k)})
        scan[i \in 0 .. pm.blocks + 1] ==
            IF i >= upTo THEN -1
            ELSE IF Taken(c, i) THEN scan[i + 1]
            ELSE IF (i - 1) \notin pm.use /\ (i - 1) \in c THEN i
            ELSE IF Room(i) # {} THEN Min(Room(i))
            ELSE scan[After(i) + 1]
    IN  IF from >= upTo THEN -1
        ELSE IF ~Taken(c, from) THEN from ELSE scan[from + 1]

\* getFirstMissingIndex and getFirstMissingUnusedIndex.
FirstOf(b) ==
    LET open == {i \in Pieces : i \notin b /\ (Filters(pm) => i \in pm.filter)}
    IN  IF open = {} THEN -1 ELSE Min(open)

getAllMissingIndexes(peer) ==
    {i \in (Bits(pm.blocks) \ pm.have) \cap peer :
        i < pm.blocks /\ (Filters(pm) => i \in pm.filter)}

hasMissingPiece(peer) ==
    (peer \ pm.have) \cap (IF Filters(pm) THEN pm.filter ELSE peer) # {}

isAllBitSet == pm.blocks = 0 \/ pm.have = Pieces

isFilteredAllBitSet ==
    IF Filters(pm) THEN pm.filter \subseteq pm.have ELSE isAllBitSet

(***************************************************************************)
(* Byte ranges.                                                            *)
(***************************************************************************)
getOffsetCompletedLength(offset, length) ==
    IF length = 0 \/ pm.totalLength <= offset THEN 0
    ELSE LET len == Min({length, pm.totalLength - offset})
             s == offset \div BlockLength
             e == (offset + len - 1) \div BlockLength
             Has(i) == IF i \in pm.have THEN 1 ELSE 0
         IN  IF s = e THEN Has(s) * len
             ELSE Has(s) * ((s + 1) * BlockLength - offset)
                  + BlockLength * countSetBits(pm.have \cap (s + 1 .. e - 1),
                                               pm.blocks)
                  + Has(e) * (offset + len - e * BlockLength)

isBitSetOffsetRange(offset, length) ==
    /\ length > 0 /\ pm.totalLength > offset
    /\ Touched(offset, Min({length, pm.totalLength - offset})) \subseteq pm.have

getMissingUnusedLength(from) ==
    LET run == {i \in Pieces : i >= from /\ \A j \in from .. i :
                                   j \notin pm.have /\ j \notin pm.use}
    IN  FoldSet(LAMBDA i, n : n + getBlockLengthForIndex(pm, i), 0, run)

PmInit == pm = newPieceMap

PmNext ==
    \/ \E i \in Pieces, j \in Pieces, on \in BOOLEAN :
          i <= j /\ (SetBits(i, j, on) \/ SetUseBits(i, j, on))
    \/ clearAllBit \/ clearAllUseBit \/ setAllUseBit \/ clearFilter
    \/ \E b \in SUBSET Bits(pm.blocks) : setBitfield(b)
    \/ \E o \in 0 .. pm.totalLength, n \in 0 .. pm.totalLength :
          \/ \E on \in BOOLEAN : setFilter(o, n, on)
          \/ addNotFilter(o, n)
    \/ \E on \in BOOLEAN : enableFilter(on)
    \/ \E n \in Counts : setCount(n)

PmSpec == PmInit /\ [][PmNext]_pmVars

(***************************************************************************)
(* Properties.                                                             *)
(***************************************************************************)
\* What there is to choose from, and its length byte by byte.
Open(ignore) == {i \in Pieces : /\ i \notin pm.have \union pm.use \union ignore
                                /\ Filters(pm) => i \in pm.filter}
BytesOf(ps, from, to) ==
    Cardinality({x \in from .. (to - 1) : x \div BlockLength \in ps})

Chosen(i, ignore) == i = -1 \/ i \in Open(ignore)

Control == INSTANCE Segments

(***************************************************************************)
(* After any calls, bits beyond the last piece included: a selection gives *)
(* a piece that is missing, unused, selected and not to be ignored, and    *)
(* none only if there is none or min-split-size forbids it (sparseSelect,  *)
(* geomSelect, inorderSelect); the cached lengths are those of the pieces, *)
(* the last one being short (updateCache); a byte range is complete as far *)
(* as its bytes are (getOffsetCompletedLength); and the bitfield, when the *)
(* control file is read with another piece length, vouches for exactly the *)
(* new pieces all of whose bytes are there (convertControlBitfield).       *)
(***************************************************************************)
PieceMapSound ==
    /\ \A split \in SplitSizes, ignore \in {{}, {0}} :
          LET c == combinedMissing(ignore)
              picks == {sparseSelect(c, split)}
                       \union {geomSelect(c, split, o) : o \in Pieces}
              first == inorderSelect(c, split, 0, pm.blocks)
          IN  /\ \A i \in picks \union {first} : Chosen(i, ignore)
              /\ (split <= BlockLength /\ Open(ignore) # {}) =>
                    -1 \notin picks \union {first}
    /\ pm.cache.completed = BytesOf(pm.have, 0, pm.totalLength)
    /\ pm.cache.filteredTotal = BytesOf(pm.filter, 0, pm.totalLength)
    /\ Filters(pm) =>
          /\ pm.cache.filteredCompleted =
                BytesOf(pm.have \cap pm.filter, 0, pm.totalLength)
          /\ pm.cache.missing = Cardinality(getAllMissingIndexes(Pieces))
    /\ pm.cache.missing = 0 <=> FirstOf(pm.have) = -1
    /\ hasMissingPiece(Pieces) <=> pm.cache.missing > 0
    /\ isAllBitSet => pm.cache.completed = pm.totalLength
    /\ Filters(pm) => (isFilteredAllBitSet <=> pm.cache.missing = 0)
    /\ Chosen(FirstOf(pm.have \union pm.use), {})
    /\ \A i \in Pieces :
          getMissingUnusedLength(i) > 0 <=> i \notin pm.have \union pm.use
    /\ \A o \in 0 .. pm.totalLength, n \in 0 .. pm.totalLength :
          LET to == Min({o + n, pm.totalLength})
              done == BytesOf(pm.have, o, to)
          IN  /\ getOffsetCompletedLength(o, n) = done
              /\ isBitSetOffsetRange(o, n) <=> o < to /\ done = to - o
    /\ \A len \in 1 .. pm.totalLength + 1 :
          Control!convertControlBitfield(pm.have, pm.totalLength, BlockLength, len)
            = {i \in Control!PieceNumbers(pm.totalLength, len) :
                 \A x \in Control!PieceBytes(pm.totalLength, len, i) :
                    x \div BlockLength \in pm.have}
=============================================================================
