---------------------------- MODULE StripedLayout ----------------------------
(***************************************************************************)
(* Where the bytes of an erasure coded file live (StripedBlockUtil).       *)
(*                                                                         *)
(* A block group of a striped file has NumData data and NumParity parity   *)
(* internal blocks, numbered from 0.  Cells of CellSize bytes go to the    *)
(* data blocks in turn; NumData cells, with the parity cells computed from *)
(* them, are a stripe.  The operators below are the arithmetic by which    *)
(* the writer names the internal blocks and the reader cuts a range of the *)
(* group into pieces ("aligned stripes") in which every internal block     *)
(* takes part wholly or not at all.                                        *)
(***************************************************************************)
EXTENDS Integers, Sequences, FiniteSets, SequencesExt, FiniteSetsExt

CONSTANTS NumData,      \* ECPolicy::getNumDataUnits
          NumParity,    \* ECPolicy::getNumParityUnits
          CellSize      \* ECPolicy::getCellSize

ASSUME LayoutAssumption == /\ NumData \in Nat \ {0}
                           /\ NumParity \in Nat \ {0}
                           /\ CellSize \in Nat \ {0}

DataIdx   == 0 .. NumData - 1
ParityIdx == NumData .. NumData + NumParity - 1
Idx       == DataIdx \cup ParityIdx
StripeLen == CellSize * NumData

\* The part of cell i in a last stripe that holds size bytes of data.
lastCellSize(size, i) ==
    LET left == IF i < NumData THEN Max({size - i * CellSize, 0}) ELSE size
    IN  Min({left, CellSize})

\* The length of internal block i of a group of dataSize bytes.
getInternalBlockLength(dataSize, i) ==
    LET lastStripeDataLen == dataSize % StripeLen
        numStripes        == (dataSize - 1) \div StripeLen + 1
    IN  IF lastStripeDataLen = 0 THEN dataSize \div NumData
        ELSE (numStripes - 1) * CellSize + lastCellSize(lastStripeDataLen, i)

offsetInBlkToOffsetInBG(offsetInBlk, i) ==
    (offsetInBlk \div CellSize) * StripeLen + i * CellSize + (offsetInBlk % CellSize)

\* A range of an internal block.
VerticalRange(offset, span) == [offset |-> offset, span |-> span]

\* A piece of the stripe in which every internal block takes part wholly or not at
\* all: the chunks asked for, with their place in the stripe buffer, and the zeros.
AlignedStripe(range, requested, pos, zero) ==
    [offset |-> range.offset, span |-> range.span, requested |-> requested, pos |-> pos, zero |-> zero]

\* A cell of the group, and the part of it that a range takes.
StripingCell(size, idxInBlkGroup, offset) ==
    [idxInInternalBlk |-> idxInBlkGroup \div NumData,
     idxInStripe      |-> idxInBlkGroup % NumData,
     offset           |-> offset,
     size             |-> size]

\* The cells of the bytes first .. last of a group, in their order.
getStripingCellsOfByteRange(first, last) ==
    LET firstCell == first \div CellSize
        lastCell  == last \div CellSize
        cell(c) ==
            IF c = firstCell
            THEN StripingCell(Min({CellSize - (first % CellSize), last - first + 1}),
                              c, first % CellSize)
            ELSE StripingCell(IF c = lastCell THEN (last % CellSize) + 1 ELSE CellSize, c, 0)
    IN  [k \in 1 .. lastCell - firstCell + 1 |-> cell(firstCell + k - 1)]

CellStart(cell) == cell.idxInInternalBlk * CellSize + cell.offset
CellEnd(cell)   == CellStart(cell) + cell.size - 1

\* The range of every internal block that the cells need; a parity block is
\* needed wherever some data block is.
getRangesForInternalBlocks(cells) ==
    LET of(i)    == {k \in DOMAIN cells : cells[k].idxInStripe = i}
        earliest == Min({CellStart(cells[k]) : k \in DOMAIN cells})
        latest   == Max({CellEnd(cells[k]) : k \in DOMAIN cells})
    IN  [i \in Idx |->
            IF i \in ParityIdx THEN VerticalRange(earliest, latest - earliest + 1)
            ELSE IF of(i) = {} THEN VerticalRange(0, 0)
            ELSE VerticalRange(CellStart(cells[Min(of(i))]), MapThenSumSet(LAMBDA k : cells[k].size, of(i)))]

\* The ranges cut at every point where one of them, or the data, ends.
mergeRangesForInternalBlocks(ranges, numBytes) ==
    LET used   == {i \in Idx : ranges[i].span # 0}
        points == UNION {{ranges[i].offset, ranges[i].offset + ranges[i].span} : i \in used}
        lastCellEndOffset == ((numBytes \div CellSize) \div NumData) * CellSize
                             + (numBytes % CellSize)
        inside == Min(points) < lastCellEndOffset /\ Max(points) > lastCellEndOffset
        cuts   == SetToSortSeq(points \cup (IF inside THEN {lastCellEndOffset} ELSE {}),
                               LAMBDA a, b : a < b)
    IN  [k \in 1 .. Len(cuts) - 1 |-> VerticalRange(cuts[k], cuts[k + 1] - cuts[k])]

\* The data blocks that end before an aligned stripe: they count as zeros.
prepareAllZeroChunks(numBytes, range) ==
    {i \in DataIdx : getInternalBlockLength(numBytes, i) <= range.offset}

\* The aligned stripes of the bytes first .. last of a group (which lie in one
\* stripe): the range in the internal blocks, the data blocks asked for, with
\* the place of their bytes in the stripe buffer, and those that are zeros.
divideOneStripe(numBytes, first, last) ==
    LET cells  == getStripingCellsOfByteRange(first, last)
        ranges == mergeRangesForInternalBlocks(getRangesForInternalBlocks(cells), numBytes)
        bufOffset(k) == (first % StripeLen)
                        + MapThenSumSet(LAMBDA j : cells[j].size, 1 .. k - 1)
        overlap(k, r) == [start |-> Max({CellStart(cells[k]), r.offset}),
                          end   |-> Min({CellEnd(cells[k]), r.offset + r.span - 1})]
        hits(r) == {k \in DOMAIN cells : overlap(k, r).end >= overlap(k, r).start}
        chunkOf(r, i) == CHOOSE k \in hits(r) : cells[k].idxInStripe = i
        asked(r) == {cells[k].idxInStripe : k \in hits(r)}
    IN  [s \in DOMAIN ranges |->
            LET r == ranges[s]
            IN  AlignedStripe(r, asked(r),
                    [i \in asked(r) |-> LET k == chunkOf(r, i)
                                        IN  bufOffset(k) + overlap(k, r).start - CellStart(cells[k])],
                    prepareAllZeroChunks(numBytes, r))]
=============================================================================
