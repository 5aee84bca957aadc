----------------------------- MODULE ByteBuffer -----------------------------
(***************************************************************************)
(* The buffers of a stripe.  The base buffer owns its memory; the chunk of *)
(* a cell is a view of it, made by duplicating the base, setting position  *)
(* and limit and slicing (ECChunk).  Readers fill the chunks while the     *)
(* base is positioned, limited and copied from.  The memory maps           *)
(* addresses to bytes, a byte being known by the cell and the index it was *)
(* put as.                                                                 *)
(***************************************************************************)
EXTENDS Integers, Sequences, FiniteSets

CONSTANTS
    Cells,      \* cells of the base buffer
    CellSize,   \* bytes of a cell
    Growth      \* BUFFER_SIZE_INCREASE

VARIABLES
    memory,     \* the bytes the base buffer owns
    base,       \* ByteBuffer: [start, mark, limit, position, capacity]
    views,      \* cell -> its chunk buffer, or <<>>
    put,        \* cell -> bytes put in its chunk so far
    got         \* the bytes the last getBytes or copyTo returned, and from where

bufferVars == <<memory, base, views, put, got>>

New(capacity) == [start |-> 0, mark |-> -1, limit |-> capacity, position |-> 0, capacity |-> capacity]

clear(b) == [b EXCEPT !.position = 0, !.mark = -1, !.limit = b.capacity]
flip(b)  == [b EXCEPT !.limit = b.position, !.position = 0, !.mark = -1]
mark(b)  == [b EXCEPT !.mark = b.position]
resetMark(b) == [b EXCEPT !.position = IF b.mark >= 0 THEN b.mark ELSE @]
remaining(b) == IF b.position < b.limit THEN b.limit - b.position ELSE 0
setPosition(b, p) == [b EXCEPT !.position = p]
setLimit(b, l) == [b EXCEPT !.position = IF b.position > l THEN l ELSE @,
                            !.mark = IF b.mark > l THEN -1 ELSE @, !.limit = l]
duplicate(b) == setPosition(setLimit([New(b.capacity) EXCEPT !.start = b.start], b.limit), b.position)
sliceFromStart(b) == [New(remaining(b)) EXCEPT !.start = b.start]
slice(b) == [New(remaining(b)) EXCEPT !.start = b.start + b.position]

\* checkSize: the capacity that holds n more bytes at the position.
checkSize(b, n) ==
    IF b.position + n <= b.capacity THEN b.capacity
    ELSE b.capacity + ((n + Growth - 1) \div Growth) * Growth

\* getBytes: nothing when fewer than n bytes are left before the limit.
getBytes(b, n) ==
    IF b.position + n > b.limit THEN [buffer |-> b, bytes |-> <<>>]
    ELSE [buffer |-> [b EXCEPT !.position = @ + n],
          bytes |-> [i \in 1 .. n |-> memory[b.start + b.position + i - 1]]]

\* ECChunk(buffer, offset, len).
ECChunk(b, at, len) == slice(setLimit(setPosition(duplicate(b), at), at + len))

-----------------------------------------------------------------------------

\* prepareDecodeInputs, divideOneStripe: the chunk of a cell, whatever position
\* and limit the base has.
prepareChunk(c) ==
    /\ views[c] = <<>>
    /\ views' = [views EXCEPT ![c] = <<ECChunk(base, (c - 1) * CellSize, CellSize)>>]
    /\ UNCHANGED <<memory, base, put, got>>

\* putInt8_ts of n bytes into a chunk with room for them.
putBytes(c, n) ==
    /\ views[c] # <<>> /\ put[c] + n <= CellSize
    /\ LET v == views[c][1]
       IN  /\ checkSize(v, n) = v.capacity
           /\ memory' = [a \in DOMAIN memory |->
                            IF a \in v.start + v.position .. v.start + v.position + n - 1
                            THEN <<c, put[c] + (a - v.start - v.position)>> ELSE memory[a]]
           /\ views' = [views EXCEPT ![c] = <<[v EXCEPT !.position = @ + n]>>]
    /\ put' = [put EXCEPT ![c] = @ + n]
    /\ UNCHANGED <<base, got>>

\* finalizeDecodeInputs flips the chunk; the decoder reads it, marked and reset
\* (ECChunk::toBytesArray).
readChunk(c) ==
    /\ views[c] # <<>> /\ views[c][1].position = CellSize
    /\ LET v == flip(views[c][1])
           r == getBytes(mark(v), remaining(v))
       IN  /\ got' = [cell |-> c, bytes |-> r.bytes]
           /\ views' = [views EXCEPT ![c] = <<resetMark(r.buffer)>>]
    /\ UNCHANGED <<memory, base, put>>

\* StripedInputStreamImpl positions and limits the base, copies from it
\* (copyTo), and clears it for the next stripe.
positionBase ==
    \E p \in 0 .. Cells * CellSize, l \in 0 .. Cells * CellSize :
        /\ p <= l
        /\ base' = setLimit(setPosition(base, p), l)
        /\ UNCHANGED <<memory, views, put, got>>

copyTo(c) ==
    /\ put[c] = CellSize
    /\ got' = LET b == setPosition(base, (c - 1) * CellSize)
              IN  [cell |-> c, bytes |-> [i \in 1 .. CellSize |-> memory[b.start + b.position + i - 1]]]
    /\ base' = setPosition(base, (c - 1) * CellSize)
    /\ UNCHANGED <<memory, views, put>>

clearBase ==
    /\ base' = clear(base)
    /\ views' = [c \in 1 .. Cells |-> <<>>]
    /\ put' = [c \in 1 .. Cells |-> 0]
    /\ got' = [cell |-> 0, bytes |-> <<>>]
    /\ memory' = [a \in DOMAIN memory |-> <<0, 0>>]

\* append: the base itself is written, and grows when it is full.
append ==
    /\ base.capacity <= Cells * CellSize
    /\ \A c \in 1 .. Cells : views[c] = <<>>
    /\ LET size == checkSize(base, 1)
       IN  /\ memory' = [a \in 0 .. size - 1 |-> IF a = base.start + base.position THEN <<-1, 0>>
                                                ELSE IF a \in DOMAIN memory THEN memory[a] ELSE <<0, 0>>]
           /\ base' = [base EXCEPT !.position = @ + 1, !.capacity = size]
    /\ UNCHANGED <<views, put, got>>

BufferInit ==
    /\ memory = [a \in 0 .. Cells * CellSize - 1 |-> <<0, 0>>]
    /\ base = New(Cells * CellSize)
    /\ views = [c \in 1 .. Cells |-> <<>>]
    /\ put = [c \in 1 .. Cells |-> 0]
    /\ got = [cell |-> 0, bytes |-> <<>>]

BufferNext ==
    \/ \E c \in 1 .. Cells : prepareChunk(c) \/ readChunk(c) \/ copyTo(c)
    \/ \E c \in 1 .. Cells, n \in 1 .. CellSize : putBytes(c, n)
    \/ positionBase \/ clearBase \/ append

-----------------------------------------------------------------------------

\* What was put in the chunk of a cell is what is read back, through the chunk
\* and through the base at the cell's place, and no chunk writes in another's
\* cell, whatever position and limit the base had when the chunk was made.
CellsAreSeparate ==
    got.cell # 0 => got.bytes = [i \in 1 .. CellSize |-> <<got.cell, i - 1>>]

\* Every byte a buffer can reach is in the memory that is owned.
BuffersInMemory ==
    /\ base.start + base.capacity <= Cardinality(DOMAIN memory)
    /\ \A c \in 1 .. Cells : views[c] # <<>> =>
        views[c][1].start + views[c][1].capacity <= Cardinality(DOMAIN memory)

=============================================================================
