---------------------------- MODULE FileWrappers ----------------------------
(***************************************************************************)
(* The file descriptors of a local replica: received once from the         *)
(* datanode, kept by a holder that the cache passes from one reader to the *)
(* next, and read through a MappedFileWrapper or a CFileWrapper made for   *)
(* each reader.  A duplicated descriptor shares its file offset with the   *)
(* one it duplicates.                                                      *)
(***************************************************************************)
EXTENDS Integers, Sequences

CONSTANTS
    FileSize,      \* bytes of the replica
    MaxReaders     \* bound: readers the descriptor serves

VARIABLES
    holder,     \* ReadShortCircuitFDHolder: "none", "cached", "held" by a reader; "crashed"
    offset,     \* the file offset the descriptor and its duplicates share
    wrapper,    \* the reader's wrapper: [kind, position, ahead], kind "none" when there is none
    fds,        \* descriptors open on the file
    readers,    \* readers served
    read        \* what the current reader has read: positions, and where it should be

fileVars == <<holder, offset, wrapper, fds, readers, read>>

\* position is a mapping's pointer, ahead the bytes stdio has read and not given out.
Wrapper(kind) == [kind |-> kind, position |-> 0, ahead |-> <<>>]
NoWrapper == Wrapper("none")

Nothing(at) == [got |-> <<>>, at |-> at]

\* createReadShortCircuitInfo: wrap the descriptor, a stream around a duplicate
\* of it, then seek(0).
create(kind) ==
    /\ wrapper' = Wrapper(kind)
    /\ fds' = fds + IF kind = "mapped" THEN 0 ELSE 1
    /\ offset' = 0

\* receiveFileDescriptors: the message of the datanode carries all descriptors
\* or none of them; an error, the end of the stream and a short control message
\* all end the attempt.
receiveFileDescriptors ==
    /\ holder = "none" /\ readers < MaxReaders
    /\ holder' = "cached" /\ fds' = 1
    /\ \E o \in 0 .. FileSize : offset' = o
    /\ UNCHANGED <<wrapper, readers, read>>

\* fetchOrCreate takes the descriptors out of the cache.
open(kind) ==
    /\ holder = "cached" /\ readers < MaxReaders
    /\ create(kind)
    /\ holder' = "held"
    /\ readers' = readers + 1
    /\ read' = Nothing(0)

\* It fails.  When dup does, open throws, and the holder that was taken out of
\* the cache closes its descriptor.  When fdopen or mmap does, open returns
\* FALSE, which nobody looks at, and seek(0) is called on nothing.
openFails(kind) ==
    /\ holder = "cached" /\ readers < MaxReaders
    /\ \/ kind = "cfile" /\ holder' = "none"
       \/ holder' = "crashed"
    /\ fds' = 0
    /\ UNCHANGED <<offset, wrapper, readers, read>>

\* FileWrapper::copy and read of n bytes.  A mapping copies from its pointer.
\* stdio gives out what it has read ahead, then reads from the shared offset as
\* much as is missing or more; at the end of the file the call throws.
copy(n) ==
    /\ wrapper.kind # "none" /\ n > 0 /\ read.at + n <= FileSize
    /\ \/ /\ wrapper.kind = "mapped"
          /\ read' = [got |-> [i \in 1 .. n |-> wrapper.position + i], at |-> read.at + n]
          /\ wrapper' = [wrapper EXCEPT !.position = @ + n]
          /\ UNCHANGED offset
       \/ /\ wrapper.kind = "cfile"
          /\ \E k \in 0 .. FileSize - offset :
               LET bytes == wrapper.ahead \o [i \in 1 .. k |-> offset + i]
               IN  /\ Len(bytes) >= n
                   /\ k > 0 => n > Len(wrapper.ahead)
                   /\ read' = [got |-> SubSeq(bytes, 1, n), at |-> read.at + n]
                   /\ wrapper' = [wrapper EXCEPT !.ahead = SubSeq(bytes, n + 1, Len(bytes))]
                   /\ offset' = offset + k
    /\ UNCHANGED <<holder, fds, readers>>

\* FileWrapper::seek.
seek(to) ==
    /\ wrapper.kind # "none"
    /\ IF wrapper.kind = "mapped"
       THEN wrapper' = [wrapper EXCEPT !.position = to] /\ UNCHANGED offset
       ELSE wrapper' = [wrapper EXCEPT !.ahead = <<>>] /\ offset' = to
    /\ read' = Nothing(to)
    /\ UNCHANGED <<holder, fds, readers>>

\* MappedFileWrapper::close and CFileWrapper::close: what they close.
closeDuplicate(kind) == IF kind = "mapped" THEN 0 ELSE 1

\* ~ReadShortCircuitInfo: the wrappers go, and the holder goes back to the cache
\* unless the reader met an error, which made the information invalid.
close ==
    /\ wrapper.kind # "none"
    /\ wrapper' = NoWrapper
    /\ \/ holder' = "cached" /\ fds' = fds - closeDuplicate(wrapper.kind)
       \/ holder' = "none" /\ fds' = fds - closeDuplicate(wrapper.kind) - 1
    /\ read' = Nothing(0)
    /\ UNCHANGED <<offset, readers>>

\* The cache drops the holder, which closes its descriptor.
evict ==
    /\ holder = "cached"
    /\ holder' = "none"
    /\ fds' = fds - 1
    /\ UNCHANGED <<offset, wrapper, readers, read>>

FileInit ==
    /\ holder = "none" /\ offset = 0 /\ wrapper = NoWrapper
    /\ fds = 0 /\ readers = 0 /\ read = Nothing(0)

FileNext ==
    \/ \E kind \in {"mapped", "cfile"} : open(kind) \/ openFails(kind)
    \/ \E n \in 1 .. FileSize : copy(n)
    \/ \E to \in 0 .. FileSize : seek(to)
    \/ close \/ evict \/ receiveFileDescriptors

-----------------------------------------------------------------------------

\* A reader gets the bytes that follow the ones it got before, from the start or
\* from where it last sought, whatever the readers before it and their read-ahead
\* left the shared offset at and whichever wrapper serves it.
ReadsInSequence ==
    read.got # <<>> => read.got = [i \in 1 .. Len(read.got) |-> read.at - Len(read.got) + i]

\* The descriptor of the holder stays open until the holder goes, and no
\* duplicate outlives its reader, when opening fails as well.
DescriptorsAreOwned ==
    fds = (IF holder \in {"cached", "held"} THEN 1 ELSE 0) + (IF wrapper.kind = "cfile" THEN 1 ELSE 0)

=============================================================================
