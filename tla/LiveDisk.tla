------------------------------ MODULE LiveDisk ------------------------------
(***************************************************************************)
(* lived: the disk that a boot loader left in memory, as a file.  Its pages  *)
(* are mapped whole, and reads and writes go to the mapping.                *)
(***************************************************************************)
EXTENDS Naturals

CONSTANTS PageSize, MemoryPages,
          Images,       \* [phys, size] of DISK_LIVE_ADDR and DISK_LIVE_SIZE, zero if missing
          Offsets,      \* of the calls
          MaxLength, MaxCalls,
          None

VARIABLES calls,
          disk,         \* the bytes of the memory
          call, answer,
          live          \* the image, and the mapping [start, size] if it could be made

vars == <<calls, disk, call, answer, live>>

Memory == 0 .. PageSize * MemoryPages - 1

\* DiskScheme::new.  Without an image the daemon exits.
New(image) ==
    LET start == (image.phys \div PageSize) * PageSize
        end == ((image.phys + image.size + PageSize - 1) \div PageSize) * PageSize
    IN [image |-> image, start |-> start, size |-> end - start, up |-> image.phys # 0 /\ image.size # 0]

Init ==
    /\ \E image \in Images : live = New(image)
    /\ calls = 0 /\ call = None /\ answer = None
    /\ disk = [b \in Memory |-> b]

TopLevel == 0
TheData == 1
ListLen == 2      \* bytes of the listing

\* A path gives a number, which is the handle, to root only.
Calls == [op : {"open"}, path : {"", "0", "1"}, root : BOOLEAN]
         \cup [op : {"read", "write", "fsize"}, id : {TopLevel, TheData}, offset : Offsets, length : 0 .. MaxLength]

Submit(c) ==
    /\ live.up /\ call = None /\ calls < MaxCalls
    /\ calls' = calls + 1 /\ call' = c /\ answer' = None
    /\ UNCHANGED <<disk, live>>

Returns(n, data) == answer' = [call |-> call, count |-> n, data |-> data, number |-> calls]
Fails == answer' = None

Open(c) ==
    IF ~c.root THEN Fails
    ELSE CASE c.path = "" -> Returns(TopLevel, None) [] c.path = "0" -> Returns(TheData, None) [] OTHER -> Fails

\* The length of what lies behind the offset, at most the length of the buffer.
Count(c, size) ==
    LET left == IF c.offset <= size THEN size - c.offset ELSE 0
    IN IF left < c.length THEN left ELSE c.length

Size(id) == IF id = TheData THEN live.size ELSE ListLen

Read(c) ==
    LET n == Count(c, Size(c.id))
    IN IF c.id = TheData THEN Returns(n, [i \in 0 .. n - 1 |-> disk[live.start + c.offset + i]])
       ELSE Returns(n, None)

\* fsize, and fstat, which says the same; fpath says less.
Fsize(c) == Returns(Size(c.id), None)

Write(c) ==
    IF c.id # TheData THEN Fails /\ UNCHANGED disk
    ELSE LET n == Count(c, live.size)
             from == live.start + c.offset
         IN /\ disk' = [b \in Memory |-> IF b \in from .. from + n - 1 THEN PageSize * MemoryPages + calls
                                         ELSE disk[b]]
            /\ Returns(n, None)

Handle ==
    /\ call # None
    /\ CASE call.op = "open" -> Open(call) /\ UNCHANGED disk
         [] call.op = "read" -> Read(call) /\ UNCHANGED disk
         [] call.op = "fsize" -> Fsize(call) /\ UNCHANGED disk
         [] call.op = "write" -> Write(call)
    /\ call' = None
    /\ UNCHANGED <<calls, live>>

Next == Handle \/ \E c \in Calls : Submit(c)

-----------------------------------------------------------------------------
\* A read or write moves the bytes of the image from its offset on, for an image that starts
\* with a page, and none behind its last page (DiskScheme::new, read, write).
Transferred ==
    answer # None /\ answer.call.op \in {"read", "write"} =>
        /\ answer.count <= answer.call.length
        /\ answer.count > 0 => answer.call.offset + answer.count <= Size(answer.call.id)
        /\ answer.call.id = TheData /\ live.image.phys % PageSize = 0 =>
             \A i \in 0 .. answer.count - 1 :
                disk[live.image.phys + answer.call.offset + i] =
                    IF answer.call.op = "read" THEN answer.data[i] ELSE PageSize * MemoryPages + answer.number

\* The memory outside the pages of the image is never written (DiskScheme::new, write).
OnlyTheSectorsAsked ==
    \A b \in Memory : disk'[b] # disk[b] =>
        /\ b \div PageSize >= live.image.phys \div PageSize
        /\ b \div PageSize <= (live.image.phys + live.image.size - 1) \div PageSize
=============================================================================
