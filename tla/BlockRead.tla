------------------------------ MODULE BlockRead ------------------------------
(***************************************************************************)
(* driver-block: the view of a disk as a stream of bytes that the reader of *)
(* the partition table gets.  block_read splits a read into blocks.  A byte *)
(* is known by its place on the disk.                                       *)
(***************************************************************************)
EXTENDS Integers, Sequences

CONSTANTS Sizes,      \* sizes of disks in bytes: Disk::size
          blksize,    \* Disk::block_length
          MaxLength,  \* the longest buffer
          Seeks,      \* what a seek is relative to and by how much
          None

VARIABLES size,       \* the size of this disk
          offset,     \* Device::offset
          reading,    \* the read under way: the buffer's length and what block_read has filled
          result      \* the last read that returned

vars == <<size, offset, reading, result>>

Fewer(m, n) == IF m < n THEN m ELSE n
More(m, n) == IF m > n THEN m ELSE n

\* The bytes of a block that was read into block_bytes.
BlockBytes(block) == [j \in 1 .. blksize |-> block * blksize + j - 1]

-----------------------------------------------------------------------------
\* seek, clamped to the disk on both sides.
seek(s) ==
    /\ reading = None
    /\ offset' = CASE s.from = "Start" -> Fewer(size, s.pos)
                   [] s.from = "Current" -> More(0, Fewer(size, offset + s.pos))
                   [] s.from = "End" -> More(0, Fewer(size + s.pos, size))
    /\ result' = None
    /\ UNCHANGED <<size, reading>>

read(len) ==
    /\ reading = None
    /\ reading' = [len |-> len, buf |-> <<>>]
    /\ result' = None
    /\ UNCHANGED <<size, offset>>

\* One pass of the loop of block_read: the part of a block from blk_offset on.
NextBlock_Whole ==
    /\ reading # None /\ Len(reading.buf) < reading.len
    /\ LET curr_offset == offset + Len(reading.buf)
           blk_offset == curr_offset % blksize
           to_copy == Fewer(reading.len - Len(reading.buf), blksize)
           block == curr_offset \div blksize
       IN  /\ block < size \div blksize
           /\ reading' = [reading EXCEPT !.buf = @ \o SubSeq(BlockBytes(block), 1, to_copy)]
    /\ UNCHANGED <<size, offset, result>>

NextBlock ==
    /\ reading # None /\ Len(reading.buf) < reading.len
    /\ LET curr_offset == offset + Len(reading.buf)
           blk_offset == curr_offset % blksize
           to_copy == Fewer(reading.len - Len(reading.buf), blksize - blk_offset)
           block == curr_offset \div blksize
       IN  /\ block < size \div blksize
           /\ reading' = [reading EXCEPT !.buf = @ \o SubSeq(BlockBytes(block), blk_offset + 1, blk_offset + to_copy)]
    /\ UNCHANGED <<size, offset, result>>

\* The block is not on the disk, or the disk fails.
ReadFails ==
    /\ reading # None /\ Len(reading.buf) < reading.len
    /\ result' = [ok |-> FALSE, from |-> offset, buf |-> reading.buf, len |-> reading.len]
    /\ reading' = None
    /\ UNCHANGED <<size, offset>>

\* The buffer is full, and the offset moves on.
ReadDone ==
    /\ reading # None /\ Len(reading.buf) = reading.len
    /\ offset' = offset + reading.len
    /\ result' = [ok |-> TRUE, from |-> offset, buf |-> reading.buf, len |-> reading.len]
    /\ reading' = None
    /\ UNCHANGED size

-----------------------------------------------------------------------------
Init ==
    /\ size \in Sizes /\ offset = 0
    /\ reading = None /\ result = None

Next == \/ \E s \in Seeks : seek(s)
        \/ \E len \in 0 .. MaxLength : read(len)
        \/ NextBlock \/ ReadFails \/ ReadDone

Spec == Init /\ [][Next]_vars

-----------------------------------------------------------------------------
\* A read that succeeds returns the bytes of the disk from the offset on, wherever
\* it starts and ends in a block (block_read).
ReadsItsBytes ==
    result # None /\ result.ok =>
        result.buf = [i \in 1 .. result.len |-> result.from + i - 1]

\* The offset moves by what was read, not at all after a failure, and never
\* leaves the disk, not even where the last block is not a whole one.
OffsetFollows ==
    /\ result # None => offset = result.from + (IF result.ok THEN result.len ELSE 0)
    /\ offset \in 0 .. size
=============================================================================
