--------------------------- MODULE BlockReadProofs ---------------------------
(***************************************************************************)
(* block_read returns the bytes it was asked for, for every size of a block *)
(* and of a disk.                                                           *)
(***************************************************************************)
EXTENDS BlockRead, SequenceTheorems, TLAPS

\* What the constants are: sizes, and seeks by a whole number of bytes.
ConstantsOK ==
    /\ Sizes \subseteq Nat /\ blksize \in Nat \ {0} /\ MaxLength \in Nat
    /\ Seeks \subseteq [from : {"Start"}, pos : Nat] \cup [from : {"Current", "End"}, pos : Int]

\* What block_read has filled so far: the bytes from the offset on, all on the disk.
Filled ==
    reading # None =>
        /\ reading \in [len : Nat, buf : Seq(Nat)]
        /\ Len(reading.buf) <= reading.len
        /\ Len(reading.buf) > 0 => offset + Len(reading.buf) <= size
        /\ \A i \in 1 .. Len(reading.buf) : reading.buf[i] = offset + i - 1

IInv ==
    /\ size \in Nat /\ offset \in Nat /\ offset <= size
    /\ Filled
    /\ ReadsItsBytes /\ OffsetFollows

\* A place on the disk is a block and an offset in it.
LEMMA BlockAndOffset ==
    ASSUME NEW c \in Nat, NEW b \in Nat \ {0}
    PROVE  /\ c \div b \in Nat /\ c % b \in 0 .. b - 1
           /\ c = (c \div b) * b + (c % b)
  BY SMT

\* A block below the number of whole blocks ends on the disk.
LEMMA BlockOnDisk ==
    ASSUME NEW c \in Nat, NEW s \in Nat, NEW b \in Nat \ {0}, c \div b < s \div b
    PROVE  (c \div b) * b + b <= s
  <1>1. /\ s \div b \in Nat /\ c \div b \in Nat
        /\ s = (s \div b) * b + (s % b) /\ s % b \in 0 .. b - 1
    BY BlockAndOffset
  <1>2. \A m, n \in Nat : m < n => m * b + b <= n * b
    BY SMT
  <1>. QED  BY <1>1, <1>2, SMT

\* The n bytes from the offset o on of the block that starts at base.
Part(base, b, o, n) == SubSeq([j \in 1 .. b |-> base + j - 1], o + 1, o + n)

\* They are the bytes of the disk in order.
LEMMA PartOfBlock ==
    ASSUME NEW base \in Nat, NEW b \in Nat \ {0}, NEW o \in 0 .. b - 1, NEW n \in 1 .. b - o
    PROVE  /\ Part(base, b, o, n) \in Seq(Nat) /\ Len(Part(base, b, o, n)) = n
           /\ \A i \in 1 .. n : Part(base, b, o, n)[i] = base + o + i - 1
  <1>. DEFINE bytes == [j \in 1 .. b |-> base + j - 1]
  <1>1. bytes \in Seq(Nat) /\ Len(bytes) = b
    BY SMT
  <1>2. \A j \in 1 .. b : bytes[j] = base + j - 1
    OBVIOUS
  <1>. HIDE DEF bytes
  <1>3. o + 1 \in 1 .. b + 1 /\ o + n \in o .. b
    BY SMT
  <1>4. SubSeq(bytes, o + 1, o + n) \in Seq(Nat) /\ Len(SubSeq(bytes, o + 1, o + n)) = n
    BY <1>1, <1>3, SMT
  <1>5. \A i \in 1 .. n : SubSeq(bytes, o + 1, o + n)[i] = bytes[o + i]
    BY <1>1, <1>3, SMT
  <1>6. \A i \in 1 .. n : SubSeq(bytes, o + 1, o + n)[i] = base + o + i - 1
    BY <1>2, <1>5, SMT
  <1>. QED  BY <1>4, <1>6 DEF bytes, Part

\* One pass of the loop appends the bytes that follow.
LEMMA NextBlockKeeps == ASSUME ConstantsOK, IInv, NextBlock PROVE IInv'
  <1>. DEFINE buf == reading.buf
              c == offset + Len(buf)
              o == c % blksize
              n == Fewer(reading.len - Len(buf), blksize - o)
              block == c \div blksize
              part == SubSeq(BlockBytes(block), o + 1, o + n)
  <1>1. /\ reading \in [len : Nat, buf : Seq(Nat)] /\ Len(buf) < reading.len /\ Len(buf) \in Nat
        /\ offset \in Nat /\ size \in Nat /\ c \in Nat /\ blksize \in Nat \ {0}
        /\ \A i \in 1 .. Len(buf) : buf[i] = offset + i - 1
    BY DEF NextBlock, IInv, Filled, ConstantsOK
  <1>2. block < size \div blksize /\ reading' = [reading EXCEPT !.buf = buf \o part]
    BY DEF NextBlock
  <1>3. size' = size /\ offset' = offset /\ result' = result
    BY DEF NextBlock
  <1>4. /\ block \in Nat /\ o \in 0 .. blksize - 1 /\ c = block * blksize + o
        /\ block * blksize + blksize <= size
    BY <1>1, <1>2, BlockAndOffset, BlockOnDisk
  <1>5. n \in 1 .. blksize - o /\ Len(buf) + n <= reading.len
    BY <1>1, <1>4, SMT DEF Fewer
  <1>6. block * blksize \in Nat
    BY <1>1, <1>4, SMT
  <1>. HIDE DEF c, o, n, block
  <1>7. part = Part(block * blksize, blksize, o, n)
    BY DEF BlockBytes, Part
  <1>8. /\ part \in Seq(Nat) /\ Len(part) = n
        /\ \A i \in 1 .. n : part[i] = block * blksize + o + i - 1
    <2>. DEFINE base == block * blksize
    <2>1. base \in Nat /\ part = Part(base, blksize, o, n)
      BY <1>6, <1>7
    <2>. HIDE DEF base, part
    <2>2. base \in Nat /\ blksize \in Nat \ {0} /\ o \in 0 .. blksize - 1 /\ n \in 1 .. blksize - o
      BY <1>1, <1>4, <1>5, <2>1
    <2>3. /\ Part(base, blksize, o, n) \in Seq(Nat) /\ Len(Part(base, blksize, o, n)) = n
          /\ \A i \in 1 .. n : Part(base, blksize, o, n)[i] = base + o + i - 1
      BY ONLY <2>2, PartOfBlock
    <2>4. /\ part \in Seq(Nat) /\ Len(part) = n
          /\ \A i \in 1 .. n : part[i] = base + o + i - 1
      BY <2>1, <2>3, Zenon
    <2>. QED  BY <2>4 DEF base
  <1>. HIDE DEF part
  <1>9. Filled'
    <2>1. /\ buf \o part \in Seq(Nat) /\ Len(buf \o part) = Len(buf) + n
          /\ \A i \in 1 .. Len(buf) + n :
                (buf \o part)[i] = IF i <= Len(buf) THEN buf[i] ELSE part[i - Len(buf)]
      <3>1. buf \in Seq(Nat)
        BY <1>1
      <3>. QED  BY <1>8, <3>1, ConcatProperties, Zenon
    <2>2. \A i \in 1 .. Len(buf) + n : (buf \o part)[i] = offset + i - 1
      <3>1. ASSUME NEW i \in 1 .. n PROVE part[i] = c + i - 1
        BY <1>4, <1>8
      <3>. QED  BY <1>1, <1>5, <2>1, <3>1, SMT DEF c
    <2>3. offset + (Len(buf) + n) <= size
      BY <1>1, <1>4, <1>5, <1>6, SMT DEF c
    <2>4. reading' = [len |-> reading.len, buf |-> buf \o part]
      BY <1>1, <1>2
    <2>. QED  BY <1>1, <1>3, <1>5, <2>1, <2>2, <2>3, <2>4 DEF Filled
  <1>10. (ReadsItsBytes /\ OffsetFollows)'
    BY <1>3, Zenon DEF IInv, ReadsItsBytes, OffsetFollows
  <1>. QED  BY <1>3, <1>9, <1>10, Zenon DEF IInv

\* seek stays on the disk.
LEMMA SeekKeeps == ASSUME ConstantsOK, IInv, NEW s \in Seeks, seek(s) PROVE IInv'
  <1>1. offset' \in Nat /\ offset' <= size
    BY SMT DEF ConstantsOK, IInv, seek, Fewer, More
  <1>2. size' = size /\ reading' = None /\ result' = None
    BY DEF seek
  <1>. QED  BY <1>1, <1>2 DEF IInv, Filled, ReadsItsBytes, OffsetFollows

\* An empty buffer is filled as far as it goes.
LEMMA ReadKeeps == ASSUME ConstantsOK, IInv, NEW len \in 0 .. MaxLength, read(len) PROVE IInv'
  <1>1. len \in Nat /\ <<>> \in Seq(Nat) /\ Len(<<>>) = 0
    BY DEF ConstantsOK
  <1>2. Filled'
    BY <1>1, SMT DEF read, Filled, IInv
  <1>. QED  BY <1>2 DEF read, IInv, ReadsItsBytes, OffsetFollows

\* A read that fails leaves the offset alone.
LEMMA ReadFailsKeeps == ASSUME ConstantsOK, IInv, ReadFails PROVE IInv'
  BY DEF ReadFails, IInv, Filled, ReadsItsBytes, OffsetFollows

\* The full buffer is the answer.
LEMMA ReadDoneKeeps == ASSUME ConstantsOK, IInv, ReadDone PROVE IInv'
  <1>1. /\ reading \in [len : Nat, buf : Seq(Nat)] /\ Len(reading.buf) = reading.len
        /\ \A i \in 1 .. Len(reading.buf) : reading.buf[i] = offset + i - 1
        /\ offset \in Nat /\ size \in Nat /\ offset + reading.len <= size
    BY SMT DEF ReadDone, IInv, Filled
  <1>2. reading.buf = [i \in 1 .. reading.len |-> offset + i - 1]
    BY <1>1
  <1>3. /\ result' = [ok |-> TRUE, from |-> offset, buf |-> reading.buf, len |-> reading.len]
        /\ offset' = offset + reading.len /\ reading' = None /\ size' = size
    BY DEF ReadDone
  <1>4. ReadsItsBytes'
    BY <1>2, <1>3 DEF ReadsItsBytes
  <1>5. OffsetFollows' /\ offset' \in Nat /\ offset' <= size'
    BY <1>1, <1>3 DEF OffsetFollows
  <1>. QED  BY <1>1, <1>3, <1>4, <1>5 DEF IInv, Filled

\* For every size of a block and of a disk: a successful read returns the bytes
\* from the offset on, and the offset follows it and stays on the disk.
THEOREM StreamOfBytes == ASSUME ConstantsOK PROVE Spec => [](ReadsItsBytes /\ OffsetFollows)
  <1>1. Init => IInv
    BY SMT DEF ConstantsOK, Init, IInv, Filled, ReadsItsBytes, OffsetFollows
  <1>2. IInv /\ [Next]_vars => IInv'
    <2>1. CASE UNCHANGED vars
      BY <2>1 DEF vars, IInv, Filled, ReadsItsBytes, OffsetFollows
    <2>. QED  BY <2>1, SeekKeeps, ReadKeeps, NextBlockKeeps, ReadFailsKeeps, ReadDoneKeeps DEF Next
  <1>3. IInv => ReadsItsBytes /\ OffsetFollows
    BY DEF IInv
  <1>. QED  BY <1>1, <1>2, <1>3, PTL DEF Spec
=============================================================================
