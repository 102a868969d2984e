---------------------------- MODULE BlockDevices ----------------------------
(***************************************************************************)
(* The block devices, one at a time: the initial state says which driver is *)
(* looked at, and only its part moves.  Below are the disks of ahcid, ided  *)
(* and bcm2835-sdhcid, above them the stream in which the partition table   *)
(* is read and the scheme that each driver serves.  virtio-blkd and lived   *)
(* have schemes of their own.  The drivers share                            *)
(* nothing but what they have alike: a request, its buffer and its answer.   *)
(***************************************************************************)
EXTENDS Integers, Sequences

CONSTANTS Sectors, MaxLength, Starts, MaxCalls, None,
          MaxSectors, BlkLen, CommandSlots,       \* ahcid
          Chunk,                                  \* ided
          BlockLength,                            \* bcm2835-sdhcid
          Sizes, blksize, MaxRead, Seeks,         \* driver-block
          SectorLen, BlkSizes, Capacity, PartTables, Spans, BlkCalls,    \* virtio-blkd
          PageSize, MemoryPages, Images, Offsets,                        \* lived
          Disks, Parts, Tables, Blocks, MaxBlocks, MaxId, CopyIds

Schemes == {"ahcid_scheme", "ided_scheme", "sdhcid_scheme", "nvmed_scheme"}

VARIABLES using,    \* the part that is looked at
          calls, disk, call, answer, buf, pc,
          kind, request_opt, port, table, work, hba_is,
          dma, count, sector, bm, drive, status, late,
          scr, init, card, cnt,
          size, offset, reading, result,
          pt, handles, next_id, writer, crossed,
          blk, queue, live

shared == <<calls, disk, call, answer, buf, pc>>
ahci == <<kind, request_opt, port, table, work, hba_is>>
ide == <<dma, count, sector, bm, drive, status, late>>
sd == <<scr, init, card, cnt>>
stream == <<size, offset, reading, result>>
scheme == <<pt, handles, next_id, writer, crossed>>
own == <<blk, queue, live>>
vars == <<using, shared, ahci, ide, sd, stream, scheme, own>>

Ahci == INSTANCE AhciDisk
Ide == INSTANCE IdeDisk
Sd == INSTANCE SdHost
Stream == INSTANCE BlockRead WITH MaxLength <- MaxRead
AhciScheme == INSTANCE DiskScheme
IdeScheme == INSTANCE DiskScheme WITH MaxId <- CopyIds
SdScheme == INSTANCE DiskScheme WITH MaxId <- CopyIds
NvmeScheme == INSTANCE DiskScheme WITH MaxId <- CopyIds
Blk == INSTANCE VirtioBlk WITH MaxCalls <- BlkCalls
Live == INSTANCE LiveDisk

-----------------------------------------------------------------------------
Unused == "none"
NoAhci == kind = Unused /\ request_opt = None /\ port = None /\ table = None /\ work = None /\ hba_is = None
NoIde == dma = Unused /\ count = None /\ sector = None /\ bm = None /\ drive = None /\ status = None /\ late = None
NoSd == scr = None /\ init = None /\ card = None /\ cnt = None
NoStream == size = None /\ offset = None /\ reading = None /\ result = None
NoScheme == pt = None /\ handles = None /\ next_id = None /\ writer = None /\ crossed = None
NoBlk == blk = None /\ queue = None
NoLive == live = None
NoOwn == NoBlk /\ NoLive
NoDisk == calls = 0 /\ disk = None /\ call = None /\ answer = None /\ buf = None /\ pc = None

Init ==
    \/ using = "ahcid" /\ Ahci!Init /\ pc = None /\ NoIde /\ NoSd /\ NoStream /\ NoScheme /\ NoOwn
    \/ using = "ided" /\ Ide!Init /\ NoAhci /\ NoSd /\ NoStream /\ NoScheme /\ NoOwn
    \/ using = "sdhcid" /\ Sd!Init /\ buf = None /\ NoAhci /\ NoIde /\ NoStream /\ NoScheme /\ NoOwn
    \/ using = "driver_block" /\ Stream!Init /\ NoDisk /\ NoAhci /\ NoIde /\ NoSd /\ NoScheme /\ NoOwn
    \/ using \in Schemes /\ AhciScheme!Init /\ NoDisk /\ NoAhci /\ NoIde /\ NoSd /\ NoStream /\ NoOwn
    \/ /\ using = "virtio_blkd" /\ Blk!Init /\ buf = None /\ pc = None /\ NoAhci /\ NoIde /\ NoSd /\ NoStream
       /\ pt = None /\ next_id = None /\ writer = None /\ crossed = None /\ NoLive
    \/ /\ using = "lived" /\ Live!Init /\ buf = None /\ pc = None /\ NoAhci /\ NoIde /\ NoSd /\ NoStream
       /\ NoScheme /\ NoBlk

InAhci == using = "ahcid" /\ UNCHANGED <<using, pc, ide, sd, stream, scheme, own>>
InIde == using = "ided" /\ UNCHANGED <<using, ahci, sd, stream, scheme, own>>
InSd == using = "sdhcid" /\ UNCHANGED <<using, buf, ahci, ide, stream, scheme, own>>
InScheme(u) == using = u /\ UNCHANGED <<using, shared, ahci, ide, sd, stream, own>>
InBlk == /\ using = "virtio_blkd"
         /\ UNCHANGED <<using, buf, pc, ahci, ide, sd, stream, pt, next_id, writer, crossed, live>>
InLive == using = "lived" /\ UNCHANGED <<using, buf, pc, ahci, ide, sd, stream, scheme, blk, queue>>

AhciStep == InAhci /\ Ahci!Next
IdeStep == InIde /\ Ide!Next
SdStep == InSd /\ Sd!Next
StreamStep == using = "driver_block" /\ Stream!Next /\ UNCHANGED <<using, shared, ahci, ide, sd, scheme, own>>
AhciSchemeStep == InScheme("ahcid_scheme") /\ AhciScheme!Next
IdeSchemeStep == InScheme("ided_scheme") /\ IdeScheme!Next
SdSchemeStep == InScheme("sdhcid_scheme") /\ SdScheme!Next
NvmeSchemeStep == InScheme("nvmed_scheme") /\ NvmeScheme!Next
BlkStep == InBlk /\ Blk!Next
LiveStep == InLive /\ Live!Next

Next == \/ AhciStep \/ IdeStep \/ SdStep \/ StreamStep
        \/ AhciSchemeStep \/ IdeSchemeStep \/ SdSchemeStep \/ NvmeSchemeStep
        \/ BlkStep \/ LiveStep

\* The thread of each driver runs.  ahcid polls without a limit and needs an adapter
\* that ends its commands, virtio-blkd waits for its device; the other two have limits, so
\* their drives may be silent.
Fairness ==
    /\ WF_vars(InAhci /\ Ahci!Driver)
    /\ WF_vars(InAhci /\ Ahci!Adapter)
    /\ WF_vars(InIde /\ Ide!Driver)
    /\ WF_vars(InSd /\ Sd!Driver)
    /\ WF_vars(InBlk /\ Blk!Driver)
    /\ WF_vars(InBlk /\ Blk!Device)
    /\ WF_vars(InLive /\ Live!Handle)

Spec == Init /\ [][Next]_vars /\ Fairness

-----------------------------------------------------------------------------
\* When a transfer is answered with success, the disk and the caller's buffer agree
\* on every sector of it, however many commands it took: of ahcid always, but for a
\* packet device only below the size of its buffer; of ided while no command has
\* outlived its call; of bcm2835-sdhcid, with every kind of card, once init came to
\* its end; of virtio-blkd and lived, whose offsets are bytes, from the sector, or the
\* byte, of the offset on, if blocks are sectors and the image starts with a page.
Transferred ==
    /\ using = "ahcid" => Ahci!Transferred
    /\ using = "ided" => Ide!Transferred
    /\ using = "sdhcid" => Sd!Transferred
    /\ using = "virtio_blkd" => Blk!Transferred
    /\ using = "lived" => Live!Transferred

\* The one buffer of an AHCI port holds the sectors of the write the adapter
\* executes, for as long as it executes it.
BufferInStep == using = "ahcid" => Ahci!BufferInStep

\* After a transfer that succeeded an SD card is ready for the next: it is told to
\* stop exactly when it does not stop by itself (CMD_STOP_TRANS).
SdReadyForNext == using = "sdhcid" => Sd!ReadyForNext

\* A step changes a disk only where the write being served says, and only the
\* drive it is for (device_select); lived changes no memory but the pages of its image.
OnlyTheSectorsAsked ==
    [][/\ using = "ahcid" => Ahci!OnlyTheSectorsAsked
       /\ using = "ided" => Ide!OnlyTheSectorsAsked
       /\ using = "sdhcid" => Sd!OnlyTheSectorsAsked
       /\ using = "virtio_blkd" => Blk!OnlyTheSectorsAsked
       /\ using = "lived" => Live!OnlyTheSectorsAsked]_vars

\* Every read and write returns: from ahcid since the adapter ends its commands,
\* from the others even when the drive never answers.
EveryCallReturns == call # None ~> call = None

\* A read of the stream returns the bytes of the disk from the offset on, wherever
\* it starts and ends in a block; the offset moves by what was read, not at all
\* after a failure, and never leaves the disk (block_read and Device::read).
StreamOfBytes == using = "driver_block" => Stream!ReadsItsBytes /\ Stream!OffsetFollows

\* No block of a disk is open under two handles at a time (check_locks), and while
\* transfers keep within their partitions, a block that an open handle stands for
\* was written through no other open handle (xopen with read and write).
UsersApart == using \in Schemes => AhciScheme!Exclusive /\ AhciScheme!Isolation

\* "validate that we're actually reading within the bounds of the partition"
\* (read and write of ahcid): every block of a transfer lies in its partition.
WithinBounds == using \in Schemes => AhciScheme!WithinBounds
=============================================================================
