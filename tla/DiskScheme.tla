----------------------------- MODULE DiskScheme -----------------------------
(***************************************************************************)
(* The scheme that ahcid, ided, bcm2835-sdhcid and nvmed serve, each with   *)
(* its own copy of the same code: a directory, a file for every disk and    *)
(* one for every partition.  check_locks refuses to open what is already    *)
(* open under another handle.                                               *)
(***************************************************************************)
EXTENDS Naturals

CONSTANTS Disks,      \* the disks of the driver
          Parts,      \* the indices of a partition table
          Tables,     \* partition tables: [Parts -> [start_lba, size]], or None
          Blocks,     \* the number of blocks of a disk
          MaxBlocks,  \* the most blocks a request asks for
          MaxId,      \* how many handles are made
          None

VARIABLES pt,         \* DiskWrapper::pt of each disk
          handles,    \* the open handles
          next_id,
          writer,     \* the handle each block was last written through
          crossed     \* did a transfer reach beyond its partition

vars == <<pt, handles, next_id, writer, crossed>>

LBAs == 0 .. Blocks - 1
List == [kind |-> "list", disk |-> None, part |-> None]
DiskHandle(i) == [kind |-> "disk", disk |-> i, part |-> None]
PartitionHandle(i, p) == [kind |-> "partition", disk |-> i, part |-> p]
Extent == [start_lba : Nat, size : Nat]

\* The block b of disk i belongs to partition p.
InPartition(i, p, b) ==
    pt[i][p] # None /\ pt[i][p].start_lba <= b /\ b < pt[i][p].start_lba + pt[i][p].size

\* A handle stands for the block b of disk i.
Covers(h, i, b) ==
    h.kind # "list" /\ h.disk = i /\ (h.kind = "partition" => InPartition(i, h.part, b))

\* No open handle conflicts with a disk (p is None) or with its partition p.
check_locks_SameKind(i, p) ==
    \A id \in DOMAIN handles :
        handles[id].kind # "list" /\ handles[id].disk = i => handles[id].part # p

check_locks(i, p) ==
    \A id \in DOMAIN handles :
        handles[id].kind # "list" /\ handles[id].disk = i =>
            handles[id].kind = "partition" /\ p # None /\ handles[id].part # p

-----------------------------------------------------------------------------
Insert(h) ==
    /\ next_id < MaxId
    /\ handles' = [id \in DOMAIN handles \cup {next_id} |-> IF id = next_id THEN h ELSE handles[id]]
    /\ next_id' = next_id + 1
    /\ UNCHANGED <<pt, writer, crossed>>

\* xopen of the directory, of a disk and of a partition; what fails changes nothing.
OpenList == Insert(List)

OpenDisk(i) ==
    /\ check_locks(i, None)
    /\ Insert(DiskHandle(i))

OpenPartition(i, p) ==
    /\ pt[i][p] # None
    /\ check_locks(i, p)
    /\ Insert(PartitionHandle(i, p))

\* A read or write of n blocks from the block rel of a handle.  Only the first
\* block is compared with the size of a partition.  The disk moves as many of the
\* blocks as it has; a failure may come after any of them.
Transfer(id, rel, n, write) ==
    LET h == handles[id]
        i == h.disk
        e == pt[i][h.part]
    IN  /\ id \in DOMAIN handles /\ h.kind # "list"
        /\ h.kind = "partition" => rel < e.size
        /\ LET first == IF h.kind = "partition" THEN e.start_lba + rel ELSE rel
           IN  \E k \in 0 .. n :
                 /\ first + k <= Blocks
                 /\ writer' = [writer EXCEPT ![i] = [b \in LBAs |->
                                 IF write /\ first <= b /\ b < first + k THEN id ELSE @[b]]]
                 /\ crossed' = (crossed \/ (h.kind = "partition" /\ rel + n > e.size))
        /\ UNCHANGED <<pt, handles, next_id>>

read(id, rel, n) == Transfer(id, rel, n, FALSE)
write(id, rel, n) == Transfer(id, rel, n, TRUE)

close(id) ==
    /\ id \in DOMAIN handles
    /\ handles' = [x \in DOMAIN handles \ {id} |-> handles[x]]
    /\ UNCHANGED <<pt, next_id, writer, crossed>>

-----------------------------------------------------------------------------
\* Partitions of a table are disjoint (partitionlib reads what the disk holds).
Disjoint ==
    \A i \in Disks : \A p, q \in Parts : \A b \in LBAs :
        InPartition(i, p, b) /\ InPartition(i, q, b) => p = q

Init ==
    /\ pt \in [Disks -> Tables]
    /\ Disjoint
    /\ handles = [id \in {} |-> None] /\ next_id = 0
    /\ crossed = FALSE
    /\ writer = [i \in Disks |-> [b \in LBAs |-> None]]

Next ==
    \/ OpenList
    \/ \E i \in Disks : OpenDisk(i)
    \/ \E i \in Disks, p \in Parts : OpenPartition(i, p)
    \/ \E id \in DOMAIN handles : close(id)
    \/ \E id \in DOMAIN handles, rel \in LBAs, n \in 1 .. MaxBlocks : read(id, rel, n) \/ write(id, rel, n)

Spec == Init /\ [][Next]_vars

-----------------------------------------------------------------------------
\* Handles are numbered below next_id, and name disks and partitions that exist.
TypeOK ==
    /\ next_id \in Nat
    /\ DOMAIN handles \subseteq 0 .. next_id - 1
    /\ \A id \in DOMAIN handles :
          \/ handles[id] = List
          \/ \E i \in Disks : handles[id] = DiskHandle(i)
          \/ \E i \in Disks, p \in Parts : pt[i][p] # None /\ handles[id] = PartitionHandle(i, p)
    /\ writer \in [Disks -> [LBAs -> (0 .. next_id - 1) \cup {None}]]
    /\ crossed \in BOOLEAN

\* No block of a disk is open under two handles at a time (check_locks).
Exclusive ==
    \A x, y \in DOMAIN handles : \A i \in Disks, b \in LBAs :
        Covers(handles[x], i, b) /\ Covers(handles[y], i, b) => x = y

\* While transfers keep within their partitions, a block that an open handle
\* stands for was written through no other open handle: the locks of xopen and the
\* offsets of read and write together keep the users of a disk apart.
Isolation ==
    ~crossed => \A id \in DOMAIN handles : \A i \in Disks, b \in LBAs :
        Covers(handles[id], i, b) /\ writer[i][b] \in DOMAIN handles => writer[i][b] = id

\* "validate that we're actually reading within the bounds of the partition"
\* (read and write of ahcid): every block of a transfer lies in its partition.
WithinBounds == ~crossed
=============================================================================
