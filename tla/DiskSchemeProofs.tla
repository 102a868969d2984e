-------------------------- MODULE DiskSchemeProofs --------------------------
(***************************************************************************)
(* The users of a disk are kept apart: proofs about DiskScheme for every    *)
(* number of disks, partitions, blocks and handles.                         *)
(***************************************************************************)
EXTENDS DiskScheme, TLAPS

\* What the constants are: partition tables hold extents, and None is neither a
\* number nor an extent.
ConstantsOK ==
    /\ Blocks \in Nat /\ MaxBlocks \in Nat /\ MaxId \in Nat
    /\ None \notin Nat /\ None \notin Extent
    /\ Tables \subseteq [Parts -> Extent \cup {None}]

TablesOK == pt \in [Disks -> [Parts -> Extent \cup {None}]]

\* A block was last written through an open handle only if that handle stands for
\* it, while transfers keep within their partitions.
Written ==
    ~crossed => \A i \in Disks, b \in LBAs :
        writer[i][b] \in DOMAIN handles => Covers(handles[writer[i][b]], i, b)

IInv == TypeOK /\ TablesOK /\ Disjoint /\ Exclusive /\ Written

\* Isolation is a consequence: the writer of a block and the handle that stands
\* for it both cover it, so the locks make them one.
LEMMA IInvIsolation == ConstantsOK /\ IInv => Isolation
  <1>. SUFFICES ASSUME ConstantsOK, IInv, ~crossed,
                       NEW id \in DOMAIN handles, NEW i \in Disks, NEW b \in LBAs,
                       Covers(handles[id], i, b), writer[i][b] \in DOMAIN handles
                PROVE  writer[i][b] = id
    BY DEF Isolation
  <1>1. Covers(handles[writer[i][b]], i, b)
    BY DEF IInv, Written
  <1>. QED  BY <1>1 DEF IInv, Exclusive

\* The first states satisfy the invariant: no handle is open yet.
LEMMA InitIInv == ConstantsOK /\ Init => IInv
  <1>. SUFFICES ASSUME ConstantsOK, Init PROVE IInv
    OBVIOUS
  <1>1. handles = [id \in {} |-> None] /\ DOMAIN handles = {}
    BY DEF Init
  <1>2. TypeOK
    <2>1. writer \in [Disks -> [LBAs -> (0 .. next_id - 1) \cup {None}]]
      BY DEF Init
    <2>2. next_id \in Nat /\ crossed \in BOOLEAN
      BY DEF Init
    <2>3. DOMAIN handles \subseteq 0 .. next_id - 1
      BY <1>1
    <2>. QED  BY <1>1, <2>1, <2>2, <2>3, Zenon DEF TypeOK
  <1>3. TablesOK
    BY SMT DEF ConstantsOK, Init, TablesOK
  <1>4. Disjoint /\ Exclusive /\ Written
    BY <1>1 DEF Init, Exclusive, Written
  <1>. QED  BY <1>2, <1>3, <1>4 DEF IInv

\* A new handle that covers no block of an open one keeps the invariant.
LEMMA InsertKeeps ==
    ASSUME ConstantsOK, IInv, NEW h, Insert(h),
           \/ h = List
           \/ \E i \in Disks : h = DiskHandle(i)
           \/ \E i \in Disks, p \in Parts : pt[i][p] # None /\ h = PartitionHandle(i, p),
           \A id \in DOMAIN handles, i \in Disks, b \in LBAs :
               ~(Covers(handles[id], i, b) /\ Covers(h, i, b))
    PROVE  IInv'
  <1>0. next_id \in Nat /\ DOMAIN handles \subseteq 0 .. next_id - 1 /\ next_id \notin DOMAIN handles
    BY SMT DEF IInv, TypeOK
  <1>1. /\ DOMAIN handles' = DOMAIN handles \cup {next_id}
        /\ handles'[next_id] = h
        /\ \A id \in DOMAIN handles : handles'[id] = handles[id]
        /\ next_id' = next_id + 1 /\ pt' = pt /\ writer' = writer /\ crossed' = crossed
    BY <1>0 DEF Insert
  <1>3. TypeOK'
    <2>1. writer' \in [Disks -> [LBAs -> (0 .. next_id' - 1) \cup {None}]]
      <3>1. 0 .. next_id - 1 \subseteq 0 .. next_id' - 1
        BY <1>0, <1>1, SMT
      <3>. QED  BY <1>1, <3>1 DEF IInv, TypeOK
    <2>2. DOMAIN handles' \subseteq 0 .. next_id' - 1 /\ next_id' \in Nat
      BY <1>0, <1>1, SMT
    <2>3. ASSUME NEW id \in DOMAIN handles'
          PROVE  \/ handles'[id] = List
                 \/ \E i \in Disks : handles'[id] = DiskHandle(i)
                 \/ \E i \in Disks, p \in Parts : pt'[i][p] # None /\ handles'[id] = PartitionHandle(i, p)
      BY <1>1 DEF IInv, TypeOK
    <2>. QED  BY <1>1, <2>1, <2>2, <2>3 DEF IInv, TypeOK, List, DiskHandle, PartitionHandle
  <1>4. Exclusive'
    BY SMTT(30), <1>1 DEF IInv, Exclusive, Covers, InPartition, LBAs
  <1>5. Written'
    <2>1. \A i \in Disks, b \in LBAs : writer[i][b] # next_id
      BY <1>0, SMT DEF IInv, TypeOK, ConstantsOK
    <2>2. SUFFICES ASSUME ~crossed, NEW i \in Disks, NEW b \in LBAs, writer[i][b] \in DOMAIN handles'
                   PROVE  Covers(handles[writer[i][b]], i, b)'
      BY <1>1, Zenon DEF Written, LBAs
    <2>3. writer[i][b] \in DOMAIN handles
      BY <1>1, <2>1, <2>2
    <2>4. Covers(handles[writer[i][b]], i, b)
      BY <2>2, <2>3, Zenon DEF IInv, Written
    <2>. QED  BY <1>1, <2>3, <2>4, Zenon DEF Covers, InPartition
  <1>6. (TablesOK /\ Disjoint)'
    BY <1>1 DEF IInv, TablesOK, Disjoint, InPartition, LBAs
  <1>. QED  BY <1>3, <1>4, <1>5, <1>6 DEF IInv

\* check_locks lets a disk be opened only when none of it is open,
LEMMA OpenDiskKeeps == ASSUME ConstantsOK, IInv, NEW i \in Disks, OpenDisk(i) PROVE IInv'
  <1>1. \A id \in DOMAIN handles, j \in Disks, b \in LBAs :
           ~(Covers(handles[id], j, b) /\ Covers(DiskHandle(i), j, b))
    BY DEF OpenDisk, check_locks, Covers, DiskHandle
  <1>. QED  BY <1>1, InsertKeeps DEF OpenDisk

\* and a partition only when neither it nor its disk is; the others are disjoint.
LEMMA OpenPartitionKeeps ==
    ASSUME ConstantsOK, IInv, NEW i \in Disks, NEW p \in Parts, OpenPartition(i, p) PROVE IInv'
  <1>1. SUFFICES ASSUME NEW id \in DOMAIN handles, NEW b \in LBAs,
                        Covers(handles[id], i, b), Covers(PartitionHandle(i, p), i, b)
                 PROVE  FALSE
    <2>1. \A id \in DOMAIN handles, j \in Disks, b \in LBAs :
             ~(Covers(handles[id], j, b) /\ Covers(PartitionHandle(i, p), j, b))
      BY <1>1 DEF Covers, PartitionHandle
    <2>. QED  BY <2>1, InsertKeeps DEF OpenPartition
  <1>2. handles[id].kind = "partition" /\ handles[id].part # p
    BY <1>1 DEF OpenPartition, check_locks, Covers
  <1>3. handles[id].part \in Parts
    BY <1>1, <1>2 DEF IInv, TypeOK, List, DiskHandle, PartitionHandle
  <1>4. InPartition(i, handles[id].part, b) /\ InPartition(i, p, b)
    BY <1>1, <1>2 DEF Covers, PartitionHandle
  <1>. QED  BY <1>1, <1>2, <1>3, <1>4 DEF IInv, Disjoint

\* The directory stands for no block.
LEMMA OpenListKeeps == ASSUME ConstantsOK, IInv, OpenList PROVE IInv'
  <1>1. \A i \in Disks, b \in LBAs : ~Covers(List, i, b)
    BY DEF Covers, List
  <1>. QED  BY <1>1, InsertKeeps DEF OpenList

\* A handle less conflicts with less.
LEMMA CloseKeeps == ASSUME ConstantsOK, IInv, NEW id \in DOMAIN handles, close(id) PROVE IInv'
  <1>1. /\ DOMAIN handles' = DOMAIN handles \ {id}
        /\ \A x \in DOMAIN handles' : handles'[x] = handles[x]
        /\ next_id' = next_id /\ pt' = pt /\ writer' = writer /\ crossed' = crossed
    BY DEF close
  <1>2. TypeOK'
    BY <1>1 DEF IInv, TypeOK, List, DiskHandle, PartitionHandle, LBAs
  <1>3. Exclusive'
    BY <1>1 DEF IInv, Exclusive, Covers, InPartition, LBAs
  <1>4. Written'
    <2>1. SUFFICES ASSUME ~crossed, NEW i \in Disks, NEW b \in LBAs, writer[i][b] \in DOMAIN handles'
                   PROVE  Covers(handles[writer[i][b]], i, b)'
      BY <1>1, Zenon DEF Written, LBAs
    <2>2. writer[i][b] \in DOMAIN handles /\ Covers(handles[writer[i][b]], i, b)
      BY <1>1, <2>1 DEF IInv, Written
    <2>. QED  BY <1>1, <2>1, <2>2, Zenon DEF Covers, InPartition
  <1>5. (TablesOK /\ Disjoint)'
    BY <1>1 DEF IInv, TablesOK, Disjoint, InPartition, LBAs
  <1>. QED  BY <1>2, <1>3, <1>4, <1>5 DEF IInv

\* A write that keeps within its partition marks blocks its handle stands for.
LEMMA TransferKeeps ==
    ASSUME ConstantsOK, IInv, NEW id \in DOMAIN handles, NEW rel \in LBAs, NEW n \in 1 .. MaxBlocks,
           NEW w \in BOOLEAN, Transfer(id, rel, n, w)
    PROVE  IInv'
  <1>. DEFINE h == handles[id]
              e == pt[h.disk][h.part]
              first == IF h.kind = "partition" THEN e.start_lba + rel ELSE rel
  <1>1. PICK k \in 0 .. n :
          /\ writer' = [writer EXCEPT ![h.disk] = [b \in LBAs |->
                          IF w /\ first <= b /\ b < first + k THEN id ELSE writer[h.disk][b]]]
          /\ crossed' = (crossed \/ (h.kind = "partition" /\ rel + n > e.size))
    BY DEF Transfer
  <1>2. next_id' = next_id /\ pt' = pt /\ handles' = handles /\ h.kind # "list"
    BY DEF Transfer
  <1>3. h.disk \in Disks
    BY <1>2 DEF IInv, TypeOK, List, DiskHandle, PartitionHandle
  <1>4. \A i \in Disks, b \in LBAs :
          \/ writer'[i][b] = writer[i][b]
          \/ w /\ writer'[i][b] = id /\ i = h.disk /\ first <= b /\ b < first + k
    BY <1>1, <1>3, Zenon DEF IInv, TypeOK
  <1>5. writer' \in [Disks -> [LBAs -> (0 .. next_id - 1) \cup {None}]]
    <2>1. id \in 0 .. next_id - 1
      BY DEF IInv, TypeOK
    <2>2. \A i \in Disks, b \in LBAs : writer[i][b] \in (0 .. next_id - 1) \cup {None}
      BY DEF IInv, TypeOK
    <2>3. [b \in LBAs |-> IF w /\ first <= b /\ b < first + k THEN id ELSE writer[h.disk][b]]
            \in [LBAs -> (0 .. next_id - 1) \cup {None}]
      BY <1>3, <2>1, <2>2, Zenon
    <2>. QED  BY <1>1, <1>3, <2>3, Zenon DEF IInv, TypeOK
  <1>6. crossed' \in BOOLEAN
    BY <1>1
  <1>7. TypeOK'
    BY <1>2, <1>5, <1>6, Zenon DEF IInv, TypeOK, List, DiskHandle, PartitionHandle, LBAs
  <1>8. Exclusive' /\ TablesOK' /\ Disjoint'
    BY SMTT(30), <1>2 DEF IInv, Exclusive, TablesOK, Disjoint, Covers, InPartition, LBAs
  <1>9. Written'
    <2>1. SUFFICES ASSUME ~crossed', NEW i \in Disks, NEW b \in LBAs, writer'[i][b] \in DOMAIN handles
                   PROVE  Covers(handles[writer'[i][b]], i, b)
      BY <1>2, ZenonT(40) DEF Written, Covers, InPartition, LBAs
    <2>2. ~crossed /\ ~(h.kind = "partition" /\ rel + n > e.size)
      BY <1>1, <2>1
    <2>3. CASE writer'[i][b] = writer[i][b]
      BY <2>1, <2>2, <2>3, Zenon DEF IInv, Written
    <2>4. CASE writer'[i][b] = id /\ i = h.disk /\ first <= b /\ b < first + k
      <3>1. CASE h.kind = "partition"
        <4>1. h.part \in Parts /\ pt[h.disk][h.part] # None
          BY <3>1 DEF IInv, TypeOK, List, DiskHandle, PartitionHandle
        <4>2. e \in Extent
          BY <1>3, <4>1 DEF IInv, TablesOK
        <4>3. e.start_lba <= b /\ b < e.start_lba + e.size
          BY <2>2, <2>4, <3>1, <4>2, SMT DEF Extent, LBAs, ConstantsOK
        <4>. QED  BY <1>2, <2>4, <3>1, <4>1, <4>3 DEF Covers, InPartition
      <3>2. CASE h.kind # "partition"
        BY <1>2, <2>4, <3>2 DEF Covers
      <3>. QED  BY <3>1, <3>2
    <2>. QED  BY <1>4, <2>3, <2>4
  <1>. QED  BY <1>7, <1>8, <1>9 DEF IInv

\* Every step keeps the invariant.
LEMMA NextIInv == ConstantsOK /\ IInv /\ [Next]_vars => IInv'
  <1>. SUFFICES ASSUME ConstantsOK, IInv, [Next]_vars PROVE IInv'
    OBVIOUS
  <1>1. CASE OpenList
    BY <1>1, OpenListKeeps
  <1>2. ASSUME NEW i \in Disks, OpenDisk(i) PROVE IInv'
    BY <1>2, OpenDiskKeeps
  <1>3. ASSUME NEW i \in Disks, NEW p \in Parts, OpenPartition(i, p) PROVE IInv'
    BY <1>3, OpenPartitionKeeps
  <1>4. ASSUME NEW id \in DOMAIN handles, close(id) PROVE IInv'
    BY <1>4, CloseKeeps
  <1>5. ASSUME NEW id \in DOMAIN handles, NEW rel \in LBAs, NEW n \in 1 .. MaxBlocks,
               read(id, rel, n) \/ write(id, rel, n)
        PROVE  IInv'
    BY <1>5, TransferKeeps DEF read, write
  <1>6. CASE UNCHANGED vars
    <2>1. /\ pt' = pt /\ handles' = handles /\ next_id' = next_id
          /\ writer' = writer /\ crossed' = crossed
      BY <1>6 DEF vars
    <2>2. TypeOK'
      BY <2>1 DEF IInv, TypeOK, PartitionHandle
    <2>3. TablesOK' /\ Disjoint'
      BY <2>1, Zenon DEF IInv, TablesOK, Disjoint, InPartition
    <2>4. Exclusive'
      BY <2>1 DEF IInv, Exclusive, Covers, InPartition
    <2>5. Written'
      BY <2>1 DEF IInv, Written, Covers, InPartition
    <2>. QED  BY <2>2, <2>3, <2>4, <2>5 DEF IInv
  <1>. QED  BY <1>1, <1>2, <1>3, <1>4, <1>5, <1>6 DEF Next

\* For every number of disks, partitions and handles: no block is open under two
\* handles (check_locks), and a block an open handle stands for was written
\* through no other open handle while transfers keep within their partitions.
THEOREM UsersApart == ASSUME ConstantsOK PROVE Spec => [](Exclusive /\ Isolation)
  <1>1. Init => IInv
    BY InitIInv
  <1>2. IInv /\ [Next]_vars => IInv'
    BY NextIInv
  <1>3. IInv => Exclusive /\ Isolation
    BY IInvIsolation DEF IInv
  <1>. QED  BY <1>1, <1>2, <1>3, PTL DEF Spec

=============================================================================
