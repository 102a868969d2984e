----------------------------- MODULE VirtioBlk -----------------------------
(***************************************************************************)
(* virtio-blkd: one thread takes the calls of its scheme, sends a request   *)
(* for each transfer and waits for it.  Offsets are in bytes, the device     *)
(* counts sectors of 512 bytes.  What the code asserts, unwraps or has yet   *)
(* to do ends the daemon, and with it the call.                             *)
(***************************************************************************)
EXTENDS Naturals, Sequences

CONSTANTS SectorLen,     \* bytes of a sector, 512
          BlkSizes,      \* block sizes devices report
          Capacity,      \* bytes of the disk
          PartTables,    \* partition tables: sequences of [start_lba, size]; empty without one
          Spans,         \* offsets and lengths of transfers, in bytes
          MaxCalls,      \* calls that are made
          None

VARIABLES calls,
          disk,          \* the bytes of the disk
          call, answer,  \* the call that is served, and the last transfer that succeeded
          blk,           \* block_size, part_table, and whether the daemon runs
          handles,       \* by next_id
          queue          \* the request the device has

vars == <<calls, disk, call, answer, blk, handles, queue>>

Bytes == 0 .. Capacity - 1

Init ==
    /\ calls = 0 /\ call = None /\ answer = None /\ queue = None
    /\ disk = [b \in Bytes |-> b]
    /\ blk \in [block_size : BlkSizes, part_table : PartTables, up : {TRUE}]
    /\ handles = <<>>

-----------------------------------------------------------------------------
Transfers == [op : {"read", "write"}, id : DOMAIN handles, offset : Spans, length : Spans \ {0}]
Calls == [op : {"open"}, path : {<<"0p", n>> : n \in 0 .. 1}]
         \cup [op : {"open"}, path : {<<p>> : p \in {"list", "list directory", "0", "1", "0p", "0px"}}]
         \cup [op : {"close", "fstat", "fsize", "fpath"}, id : DOMAIN handles]
         \cup Transfers

Submit(c) ==
    /\ blk.up /\ call = None /\ calls < MaxCalls
    /\ calls' = calls + 1 /\ call' = c /\ answer' = None
    /\ UNCHANGED <<disk, blk, handles, queue>>

Panic == blk' = [blk EXCEPT !.up = FALSE] /\ call' = None /\ UNCHANGED handles
Fails == call' = None /\ UNCHANGED <<blk, handles>>
Inserts(h) == call' = None /\ handles' = Append(handles, h) /\ UNCHANGED blk

\* xopen.  A partition must exist, a disk be the first.
Open(path) ==
    CASE path = <<"list directory">> -> Inserts([kind |-> "list"])
      [] path \in {<<"list">>, <<"0p">>} -> Fails
      [] path = <<"0">> -> Inserts([kind |-> "disk"])
      [] path \in {<<"1">>, <<"0px">>} -> Panic
      [] OTHER -> IF path[2] < Len(blk.part_table) THEN Inserts([kind |-> "partition", number |-> path[2] + 1])
                  ELSE Panic

\* Where a transfer starts on the disk, in sectors.
Sector(h, offset) ==
    IF h.kind = "partition" THEN blk.part_table[h.number].start_lba + (offset \div SectorLen)
    ELSE offset \div blk.block_size

Other(c) ==
    LET h == handles[c.id]
    IN CASE c.op = "fpath" -> Panic
         [] h.kind = "closed" -> Fails
         [] c.op = "close" -> call' = None /\ handles' = [handles EXCEPT ![c.id] = [kind |-> "closed"]] /\ UNCHANGED blk
         [] c.op = "fstat" /\ h.kind # "list" -> Panic
         [] c.op = "write" /\ h.kind # "disk" -> Panic
         [] OTHER -> Fails        \* fsize, and fstat and read of the list, return

Sends(c) == c.op \in {"read", "write"} /\ handles[c.id].kind \in (IF c.op = "read" THEN {"disk", "partition"} ELSE {"disk"})

Handle ==
    /\ call # None /\ queue = None
    /\ IF call.op = "open" THEN Open(call.path) /\ UNCHANGED queue
       ELSE IF Sends(call)
       THEN /\ queue' = [sector |-> Sector(handles[call.id], call.offset), done |-> FALSE]
            /\ UNCHANGED <<call, blk, handles>>
       ELSE Other(call) /\ UNCHANGED queue
    /\ UNCHANGED <<calls, disk, answer>>

\* The device executes whole sectors of the disk, or answers with an error.
Device ==
    /\ queue # None /\ ~queue.done
    /\ LET from == queue.sector * SectorLen
           good == call.length % SectorLen = 0 /\ from + call.length <= Capacity
       IN /\ queue' = [sector |-> queue.sector, done |-> TRUE, good |-> good,
                       data |-> IF good THEN [i \in 0 .. call.length - 1 |-> disk[from + i]] ELSE <<>>]
          /\ disk' = IF good /\ call.op = "write"
                     THEN [b \in Bytes |-> IF b \in from .. from + call.length - 1 THEN Capacity + calls ELSE disk[b]]
                     ELSE disk
    /\ UNCHANGED <<calls, call, answer, blk, handles>>

\* The status must be good.
Complete ==
    /\ queue # None /\ queue.done
    /\ queue' = None
    /\ IF queue.good
       THEN /\ answer' = [call |-> call, handle |-> handles[call.id], data |-> queue.data, number |-> calls]
            /\ Fails
       ELSE Panic /\ UNCHANGED answer
    /\ UNCHANGED <<calls, disk>>

Driver == Handle \/ Complete
Next == Driver \/ Device \/ \E c \in Calls : Submit(c)

-----------------------------------------------------------------------------
\* The first byte a transfer is meant for: of the block the offset lies in.
Start(h, offset) ==
    (IF h.kind = "partition" THEN blk.part_table[h.number].start_lba * SectorLen ELSE 0)
    + offset - (offset % SectorLen)

\* A transfer that succeeds moved the bytes of its file from the sector of its offset on; of
\* the whole disk if its blocks are sectors, since the offset is divided by the block size
\* (DiskScheme::read and write).
Transferred ==
    answer # None /\ (answer.handle.kind = "partition" \/ blk.block_size = SectorLen) =>
        LET from == Start(answer.handle, answer.call.offset)
        IN \A i \in 0 .. answer.call.length - 1 :
             disk[from + i] = IF answer.call.op = "read" THEN answer.data[i] ELSE Capacity + answer.number

\* Only a write changes the disk, and only as many bytes as it has (write).
OnlyTheSectorsAsked ==
    disk' # disk => /\ call # None /\ call.op = "write"
                    /\ \E from \in Bytes : \A b \in Bytes :
                         disk'[b] # disk[b] => b \in from .. from + call.length - 1
=============================================================================
