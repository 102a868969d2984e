------------------------------- MODULE IdeDisk -------------------------------
(***************************************************************************)
(* The disks of one IDE channel of ided.  AtaDisk::read and write split a   *)
(* transfer into chunks; for each they program the channel, send a command  *)
(* and poll, with a time limit, until the drive and the bus master are       *)
(* done, or move the sectors themselves when there is no DMA.               *)
(***************************************************************************)
EXTENDS Naturals, Sequences

CONSTANTS Sectors,      \* the number of sectors of each disk
          Chunk,        \* sectors per command: 128
          MaxLength,    \* the most sectors a request asks for
          MaxCalls,     \* how many requests are made
          Starts,       \* the first sectors requests ask for
          None

Devs == {0, 1}          \* the drives of a channel

VARIABLES calls,        \* how many requests were made
          dma,          \* does the controller do DMA
          disk,         \* what the sectors of the drives hold
          call,         \* the read or write being served, with its buffer
          pc,           \* where it stands
          count, sector,  \* sectors moved in earlier chunks, and in this one
          buf,          \* the DMA buffer of the channel
          bm,           \* the bus master: started, active, error, sectors in it and moved
          drive,        \* the command under way
          status,       \* the drive's error bit and data request bit
          late,         \* a command outlived the call that sent it
          answer        \* the last transfer that was answered

vars == <<calls, dma, disk, call, pc, count, sector, buf, bm, drive, status, late, answer>>

LBAs == 0 .. Sectors - 1
Fewer(m, n) == IF m < n THEN m ELSE n

\* The sectors of the two disks and of the buffers differ at first.
NewData == [i \in 0 .. MaxLength - 1 |-> 2 * Sectors + i]
NoData == [i \in 0 .. MaxLength - 1 |-> 2 * Sectors + MaxLength]
Calls == {[write |-> w, dev |-> d, block |-> b, length |-> l, data |-> IF w THEN NewData ELSE NoData] :
            w \in BOOLEAN, d \in Devs, b \in Starts, l \in 1 .. MaxLength}

\* The drive is busy while it has a command and does not ask for data.
BSY == drive # None /\ ~status.drq
Sectors_now == Fewer(call.length - count, Chunk)

-----------------------------------------------------------------------------
Submit(c) ==
    /\ call = None /\ calls < MaxCalls
    /\ calls' = calls + 1
    /\ call' = c /\ answer' = None
    /\ pc' = "chunk" /\ count' = 0
    /\ UNCHANGED <<dma, disk, sector, buf, bm, drive, status, late>>

Err ==
    /\ answer' = [call |-> call, ok |-> FALSE]
    /\ call' = None /\ pc' = "idle"
    /\ late' = (late \/ drive' # None)

\* The drive takes a command when it has none; what one does that is still busy
\* with a command that timed out is not defined.
Command(c) ==
    \/ /\ drive' = c /\ status' = [err |-> FALSE, drq |-> FALSE]
    \/ /\ drive # None
       /\ UNCHANGED <<drive, status>>

\* With DMA the bus master is stopped, given a table with an entry for each sector of
\* the chunk, and started once the command is sent;
SetUpBusMaster ==
    bm' = IF dma THEN [start |-> TRUE, active |-> TRUE, err |-> FALSE, moved |-> 0,
                       fifo |-> <<>>, size |-> Sectors_now]
                 ELSE bm

\* a write puts its chunk into the buffer first.
WriteBuffer ==
    buf' = [i \in DOMAIN buf |->
              IF dma /\ call.write /\ i < Sectors_now THEN call.data[count + i] ELSE buf[i]]

\* The head of the loop over the chunks: the bus master is set up, the drive
\* selected, and the command sent.
SendCommand_NoSelect ==
    /\ pc = "chunk" /\ count < call.length
    /\ WriteBuffer /\ SetUpBusMaster
    /\ Command([kind |-> IF call.write THEN "write" ELSE "read", dma |-> dma, dev |-> 0,
                block |-> call.block + count, sectors |-> Sectors_now, done |-> 0])
    /\ pc' = "poll" /\ sector' = 0
    /\ UNCHANGED <<calls, dma, disk, call, count, late, answer>>

SendCommand ==
    /\ pc = "chunk" /\ count < call.length
    /\ WriteBuffer /\ SetUpBusMaster
    /\ Command([kind |-> IF call.write THEN "write" ELSE "read", dma |-> dma, dev |-> call.dev,
                block |-> call.block + count, sectors |-> Sectors_now, done |-> 0])
    /\ pc' = "poll" /\ sector' = 0
    /\ UNCHANGED <<calls, dma, disk, call, count, late, answer>>

\* polling gives up after a second, on an error, and when a read finds no data.
PollFails_NoLimit ==
    /\ pc \in {"poll", "flush"}
    /\ \/ status.err
       \/ (pc = "poll" /\ ~dma /\ ~call.write /\ ~status.drq)
    /\ UNCHANGED drive /\ Err
    /\ UNCHANGED <<calls, dma, disk, count, sector, buf, bm, status>>

PollFails ==
    /\ pc \in {"poll", "flush"}
    /\ \/ status.err \/ BSY
       \/ (pc = "poll" /\ ~dma /\ ~call.write /\ ~status.drq)
    /\ UNCHANGED drive /\ Err
    /\ UNCHANGED <<calls, dma, disk, count, sector, buf, bm, status>>

\* The drive is ready: with DMA the bus master is waited for,
PollDma ==
    /\ pc = "poll" /\ dma /\ ~BSY /\ ~status.err
    /\ pc' = "busmaster"
    /\ UNCHANGED <<calls, dma, disk, call, count, sector, buf, bm, drive, status, late, answer>>

Onwards == pc' = IF call.write THEN "cache" ELSE "chunk"

\* else one sector is read from or written to its data register.
PollPio ==
    /\ pc = "poll" /\ ~dma /\ ~BSY /\ ~status.err
    /\ call.write \/ status.drq
    /\ sector' = sector + 1
    /\ IF drive # None
       THEN LET b == drive.block + drive.done
            IN  /\ drive' = IF drive.done + 1 = drive.sectors THEN None ELSE [drive EXCEPT !.done = @ + 1]
                /\ status' = [status EXCEPT !.drq = FALSE]
                /\ IF drive.kind = "write"
                   THEN disk' = [disk EXCEPT ![drive.dev][b] = call.data[count + sector]] /\ UNCHANGED call
                   ELSE call' = [call EXCEPT !.data[count + sector] = disk[drive.dev][b]] /\ UNCHANGED disk
       ELSE UNCHANGED <<drive, status, disk, call>>
    /\ IF sector' = Sectors_now
       THEN Onwards /\ count' = count + Sectors_now
       ELSE UNCHANGED <<pc, count>>
    /\ UNCHANGED <<calls, dma, buf, bm, late, answer>>

\* The bus master has stopped by itself, failed, or takes too long; only the last
\* leaves it running.
BusMasterDone_Early ==
    /\ pc = "busmaster" /\ ~bm.err
    /\ bm' = [bm EXCEPT !.start = FALSE]
    /\ call' = [call EXCEPT !.data = [i \in DOMAIN @ |->
                 IF ~call.write /\ i \in count .. count + Sectors_now - 1 THEN buf[i - count] ELSE @[i]]]
    /\ count' = count + Sectors_now /\ Onwards
    /\ UNCHANGED <<calls, dma, disk, sector, buf, drive, status, late, answer>>

BusMasterDone ==
    /\ pc = "busmaster" /\ ~bm.err /\ ~bm.active
    /\ bm' = [bm EXCEPT !.start = FALSE]
    /\ call' = [call EXCEPT !.data = [i \in DOMAIN @ |->
                 IF ~call.write /\ i \in count .. count + Sectors_now - 1 THEN buf[i - count] ELSE @[i]]]
    /\ count' = count + Sectors_now /\ Onwards
    /\ UNCHANGED <<calls, dma, disk, sector, buf, drive, status, late, answer>>

BusMasterFails ==
    /\ pc = "busmaster"
    /\ bm.err \/ bm.active
    /\ bm' = IF bm.err THEN [bm EXCEPT !.start = FALSE, !.err = FALSE] ELSE bm
    /\ UNCHANGED drive /\ Err
    /\ UNCHANGED <<calls, dma, disk, count, sector, buf, status>>

\* After the data of a write the drive's cache is flushed.
CacheFlush ==
    /\ pc = "cache"
    /\ Command([kind |-> "flush"])
    /\ pc' = "flush"
    /\ UNCHANGED <<calls, dma, disk, call, count, sector, buf, bm, late, answer>>

Flushed ==
    /\ pc = "flush" /\ ~BSY /\ ~status.err
    /\ pc' = "chunk"
    /\ UNCHANGED <<calls, dma, disk, call, count, sector, buf, bm, drive, status, late, answer>>

Done ==
    /\ pc = "chunk" /\ count = call.length
    /\ answer' = [call |-> call, ok |-> TRUE]
    /\ call' = None /\ pc' = "idle"
    /\ late' = (late \/ drive # None)
    /\ UNCHANGED <<calls, dma, disk, count, sector, buf, bm, drive, status>>
-----------------------------------------------------------------------------
Sector == drive.block + drive.done

\* Without DMA the drive asks for, or offers, one sector after the other.
DataRequest ==
    /\ drive # None /\ drive.kind # "flush" /\ ~drive.dma /\ ~status.drq
    /\ Sector \in LBAs
    /\ status' = [status EXCEPT !.drq = TRUE]
    /\ UNCHANGED <<calls, dma, disk, call, pc, count, sector, buf, bm, drive, late, answer>>

\* With DMA it takes the sectors to write from the bus master, or passes it those
\* it reads, which reach the buffer later.
DmaMove ==
    /\ drive # None /\ drive.kind # "flush" /\ drive.dma
    /\ bm.start /\ bm.active
    /\ drive.done < drive.sectors /\ Sector \in LBAs
    /\ drive' = [drive EXCEPT !.done = @ + 1]
    /\ IF drive.kind = "write"
       THEN /\ disk' = [disk EXCEPT ![drive.dev][Sector] = buf[bm.moved]]
            /\ bm' = [bm EXCEPT !.moved = @ + 1, !.active = bm.moved + 1 < bm.size]
       ELSE /\ bm' = [bm EXCEPT !.fifo = Append(@, disk[drive.dev][Sector])]
            /\ UNCHANGED disk
    /\ UNCHANGED <<calls, dma, call, pc, count, sector, buf, status, late, answer>>

BusMasterMove ==
    /\ bm.start /\ bm.active /\ bm.fifo # <<>>
    /\ buf' = [buf EXCEPT ![bm.moved] = Head(bm.fifo)]
    /\ bm' = [bm EXCEPT !.fifo = Tail(@), !.moved = @ + 1, !.active = bm.moved + 1 < bm.size]
    /\ UNCHANGED <<calls, dma, disk, call, pc, count, sector, drive, status, late, answer>>

Complete ==
    /\ drive # None
    /\ drive.kind # "flush" => drive.dma /\ drive.done = drive.sectors
    /\ drive' = None
    /\ UNCHANGED <<calls, dma, disk, call, pc, count, sector, buf, bm, status, late, answer>>

Fail ==
    /\ drive # None
    /\ drive' = None /\ status' = [err |-> TRUE, drq |-> FALSE]
    /\ UNCHANGED <<calls, dma, disk, call, pc, count, sector, buf, bm, late, answer>>

BusMasterError ==
    /\ bm.start /\ bm.active /\ ~bm.err
    /\ bm' = [bm EXCEPT !.err = TRUE]
    /\ UNCHANGED <<calls, dma, disk, call, pc, count, sector, buf, drive, status, late, answer>>

-----------------------------------------------------------------------------
Init ==
    /\ dma \in BOOLEAN
    /\ disk = [d \in Devs |-> [b \in LBAs |-> d * Sectors + b]]
    /\ calls = 0 /\ call = None /\ pc = "idle" /\ answer = None
    /\ count = 0 /\ sector = 0
    /\ buf = [i \in 0 .. Chunk - 1 |-> 2 * Sectors + MaxLength]
    /\ bm = [start |-> FALSE, active |-> FALSE, err |-> FALSE, moved |-> 0, fifo |-> <<>>, size |-> 0]
    /\ drive = None /\ status = [err |-> FALSE, drq |-> FALSE]
    /\ late = FALSE

Driver == \/ SendCommand \/ PollFails \/ PollDma \/ PollPio
          \/ BusMasterDone \/ BusMasterFails \/ CacheFlush \/ Flushed \/ Done
Hardware == DataRequest \/ DmaMove \/ BusMasterMove \/ Complete \/ Fail \/ BusMasterError
Next == Driver \/ Hardware \/ \E c \in Calls : Submit(c)

\* Only the driver's thread is assumed to run: the drive may stay silent.
Fairness == WF_vars(Driver)
Spec == Init /\ [][Next]_vars /\ Fairness

-----------------------------------------------------------------------------
\* While no command has outlived its call, the disk and the caller's buffer agree
\* on every sector of a transfer that was answered with success (AtaDisk).
Transferred ==
    answer # None /\ answer.ok /\ ~late =>
        \A i \in 0 .. answer.call.length - 1 :
            /\ i + answer.call.block \in LBAs
            /\ disk[answer.call.dev][i + answer.call.block] = answer.call.data[i]

\* While no command has outlived its call, a write changes its sectors only, and
\* those of the drive it is for (device_select).
OnlyTheSectorsAsked ==
    \A d \in Devs, b \in LBAs : disk'[d][b] # disk[d][b] /\ ~late =>
        /\ call # None /\ call.write /\ d = call.dev
        /\ b \in call.block .. call.block + call.length - 1
=============================================================================
