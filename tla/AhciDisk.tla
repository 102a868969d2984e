------------------------------ MODULE AhciDisk ------------------------------
(***************************************************************************)
(* A disk of ahcid.  DiskATA::request carries out one pass over a transfer: *)
(* it collects the command that ran, if it is over, and starts the next     *)
(* one; read and write call it until the transfer is done.  DiskATAPI::read *)
(* does the same in a loop of its own.  All commands go through the one DMA *)
(* buffer of the port.  The event loop is a single thread, so a request is  *)
(* served to its end before the next one; the adapter works beside it.      *)
(***************************************************************************)
EXTENDS Naturals

CONSTANTS Sectors,       \* the number of sectors of the disk
          MaxSectors,    \* the most one command moves: 255, for a packet device buf_len
          BlkLen,        \* the block length of a packet device: 2048
          MaxLength,     \* the most sectors a request asks for
          Starts,        \* the first sectors requests ask for
          MaxCalls,      \* how many requests are made
          CommandSlots,  \* 32
          None

VARIABLES calls,        \* how many requests were made
          kind,          \* HbaPortType of the port: "SATA" or "SATAPI"
          disk,          \* what the sectors hold
          call,          \* the read or write being served, with its buffer
          request_opt,   \* DiskATA::request_opt, or the locals of DiskATAPI::read
          buf,           \* the DMA buffer
          port,          \* registers: command issue, start, error, busy
          table,         \* the command table of each slot
          work,          \* the command the adapter executes
          hba_is,        \* the adapter's interrupt status
          answer         \* the last transfer that was answered

vars == <<calls, kind, disk, call, request_opt, buf, port, table, work, hba_is, answer>>

Slots == 0 .. CommandSlots - 1
Fewer(m, n) == IF m < n THEN m ELSE n
LBAs == 0 .. Sectors - 1

\* The sectors of the disk differ at first, so do the sectors of a buffer to write
\* and those of an empty buffer: a sector in the wrong place shows.
NewData == [i \in 0 .. MaxLength - 1 |-> Sectors + i]
NoData == [i \in 0 .. MaxLength - 1 |-> Sectors + MaxLength]
Calls == {[write |-> w, block |-> b, length |-> l, data |-> IF w THEN NewData ELSE NoData] :
            w \in BOOLEAN, b \in Starts, l \in 0 .. MaxLength}

\* slot: the first bit that CI does not have (SACT is never used).
slot == CHOOSE s \in Slots \ port.ci : \A t \in Slots \ port.ci : s <= t

ata_running(s) == (s \in port.ci \/ port.busy) /\ ~port.err

-----------------------------------------------------------------------------
\* The scheme hands over a read or a write.
Submit(c) ==
    /\ call = None /\ calls < MaxCalls
    /\ calls' = calls + 1
    /\ call' = c /\ answer' = None
    /\ UNCHANGED <<kind, disk, request_opt, buf, port, table, work, hba_is>>

\* request_opt is empty, so request makes a new one; read of a packet device
\* asks for its block length first, which can fail, and write is refused.
NewRequest ==
    /\ call # None /\ request_opt = None
    /\ \/ /\ kind = "SATA" \/ ~call.write
          /\ request_opt' = [sector |-> 0, running_opt |-> None]
          /\ UNCHANGED <<call, answer>>
       \/ /\ kind = "SATAPI"
          /\ call' = None /\ answer' = [call |-> call, ok |-> FALSE]
          /\ UNCHANGED request_opt
    /\ UNCHANGED <<calls, kind, disk, buf, port, table, work, hba_is>>

\* ata_start clears the port's errors, writes the table of a free slot, waits until
\* the port is not busy, sets the slot's bit in CI and starts the port.
ata_dma(block, sectors) ==
    /\ Slots \ port.ci # {} /\ ~port.busy
    /\ table' = [table EXCEPT ![slot] = [write |-> call.write, block |-> block, sectors |-> sectors]]
    /\ port' = [port EXCEPT !.ci = @ \cup {slot}, !.start = TRUE, !.err = FALSE]

\* A part of the transfer is left: the buffer is filled for a write, and a command
\* is started.
StartCommand_BufferStart ==
    /\ call # None /\ request_opt # None /\ request_opt.running_opt = None
    /\ request_opt.sector < call.length
    /\ LET n == Fewer(call.length - request_opt.sector, MaxSectors)
       IN  /\ buf' = [i \in DOMAIN buf |-> IF call.write /\ i < n THEN call.data[i] ELSE buf[i]]
           /\ ata_dma(call.block + request_opt.sector, n)
           /\ request_opt' = [request_opt EXCEPT !.running_opt = [slot |-> slot, sectors |-> n]]
    /\ UNCHANGED <<calls, kind, disk, call, work, hba_is, answer>>

StartCommand ==
    /\ call # None /\ request_opt # None /\ request_opt.running_opt = None
    /\ request_opt.sector < call.length
    /\ LET n == Fewer(call.length - request_opt.sector, MaxSectors)
       IN  /\ buf' = [i \in DOMAIN buf |-> IF call.write /\ i < n THEN call.data[request_opt.sector + i] ELSE buf[i]]
           /\ ata_dma(call.block + request_opt.sector, n)
           /\ request_opt' = [request_opt EXCEPT !.running_opt = [slot |-> slot, sectors |-> n]]
    /\ UNCHANGED <<calls, kind, disk, call, work, hba_is, answer>>

\* How far a command of n sectors takes the request: DiskATAPI::read goes on by the
\* block length, not by the sectors of the buffer, once the buffer is full.
Further(n) == IF kind = "SATAPI" /\ n = MaxSectors THEN BlkLen ELSE n

\* The command is over: ata_stop stops the port, which empties CI.  After an
\* error the request is dropped; else what was read is copied out.
ata_stop ==
    /\ request_opt # None /\ request_opt.running_opt # None
    /\ ~ata_running(request_opt.running_opt.slot)
    /\ work = None
    /\ port' = [port EXCEPT !.ci = {}, !.start = FALSE, !.err = FALSE]
    /\ LET r == request_opt
           n == r.running_opt.sectors
       IN  \/ /\ port.err
              /\ request_opt' = None /\ call' = None
              /\ answer' = [call |-> call, ok |-> FALSE]
           \/ /\ ~port.err
              /\ Further(n) <= call.length - r.sector
              /\ call' = [call EXCEPT !.data = [i \in DOMAIN @ |->
                            IF ~call.write /\ i \in r.sector .. r.sector + n - 1 THEN buf[i - r.sector] ELSE @[i]]]
              /\ request_opt' = [sector |-> r.sector + Further(n), running_opt |-> None]
              /\ UNCHANGED answer
           \* The loop of a packet device has gone past the end of the transfer; the
           \* reads beyond it are not followed.
           \/ /\ ~port.err /\ Further(n) > call.length - r.sector
              /\ request_opt' = None /\ call' = None
              /\ answer' = [call |-> call, ok |-> FALSE]
    /\ UNCHANGED <<calls, kind, disk, buf, table, work, hba_is>>

\* Every sector was moved.
Done ==
    /\ call # None /\ request_opt # None /\ request_opt.running_opt = None
    /\ request_opt.sector >= call.length
    /\ call' = None /\ request_opt' = None
    /\ answer' = [call |-> call, ok |-> TRUE]
    /\ UNCHANGED <<calls, kind, disk, buf, port, table, work, hba_is>>

\* DiskScheme::irq, between two requests.
irq ==
    /\ call = None /\ hba_is
    /\ hba_is' = FALSE
    /\ port' = [port EXCEPT !.err = FALSE]
    /\ UNCHANGED <<calls, kind, disk, call, request_opt, buf, table, work, answer>>

-----------------------------------------------------------------------------
\* The adapter takes an issued command,
Fetch ==
    /\ port.start /\ ~port.err /\ work = None
    /\ \E s \in port.ci : work' = [slot |-> s, done |-> 0]
    /\ port' = [port EXCEPT !.busy = TRUE]
    /\ UNCHANGED <<calls, kind, disk, call, request_opt, buf, table, hba_is, answer>>

\* moves it sector by sector,
Move ==
    /\ work # None
    /\ LET c == table[work.slot]
           b == c.block + work.done
       IN  /\ work.done < c.sectors /\ b \in LBAs
           /\ IF c.write THEN disk' = [disk EXCEPT ![b] = buf[work.done]] /\ UNCHANGED buf
                         ELSE buf' = [buf EXCEPT ![work.done] = disk[b]] /\ UNCHANGED disk
    /\ work' = [work EXCEPT !.done = @ + 1]
    /\ UNCHANGED <<calls, kind, call, request_opt, port, table, hba_is, answer>>

\* and completes it
Complete ==
    /\ work # None /\ work.done = table[work.slot].sectors
    /\ port' = [port EXCEPT !.ci = @ \ {work.slot}, !.busy = FALSE]
    /\ work' = None /\ hba_is' = TRUE
    /\ UNCHANGED <<calls, kind, disk, call, request_opt, buf, table, answer>>

\* or fails it, which leaves its bit in CI.
Fail ==
    /\ work # None
    /\ port' = [port EXCEPT !.err = TRUE, !.busy = FALSE]
    /\ work' = None /\ hba_is' = TRUE
    /\ UNCHANGED <<calls, kind, disk, call, request_opt, buf, table, answer>>

-----------------------------------------------------------------------------
Init ==
    /\ kind \in {"SATA", "SATAPI"}
    /\ disk = [b \in LBAs |-> b]
    /\ calls = 0 /\ call = None /\ request_opt = None /\ answer = None
    /\ buf = [i \in 0 .. MaxSectors |-> Sectors + MaxLength]
    /\ port = [ci |-> {}, start |-> FALSE, err |-> FALSE, busy |-> FALSE]
    /\ table = [s \in Slots |-> None]
    /\ work = None /\ hba_is = FALSE

Driver == NewRequest \/ StartCommand \/ ata_stop \/ Done
Adapter == Fetch \/ Move \/ Complete \/ Fail
Next == Driver \/ Adapter \/ irq \/ \E c \in Calls : Submit(c)

\* The driver's loop runs, and the adapter ends every command one way or the other.
Fairness == WF_vars(Driver) /\ WF_vars(Adapter)
Spec == Init /\ [][Next]_vars /\ Fairness

-----------------------------------------------------------------------------
\* When a transfer is answered with success, the disk and the caller's buffer
\* agree on every sector of it, however many commands it took (DiskATA::request);
\* of a packet device, when it takes less than the buffer (DiskATAPI::read).
Transferred ==
    answer # None /\ answer.ok /\ (kind = "SATA" \/ answer.call.length < MaxSectors) =>
        \A i \in 0 .. answer.call.length - 1 :
            i + answer.call.block \in LBAs /\ disk[i + answer.call.block] = answer.call.data[i]

\* The buffer belongs to the adapter while a command runs: its sectors are those
\* of the request (ata_dma, and the copies around it).
BufferInStep ==
    work # None /\ call # None /\ call.write =>
        \A i \in 0 .. table[work.slot].sectors - 1 : buf[i] = call.data[request_opt.sector + i]

\* The disk changes only where the write being served says (ata_dma).
OnlyTheSectorsAsked ==
    \A b \in LBAs : disk'[b] # disk[b] =>
        call # None /\ call.write /\ b \in call.block .. call.block + call.length - 1
=============================================================================
