----------------------------- MODULE IntelRings -----------------------------
(***************************************************************************)
(* The descriptor rings e1000d and ixgbed share with their device.         *)
(* Receiving: the device fills the descriptors from its head up to the     *)
(* tail register, the driver reads them in order and hands each back       *)
(* through the tail register.                                              *)
(* Transmitting: write_packet fills the next descriptor and moves the tail *)
(* register; when its count of free descriptors is used up it spins until  *)
(* the device has finished some.  The device transmits from its head up to *)
(* the tail register, and takes equal registers for an empty ring, as the  *)
(* registers are set up (init).                                            *)
(***************************************************************************)
EXTENDS Naturals, Sequences, FiniteSets

CONSTANTS RingSize,      \* a power of two: wrap_ring masks the index
          Packets, NoPacket,
          Chip           \* "e1000" or "ixgbe": whose read_packet runs

Slots == 0 .. RingSize - 1

VARIABLES receive_ring,            \* descriptors and their buffers
          receive_index,   \* the driver's place
          RDH, RDT,        \* registers of the device
          result,          \* what the last read_packet returned
          transmit_ring,                   \* descriptors: finished by the device, and data
          transmit_index, transmit_clean_index, transmit_ring_free,
          TDH, TDT,               \* registers of the device
          writing,                \* packet of the write_packet that runs
          wire                    \* packet the device sent last

rx_vars == <<receive_ring, receive_index, RDH, RDT, result>>
tx_vars == <<transmit_ring, transmit_index, transmit_clean_index, transmit_ring_free, TDH, TDT,
             writing, wire>>

Empty == [dd |-> FALSE, data |-> NoPacket]

wrap_ring(index) == (index + 1) % RingSize

-----------------------------------------------------------------------------
\* The device stores a packet while it owns a descriptor; otherwise it drops it.
Receive(p) ==
    /\ RDH # RDT
    /\ receive_ring' = [receive_ring EXCEPT ![RDH] = [dd |-> TRUE, data |-> p]]
    /\ RDH' = wrap_ring(RDH)
    /\ UNCHANGED <<receive_index, RDT, result>>

\* status is cleared first, the data stays in the buffer.
E1000ReadPacket_GivesNext ==
    /\ Chip = "e1000" /\ receive_ring[receive_index].dd
    /\ receive_ring' = [receive_ring EXCEPT ![receive_index].dd = FALSE]
    /\ result' = receive_ring[receive_index].data
    /\ receive_index' = wrap_ring(receive_index)
    /\ RDT' = wrap_ring(receive_index)
    /\ UNCHANGED RDH

E1000ReadPacket ==
    /\ Chip = "e1000" /\ receive_ring[receive_index].dd
    /\ receive_ring' = [receive_ring EXCEPT ![receive_index].dd = FALSE]
    /\ result' = receive_ring[receive_index].data
    /\ RDT' = receive_index
    /\ receive_index' = wrap_ring(receive_index)
    /\ UNCHANGED RDH

\* Writing the address of the header back clears the status it overlays.
IxgbeReadPacket_KeepsStatus ==
    /\ Chip = "ixgbe" /\ receive_ring[receive_index].dd
    /\ result' = receive_ring[receive_index].data
    /\ RDT' = receive_index
    /\ receive_index' = wrap_ring(receive_index)
    /\ UNCHANGED <<receive_ring, RDH>>

IxgbeReadPacket ==
    /\ Chip = "ixgbe" /\ receive_ring[receive_index].dd
    /\ result' = receive_ring[receive_index].data
    /\ receive_ring' = [receive_ring EXCEPT ![receive_index].dd = FALSE]
    /\ RDT' = receive_index
    /\ receive_index' = wrap_ring(receive_index)
    /\ UNCHANGED RDH

\* read_packet with nothing to read.
ReadNothing ==
    /\ ~receive_ring[receive_index].dd
    /\ result' = NoPacket
    /\ UNCHANGED <<receive_ring, receive_index, RDH, RDT>>

RxInit ==
    /\ receive_ring = [s \in Slots |-> Empty]
    /\ receive_index = 0
    /\ RDH = 0 /\ RDT = RingSize - 1
    /\ result = NoPacket

RxNext == E1000ReadPacket \/ IxgbeReadPacket \/ ReadNothing \/ \E p \in Packets : Receive(p)

-----------------------------------------------------------------------------
\* The scheme calls write_packet.
Call(p) ==
    /\ writing = NoPacket
    /\ writing' = p
    /\ UNCHANGED <<transmit_ring, transmit_index, transmit_clean_index, transmit_ring_free,
                   TDH, TDT, wire>>

\* The finished descriptors from transmit_clean_index on, in one pass of the loop.
Finished(n) ==
    \A k \in 0 .. n - 1 : transmit_ring[(transmit_clean_index + k) % RingSize].done

Clean_All ==
    /\ writing # NoPacket /\ transmit_ring_free = 0
    /\ transmit_ring_free' = RingSize
    /\ transmit_clean_index' = transmit_clean_index
    /\ UNCHANGED <<transmit_ring, transmit_index, TDH, TDT, writing, wire>>

\* The loop counts one finished descriptor after the other; it ends at the
\* first that is not finished, if it has counted any, or when all are free.
Clean ==
    /\ writing # NoPacket /\ transmit_ring_free = 0
    /\ \E n \in 1 .. RingSize :
         /\ Finished(n)
         /\ n < RingSize => ~transmit_ring[(transmit_clean_index + n) % RingSize].done
         /\ transmit_ring_free' = n
         /\ transmit_clean_index' = (transmit_clean_index + n) % RingSize
    /\ UNCHANGED <<transmit_ring, transmit_index, TDH, TDT, writing, wire>>

\* The descriptor is filled before the device is told of it.
Fill ==
    /\ writing # NoPacket /\ transmit_ring_free > 0
    /\ transmit_ring' = [transmit_ring EXCEPT ![transmit_index] = [done |-> FALSE, data |-> writing]]
    /\ transmit_index' = wrap_ring(transmit_index)
    /\ transmit_ring_free' = transmit_ring_free - 1
    /\ TDT' = wrap_ring(transmit_index)
    /\ writing' = NoPacket
    /\ UNCHANGED <<transmit_clean_index, TDH, wire>>

Transmit ==
    /\ TDH # TDT
    /\ wire' = transmit_ring[TDH].data
    /\ transmit_ring' = [transmit_ring EXCEPT ![TDH].done = TRUE]
    /\ TDH' = wrap_ring(TDH)
    /\ UNCHANGED <<transmit_index, transmit_clean_index, transmit_ring_free, TDT, writing>>

TxInit ==
    /\ transmit_ring = [s \in Slots |-> [done |-> FALSE, data |-> NoPacket]]
    /\ transmit_index = 0 /\ transmit_clean_index = 0
    /\ transmit_ring_free = RingSize
    /\ TDH = 0 /\ TDT = 0
    /\ writing = NoPacket /\ wire = NoPacket

TxNext == Clean \/ Fill \/ Transmit \/ \E p \in Packets : Call(p)

\* write_packet runs on, and the device transmits what it knows of.
TxFairness == WF_tx_vars(Clean) /\ WF_tx_vars(Fill) /\ WF_tx_vars(Transmit)

Init == RxInit /\ TxInit
TxSpec == Init /\ [][TxNext /\ UNCHANGED rx_vars]_<<rx_vars, tx_vars>> /\ TxFairness

-----------------------------------------------------------------------------
Distance(a, b) == (b + RingSize - a) % RingSize
Pending == Distance(receive_index, RDH)
Pending_queue == [k \in 1 .. Pending |-> receive_ring[(receive_index + k - 1) % RingSize].data]

\* The finished descriptors are those the driver has yet to read, and the ones
\* the device may fill are all others but one: neither side ever writes a
\* descriptor the other owns (read_packet writes RDT after it has read).
Ownership ==
    /\ \A s \in Slots : receive_ring[s].dd <=> Distance(receive_index, s) < Pending
    /\ Distance(RDH, RDT) = RingSize - 1 - Pending

\* The ring is a queue of packets: read_packet returns them in order, each
\* once, and `Ok(None)` only when "there is no pending network packet".
RxFifo == INSTANCE PacketFifo WITH queue <- Pending_queue
ImplementsRxFifo == RxFifo!Spec

\* Descriptors in use, oldest first, and those the device has yet to send.
Used == RingSize - transmit_ring_free
UsedSlot(k) == (transmit_clean_index + k) % RingSize
Unsent == {k \in 0 .. Used - 1 : ~transmit_ring[UsedSlot(k)].done}
Outgoing ==
    [k \in 1 .. Cardinality(Unsent) |-> transmit_ring[UsedSlot(Used - Cardinality(Unsent) + k - 1)].data]

\* Packets are sent in the order they were written, each once, and none is
\* overwritten before it was sent (write_packet reuses finished descriptors only).
TxFifo == INSTANCE PacketFifo WITH queue <- Outgoing, result <- wire
ImplementsTxFifo == TxFifo!Spec

\* write_packet is to "Write a single network packet." (NetworkAdapter): it
\* ends, also when it has to wait for a descriptor first.
WriteReturns == writing # NoPacket ~> writing = NoPacket
=============================================================================
