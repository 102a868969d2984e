------------------------------- MODULE Rtl8139 -------------------------------
(***************************************************************************)
(* rtl8139d: received packets lie one behind the other in a ring of bytes, *)
(* each after a header with its status and size, padded to four bytes; the *)
(* driver tells the device through CAPR how far it has read, 16 bytes      *)
(* short.  Four slots are used in turn to transmit.                        *)
(***************************************************************************)
EXTENDS Naturals, Sequences

CONSTANTS RX_BUFFER_SIZE,   \* bytes of the ring, the span of the 16-bit CAPR
          CaprGap,          \* how far CAPR lags behind
          Sizes,            \* sizes of packets with their checksum
          Packets, NoPacket, EIO

Bytes == 0 .. RX_BUFFER_SIZE - 1
TxSlots == 0 .. 3

VARIABLES buffer,      \* the header that starts at a byte, if one does
          receive_i, CAPR, CBR, result,
          tsd,         \* transmit slots: TSD_OWN and the packet in the buffer
          transmit_i, tx_device, writing, wire

rxVars == <<buffer, receive_i, CAPR, CBR, result>>
txVars == <<tsd, transmit_i, tx_device, writing, wire>>
vars == <<rxVars, txVars>>

NoHeader == [ok |-> FALSE, size |-> 0, data |-> NoPacket]

next_multiple_of_4(n) == ((n + 3) \div 4) * 4

\* Space a packet takes with its header.
Footprint(size) == next_multiple_of_4(4 + size)

\* Where the device believes the driver reads.
ReadAddress == (CAPR + CaprGap) % RX_BUFFER_SIZE
BUFE == CBR = ReadAddress
Occupied == (CBR + RX_BUFFER_SIZE - ReadAddress) % RX_BUFFER_SIZE

\* A packet that would not fit is dropped; the ring is never filled completely.
Receive(p, size, ok) ==
    /\ Occupied + Footprint(size) < RX_BUFFER_SIZE
    /\ buffer' = [b \in Bytes |->
                    IF b = CBR THEN [ok |-> ok, size |-> size, data |-> p]
                    ELSE IF (b + RX_BUFFER_SIZE - CBR) % RX_BUFFER_SIZE < Footprint(size)
                    THEN NoHeader ELSE buffer[b]]
    /\ CBR' = (CBR + Footprint(size)) % RX_BUFFER_SIZE
    /\ UNCHANGED <<receive_i, CAPR, result, txVars>>

NextPlace(size) == next_multiple_of_4(receive_i + 4 + size) % RX_BUFFER_SIZE

ReadPacket ==
    /\ ~BUFE
    /\ result' = IF buffer[receive_i].ok THEN buffer[receive_i].data ELSE EIO
    /\ receive_i' = NextPlace(buffer[receive_i].size)
    /\ CAPR' = (receive_i' + RX_BUFFER_SIZE - CaprGap) % RX_BUFFER_SIZE
    /\ UNCHANGED <<buffer, CBR, txVars>>

ReadNothing ==
    /\ BUFE
    /\ result' = NoPacket
    /\ UNCHANGED <<buffer, receive_i, CAPR, CBR, txVars>>

-----------------------------------------------------------------------------
CallWrite(p) ==
    /\ writing = NoPacket
    /\ writing' = p
    /\ UNCHANGED <<tsd, transmit_i, tx_device, wire, rxVars>>

Slot == IF transmit_i >= 4 THEN 0 ELSE transmit_i

\* write_packet spins until the slot is its own; writing TSD starts the device.
Fill ==
    /\ writing # NoPacket
    /\ tsd[Slot].own
    /\ tsd' = [tsd EXCEPT ![Slot] = [own |-> FALSE, data |-> writing]]
    /\ transmit_i' = Slot + 1
    /\ writing' = NoPacket
    /\ UNCHANGED <<tx_device, wire, rxVars>>

Transmit ==
    /\ ~tsd[tx_device].own
    /\ wire' = tsd[tx_device].data
    /\ tsd' = [tsd EXCEPT ![tx_device].own = TRUE]
    /\ tx_device' = (tx_device + 1) % 4
    /\ UNCHANGED <<transmit_i, writing, rxVars>>

-----------------------------------------------------------------------------
Init ==
    /\ buffer = [b \in Bytes |-> NoHeader]
    /\ receive_i = 0 /\ CBR = 0
    /\ CAPR = (RX_BUFFER_SIZE - CaprGap) % RX_BUFFER_SIZE
    /\ result = NoPacket
    /\ tsd = [s \in TxSlots |-> [own |-> TRUE, data |-> NoPacket]]
    /\ transmit_i = 0 /\ tx_device = 0
    /\ writing = NoPacket /\ wire = NoPacket

RxNext == \/ ReadPacket \/ ReadNothing
          \/ \E p \in Packets, size \in Sizes, ok \in BOOLEAN : Receive(p, size, ok)
TxNext == Fill \/ Transmit \/ \E p \in Packets : CallWrite(p)

-----------------------------------------------------------------------------
\* Packets in the ring, oldest first, found by following the sizes from where
\* the device believes the driver reads.
Outcome(h) == IF h.ok THEN h.data ELSE EIO
Stored ==
    LET at[k \in 0 .. RX_BUFFER_SIZE \div 4] ==
          IF k = 0 THEN ReadAddress
          ELSE (at[k - 1] + Footprint(buffer[at[k - 1]].size)) % RX_BUFFER_SIZE
        n == CHOOSE n \in 0 .. RX_BUFFER_SIZE \div 4 :
               at[n] = CBR /\ \A k \in 0 .. n - 1 : at[k] # CBR
    IN  [k \in 1 .. n |-> Outcome(buffer[at[k - 1]])]

\* read_packet returns the packets in order, each once; one the device marked
\* bad is reported as EIO and skipped.
RxFifo == INSTANCE PacketFifo WITH queue <- Stored, Packets <- Packets \cup {EIO}
ImplementsRxFifo == RxFifo!Spec

\* Packets are sent in order; a slot is reused only when the device has sent it.
Outgoing ==
    LET n == CHOOSE n \in 0 .. 4 :
               /\ \A k \in 0 .. n - 1 : ~tsd[(tx_device + k) % 4].own
               /\ n = 4 \/ tsd[(tx_device + n) % 4].own
    IN  [k \in 1 .. n |-> tsd[(tx_device + k - 1) % 4].data]
TxFifo == INSTANCE PacketFifo WITH queue <- Outgoing, result <- wire
ImplementsTxFifo == TxFifo!Spec

\* write_packet ends.
WriteReturns == writing # NoPacket ~> writing = NoPacket
=============================================================================
