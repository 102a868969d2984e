---------------------------- MODULE Rtl8168Rings ----------------------------
(***************************************************************************)
(* The two descriptor rings of rtl8168d.  Who owns a descriptor is a bit   *)
(* of the descriptor; each side walks the ring on its own and turns back   *)
(* at its end, the device at the descriptor marked EOR.                    *)
(***************************************************************************)
EXTENDS Naturals, Sequences, FiniteSets

CONSTANTS RxLen, TxLen, Packets, NoPacket

VARIABLES rx, receive_i, rx_device, result,
          tx, transmit_i, tx_device, wire,
          writing,     \* packet of the write_packet that runs
          NPQ          \* tppoll: the device was told of a packet

rxVars == <<rx, receive_i, rx_device, result>>
txVars == <<tx, transmit_i, tx_device, wire, writing, NPQ>>
vars == <<rxVars, txVars>>

Place_Last(i, len) == IF i >= len THEN len - 1 ELSE i

\* The place of a walk that starts over when it has passed the end.
Place(i, len) == IF i >= len THEN 0 ELSE i

-----------------------------------------------------------------------------
(* Receive *)

Receive(p) ==
    /\ rx[rx_device].own
    /\ rx' = [rx EXCEPT ![rx_device].own = FALSE, ![rx_device].data = p]
    /\ rx_device' = IF rx[rx_device].eor THEN 0 ELSE rx_device + 1
    /\ UNCHANGED <<receive_i, result, txVars>>

\* ctrl is written whole: the owner, the end mark it had, the buffer's size.
Rearm(d) == [d EXCEPT !.own = TRUE]

ReadPacket ==
    LET i == Place(receive_i, RxLen)
    IN  /\ ~rx[i].own
        /\ result' = rx[i].data
        /\ rx' = [rx EXCEPT ![i] = Rearm(@)]
        /\ receive_i' = i + 1
        /\ UNCHANGED <<rx_device, txVars>>

ReadNothing ==
    LET i == Place(receive_i, RxLen)
    IN  /\ rx[i].own
        /\ result' = NoPacket
        /\ receive_i' = i
        /\ UNCHANGED <<rx, rx_device, txVars>>

-----------------------------------------------------------------------------
(* Transmit *)

CallWrite(p) ==
    /\ writing = NoPacket /\ ~NPQ
    /\ writing' = p
    /\ UNCHANGED <<tx, transmit_i, tx_device, wire, NPQ, rxVars>>

\* write_packet spins until the descriptor is its own, fills it and tells the
\* device; it returns when the device has taken notice (CallWrite's guard).
Fill ==
    LET i == Place(transmit_i, TxLen)
    IN  /\ writing # NoPacket
        /\ ~tx[i].own
        /\ tx' = [tx EXCEPT ![i].own = TRUE, ![i].data = writing]
        /\ transmit_i' = i + 1
        /\ NPQ' = TRUE
        /\ writing' = NoPacket
        /\ UNCHANGED <<tx_device, wire, rxVars>>

TakeNotice ==
    /\ NPQ
    /\ NPQ' = FALSE
    /\ UNCHANGED <<tx, transmit_i, tx_device, wire, writing, rxVars>>

\* The device sends all it owns, told or not.
Transmit ==
    /\ tx[tx_device].own
    /\ wire' = tx[tx_device].data
    /\ tx' = [tx EXCEPT ![tx_device].own = FALSE]
    /\ tx_device' = IF tx[tx_device].eor THEN 0 ELSE tx_device + 1
    /\ UNCHANGED <<transmit_i, writing, NPQ, rxVars>>

-----------------------------------------------------------------------------
Init ==
    /\ rx = [s \in 0 .. RxLen - 1 |-> [own |-> TRUE, eor |-> s = RxLen - 1, data |-> NoPacket]]
    /\ tx = [s \in 0 .. TxLen - 1 |-> [own |-> FALSE, eor |-> s = TxLen - 1, data |-> NoPacket]]
    /\ receive_i = 0 /\ rx_device = 0 /\ result = NoPacket
    /\ transmit_i = 0 /\ tx_device = 0 /\ wire = NoPacket
    /\ writing = NoPacket /\ NPQ = FALSE

RxNext == ReadPacket \/ ReadNothing \/ \E p \in Packets : Receive(p)
TxNext == Fill \/ TakeNotice \/ Transmit \/ \E p \in Packets : CallWrite(p)

-----------------------------------------------------------------------------
\* Places of a ring from one on, as long as P holds of their descriptors.
Run(ring, from, len, P(_)) ==
    LET n == CHOOSE n \in 0 .. len :
               /\ \A k \in 0 .. n - 1 : P(ring[(from + k) % len])
               /\ n = len \/ ~P(ring[(from + n) % len])
    IN  [k \in 1 .. n |-> ring[(from + k - 1) % len].data]

Unread(d) == ~d.own
Owned(d) == d.own

\* read_packet returns the packets in the order the device stored them, each
\* once, and none only when none is there.
RxFifo == INSTANCE PacketFifo WITH
            queue <- Run(rx, Place(receive_i, RxLen), RxLen, Unread)
ImplementsRxFifo == RxFifo!Spec

\* The device sends the packets in the order they were written, each once; none
\* is overwritten while the device owns it.
TxFifo == INSTANCE PacketFifo WITH
            queue <- Run(tx, tx_device, TxLen, Owned), result <- wire
ImplementsTxFifo == TxFifo!Spec

\* write_packet ends: it only waits for descriptors the device does send.
WriteReturns == writing # NoPacket ~> (writing = NoPacket /\ ~NPQ)
=============================================================================
