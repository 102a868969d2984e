--------------------------- MODULE NetworkAdapters ---------------------------
(***************************************************************************)
(* The rings of the network adapters, and the virtqueue that virtio-netd   *)
(* and the other virtio drivers send through, one at a time: the initial   *)
(* state says which is in use, and only its driver and its device move.    *)
(* Receiving and transmitting share no state, so each is a ring by itself. *)
(* alxd has no rings in use yet, only its link.                            *)
(***************************************************************************)
EXTENDS Naturals, Sequences

CONSTANTS RingSize, RxLen, TxLen, QueueSize, RX_BUFFER_SIZE, CaprGap, Sizes,
          Packets, NoPacket, EIO,
          Tasks, TableSize, IndexSpan, ChainLens, None,    \* the virtqueue
          Speeds, MaxChanges, MaxFaults,                   \* the link of alxd
          Frames    \* packets in the ring of bytes, where sizes tell them apart too

Rings == {"e1000_rx", "ixgbe_rx", "intel_tx", "rtl8168_rx", "rtl8168_tx",
          "rtl8139_rx", "rtl8139_tx", "virtio_rx", "virtqueue", "alx_link"}

VARIABLES using,    \* the ring in use
          receive_ring, receive_index, RDH, RDT, intel_result,
          transmit_ring, transmit_index, transmit_clean_index, transmit_ring_free,
          TDH, TDT, intel_writing, intel_wire,
          rx, rtl8168_receive_i, rx_device, rtl8168_result,
          tx, rtl8168_transmit_i, rtl8168_tx_device, rtl8168_wire, rtl8168_writing, NPQ,
          buffer, receive_i, CAPR, CBR, rtl8139_result,
          tsd, transmit_i, tx_device, rtl8139_writing, rtl8139_wire,
          posted, used, used_idx, recv_head, virtio_result, seen, delivered,
          descriptor_stack, next, avail, avail_idx, vq_used, vq_used_idx, used_head, waker,
          state, first, woken, held, taken, irq, panicked,
          phy, nic, line, pc, ret, imask, flag, link_up, link_speed, link_seen, bounds

intelRxVars == <<receive_ring, receive_index, RDH, RDT, intel_result>>
intelTxVars == <<transmit_ring, transmit_index, transmit_clean_index, transmit_ring_free,
                 TDH, TDT, intel_writing, intel_wire>>
rtl8168Vars == <<rx, rtl8168_receive_i, rx_device, rtl8168_result, tx, rtl8168_transmit_i,
                 rtl8168_tx_device, rtl8168_wire, rtl8168_writing, NPQ>>
rtl8139Vars == <<buffer, receive_i, CAPR, CBR, rtl8139_result,
                 tsd, transmit_i, tx_device, rtl8139_writing, rtl8139_wire>>
virtioVars == <<posted, used, used_idx, recv_head, virtio_result, seen, delivered>>
queueVars == <<descriptor_stack, next, avail, avail_idx, vq_used, vq_used_idx, used_head,
               waker, state, first, woken, held, taken, irq, panicked>>
alxVars == <<phy, nic, line, pc, ret, imask, flag, link_up, link_speed, link_seen, bounds>>
vars == <<using, intelRxVars, intelTxVars, rtl8168Vars, rtl8139Vars, virtioVars, queueVars, alxVars>>

E1000 == INSTANCE IntelRings WITH Chip <- "e1000", result <- intel_result,
           writing <- intel_writing, wire <- intel_wire
Ixgbe == INSTANCE IntelRings WITH Chip <- "ixgbe", result <- intel_result,
           writing <- intel_writing, wire <- intel_wire
Rtl8168 == INSTANCE Rtl8168Rings WITH
             receive_i <- rtl8168_receive_i, result <- rtl8168_result,
             transmit_i <- rtl8168_transmit_i, tx_device <- rtl8168_tx_device,
             wire <- rtl8168_wire, writing <- rtl8168_writing
Realtek == INSTANCE Rtl8139 WITH Packets <- Frames,
             result <- rtl8139_result, writing <- rtl8139_writing, wire <- rtl8139_wire
Virtio == INSTANCE VirtioNetRx WITH result <- virtio_result
Queue == INSTANCE VirtQueue WITH QueueSize <- TableSize,
           used <- vq_used, used_idx <- vq_used_idx
Alx == INSTANCE AlxLink WITH seen <- link_seen

-----------------------------------------------------------------------------
Init ==
    /\ using \in Rings
    /\ E1000!Init /\ Rtl8168!Init /\ Realtek!Init /\ Virtio!Init
    /\ Queue!Init /\ Alx!Init

E1000RxStep ==
    /\ using = "e1000_rx"
    /\ E1000!RxNext
    /\ UNCHANGED <<using, intelTxVars, rtl8168Vars, rtl8139Vars, virtioVars, queueVars, alxVars>>

IxgbeRxStep ==
    /\ using = "ixgbe_rx"
    /\ Ixgbe!RxNext
    /\ UNCHANGED <<using, intelTxVars, rtl8168Vars, rtl8139Vars, virtioVars, queueVars, alxVars>>

IntelTxStep ==
    /\ using = "intel_tx"
    /\ E1000!TxNext
    /\ UNCHANGED <<using, intelRxVars, rtl8168Vars, rtl8139Vars, virtioVars, queueVars, alxVars>>

Rtl8168RxStep ==
    /\ using = "rtl8168_rx"
    /\ Rtl8168!RxNext
    /\ UNCHANGED <<using, intelRxVars, intelTxVars, rtl8139Vars, virtioVars, queueVars, alxVars>>

Rtl8168TxStep ==
    /\ using = "rtl8168_tx"
    /\ Rtl8168!TxNext
    /\ UNCHANGED <<using, intelRxVars, intelTxVars, rtl8139Vars, virtioVars, queueVars, alxVars>>

Rtl8139RxStep ==
    /\ using = "rtl8139_rx"
    /\ Realtek!RxNext
    /\ UNCHANGED <<using, intelRxVars, intelTxVars, rtl8168Vars, virtioVars, queueVars, alxVars>>

Rtl8139TxStep ==
    /\ using = "rtl8139_tx"
    /\ Realtek!TxNext
    /\ UNCHANGED <<using, intelRxVars, intelTxVars, rtl8168Vars, virtioVars, queueVars, alxVars>>

VirtioRxStep ==
    /\ using = "virtio_rx"
    /\ Virtio!Next
    /\ UNCHANGED <<using, intelRxVars, intelTxVars, rtl8168Vars, rtl8139Vars, queueVars, alxVars>>

InQueue == /\ using = "virtqueue"
           /\ UNCHANGED <<using, intelRxVars, intelTxVars, rtl8168Vars, rtl8139Vars, virtioVars, alxVars>>

QueueStep == InQueue /\ Queue!Next

AlxStep ==
    /\ using = "alx_link"
    /\ Alx!Next
    /\ UNCHANGED <<using, intelRxVars, intelTxVars, rtl8168Vars, rtl8139Vars, virtioVars, queueVars>>

Next == \/ E1000RxStep \/ IxgbeRxStep \/ IntelTxStep
        \/ Rtl8168RxStep \/ Rtl8168TxStep \/ Rtl8139RxStep \/ Rtl8139TxStep
        \/ VirtioRxStep \/ QueueStep \/ AlxStep

\* A write_packet that spins is scheduled, and a device sends what it was given.  The
\* executor polls woken tasks, the interrupt thread runs, and the device answers what it
\* took from the virtqueue; nobody has to send.
Fairness ==
    /\ WF_rtl8168Vars(using = "rtl8168_tx" /\ Rtl8168!Fill)
    /\ WF_rtl8168Vars(using = "rtl8168_tx" /\ Rtl8168!TakeNotice)
    /\ WF_rtl8168Vars(using = "rtl8168_tx" /\ Rtl8168!Transmit)
    /\ WF_rtl8139Vars(using = "rtl8139_tx" /\ Realtek!Fill)
    /\ WF_rtl8139Vars(using = "rtl8139_tx" /\ Realtek!Transmit)
    /\ \A t \in Tasks : WF_queueVars(InQueue /\ Queue!Poll(t))
    /\ WF_queueVars(InQueue /\ Queue!IrqThread)
    /\ WF_queueVars(InQueue /\ Queue!DeviceTake)
    /\ WF_queueVars(InQueue /\ Queue!DeviceComplete)

Spec == Init /\ [][Next]_vars /\ Fairness

-----------------------------------------------------------------------------
\* No descriptor has two owners: in the receive ring of e1000d and ixgbed neither side
\* writes one the other owns (read_packet and RDT), and in a virtqueue every descriptor is
\* free or belongs to one request, and is not free while the device may write its memory
\* (send, PendingRequest::poll).
Ownership == /\ E1000!Ownership
             /\ Queue!DescriptorsConserved
             /\ Queue!DeviceOwnsItsChains

\* read_packet returns the packets in order, each once, and "Ok(None) when there is
\* no pending network packet": e1000d and ixgbed by the head register, rtl8168d by
\* the owner bit, rtl8139d across the end of its ring of bytes, a bad packet as EIO.
Receives == /\ E1000!ImplementsRxFifo
            /\ Rtl8168!ImplementsRxFifo
            /\ Realtek!ImplementsRxFifo

\* Packets are sent in the order they were written, and no descriptor is reused
\* that the device has not sent (write_packet of the same adapters).
Transmits == /\ E1000!ImplementsTxFifo
             /\ Rtl8168!ImplementsTxFifo
             /\ Realtek!ImplementsTxFifo

\* write_packet of rtl8168d and rtl8139d ends: it waits only for descriptors the device does
\* send.  A request of a virtqueue that is awaited completes, and its task never sleeps on a
\* completion (PendingRequest::poll), as long as one task uses the queue.
WritesReturn == /\ Rtl8168!WriteReturns /\ Realtek!WriteReturns
                /\ []Queue!NoLostNotification
                /\ Queue!AwaitedRequestCompletes

\* virtio-netd never returns a packet twice, although the device adds elements
\* while try_recv runs (the used index is read three times).
NeverReadTwice == Virtio!NeverReadTwice

\* alxd follows the link: between interrupts it can be interrupted, and once the PHY has
\* nothing more to say the MAC runs at the speed of the link or is off, whenever the link
\* changed and whatever timed out or failed meanwhile; but for an interrupt that comes while
\* open runs (intr_1, check_link, reinit).
LinkFollowed == using = "alx_link" => Alx!LinkFollowed
=============================================================================
