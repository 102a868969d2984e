----------------------------- MODULE VirtioNetRx -----------------------------
(***************************************************************************)
(* Receiving in virtio-netd: one buffer per descriptor is posted when the  *)
(* driver starts; the device puts a packet into the next one and an        *)
(* element for it into the used ring.                                      *)
(***************************************************************************)
EXTENDS Naturals, Sequences, Functions

CONSTANTS QueueSize, Packets, NoPacket

VARIABLES posted,      \* buffers in the available ring
          used,        \* used ring: the packets, by position
          used_idx,    \* used.head_index()
          recv_head, result,
          seen,        \* element a running try_recv copies, or NoPacket
          delivered    \* packets read_packet has returned

vars == <<posted, used, used_idx, recv_head, result, seen, delivered>>

\* Every packet is one of its own: it arrives once.
Receive(p) ==
    /\ posted > 0
    /\ p \notin Range(used)
    /\ posted' = posted - 1
    /\ used' = [used EXCEPT ![used_idx % QueueSize] = p]
    /\ used_idx' = used_idx + 1
    /\ UNCHANGED <<recv_head, result, seen, delivered>>

\* try_recv up to the copy: the newest element, at used_idx - 1.
TryRecv ==
    /\ seen = NoPacket /\ recv_head # used_idx
    /\ seen' = used[(used_idx - 1) % QueueSize]
    /\ UNCHANGED <<posted, used, used_idx, recv_head, result, delivered>>

TryRecvDone_StepsOne ==
    /\ seen # NoPacket
    /\ result' = seen
    /\ delivered' = delivered \cup {seen}
    /\ seen' = NoPacket
    /\ recv_head' = recv_head + 1
    /\ UNCHANGED <<posted, used, used_idx>>

\* Its end reads the index once more.
TryRecvDone ==
    /\ seen # NoPacket
    /\ result' = seen
    /\ delivered' = delivered \cup {seen}
    /\ seen' = NoPacket
    /\ recv_head' = used_idx
    /\ UNCHANGED <<posted, used, used_idx>>

TryRecvNothing ==
    /\ seen = NoPacket /\ recv_head = used_idx
    /\ result' = NoPacket
    /\ UNCHANGED <<posted, used, used_idx, recv_head, seen, delivered>>

available_for_read == used_idx - recv_head

Init ==
    /\ posted = QueueSize
    /\ used = [s \in 0 .. QueueSize - 1 |-> NoPacket]
    /\ used_idx = 0 /\ recv_head = 0
    /\ result = NoPacket /\ seen = NoPacket /\ delivered = {}

Next == TryRecv \/ TryRecvDone \/ TryRecvNothing \/ \E p \in Packets : Receive(p)

Spec == Init /\ [][Next]_vars

-----------------------------------------------------------------------------
\* read_packet never returns a packet twice, although the device adds elements
\* while try_recv runs (the index is read three times).
NeverReadTwice == seen \notin delivered

\* The used elements are a queue of packets: each is read once, in order. They
\* are "The amount of network packets that can be read without blocking".
Fifo == INSTANCE PacketFifo WITH
          queue <- [k \in 1 .. available_for_read |-> used[(recv_head + k - 1) % QueueSize]]
ImplementsFifo == Fifo!Spec
=============================================================================
