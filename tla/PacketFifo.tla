------------------------------ MODULE PacketFifo ------------------------------
(***************************************************************************)
(* What a network adapter promises in one direction: packets leave in the  *)
(* order they came, each once, and the reader hears of none only when      *)
(* there is none.                                                          *)
(***************************************************************************)
EXTENDS Sequences

CONSTANTS Packets, NoPacket

VARIABLES queue,    \* packets that came and did not leave
          result    \* outcome of the last attempt to take one

Init == queue = <<>> /\ result = NoPacket

Put(p) ==
    /\ queue' = Append(queue, p)
    /\ UNCHANGED result

Take ==
    /\ queue # <<>>
    /\ result' = Head(queue)
    /\ queue' = Tail(queue)

TakeNothing ==
    /\ queue = <<>>
    /\ result' = NoPacket
    /\ UNCHANGED queue

Next == Take \/ TakeNothing \/ \E p \in Packets : Put(p)

Spec == Init /\ [][Next]_<<queue, result>>
=============================================================================
