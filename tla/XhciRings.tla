------------------------------ MODULE XhciRings ------------------------------
(***************************************************************************)
(* The rings of xhcid.  In a command or transfer ring the driver writes    *)
(* TRBs with its cycle bit and closes every lap with a link TRB; the       *)
(* controller executes TRBs while their cycle bit is its own, and toggles  *)
(* it at the link.  The reactor overwrites a command TRB when the command  *)
(* has completed.                                                          *)
(*                                                                         *)
(* The event ring is written by the controller.  The reactor knows an      *)
(* event by its completion code, not by the cycle bit: it makes the TRB a  *)
(* reserved one when it has handled it, and then moves the dequeue         *)
(* pointer, which gives the place back to the controller.                  *)
(***************************************************************************)
EXTENDS Naturals, Sequences

CONSTANTS RingLen,      \* TRBs in a command or transfer ring, the link TRB included
          Trbs, NoTrb,  \* what is written, and the TRB of type Reserved
          Overwrites,   \* whether a completed TRB is overwritten
          EventRingLen, Events, NoEvent

VARIABLES trbs, i, cycle,    \* struct Ring
          deq, ccs,          \* the controller's dequeue pointer and cycle state
          running,           \* it was told by the doorbell to work on the ring
          completed,         \* indices in events the reactor has not handled
          result,            \* the last TRB the controller executed
          ev_trbs, ev_i,     \* struct Ring of the event ring
          ev_index,          \* event_trb_index
          ev_at,             \* where the reactor is in its loop
          erdp,              \* the register
          ev_enq,            \* the controller's enqueue pointer
          handled            \* the event handled last

ring_vars == <<trbs, i, cycle, deq, ccs, running, completed, result>>
event_vars == <<ev_trbs, ev_i, ev_index, ev_at, erdp, ev_enq, handled>>

Indices == 0 .. RingLen - 1
Zeroed == [data |-> NoTrb, cycle |-> FALSE, link |-> FALSE]
Link(c) == [data |-> NoTrb, cycle |-> c, link |-> TRUE]

-----------------------------------------------------------------------------
(* A command or transfer ring *)

\* Ring::new for a ring with a link
RingInit ==
    /\ trbs = [k \in Indices |-> Zeroed]
    /\ i = 0 /\ cycle = TRUE
    /\ deq = 0 /\ ccs = TRUE
    /\ running = FALSE
    /\ completed = <<>>
    /\ result = NoTrb

\* Ring::next_index and the TRB written there: at the end of the ring the link is
\* written with the cycle bit of the lap that ends.
AtEnd == i = RingLen - 1

\* The link has the cycle bit of the lap that starts.
Enqueue_LinkAfterToggle(t) ==
    LET at == IF AtEnd THEN 0 ELSE i
        c == IF AtEnd THEN ~cycle ELSE cycle
        new == [data |-> t, cycle |-> c, link |-> FALSE]
    IN /\ trbs' = IF AtEnd THEN [trbs EXCEPT ![i] = Link(c), ![at] = new]
                           ELSE [trbs EXCEPT ![at] = new]
       /\ i' = at + 1
       /\ cycle' = c

Enqueue(t) ==
    LET at == IF AtEnd THEN 0 ELSE i
        c == IF AtEnd THEN ~cycle ELSE cycle
        new == [data |-> t, cycle |-> c, link |-> FALSE]
    IN /\ trbs' = IF AtEnd THEN [trbs EXCEPT ![i] = Link(cycle), ![at] = new]
                           ELSE [trbs EXCEPT ![at] = new]
       /\ i' = at + 1
       /\ cycle' = c

\* A place in the ring without the link, from the controller's place on.
Ahead(k) == (k + 2 * (RingLen - 1) - deq) % (RingLen - 1)
Written == Ahead(i)

\* Two threads call, and each waits for what it wrote.
Write(t) ==
    /\ Written + Len(completed) < 2
    /\ Enqueue(t)
    /\ UNCHANGED <<deq, ccs, running, completed, result>>

Doorbell ==
    /\ ~running
    /\ running' = TRUE
    /\ UNCHANGED <<trbs, i, cycle, deq, ccs, completed, result>>

Execute ==
    LET linked == trbs[deq].link /\ trbs[deq].cycle = ccs
        at == IF linked THEN 0 ELSE deq
        c == IF linked THEN ~ccs ELSE ccs
    IN /\ running
       /\ IF trbs[at].cycle = c /\ ~trbs[at].link
          THEN /\ result' = trbs[at].data
               /\ completed' = Append(completed, at)
               /\ deq' = at + 1 /\ ccs' = c
               /\ UNCHANGED running
          ELSE /\ running' = FALSE
               /\ deq' = at /\ ccs' = c
               /\ UNCHANGED <<completed, result>>
       /\ UNCHANGED <<trbs, i, cycle>>

\* acknowledge: the TRB of a command is fetched and made a reserved one.
Acknowledge ==
    /\ completed # <<>>
    /\ trbs' = IF Overwrites THEN [trbs EXCEPT ![Head(completed)] = Zeroed] ELSE trbs
    /\ completed' = Tail(completed)
    /\ UNCHANGED <<i, cycle, deq, ccs, running, result>>

RingNext == Doorbell \/ Execute \/ Acknowledge \/ \E t \in Trbs : Write(t)

-----------------------------------------------------------------------------
(* The event ring *)

EventPlaces == 0 .. EventRingLen - 1

\* Ring::next_index for a ring without a link
Following(k) == (k + 1) % EventRingLen

\* EventRing::new, and the first next_index of run_polling
EventInit ==
    /\ ev_trbs = [k \in EventPlaces |-> NoEvent]
    /\ ev_index = 0 /\ ev_i = Following(0)
    /\ ev_at = "poll"
    /\ erdp = 0 /\ ev_enq = 0
    /\ handled = NoEvent

\* The controller leaves one place free.
Post(e) ==
    /\ Following(ev_enq) # erdp
    /\ ev_trbs' = [ev_trbs EXCEPT ![ev_enq] = e]
    /\ ev_enq' = Following(ev_enq)
    /\ UNCHANGED <<ev_i, ev_index, ev_at, erdp, handled>>

\* run_polling: no completion code, so it pauses ...
Pause ==
    /\ ev_at = "poll" /\ ev_trbs[ev_index] = NoEvent
    /\ handled' = NoEvent
    /\ UNCHANGED <<ev_trbs, ev_i, ev_index, ev_at, erdp, ev_enq>>

\* ... or the event is handled, which wakes the call that waits for it,
Handle ==
    /\ ev_at = "poll" /\ ev_trbs[ev_index] # NoEvent
    /\ handled' = ev_trbs[ev_index]
    /\ ev_at' = "clear"
    /\ UNCHANGED <<ev_trbs, ev_i, ev_index, erdp, ev_enq>>

\* made a reserved TRB,
Clear ==
    /\ ev_at = "clear"
    /\ ev_trbs' = [ev_trbs EXCEPT ![ev_index] = NoEvent]
    /\ ev_at' = "erdp"
    /\ UNCHANGED <<ev_i, ev_index, erdp, ev_enq, handled>>

\* and its place given back by update_erdp; next_index goes to the next one.
UpdateErdp ==
    /\ ev_at = "erdp"
    /\ erdp' = ev_i
    /\ ev_index' = ev_i /\ ev_i' = Following(ev_i)
    /\ ev_at' = "poll"
    /\ UNCHANGED <<ev_trbs, ev_enq, handled>>

EventNext == Pause \/ Handle \/ Clear \/ UpdateErdp \/ \E e \in Events : Post(e)

-----------------------------------------------------------------------------
Init == RingInit /\ EventInit

\* A command ring by itself: the controller works on a ring it was told about, and the
\* reactor on its events.
CommandSpec ==
    /\ Init /\ [][RingNext /\ UNCHANGED event_vars]_<<ring_vars, event_vars>>
    /\ WF_ring_vars(Execute) /\ WF_ring_vars(Acknowledge)

-----------------------------------------------------------------------------
Waiting == [k \in 1 .. Written |-> trbs[(deq + k - 1) % (RingLen - 1)].data]

\* The controller executes what was written, in the order it was written, each TRB once
\* (Ring::next_index, and the doorbells of the two threads).
Fifo == INSTANCE PacketFifo WITH queue <- Waiting, Packets <- Trbs, NoPacket <- NoTrb
InOrder == Fifo!Spec

\* The controller never stops while something is written: behind the end of a lap the link
\* has the cycle bit it expects there, and the TRB after it the toggled one
\* (Ring::next_index).
NothingMissed == [][running /\ ~running' => Written = 0]_ring_vars

FirstToHandle == IF ev_at = "poll" THEN ev_index ELSE ev_i
ToHandle == (ev_enq + EventRingLen - FirstToHandle) % EventRingLen
Posted == [k \in 1 .. ToHandle |-> ev_trbs[(FirstToHandle + k - 1) % EventRingLen]]

\* Every event the controller posts is handled once, in its order, although the reactor
\* clears the TRB and moves the dequeue pointer in separate steps (run_polling).
EventFifo == INSTANCE PacketFifo WITH queue <- Posted, result <- handled, Packets <- Events, NoPacket <- NoEvent
EventsInOrder == EventFifo!Spec
=============================================================================
