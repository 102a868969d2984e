----------------------------- MODULE VboxGuest -----------------------------
(***************************************************************************)
(* vboxd: the host of a virtual machine moves the pointer and resizes the   *)
(* display, and says so in host_events.  The driver reads the events,       *)
(* acknowledges them all, and asks for the size and then for the pointer,   *)
(* which the host counts in fractions of the display.                       *)
(***************************************************************************)
EXTENDS InputEvents

CONSTANTS Scale,         \* the width of the display in the host's units, 2^16
          Widths,        \* of the display
          MaxChanges     \* moves and resizes of the host

VARIABLES host,          \* [x, width]: where the pointer is, and the display
          host_events,   \* of VboxVmmDev
          line,          \* the kernel's side of the interrupt: event to read, masked until the ack
          pc, seen,      \* the driver, and the events it read
          width, bga,    \* its size of the display, and the mode of the adapter
          view, size,    \* what the consumer of input knows
          missed,        \* events acknowledged that the driver had not read
          resized,       \* the display changed after the pointer was reported
          changes

vars == <<host, host_events, line, pc, seen, width, bga, view, size, missed, resized, changes>>

\* main, until the loop: a producer of inputd has no path, so no size is known.
Init ==
    /\ host \in [x : {0}, width : Widths]
    /\ host_events = {} /\ line = [event |-> TRUE, masked |-> FALSE]
    /\ pc = "wait" /\ seen = {}
    /\ width = 0 /\ bga = host.width
    /\ view = NoInput /\ size = host.width
    /\ missed = {} /\ resized = TRUE
    /\ changes = MaxChanges

-----------------------------------------------------------------------------
(* The host, and the interrupt it holds while there are events *)

Move(x) ==
    /\ changes > 0 /\ x # host.x
    /\ host' = [host EXCEPT !.x = x]
    /\ host_events' = host_events \cup {"mouse"}
    /\ changes' = changes - 1
    /\ UNCHANGED <<line, pc, seen, width, bga, view, size, missed, resized>>

Resize(w) ==
    /\ changes > 0 /\ w # host.width
    /\ host' = [host EXCEPT !.width = w]
    /\ host_events' = host_events \cup {"display"}
    /\ resized' = TRUE
    /\ changes' = changes - 1
    /\ UNCHANGED <<line, pc, seen, width, bga, view, size, missed>>

Raise ==
    /\ host_events # {} /\ ~line.masked
    /\ line' = [event |-> TRUE, masked |-> TRUE]
    /\ UNCHANGED <<host, host_events, pc, seen, width, bga, view, size, missed, resized, changes>>

-----------------------------------------------------------------------------
(* The driver *)

\* An interrupt that is not the host's is left to its own driver.  The loop starts with one
\* pass that no interrupt asked for.
ReadEvents ==
    /\ pc = "wait" /\ line.event
    /\ line' = [line EXCEPT !.event = FALSE]
    /\ seen' = host_events
    /\ pc' = IF line.masked /\ host_events # {} THEN "ack" ELSE "wait"
    /\ UNCHANGED <<host, host_events, width, bga, view, size, missed, resized, changes>>

\* The request acknowledges whatever there is by now.
AckEvents ==
    /\ pc = "ack"
    /\ host_events' = {}
    /\ missed' = missed \cup (host_events \ seen)
    /\ pc' = "unmask"
    /\ UNCHANGED <<host, line, seen, width, bga, view, size, resized, changes>>

AckIrq ==
    /\ pc = "unmask"
    /\ line' = [line EXCEPT !.masked = FALSE]
    /\ pc' = "display"
    /\ UNCHANGED <<host, host_events, seen, width, bga, view, size, missed, resized, changes>>

\* A new size goes to the adapter and to the consumer.
DisplayChange ==
    /\ pc = "display"
    /\ IF "display" \in seen
       THEN /\ width' = host.width
            /\ missed' = missed \ {"display"}
            /\ IF host.width # width THEN bga' = host.width /\ size' = host.width
                                     ELSE UNCHANGED <<bga, size>>
       ELSE UNCHANGED <<width, bga, size, missed>>
    /\ pc' = "mouse"
    /\ UNCHANGED <<host, host_events, line, seen, view, resized, changes>>

GetMouse ==
    /\ pc = "mouse"
    /\ IF "mouse" \in seen
       THEN /\ view' = MouseEvent(view, (host.x * width) \div Scale)
            /\ missed' = missed \ {"mouse"}
            /\ resized' = (width # host.width)
       ELSE UNCHANGED <<view, missed, resized>>
    /\ pc' = "wait"
    /\ UNCHANGED <<host, host_events, line, seen, width, bga, size, changes>>

Next == \/ \E x \in 0 .. Scale - 1 : Move(x)
        \/ \E w \in Widths : Resize(w)
        \/ Raise \/ ReadEvents \/ AckEvents \/ AckIrq \/ DisplayChange \/ GetMouse

-----------------------------------------------------------------------------
Quiet == pc = "wait" /\ ~line.event /\ host_events = {}

\* When the driver waits and the host has said all, adapter and consumer have the size of
\* the display, and the pointer is where the host has it on that display: unless the event
\* came between the read of host_events and the acknowledgement and is lost (missed), or the
\* display changed after the pointer was reported (main).
HostFollowed ==
    Quiet => /\ "display" \notin missed => bga = host.width /\ size = host.width
             /\ missed = {} /\ ~resized => view.pos = (host.x * host.width) \div Scale
             /\ ~line.masked
=============================================================================
