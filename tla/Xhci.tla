-------------------------------- MODULE Xhci --------------------------------
(***************************************************************************)
(* The threads of xhcid and what they share.  The device enumerator attaches*)
(* and detaches the devices of the ports, the main thread serves the       *)
(* drivers, and the reactor hands every event of the controller to the call *)
(* that waits for it.  A call writes its TRBs to a ring, sends its state to *)
(* the reactor, rings the doorbell and waits.                              *)
(*                                                                         *)
(* A lock is held exactly while its holder is at certain steps, so the     *)
(* locks are operators over the threads: the mutex `ports`, and the guards *)
(* of the entry of a port in `port_states`.                                *)
(***************************************************************************)
EXTENDS Naturals, FiniteSetsExt, SequencesExt

CONSTANTS Ports,      \* the ports of the root hub
          Slots,      \* the device slots of the controller
          Addrs,      \* pages where a transfer ring can be allocated, numbers above 0
          RingLen,    \* TRBs in a ring, the one that links to its start included
          Budgets,    \* bounds: how often devices are plugged or unplugged, drivers
                      \* call, and commands or transfers fail, as triples
          None

Cmd == 0    \* the page of the command ring

Commands == {"enable", "address", "evalmps", "evalpipe", "disable", "configure"}
Transfers == {"desc8", "desc", "setconfig", "request"}
Attaching == {"enable", "address", "desc8", "evalmps", "desc", "evalpipe"}

VARIABLES portsc,       \* each port's status register
          port_states,  \* the attached device of each port, or None
          drivers,      \* ports whose drivers run
          ring,         \* each ring: what is written to it and not executed
          enq,          \* each ring: where the next TRB is written
          running,      \* rings the controller works on since a doorbell
          halted,       \* rings whose endpoint is halted
          slots,        \* the ring of each slot of the controller: Cmd when the slot is enabled
                        \* and has none yet, None when it is free
          freed,        \* ring addresses that are not allocated
          events,       \* events in the event ring
          inbox,        \* states sent to the reactor
          states,       \* states the reactor holds
          reactor,      \* the port whose status change it must still acknowledge, or None
          enumq,        \* requests to the device enumerator
          th,           \* the enumerator and the main thread
          plugs, calls, faults,    \* what is left of the bounds
          excused       \* ports that need not agree with port_states in the end: a change was
                        \* masked, a device replaced, or a command or transfer failed

vars == <<portsc, port_states, drivers, ring, enq, running, halted, slots, freed,
          events, inbox, states, reactor, enumq, th, plugs, calls, faults, excused>>

controllerVars == <<ring, enq, running, halted, slots>>
reactorVars == <<events, inbox, states, reactor>>
boundVars == <<plugs, calls, faults, excused>>

Threads == {"enum", "main"}
Idle == [pc |-> "idle", at |-> "write", port |-> None, slot |-> None, addr |-> None,
         dev |-> None, ring |-> None, td |-> None, res |-> None, n |-> 0]

Attached(p) == port_states[p] # None

-----------------------------------------------------------------------------
(* Locks *)

\* The mutex `ports` is held while a port is reset and, in get_desc, over every
\* transfer that reads a descriptor.
PortsHeld == th["enum"].pc \in {"resetting", "desc"}

\* attach_device holds a write guard over the commands that evaluate a context,
\* configure_endpoints_once a read guard over the command that configures.
WriteGuard(p) == th["enum"].pc \in {"evalmps", "evalpipe"} /\ th["enum"].port = p
ReadGuard(p) == th["main"].pc = "configure" /\ th["main"].port = p

-----------------------------------------------------------------------------
Init ==
    /\ portsc = [p \in Ports |-> [ccs |-> FALSE, ped |-> FALSE, chg |-> {}, dev |-> 0]]
    /\ port_states = [p \in Ports |-> None]
    /\ drivers = {}
    /\ ring = [a \in Addrs \cup {Cmd} |-> <<>>]
    /\ enq = [a \in Addrs \cup {Cmd} |-> 0]
    /\ running = {} /\ halted = {}
    /\ slots = [s \in Slots |-> None]
    /\ freed = Addrs
    /\ events = <<>> /\ inbox = <<>> /\ states = <<>>
    /\ reactor = None
    /\ enumq = <<>>
    /\ th = [t \in Threads |-> Idle]
    /\ \E b \in Budgets : plugs = b[1] /\ calls = b[2] /\ faults = b[3]
    /\ excused = {}

-----------------------------------------------------------------------------
(* The ports *)

\* A change bit is set.  The controller posts an event only when none was set.
Change(p, bit, sc) ==
    /\ portsc' = [portsc EXCEPT ![p] = [sc EXCEPT !.chg = @ \cup {bit}]]
    /\ events' = IF portsc[p].chg = {}
                 THEN Append(events, [type |-> "port", port |-> p]) ELSE events

\* No event for the port is in the ring and the enumerator has taken the request,
\* while the bit is still set: this change posts no event.
Masked(p) == /\ portsc[p].chg # {}
             /\ \A i \in 1..Len(events) : events[i] # [type |-> "port", port |-> p]
             /\ ~Contains(enumq, p)

\* The device that was there before is attached, or being attached: the enumerator
\* takes the new one for it.
Replaced(p) == Attached(p) \/ (th["enum"].port = p /\ th["enum"].pc \in Attaching)

Plug(p) ==
    /\ plugs > 0 /\ ~portsc[p].ccs
    /\ Change(p, "csc", [portsc[p] EXCEPT !.ccs = TRUE, !.dev = 1 - @])
    /\ excused' = IF Masked(p) \/ Replaced(p) THEN excused \cup {p} ELSE excused
    /\ plugs' = plugs - 1
    /\ UNCHANGED <<port_states, drivers, controllerVars, freed, inbox, states, reactor,
                   enumq, th, calls, faults>>

Unplug(p) ==
    /\ plugs > 0 /\ portsc[p].ccs
    /\ Change(p, "csc", [portsc[p] EXCEPT !.ccs = FALSE, !.ped = FALSE])
    /\ excused' = IF Masked(p) THEN excused \cup {p} ELSE excused
    /\ plugs' = plugs - 1
    /\ UNCHANGED <<port_states, drivers, controllerVars, freed, inbox, states, reactor,
                   enumq, th, calls, faults>>

\* The reset that reset_port asked for ends: the port is enabled if it has a device.
ResetDone(p) ==
    /\ th["enum"].pc = "resetting" /\ th["enum"].port = p
    /\ "prc" \notin portsc[p].chg
    /\ Change(p, "prc", [portsc[p] EXCEPT !.ped = @ \/ portsc[p].ccs])
    /\ UNCHANGED <<port_states, drivers, controllerVars, freed, inbox, states, reactor,
                   enumq, th, boundVars>>

-----------------------------------------------------------------------------
(* Calls *)

\* The number of a call tells it from the thread's call before.
Id(t) == <<t, th[t].n>>

\* Thread t ends its work, or goes on to step pc.
Done(t) == [Idle EXCEPT !.n = th[t].n]
Goto(t, pc) == [th[t] EXCEPT !.pc = pc, !.at = "write", !.td = None, !.res = None]

AddrOf(t) == IF th[t].pc \in Commands THEN Cmd ELSE port_states[th[t].port].addr

\* The physical address of a TRB.  Pages do not touch.
Phys(a, i) == a * (RingLen + 1) + i

\* A command is one TRB.  A control transfer has a setup and a status stage, and a data
\* stage between them unless it transfers no data.
Length(pc) == IF pc \in Commands THEN 1 ELSE IF pc = "setconfig" THEN 2 ELSE 3

\* Ring::next_index, k times: the last TRB of the ring is the link to the first.
Advance(i, k) == (i + k) % (RingLen - 1)

\* next_command_completion_event_trb and next_transfer_event_trb: the TRBs are written
\* under the lock of the command ring or of the port's state, and the future made.
WriteTrbs(t) ==
    /\ th[t].pc \in Commands \cup Transfers /\ th[t].at = "write"
    /\ th[t].pc \in Transfers => Attached(th[t].port) /\ ~(t = "main" /\ WriteGuard(th[t].port))
    /\ LET a == AddrOf(t)
           n == Length(th[t].pc)
           td == [first |-> Phys(a, enq[a]), last |-> Phys(a, Advance(enq[a], n - 1))]
       IN /\ ring' = [ring EXCEPT ![a] =
                         Append(@, [td |-> td, id |-> <<t, 1 - th[t].n>>, op |-> th[t].pc,
                                    slot |-> th[t].slot, addr |-> th[t].addr,
                                    port |-> th[t].port, dev |-> th[t].dev])]
          /\ enq' = [enq EXCEPT ![a] = Advance(@, n)]
          /\ th' = [th EXCEPT ![t].at = "send", ![t].ring = a, ![t].td = td, ![t].n = 1 - @]
    /\ UNCHANGED <<portsc, port_states, drivers, running, halted, slots, freed,
                   reactorVars, enumq, boundVars>>

\* get_desc_raw and execute_control_transfer: the port's state is gone.
NoPort(t) ==
    /\ th[t].pc \in Transfers /\ th[t].at = "write" /\ ~Attached(th[t].port)
    /\ th' = [th EXCEPT ![t].at = "done", ![t].res = "err"]
    /\ UNCHANGED <<portsc, port_states, drivers, controllerVars, freed, reactorVars,
                   enumq, boundVars>>

\* EventTrbFuture::poll registers the state with the reactor ...
SendState(t) ==
    /\ th[t].at = "send"
    /\ inbox' = Append(inbox, [who |-> t, td |-> th[t].td, port |-> th[t].port,
                               kind |-> IF th[t].pc \in Commands THEN "command" ELSE "transfer"])
    /\ th' = [th EXCEPT ![t].at = "bell"]
    /\ UNCHANGED <<portsc, port_states, drivers, controllerVars, freed, events, states,
                   reactor, enumq, boundVars>>


\* ... "Doorbell must be rung after sending state".  The doorbell of a slot that was
\* disabled meanwhile starts nothing.
RingDoorbell(t) ==
    /\ th[t].at = "bell"
    /\ LET a == th[t].ring
       IN running' = IF a = Cmd \/ \E s \in Slots : slots[s] = a THEN running \cup {a}
                                                                 ELSE running
    /\ th' = [th EXCEPT ![t].at = "wait"]
    /\ UNCHANGED <<portsc, port_states, drivers, ring, enq, halted, slots, freed, reactorVars,
                   enumq, boundVars>>

-----------------------------------------------------------------------------
(* The controller: it executes what it finds in a ring it was told to work on, in the *)
(* order of the ring and whoever rang the doorbell, until the ring is empty.          *)

Complete(a, ev) ==
    /\ ring' = [ring EXCEPT ![a] = Tail(@)]
    /\ events' = Append(events, ev)
    /\ UNCHANGED <<portsc, port_states, drivers, enq, freed, inbox, states, reactor, enumq,
                   th, plugs, calls>>

Rest(a) == IF Len(ring[a]) = 1 THEN running \ {a} ELSE running

NoFault == UNCHANGED <<faults, excused>>
Fault == faults > 0 /\ faults' = faults - 1 /\ excused' = Ports

\* Device dev is on an enabled port p.
Present(p, dev) == portsc[p].ccs /\ portsc[p].ped /\ portsc[p].dev = dev

CommandEvent(trb, code, slot) ==
    [type |-> "command", ptr |-> trb.td.first, id |-> trb.id, code |-> code, slot |-> slot]

ExecuteCommand ==
    /\ Cmd \in running /\ ring[Cmd] # <<>>
    /\ LET trb == Head(ring[Cmd])
       IN \/ /\ trb.op = "enable"
             /\ \E s \in Slots :
                  /\ slots[s] = None
                  /\ \A x \in Slots : slots[x] = None => s <= x
                  /\ slots' = [slots EXCEPT ![s] = Cmd]
                  /\ Complete(Cmd, CommandEvent(trb, "ok", s))
             /\ running' = Rest(Cmd) /\ UNCHANGED halted /\ NoFault
          \/ /\ trb.op = "address" /\ Present(trb.port, trb.dev)
             /\ slots' = [slots EXCEPT ![trb.slot] = trb.addr]
             /\ Complete(Cmd, CommandEvent(trb, "ok", None))
             /\ running' = Rest(Cmd) /\ UNCHANGED halted /\ NoFault
          \/ /\ trb.op = "disable"
             /\ slots' = [slots EXCEPT ![trb.slot] = None]
             /\ Complete(Cmd, CommandEvent(trb, "ok", None))
             /\ running' = Rest(Cmd) \ {slots[trb.slot]}
             /\ halted' = halted \ {slots[trb.slot]}
             /\ NoFault
          \/ /\ trb.op \in {"evalmps", "evalpipe", "configure"}
             /\ Complete(Cmd, CommandEvent(trb, "ok", None))
             /\ running' = Rest(Cmd) /\ UNCHANGED <<halted, slots>> /\ NoFault
          \/ /\ trb.op # "disable"
             /\ \/ Fault
                \/ trb.op = "enable" /\ (\A s \in Slots : slots[s] # None) /\ NoFault
                \/ trb.op = "address" /\ ~Present(trb.port, trb.dev) /\ NoFault
             /\ Complete(Cmd, CommandEvent(trb, "err", None))
             /\ running' = Rest(Cmd) /\ UNCHANGED <<halted, slots>>

\* A transfer succeeds, with an event for its last TRB, only if the device is there.
\* One that fails halts the endpoint at the TRB that failed.
ExecuteTransfer(a) ==
    /\ a \in running \ halted /\ ring[a] # <<>>
    /\ LET present == \E p \in Ports : /\ Attached(p) /\ port_states[p].addr = a
                                       /\ Present(p, port_states[p].dev)
           td == Head(ring[a]).td
           ev(code, ptr) == [type |-> "transfer", ptr |-> ptr,
                             id |-> Head(ring[a]).id, code |-> code]
       IN \/ present /\ Complete(a, ev("ok", td.last)) /\ UNCHANGED halted /\ NoFault
          \/ /\ IF present THEN Fault ELSE NoFault
             /\ Complete(a, ev("err", td.first))
             /\ halted' = halted \cup {a}
    /\ running' = Rest(a)
    /\ UNCHANGED slots

-----------------------------------------------------------------------------
(* The reactor *)

\* handle_port_status_change sends the request and then acknowledges the change, for
\* which it needs the mutex `ports`.
PortStatusChange ==
    /\ reactor = None /\ events # <<>> /\ Head(events).type = "port"
    /\ states' = states \o inbox /\ inbox' = <<>>
    /\ enumq' = Append(enumq, Head(events).port)
    /\ reactor' = Head(events).port
    /\ events' = Tail(events)
    /\ UNCHANGED <<portsc, port_states, drivers, controllerVars, freed, th, boundVars>>

\* The register is written back with every change bit that was read as set, which
\* clears them all.
ClearChange ==
    /\ reactor # None /\ ~PortsHeld
    /\ portsc' = [portsc EXCEPT ![reactor].chg = {}]
    /\ reactor' = None
    /\ UNCHANGED <<port_states, drivers, controllerVars, freed, events, inbox, states, enumq,
                   th, boundVars>>

\* The event's pointer is that of the command, or in the range of the transfer, which
\* may go over the end of its ring.
Matches(st, ev) ==
    /\ st.kind = ev.type
    /\ IF st.td.first <= st.td.last THEN ev.ptr \in st.td.first .. st.td.last
                                    ELSE ev.ptr >= st.td.first \/ ev.ptr <= st.td.last

\* acknowledge walks over the states it holds, those just received included, up to the
\* first one that the event's pointer matches.
Held == states \o inbox
Hits(ev) == {i \in 1..Len(Held) : Matches(Held[i], ev)}
End(ev) == IF Hits(ev) = {} THEN Len(Held) ELSE Min(Hits(ev))

\* with_ring looks at the port of every transfer on the way.
Passed(ev) == {i \in 1..End(ev) : Held[i].kind = "transfer"}
Dead(ev) == {i \in Passed(ev) : ~Attached(Held[i].port)}
Blocked(ev) == \E i \in Passed(ev) : WriteGuard(Held[i].port)

\* get_transfer_trb: the pointer is not one of the port's ring.
Elsewhere(ev, st) ==
    /\ st.kind = "transfer" /\ Attached(st.port)
    /\ ev.ptr \notin {Phys(port_states[st.port].addr, i) : i \in 0 .. RingLen - 1}

\* It finishes the state it was looking for, and every transfer on the way whose port
\* has no state any more.
Acknowledge ==
    /\ reactor = None /\ events # <<>> /\ Head(events).type # "port"
    /\ LET ev == Head(events)
           done == Dead(ev) \cup (Hits(ev) \cap {End(ev)})
           result(i) == IF i \in Dead(ev) \/ Elsewhere(ev, Held[i]) THEN "err" ELSE ev.code
           of(t) == {i \in done : Held[i].who = t}
           finish(r, i) == [r EXCEPT !.res = result(i),
                                     !.slot = IF r.pc = "enable" /\ result(i) = "ok"
                                              THEN ev.slot ELSE @]
       IN /\ ~Blocked(ev)
          /\ states' = FoldLeftDomain(LAMBDA acc, i : IF i \in done THEN acc
                                                      ELSE Append(acc, Held[i]), <<>>, Held)
          /\ th' = [t \in Threads |-> IF of(t) = {} THEN th[t]
                                      ELSE finish(th[t], CHOOSE i \in of(t) : TRUE)]
    /\ inbox' = <<>>
    /\ events' = Tail(events)
    /\ UNCHANGED <<portsc, port_states, drivers, controllerVars, freed, reactor, enumq,
                   boundVars>>

-----------------------------------------------------------------------------
(* The device enumerator *)

\* The result of the call that step pc made is there.
Returned(t, pc) == /\ th[t].pc = pc /\ th[t].at \in {"wait", "done"} /\ th[t].res # None

Step(t, r) == th' = [th EXCEPT ![t] = r]


\* run: a request is taken and the flags of its port read.
TakeRequest ==
    LET p == Head(enumq)
        r == [Idle EXCEPT !.port = p, !.n = th["enum"].n]
    IN /\ th["enum"].pc = "idle" /\ enumq # <<>>
       /\ enumq' = Tail(enumq)
       /\ Step("enum", [r EXCEPT !.pc = IF ~portsc[p].ccs THEN "detach"
                                        ELSE IF portsc[p].ped THEN "attach" ELSE "reset"])
       /\ UNCHANGED <<portsc, port_states, drivers, controllerVars, freed, reactorVars,
                      boundVars>>

\* reset_port: setting PR writes the register back, which clears the change bits.
ResetPort ==
    /\ th["enum"].pc = "reset"
    /\ portsc' = [portsc EXCEPT ![th["enum"].port].chg = {}]
    /\ Step("enum", Goto("enum", "resetting"))
    /\ UNCHANGED <<port_states, drivers, controllerVars, freed, reactorVars, enumq, boundVars>>

\* The reset is over, and PRC is acknowledged.
PortReset ==
    /\ th["enum"].pc = "resetting"
    /\ "prc" \in portsc[th["enum"].port].chg
    /\ portsc' = [portsc EXCEPT ![th["enum"].port].chg = {}]
    /\ Step("enum", Goto("enum", "attach"))
    /\ UNCHANGED <<port_states, drivers, controllerVars, freed, reactorVars, enumq, boundVars>>

\* attach_device: an attached port is left alone (EAGAIN), and so is one without a device.
Attach ==
    LET p == th["enum"].port
    IN /\ th["enum"].pc = "attach"
       /\ Step("enum", IF Attached(p) \/ ~portsc[p].ccs THEN Done("enum")
                       ELSE [Goto("enum", "enable") EXCEPT !.dev = portsc[p].dev])
       /\ UNCHANGED <<portsc, port_states, drivers, controllerVars, freed, reactorVars, enumq,
                      boundVars>>

\* address_device allocates the ring of the default control pipe.
SlotEnabled ==
    /\ Returned("enum", "enable")
    /\ IF th["enum"].res = "err"
       THEN Step("enum", Done("enum")) /\ UNCHANGED <<ring, enq, freed>>
       ELSE \E a \in freed :
              /\ Step("enum", [Goto("enum", "address") EXCEPT !.addr = a])
              /\ ring' = [ring EXCEPT ![a] = <<>>]
              /\ enq' = [enq EXCEPT ![a] = 0]
              /\ freed' = freed \ {a}
    /\ UNCHANGED <<portsc, port_states, drivers, running, halted, slots, reactorVars, enumq,
                   boundVars>>

\* On an error the ring is dropped, and the slot stays enabled.
Addressed ==
    LET e == th["enum"]
    IN /\ Returned("enum", "address")
       /\ IF e.res = "err"
          THEN Step("enum", Done("enum")) /\ freed' = freed \cup {e.addr} /\ UNCHANGED port_states
          ELSE /\ port_states' = [port_states EXCEPT ![e.port] =
                     [slot |-> e.slot, addr |-> e.addr, dev |-> e.dev,
                      dev_desc |-> FALSE, cfg_idx |-> FALSE]]
               /\ Step("enum", Goto("enum", "desc8"))
               /\ UNCHANGED freed
       /\ UNCHANGED <<portsc, drivers, controllerVars, reactorVars, enumq, boundVars>>

\* The steps that only go on or give up: the first eight bytes of the descriptor, the
\* packet size (under the write guard), the descriptors (under `ports`, with the flags
\* looked at first), the control pipe (under the write guard).
Goes(from, to, ok) ==
    /\ Returned("enum", from)
    /\ Step("enum", IF th["enum"].res = "ok" /\ ok THEN Goto("enum", to) ELSE Done("enum"))

GotDesc8 ==
    /\ ~ReadGuard(th["enum"].port)
    /\ Goes("desc8", "evalmps", TRUE)
    /\ UNCHANGED <<portsc, port_states, drivers, controllerVars, freed, reactorVars, enumq,
                   boundVars>>

UpdatedPacketSize ==
    /\ Goes("evalmps", "desc", portsc[th["enum"].port].ccs)
    /\ UNCHANGED <<portsc, port_states, drivers, controllerVars, freed, reactorVars, enumq,
                   boundVars>>

GotDesc ==
    /\ ~ReadGuard(th["enum"].port)
    /\ Goes("desc", "evalpipe", TRUE)
    /\ port_states' = IF th["enum"].res = "ok"
                      THEN [port_states EXCEPT ![th["enum"].port].dev_desc = TRUE] ELSE port_states
    /\ UNCHANGED <<portsc, drivers, controllerVars, freed, reactorVars, enumq, boundVars>>

\* spawn_drivers
UpdatedControlPipe ==
    /\ Goes("evalpipe", "idle", FALSE)
    /\ drivers' = IF th["enum"].res = "ok" THEN drivers \cup {th["enum"].port} ELSE drivers
    /\ UNCHANGED <<portsc, port_states, controllerVars, freed, reactorVars, enumq, boundVars>>


\* detach_device: the drivers are killed, the port's state is taken out and its slot
\* disabled.
Detach ==
    LET p == th["enum"].port
    IN /\ th["enum"].pc = "detach" /\ ~ReadGuard(p)
       /\ drivers' = drivers \ {p}
       /\ IF Attached(p)
          THEN /\ port_states' = [port_states EXCEPT ![p] = None]
               /\ Step("enum", [Goto("enum", "disable") EXCEPT
                                  !.slot = port_states[p].slot, !.addr = port_states[p].addr])
          ELSE Step("enum", Done("enum")) /\ UNCHANGED port_states
       /\ UNCHANGED <<portsc, controllerVars, freed, reactorVars, enumq, boundVars>>

\* The state, and with it the ring, is dropped when the command has completed.
SlotDisabled ==
    /\ Returned("enum", "disable")
    /\ freed' = freed \cup {th["enum"].addr}
    /\ Step("enum", Done("enum"))
    /\ UNCHANGED <<portsc, port_states, drivers, controllerVars, reactorVars, enumq, boundVars>>

-----------------------------------------------------------------------------
(* The main thread *)

\* A driver configures its device, or anyone sends a request to an attached one.
\* The packet waits in the scheme's queue until the main thread reads it.
Call(op, p) ==
    /\ th["main"].pc = "idle" /\ calls > 0
    /\ op = "configuring" => p \in drivers
    /\ op = "request" => Attached(p)
    /\ Step("main", [Done("main") EXCEPT !.pc = op, !.port = p])
    /\ calls' = calls - 1
    /\ UNCHANGED <<portsc, port_states, drivers, controllerVars, freed, reactorVars, enumq,
                   plugs, faults, excused>>

\* configure_endpoints(_once): nothing to do for a configuration that was set before;
\* otherwise the descriptor is unwrapped, which panics if it is not there.
Configure ==
    LET p == th["main"].port
    IN /\ th["main"].pc = "configuring" /\ ~WriteGuard(p)
       /\ IF ~Attached(p) \/ port_states[p].cfg_idx
          THEN Step("main", Done("main")) /\ UNCHANGED port_states
          ELSE /\ port_states' = [port_states EXCEPT ![p].cfg_idx = TRUE]
               /\ Step("main", IF port_states[p].dev_desc THEN Goto("main", "configure")
                               ELSE [Done("main") EXCEPT !.pc = "panicked"])
       /\ UNCHANGED <<portsc, drivers, controllerVars, freed, reactorVars, enumq, boundVars>>

Configured ==
    /\ Returned("main", "configure")
    /\ Step("main", IF th["main"].res = "ok" THEN Goto("main", "setconfig") ELSE Done("main"))
    /\ UNCHANGED <<portsc, port_states, drivers, controllerVars, freed, reactorVars, enumq,
                   boundVars>>

Answered ==
    /\ \E pc \in {"setconfig", "request"} : Returned("main", pc)
    /\ Step("main", Done("main"))
    /\ UNCHANGED <<portsc, port_states, drivers, controllerVars, freed, reactorVars, enumq,
                   boundVars>>

-----------------------------------------------------------------------------
Environment == \E p \in Ports : Plug(p) \/ Unplug(p) \/ Call("configuring", p) \/ Call("request", p)

CallStep(t) == WriteTrbs(t) \/ NoPort(t) \/ SendState(t) \/ RingDoorbell(t)

Controller == \/ ExecuteCommand
              \/ \E a \in Addrs : ExecuteTransfer(a)
              \/ \E p \in Ports : ResetDone(p)

Reactor == PortStatusChange \/ ClearChange \/ Acknowledge

Enumerator == \/ CallStep("enum")
              \/ TakeRequest \/ ResetPort \/ PortReset \/ Attach
              \/ SlotEnabled \/ Addressed \/ GotDesc8 \/ UpdatedPacketSize \/ GotDesc
              \/ UpdatedControlPipe \/ Detach \/ SlotDisabled

Main == CallStep("main") \/ Configure \/ Configured \/ Answered

Next == Environment \/ Controller \/ Reactor \/ Enumerator \/ Main

\* Threads are scheduled, and the controller works on its rings.
Fairness == WF_vars(Controller) /\ WF_vars(Reactor) /\ WF_vars(Enumerator) /\ WF_vars(Main)

Spec == Init /\ [][Next]_vars /\ Fairness

-----------------------------------------------------------------------------
(* Properties *)

\* The reactor is kept from its next event by a lock that is only released after an
\* event: `ports`, held over get_desc, or the guard of attach_device.
LockCycle ==
    \/ reactor # None /\ th["enum"].pc = "desc"
    \/ reactor = None /\ events # <<>> /\ Head(events).type # "port" /\ Blocked(Head(events))

Calling(t) == th[t].td # None /\ th[t].res = None

InRing(t) == \E i \in 1..Len(ring[th[t].ring]) : ring[th[t].ring][i].id = Id(t)
InEvents(t) == \E i \in 1..Len(events) : events[i].type # "port" /\ events[i].id = Id(t)

\* The other ways a call never returns: its event was acknowledged before its state was
\* sent, its ring is halted and nobody resets it, or its slot was disabled and its state
\* sent after the one of the command that did it.
LostEvent(t) == ~InRing(t) /\ ~InEvents(t)
HaltedRing(t) == InRing(t) /\ th[t].ring \in halted
DeadRing(t) == InRing(t) /\ th[t].ring # Cmd /\ \A s \in Slots : slots[s] # th[t].ring

Stuck(t) == Calling(t) /\ (LostEvent(t) \/ HaltedRing(t) \/ DeadRing(t))


\* The event that finishes a call is the one of its own command or transfer, although
\* the pointers it is found by are those of rings whose memory is used again
\* (acknowledge).
OwnEvents ==
    \A i \in 1..Len(events), j \in 1..Len(Held) :
        events[i].type # "port" /\ Matches(Held[j], events[i])
            /\ Calling(Held[j].who) /\ ~Stuck(Held[j].who)
            => events[i].id = Id(Held[j].who)

\* The controller never uses the memory of a ring that was dropped (detach_device keeps
\* the state until the slot is disabled).
RingsAlive == \A s \in Slots : slots[s] \notin freed

\* Attached devices have slots of their own, that the controller holds enabled with the
\* ring of the port, and drivers run only for attached devices.
SlotsApart ==
    /\ \A p \in Ports : Attached(p) => slots[port_states[p].slot] = port_states[p].addr
    /\ \A p, q \in Ports : p # q /\ Attached(p) /\ Attached(q)
                              => port_states[p].slot # port_states[q].slot
    /\ \A p \in drivers : Attached(p)

\* A port's device is attached and a port without one is not, once nothing changes any
\* more: unless a change was masked, a device was replaced before its state was removed,
\* a command or transfer failed, or a thread is stuck.
Agrees(p) == IF portsc[p].ccs THEN Attached(p) /\ port_states[p].dev = portsc[p].dev
                              ELSE ~Attached(p)
=============================================================================
