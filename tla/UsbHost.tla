------------------------------ MODULE UsbHost ------------------------------
(***************************************************************************)
(* The USB host, one part at a time: the initial state says which part is   *)
(* looked at, and only that part moves.  The parts are the threads of xhcid *)
(* with the rings as queues; a transfer ring and the event ring as the      *)
(* controller and the driver see them in memory; the scheme of a port; and  *)
(* usbscsid on the endpoint files of xhcid.                                 *)
(***************************************************************************)
EXTENDS Integers, Sequences

CONSTANTS None,
          Ports, Slots, Addrs, RingLen, Budgets,                 \* the threads of xhcid
          TrbRingLen, Trbs, NoTrb, EventRingLen, Events, NoEvent, \* the rings
          Devices, BufLens, MaxOpens, MaxConfigures, MaxAttaches, \* the scheme
          BlockSize, Sizes, MaxCommands, MaxFaults               \* usbscsid

VARIABLES using,    \* the part that is looked at
          portsc, port_states, drivers, ring, enq, running, halted, slots, freed,
          events, inbox, states, reactor, enumq, th, plugs, calls, faults, excused,
          trbs, i, cycle, deq, ccs, bell_rung, completed, executed,
          ev_trbs, ev_i, ev_index, ev_at, erdp, ev_enq, handled,
          port, handles, bell, scheme_up, opens, configures, attaches,
          driver_if_state, endp_halted, xhcid, port_req, call, scsi, device, answer,
          commands, scsi_faults

threadVars == <<portsc, port_states, drivers, ring, enq, running, halted, slots, freed,
                events, inbox, states, reactor, enumq, th, plugs, calls, faults, excused>>
ringVars == <<trbs, i, cycle, deq, ccs, bell_rung, completed, executed>>
eventVars == <<ev_trbs, ev_i, ev_index, ev_at, erdp, ev_enq, handled>>
schemeVars == <<port, handles, bell, scheme_up, opens, configures, attaches>>
scsiVars == <<driver_if_state, endp_halted, xhcid, port_req, call, scsi, device, answer,
              commands, scsi_faults>>
vars == <<using, threadVars, ringVars, eventVars, schemeVars, scsiVars>>

Threads == INSTANCE Xhci
Rings == INSTANCE XhciRings WITH RingLen <- TrbRingLen, Overwrites <- FALSE,
           running <- bell_rung, result <- executed
Scheme == INSTANCE XhciScheme WITH xhcid <- scheme_up
Scsi == INSTANCE UsbScsi WITH halted <- endp_halted, faults <- scsi_faults

-----------------------------------------------------------------------------
Init ==
    /\ using \in {"threads", "transfers", "events", "scheme", "scsi"}
    /\ Threads!Init
    /\ using # "threads" => <<plugs, calls, faults>> = CHOOSE b \in Budgets : TRUE
    /\ Rings!Init /\ Scheme!Init /\ Scsi!Init

InThreads == using = "threads" /\ UNCHANGED <<using, ringVars, eventVars, schemeVars, scsiVars>>
InTransfers == using = "transfers" /\ UNCHANGED <<using, threadVars, eventVars, schemeVars, scsiVars>>
InScsi == using = "scsi" /\ UNCHANGED <<using, threadVars, ringVars, eventVars, schemeVars>>

ThreadsStep == InThreads /\ Threads!Next
TransfersStep == InTransfers /\ Rings!RingNext
EventRingStep == /\ using = "events" /\ Rings!EventNext
                 /\ UNCHANGED <<using, threadVars, ringVars, schemeVars, scsiVars>>
SchemeStep == /\ using = "scheme" /\ Scheme!Next
              /\ UNCHANGED <<using, threadVars, ringVars, eventVars, scsiVars>>
ScsiStep == InScsi /\ Scsi!Next

Next == ThreadsStep \/ TransfersStep \/ EventRingStep \/ SchemeStep \/ ScsiStep

\* The threads of xhcid and usbscsid are scheduled, the controller works on its rings, and
\* a device answers.
Fairness ==
    /\ WF_vars(InThreads /\ Threads!Controller)
    /\ WF_vars(InThreads /\ Threads!Reactor)
    /\ WF_vars(InThreads /\ Threads!Enumerator)
    /\ WF_vars(InThreads /\ Threads!Main)
    /\ WF_vars(InScsi /\ Scsi!Driver)
    /\ WF_vars(InScsi /\ Scsi!Device)

Spec == Init /\ [][Next]_vars /\ Fairness

-----------------------------------------------------------------------------
\* The controller executes the TRBs of a ring in the order they were written, and the
\* reactor handles its events in the order they were posted, each once and none left: over
\* the link at the end of a ring (Ring::next_index), and although the reactor knows an event by its
\* completion code, not by the cycle bit (run_polling).
InOrder == Rings!InOrder /\ Rings!NothingMissed /\ Rings!EventsInOrder




=============================================================================
