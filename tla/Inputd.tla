------------------------------- MODULE Inputd -------------------------------
(***************************************************************************)
(* inputd: the `:input` scheme.  Producers write input events, consumers   *)
(* read the events of one VT, display handles receive VT events, control   *)
(* handles activate VTs.  The daemon serves one request per iteration of   *)
(* its loop: the handler runs, then a pending handoff is performed, then   *)
(* the handles that have something to read are notified.  Each action is   *)
(* one whole iteration.                                                    *)
(***************************************************************************)
EXTENDS Naturals, FiniteSets, SequencesExt

CONSTANTS Devices,      \* names of display devices
          NoVt,         \* Option::None of active_vt
          MaxVts,       \* bound on the VTs that are created
          MaxPending    \* bound on the events queued on one handle

ASSUME InputdConstants == /\ MaxVts \in Nat \ {0}
                          /\ MaxPending \in Nat \ {0}
                          /\ NoVt \notin Nat

VARIABLES handles,      \* BTreeMap<usize, Handle>, identifiers 0, 1, ...
          vts,          \* BTreeMap<usize, Vt>: the device that shows each VT
          active_vt,
          super_key,
          posted,       \* handles with an event in the kernel's event queue
          panicked      \* an unwrap() on None ended the daemon

inputdVars == <<handles, vts, active_vt, super_key, posted, panicked>>

VtIds == 1..MaxVts

\* The orbclient events a producer writes, one or more of them at a time.
InputEvents == [type : {"key", "super_down", "super_up", "resize"}, n : {0}]
                  \cup [type : {"fkey"}, n : VtIds]

\* A consumer tells queued events apart by their order alone.
AnEvent == "event"

Producer == [kind |-> "producer"]
Control == [kind |-> "control"]
Consumer(v) == [kind |-> "consumer", events |-> FALSE, pending |-> <<>>,
                notified |-> FALSE, needs_handoff |-> FALSE, vt |-> v]
Display(d, early, initial) ==
    [kind |-> "display", events |-> FALSE, pending |-> initial,
     notified |-> FALSE, device |-> d, is_earlyfb |-> early]

IdsOf(k) == {id \in DOMAIN handles : handles[id].kind = k}
NextId == Cardinality(DOMAIN handles)
HasRoom == \A id \in IdsOf("consumer") \cup IdsOf("display") :
              Len(handles[id].pending) < MaxPending

-----------------------------------------------------------------------------
(* The tail of the loop: notify the handles that have something to read.   *)


\* What is left to read on h: data, or the one ESTALE that asks for a handoff.
Readable(h) == h.pending # <<>> \/ (h.kind = "consumer" /\ h.needs_handoff)

\* A consumer of a background VT is notified of a handoff only.
Deliverable(h, act) ==
    /\ h.kind \in {"consumer", "display"}
    /\ Readable(h)
    /\ h.kind = "consumer" => h.needs_handoff \/ h.vt = act

Unnotified(h) == /\ h.kind \in {"consumer", "display"}
                 /\ Readable(h)
                 /\ ~h.notified
                 /\ h.events

\* active_vt.unwrap() is reached by every unnotified consumer.
NotifyPanics(hs, act) ==
    act = NoVt /\ \E id \in DOMAIN hs : hs[id].kind = "consumer" /\ Unnotified(hs[id])

ToNotify(hs, act) ==
    {id \in DOMAIN hs : Unnotified(hs[id]) /\ Deliverable(hs[id], act)}

Notified(hs, act) ==
    [id \in DOMAIN hs |-> IF id \in ToNotify(hs, act)
                          THEN [hs[id] EXCEPT !.notified = TRUE]
                          ELSE hs[id]]

\* The rest of the iteration, once the handler and the handoff made hs of the
\* handles: without new events the loop starts over at once.
Finish(hs, act, has_new_events) ==
    /\ panicked' = (has_new_events /\ NotifyPanics(hs, act))
    /\ handles' = IF has_new_events THEN Notified(hs, act) ELSE hs
    /\ posted' = IF has_new_events THEN posted \cup ToNotify(hs, act) ELSE posted

Panic == /\ panicked' = TRUE
         /\ UNCHANGED <<handles, vts, active_vt, super_key, posted>>

-----------------------------------------------------------------------------
(* switch_vt *)

SwitchTarget(act, new) == IF new \in DOMAIN vts THEN new ELSE act

Push_KeepsNotified(h, evs) == [h EXCEPT !.pending = @ \o evs]

Push(h, evs) == IF evs = <<>> THEN h
                ELSE [h EXCEPT !.pending = @ \o evs, !.notified = FALSE]

\* Deactivate goes to the display of the old VT, then Activate to the new one's.
SwitchEvents(d, act, new) ==
    (IF act # NoVt /\ vts[act] = d
     THEN <<[kind |-> "Deactivate", vt |-> act]>> ELSE <<>>)
      \o (IF vts[new] = d THEN <<[kind |-> "Activate", vt |-> new]>> ELSE <<>>)

SwitchVt(hs, act, new) ==
    IF new = act \/ new \notin DOMAIN vts
    THEN hs
    ELSE [id \in DOMAIN hs |->
            IF hs[id].kind = "display"
            THEN Push(hs[id], SwitchEvents(hs[id].device, act, new))
            ELSE hs[id]]

-----------------------------------------------------------------------------
(* The requests *)

Open(h) == handles @@ (NextId :> h)

OpenProducer ==
    /\ ~panicked
    /\ Finish(Open(Producer), active_vt, FALSE)
    /\ UNCHANGED <<vts, active_vt, super_key>>

OpenControl ==
    /\ ~panicked
    /\ Finish(Open(Control), active_vt, FALSE)
    /\ UNCHANGED <<vts, active_vt, super_key>>

OpenConsumer(v) ==
    /\ ~panicked
    /\ Finish(Open(Consumer(v)), active_vt, FALSE)
    /\ UNCHANGED <<vts, active_vt, super_key>>

OpenDisplayEarly(d) ==
    /\ ~panicked
    /\ Finish(Open(Display(d, TRUE, <<>>)), active_vt, FALSE)
    /\ UNCHANGED <<vts, active_vt, super_key>>

\* The VTs that still belong to an early framebuffer.
EarlyVts(hs) ==
    {v \in DOMAIN vts : \E id \in DOMAIN hs :
        hs[id].kind = "display" /\ hs[id].is_earlyfb /\ hs[id].device = vts[v]}

InitialEvents_None == <<>>

\* A regular display starts with the activation of the VT that is active.
InitialEvents == IF active_vt = NoVt THEN <<>>
                 ELSE <<[kind |-> "Activate", vt |-> active_vt]>>

\* Opening a regular display hands every early VT over to it.
OpenDisplay(d) ==
    LET hs == Open(Display(d, FALSE, InitialEvents))
        moved == EarlyVts(hs)
        told == [id \in DOMAIN hs |->
                   IF hs[id].kind = "consumer" /\ hs[id].vt \in moved
                   THEN [hs[id] EXCEPT !.needs_handoff = TRUE, !.notified = FALSE]
                   ELSE hs[id]]
    IN  /\ ~panicked
        /\ vts' = [v \in DOMAIN vts |-> IF v \in moved THEN d ELSE vts[v]]
        /\ Finish(told, active_vt, moved # {})
        /\ UNCHANGED <<active_vt, super_key>>

NextVtId == Cardinality(DOMAIN vts) + 1

\* An empty read on a display handle creates a VT shown by its device.
RegisterVt(id) ==
    /\ ~panicked
    /\ id \in IdsOf("display")
    /\ NextVtId <= MaxVts
    /\ vts' = vts @@ (NextVtId :> handles[id].device)
    /\ UNCHANGED <<handles, active_vt, super_key, posted, panicked>>

\* A read of one VT event; nothing is pending: Ok(0), which changes nothing.
ReadDisplay(id) ==
    /\ ~panicked
    /\ id \in IdsOf("display")
    /\ handles[id].pending # <<>>
    /\ handles' = [handles EXCEPT ![id].pending = Tail(@)]
    /\ UNCHANGED <<vts, active_vt, super_key, posted, panicked>>

\* A read with room for everything that is pending.
ReadConsumer(id) ==
    /\ ~panicked
    /\ id \in IdsOf("consumer")
    /\ ~handles[id].needs_handoff
    /\ handles' = [handles EXCEPT ![id].pending = <<>>]
    /\ UNCHANGED <<vts, active_vt, super_key, posted, panicked>>

\* ESTALE, once.
ReadConsumerStale(id) ==
    /\ ~panicked
    /\ id \in IdsOf("consumer")
    /\ handles[id].needs_handoff
    /\ handles' = [handles EXCEPT ![id].needs_handoff = FALSE]
    /\ UNCHANGED <<vts, active_vt, super_key, posted, panicked>>

WriteControl(id, v) ==
    /\ ~panicked
    /\ id \in IdsOf("control")
    /\ active_vt' = SwitchTarget(active_vt, v)
    /\ Finish(SwitchVt(handles, active_vt, v), active_vt', TRUE)
    /\ UNCHANGED <<vts, super_key>>

\* A write that is refused (by a consumer, a display, or of the wrong size) or
\* ignored (one byte above 0xf4) still ends in a round of notifications.
WriteIgnored(id) ==
    /\ ~panicked
    /\ id \in DOMAIN handles
    /\ Finish(handles, active_vt, TRUE)
    /\ UNCHANGED <<vts, active_vt, super_key>>

\* What one event of a write does to inputd itself; s holds the handles, the
\* active VT, super_key and whether an unwrap of active_vt failed.
Resized(hs, act) ==
    [i \in DOMAIN hs |->
       IF hs[i].kind = "display" /\ hs[i].device = vts[act]
       THEN Push(hs[i], <<[kind |-> "Resize", vt |-> act]>>)
       ELSE hs[i]]

ApplyEvent(s, e) ==
    CASE e.type = "fkey" /\ s.super ->
           [s EXCEPT !.hs = SwitchVt(@, s.act, e.n), !.act = SwitchTarget(@, e.n)]
      [] e.type \in {"super_down", "super_up"} ->
           [s EXCEPT !.super = (e.type = "super_down")]
      [] e.type = "resize" /\ s.act = NoVt -> [s EXCEPT !.failed = TRUE]
      [] e.type = "resize" /\ s.act # NoVt -> [s EXCEPT !.hs = Resized(@, s.act)]
      [] OTHER -> s

\* The events act on inputd first, in order; then all of them are appended to
\* the queue of the consumers of the VT that is active by now.
WriteProducer(id, evs) ==
    LET s == FoldLeft(ApplyEvent, [hs |-> handles, act |-> active_vt,
                                   super |-> super_key, failed |-> FALSE], evs)
        queued == [i \in DOMAIN s.hs |->
                     IF s.hs[i].kind = "consumer" /\ s.hs[i].vt = s.act
                     THEN Push(s.hs[i], [k \in DOMAIN evs |-> AnEvent])
                     ELSE s.hs[i]]
    IN  /\ ~panicked
        /\ id \in IdsOf("producer")
        /\ IF s.failed \/ s.act = NoVt
           THEN Panic
           ELSE /\ super_key' = s.super
                /\ active_vt' = s.act
                /\ Finish(queued, s.act, TRUE)
                /\ UNCHANGED vts

Fevent(id) ==
    /\ ~panicked
    /\ id \in IdsOf("consumer") \cup IdsOf("display")
    /\ Finish([handles EXCEPT ![id].events = TRUE, ![id].notified = FALSE],
              active_vt, FALSE)
    /\ UNCHANGED <<vts, active_vt, super_key>>

InputdInit == /\ handles = <<>>
              /\ vts = <<>>
              /\ active_vt = NoVt
              /\ super_key = FALSE
              /\ posted = {}
              /\ panicked = FALSE

=============================================================================
