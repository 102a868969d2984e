------------------------------ MODULE VtSwitch ------------------------------
(***************************************************************************)
(* The VT system: inputd, the graphics drivers (vesad and virtio-gpud, on  *)
(* the GraphicsScheme of driver-graphics), the text consoles (fbcond, one  *)
(* console per VT) and the boot log (fbbootlogd).  Every process runs its  *)
(* own event loop against inputd's scheme; the early driver (vesad) boots  *)
(* first and the regular one takes its VTs over at any later moment.       *)
(***************************************************************************)
EXTENDS Inputd

CONSTANTS EarlyDevice,   \* the device of vesad; the others run virtio-gpud
          Consoles,      \* consumers of a VT
          Bootlogs,      \* those that run fbbootlogd; the others run fbcond
          VtOf,          \* the VT each console was started for
          NoDevice,      \* no display opened yet
          NoHandle,      \* no handle on inputd yet
          NumVts,        \* how many VTs vesad was told to register
          Typed,         \* the writes of events the user may cause
          MaxUser,       \* bound on what the user types and activates
          MaxDraws       \* bound on what each console draws

ASSUME VtSwitchConstants == /\ EarlyDevice \in Devices
                            /\ Bootlogs \subseteq Consoles
                            /\ NoDevice \notin Devices /\ NoHandle \notin Nat
                            /\ Typed \subseteq Seq(InputEvents)
                            /\ NumVts \in VtIds
                            /\ VtOf \in [Consoles -> 1..NumVts]

VARIABLES pc,       \* where each process is
          hid,      \* its handle on inputd
          d_active, \* GraphicsScheme.active_vt
          version,  \* what was drawn on the resource of each VT, per device
          screen,   \* the scanout of each device: a VT and a version of it
          mapped,   \* the device whose display a console draws on
          path,     \* the device fpath named, not opened yet
          budget    \* what is left of MaxUser and MaxDraws

clientVars == <<pc, hid, d_active, version, screen, mapped, path, budget>>
vars == <<inputdVars, clientVars>>

Fbconds == Consoles \ Bootlogs
Inputd_ == UNCHANGED inputdVars
Goto(p, l) == pc' = [pc EXCEPT ![p] = l]

-----------------------------------------------------------------------------
(* The graphics drivers *)

Booted == pc[EarlyDevice] \in {"activate", "drain", "wait"}

DriverOpenEarly(d) ==
    /\ pc[d] = "off" /\ d = EarlyDevice
    /\ OpenDisplayEarly(d)
    /\ hid' = [hid EXCEPT ![d] = NextId]
    /\ Goto(d, "control")
    /\ UNCHANGED <<d_active, version, screen, mapped, path, budget>>

DriverOpen(d) ==
    /\ pc[d] = "off" /\ d # EarlyDevice /\ Booted
    /\ OpenDisplay(d)
    /\ hid' = [hid EXCEPT ![d] = NextId]
    /\ Goto(d, "subscribe")
    /\ UNCHANGED <<d_active, version, screen, mapped, path, budget>>

DriverOpenControl(d) ==
    /\ pc[d] = "control"
    /\ OpenControl
    /\ Goto(d, "register")
    /\ UNCHANGED <<hid, d_active, version, screen, mapped, path, budget>>

DriverRegister(d) ==
    /\ pc[d] = "register"
    /\ RegisterVt(hid[d])
    /\ IF Cardinality(DOMAIN vts') = NumVts
       THEN Goto(d, "subscribe") ELSE UNCHANGED pc
    /\ UNCHANGED <<hid, d_active, version, screen, mapped, path, budget>>

DriverSubscribe(d) ==
    /\ pc[d] = "subscribe"
    /\ Fevent(hid[d])
    /\ Goto(d, IF d = EarlyDevice THEN "activate" ELSE "drain")
    /\ UNCHANGED <<hid, d_active, version, screen, mapped, path, budget>>

DriverActivate(d) ==
    /\ pc[d] = "activate"
    /\ \E id \in IdsOf("control") : WriteControl(id, 1)
    /\ Goto(d, "drain")
    /\ UNCHANGED <<hid, d_active, version, screen, mapped, path, budget>>

\* set_scanout shows the resource of the VT as it is now.
Scanout(d, v) == [vt |-> v, version |-> version[d][v]]

HandleVtEvent_NoScanout(d, e) ==
    /\ d_active' = [d_active EXCEPT ![d] = IF e.kind = "Activate" THEN e.vt ELSE @]
    /\ UNCHANGED screen

\* handle_vt_event: only Activate does anything.
HandleVtEvent(d, e) ==
    IF e.kind = "Activate"
    THEN /\ d_active' = [d_active EXCEPT ![d] = e.vt]
         /\ screen' = [screen EXCEPT ![d] = Scanout(d, e.vt)]
    ELSE UNCHANGED <<d_active, screen>>

DriverRead(d) ==
    /\ pc[d] = "drain"
    /\ ReadDisplay(hid[d])
    /\ HandleVtEvent(d, Head(handles[hid[d]].pending))
    /\ UNCHANGED <<pc, hid, version, mapped, path, budget>>

DriverDrained(d) ==
    /\ pc[d] = "drain" /\ ~panicked
    /\ handles[hid[d]].pending = <<>>
    /\ Goto(d, "wait")
    /\ Inputd_
    /\ UNCHANGED <<hid, d_active, version, screen, mapped, path, budget>>

Woken(id) == /\ id \in posted
             /\ posted' = posted \ {id}
             /\ UNCHANGED <<handles, vts, active_vt, super_key, panicked>>

DriverWake(d) ==
    /\ pc[d] = "wait"
    /\ Woken(hid[d])
    /\ Goto(d, "drain")
    /\ UNCHANGED <<hid, d_active, version, screen, mapped, path, budget>>

Flush_Background(d, v) == screen' = [screen EXCEPT ![d] = Scanout(d, v)]

\* One write of a damaged area; a background VT is not flushed.
Flush(d, v) ==
    IF v = d_active[d]
    THEN screen' = [screen EXCEPT ![d] = Scanout(d, v)]
    ELSE UNCHANGED screen

DriverTick(d) ==
    /\ pc[d] = "wait"
    /\ \E c \in Consoles :
         /\ pc[c] = "sync" /\ mapped[c] = d
         /\ Flush(d, VtOf[c])
         /\ Goto(c, "wait")
    /\ Inputd_
    /\ UNCHANGED <<hid, d_active, version, mapped, path, budget>>

-----------------------------------------------------------------------------
(* The consoles *)

ConsoleOpen(c) ==
    /\ pc[c] = "off" /\ Booted
    /\ OpenConsumer(VtOf[c])
    /\ hid' = [hid EXCEPT ![c] = NextId]
    /\ Goto(c, "fpath")
    /\ UNCHANGED <<d_active, version, screen, mapped, path, budget>>

\* fpath on the consumer handle names the device that shows the VT ...
ConsoleFpath(c) ==
    /\ pc[c] = "fpath" /\ ~panicked
    /\ path' = [path EXCEPT ![c] = vts[VtOf[c]]]
    /\ Goto(c, "display")
    /\ Inputd_
    /\ UNCHANGED <<hid, d_active, version, screen, mapped, budget>>

\* ... and the console then opens the display scheme of that device.
ConsoleOpenDisplay(c) ==
    /\ pc[c] = "display"
    /\ pc[path[c]] = "wait"
    /\ mapped' = [mapped EXCEPT ![c] = path[c]]
    /\ Goto(c, CASE ~handles[hid[c]].events -> "subscribe"
                 [] c \in Bootlogs -> "wait"
                 [] OTHER -> "drain")
    /\ Inputd_
    /\ UNCHANGED <<hid, d_active, version, screen, path, budget>>

\* fbcond reads once before it waits; fbbootlogd waits at once.
ConsoleSubscribe(c) ==
    /\ pc[c] = "subscribe"
    /\ Fevent(hid[c])
    /\ Goto(c, IF c \in Bootlogs THEN "wait" ELSE "drain")
    /\ UNCHANGED <<hid, d_active, version, screen, mapped, path, budget>>

ConsoleWake(c) ==
    /\ pc[c] = "wait"
    /\ Woken(hid[c])
    /\ Goto(c, "drain")
    /\ UNCHANGED <<hid, d_active, version, screen, mapped, path, budget>>

\* fbcond reads until Ok(0); fbbootlogd reads once for each event.
ConsoleRead(c) ==
    /\ pc[c] = "drain"
    /\ ReadConsumer(hid[c])
    /\ IF c \in Fbconds /\ handles[hid[c]].pending # <<>>
       THEN UNCHANGED pc ELSE Goto(c, "wait")
    /\ UNCHANGED <<hid, d_active, version, screen, mapped, path, budget>>

ConsoleStale(c) ==
    /\ pc[c] = "drain"
    /\ ReadConsumerStale(hid[c])
    /\ Goto(c, "fpath")
    /\ UNCHANGED <<hid, d_active, version, screen, mapped, path, budget>>

\* Draw on the mapped buffer and ask the driver to show it.
ConsoleDraw(c) ==
    /\ c \in Fbconds /\ pc[c] = "wait"
    /\ budget[c] > 0
    /\ version' = [version EXCEPT ![mapped[c]][VtOf[c]] = @ + 1]
    /\ Goto(c, "sync")
    /\ budget' = [budget EXCEPT ![c] = @ - 1]
    /\ Inputd_
    /\ UNCHANGED <<hid, d_active, screen, mapped, path>>

-----------------------------------------------------------------------------
(* The user: a keyboard driver and `inputd -A` *)

StartKeyboard ==
    /\ IdsOf("producer") = {}
    /\ OpenProducer
    /\ UNCHANGED clientVars

User == "user"
Spend == /\ budget[User] > 0
         /\ HasRoom
         /\ budget' = [budget EXCEPT ![User] = @ - 1]
         /\ UNCHANGED <<pc, hid, d_active, version, screen, mapped, path>>

TypeKey == \E id \in IdsOf("producer"), e \in Typed :
             WriteProducer(id, e) /\ Spend

ActivateVt == \E id \in IdsOf("control"), v \in VtIds :
                WriteControl(id, v) /\ Spend

StrayWrite == \E id \in DOMAIN handles : WriteIgnored(id) /\ Spend

-----------------------------------------------------------------------------
Init ==
    /\ InputdInit
    /\ pc = [p \in Devices \cup Consoles |-> "off"]
    /\ hid = [p \in Devices \cup Consoles |-> NoHandle]
    /\ d_active = [d \in Devices |-> 0]
    /\ version = [d \in Devices |-> [v \in VtIds |-> 0]]
    /\ screen = [d \in Devices |-> [vt |-> 0, version |-> 0]]
    /\ mapped = [c \in Consoles |-> NoDevice]
    /\ path = [c \in Consoles |-> NoDevice]
    /\ budget = [x \in Consoles \cup {User} |->
                   IF x = User THEN MaxUser ELSE MaxDraws]

Driver(d) == \/ DriverOpenEarly(d) \/ DriverOpenControl(d) \/ DriverRegister(d)
             \/ DriverSubscribe(d) \/ DriverActivate(d) \/ DriverRead(d)
             \/ DriverDrained(d) \/ DriverWake(d) \/ DriverTick(d)

Console(c) == \/ ConsoleFpath(c) \/ ConsoleOpenDisplay(c) \/ ConsoleSubscribe(c)
              \/ ConsoleWake(c) \/ ConsoleRead(c) \/ ConsoleStale(c)

Next == \/ \E d \in Devices : Driver(d) \/ DriverOpen(d)
        \/ \E c \in Consoles : Console(c) \/ ConsoleOpen(c) \/ ConsoleDraw(c)
        \/ StartKeyboard \/ TypeKey \/ ActivateVt \/ StrayWrite

\* Each process keeps running its event loop.  Nobody has to type, to draw,
\* or to start a second driver or a console.
Fairness == /\ \A d \in Devices : WF_vars(Driver(d))
            /\ \A c \in Consoles : WF_vars(Console(c))

Spec == Init /\ [][Next]_vars /\ Fairness

-----------------------------------------------------------------------------
Owner(v) == IF v \in DOMAIN vts THEN vts[v] ELSE NoDevice

\* A process that waits for inputd, with no event queued for it, has nothing
\* to read: handlers that queue data, switch the VT or hand VTs over never
\* leave a reader asleep (main.rs, the notification round of the loop).
NoLostWakeup ==
    \A p \in Devices \cup Fbconds :
        pc[p] = "wait" /\ hid[p] \notin posted
            => ~Deliverable(handles[hid[p]], active_vt)

RECURSIVE Replay(_, _)
Replay(v, evs) == CASE evs = <<>> -> v
                    [] Head(evs).kind = "Activate" -> Replay(Head(evs).vt, Tail(evs))
                    [] OTHER -> Replay(v, Tail(evs))

\* The driver that owns the active VT shows it once it has handled the events
\* queued for it, whatever switches and handoffs went before.
DriverFollowsActiveVt ==
    active_vt # NoVt =>
        LET d == Owner(active_vt)
        IN  hid[d] # NoHandle
              => Replay(d_active[d], handles[hid[d]].pending) = active_vt

\* driver-graphics drops the flushes of background VTs because "we will flush
\* the resource on the next VT switch anyway": unless a flush is in progress,
\* a driver's screen is the last version drawn on its active VT.
ScreenIsFresh ==
    \A d \in Devices :
        d_active[d] # 0
          /\ (\A c \in Consoles : pc[c] = "sync" /\ mapped[c] = d => VtOf[c] # d_active[d])
        => screen[d] = Scanout(d, d_active[d])


\* fbbootlogd "renders the boot log and presents it on VT1": its display, too,
\* is eventually the one that shows its VT.
HandoffReachesBootlog ==
    \A c \in Bootlogs :
        (mapped[c] # NoDevice /\ mapped[c] # Owner(VtOf[c]))
            ~> (mapped[c] = Owner(VtOf[c]))

\* When the VTs stop changing, the owner's screen shows the active one.
ActiveVtIsShown ==
    <>[](active_vt # NoVt => screen[Owner(active_vt)].vt = active_vt)
=============================================================================
