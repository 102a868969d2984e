------------------------------ MODULE AlxLink ------------------------------
(***************************************************************************)
(* alxd: how the driver follows the link.  The PHY notes every change of    *)
(* the link, which interrupts until the note is read; the driver masks that *)
(* interrupt, reads the note and then the link, and starts or resets the    *)
(* MAC.  Any access to the PHY may time out and any reset may fail, and then *)
(* everything is set up again.  task and check_link call each other; since  *)
(* they return at once after the inner call, the calls are a loop here.     *)
(* Packets are not handled by this driver yet: reads wait, writes do        *)
(* nothing.                                                                 *)
(***************************************************************************)
EXTENDS Naturals

CONSTANTS Speeds,        \* speed and duplex of a link
          MaxChanges,    \* changes of the link
          MaxFaults      \* fatal interrupts, timeouts and failing resets

VARIABLES phy,           \* the link, and the internal interrupt status of the PHY
          nic,           \* the registers: dis and fatal of ISR, IMR, what MAC_CTRL is set to,
                         \* and whether the rings and the rest are set up
          line,          \* the kernel's side of the interrupt: event to read, masked until the
                         \* ack; and whether it came while open ran
          pc, ret,       \* where the driver is, and who called task
          imask, flag, link_up, link_speed,
          seen,          \* the link as get_phy_link read it
          bounds

vars == <<phy, nic, line, pc, ret, imask, flag, link_up, link_speed, seen, bounds>>

Misc == {"phy", "fatal"}    \* of ISR_MISC, those that do anything
Down == 0

Init ==
    /\ phy = [speed |-> Down, int |-> FALSE]
    /\ nic = [dis |-> TRUE, fatal |-> FALSE, imr |-> {}, mac |-> Down, set_up |-> FALSE]
    /\ line = [event |-> FALSE, masked |-> FALSE, early |-> FALSE]
    /\ pc = "probe" /\ ret = "open"
    /\ imask = Misc /\ flag = {} /\ link_up = FALSE /\ link_speed = Down /\ seen = Down
    /\ bounds = [changes |-> MaxChanges, faults |-> MaxFaults]

-----------------------------------------------------------------------------
(* The hardware *)

ISR == (IF phy.int THEN {"phy"} ELSE {}) \cup (IF nic.fatal THEN {"fatal"} ELSE {})

LinkChange(s) ==
    /\ bounds.changes > 0 /\ s # phy.speed
    /\ bounds' = [bounds EXCEPT !.changes = @ - 1]
    /\ phy' = [speed |-> s, int |-> TRUE]
    /\ UNCHANGED <<nic, line, pc, ret, imask, flag, link_up, link_speed, seen>>

FaultsBy(n) == bounds.faults >= n /\ bounds' = [bounds EXCEPT !.faults = @ - n]

Fatal ==
    /\ nic.set_up /\ ~nic.fatal /\ FaultsBy(1)
    /\ nic' = [nic EXCEPT !.fatal = TRUE]
    /\ UNCHANGED <<phy, line, pc, ret, imask, flag, link_up, link_speed, seen>>

\* The adapter interrupts; or another device of the line, whose driver acknowledges that.
Raise ==
    /\ ~line.masked /\ ~nic.dis /\ ISR \cap nic.imr # {}
    /\ line' = [event |-> TRUE, masked |-> TRUE, early |-> line.early \/ (ret = "open" /\ pc # "wait")]
    /\ UNCHANGED <<phy, nic, pc, ret, imask, flag, link_up, link_speed, seen, bounds>>

Wild ==
    /\ ~line.event /\ ~line.masked /\ pc # "stopped"
    /\ line' = [line EXCEPT !.event = TRUE]
    /\ UNCHANGED <<phy, nic, pc, ret, imask, flag, link_up, link_speed, seen, bounds>>

-----------------------------------------------------------------------------
(* The interrupt *)

\* intr_legacy and intr_1, up to the call of task.  What is pending is acknowledged and the
\* interrupts are disabled; a fatal one goes before all others.
IntrLegacy ==
    LET intr == ISR \cap imask
    IN /\ pc = "wait" /\ line.event
       /\ line' = [line EXCEPT !.event = FALSE]
       /\ IF nic.dis \/ intr = {}
          THEN UNCHANGED <<nic, pc, ret, imask, flag>>
          ELSE /\ pc' = "task"
               /\ ret' = IF "fatal" \in intr THEN "fatal" ELSE "intr_1"
               /\ flag' = flag \cup {IF "fatal" \in intr THEN "reset" ELSE "chk_link"}
               /\ imask' = IF "fatal" \in intr THEN imask ELSE imask \ {"phy"}
               /\ nic' = [nic EXCEPT !.dis = TRUE, !.fatal = FALSE,
                             !.imr = IF "fatal" \in intr THEN @ ELSE imask \ {"phy"}]
       /\ UNCHANGED <<phy, link_up, link_speed, seen, bounds>>

\* After task: intr_1 enables the interrupts, unless a reset did; and the interrupt is
\* acknowledged.
Return ==
    /\ pc = "return"
    /\ nic' = IF ret = "intr_1" THEN [nic EXCEPT !.dis = FALSE] ELSE nic
    /\ pc' = IF ret = "open" THEN "wait" ELSE "ack"
    /\ UNCHANGED <<phy, line, ret, imask, flag, link_up, link_speed, seen, bounds>>

Ack ==
    /\ pc = "ack"
    /\ line' = [line EXCEPT !.masked = FALSE]
    /\ pc' = "wait"
    /\ UNCHANGED <<phy, nic, ret, imask, flag, link_up, link_speed, seen, bounds>>

-----------------------------------------------------------------------------
(* The task *)

Task ==
    /\ pc = "task"
    /\ CASE "halt" \in flag \/ flag = {} -> pc' = "return" /\ UNCHANGED flag
         [] "halt" \notin flag /\ "reset" \in flag -> pc' = "halt" /\ flag' = flag \ {"reset"}
         [] flag = {"chk_link"} -> pc' = "clear" /\ flag' = {}
    /\ UNCHANGED <<phy, nic, line, ret, imask, link_up, link_speed, seen, bounds>>

Again(fail) == pc' = "task" /\ flag' = IF fail THEN flag \cup {"reset"} ELSE flag

\* start_mac and stop_mac: the MAC is enabled at the speed of the link, or not at all.
StartMac(n, s) == [n EXCEPT !.mac = s]
StopMac(n) == [n EXCEPT !.mac = Down]

\* reset_mac: interrupts off, the MAC stopped, and after that all settings lost; a failure
\* may leave them.
ResetMac(fail) == [StopMac(nic) EXCEPT !.dis = TRUE, !.imr = {}, !.set_up = fail /\ @]

\* init_ring_ptrs, configure and irq_enable.
SetUp(n) == [n EXCEPT !.set_up = TRUE, !.dis = FALSE, !.imr = imask]

\* halt: a failing reset is ignored.
Halt ==
    /\ pc = "halt"
    /\ \E fail \in BOOLEAN :
         /\ IF fail THEN FaultsBy(1) ELSE UNCHANGED bounds
         /\ nic' = ResetMac(fail)
    /\ flag' = flag \cup {"halt"} /\ link_up' = FALSE /\ link_speed' = Down
    /\ pc' = "activate"
    /\ UNCHANGED <<phy, line, ret, imask, seen>>

\* activate, and open: old interrupts are cleared.
Activate ==
    /\ pc \in {"activate", "open"}
    /\ nic' = [SetUp(nic) EXCEPT !.fatal = FALSE]
    /\ flag' = (flag \ {"halt"}) \cup {"chk_link"}
    /\ pc' = "task"
    /\ UNCHANGED <<phy, line, ret, imask, link_up, link_speed, seen, bounds>>

\* probe resets the MAC and starts the negotiation, and must succeed.
Probe ==
    /\ pc = "probe"
    /\ \/ pc' = "open" /\ UNCHANGED bounds
       \/ pc' = "stopped" /\ FaultsBy(1)
    /\ UNCHANGED <<phy, nic, line, ret, imask, flag, link_up, link_speed, seen>>

-----------------------------------------------------------------------------
(* check_link *)

\* clear_phy_intr, whose result is ignored.
ClearPhyIntr ==
    /\ pc = "clear"
    /\ \/ phy' = [phy EXCEPT !.int = FALSE] /\ UNCHANGED bounds
       \/ FaultsBy(1) /\ UNCHANGED phy
    /\ pc' = "status"
    /\ UNCHANGED <<nic, line, ret, imask, flag, link_up, link_speed, seen>>

\* get_phy_link: the status, and for a link that is up its speed from another register.
\* A link that went down in between has none.
GetPhyLink ==
    /\ pc = "status"
    /\ \/ /\ pc' = IF phy.speed = Down THEN "apply" ELSE "speed"
          /\ seen' = Down
          /\ UNCHANGED <<flag, bounds>>
       \/ Again(TRUE) /\ FaultsBy(1) /\ UNCHANGED seen
    /\ UNCHANGED <<phy, nic, line, ret, imask, link_up, link_speed>>

GetPhySpeed ==
    /\ pc = "speed"
    /\ \/ /\ phy.speed # Down
          /\ seen' = phy.speed /\ pc' = "apply" /\ UNCHANGED <<flag, bounds>>
       \/ /\ (phy.speed = Down /\ UNCHANGED bounds) \/ FaultsBy(1)
          /\ Again(TRUE) /\ UNCHANGED seen
    /\ UNCHANGED <<phy, nic, line, ret, imask, link_up, link_speed>>

\* The interrupt is opened after the return for a link that was and is down.
Apply_OpensLate ==
    /\ pc = "apply"
    /\ imask' = IF seen = Down /\ ~link_up THEN imask ELSE imask \cup {"phy"}
    /\ IF seen = Down /\ link_up
       THEN /\ link_up' = FALSE /\ link_speed' = Down
            /\ nic' = [nic EXCEPT !.imr = imask']
            /\ pc' = "down" /\ UNCHANGED flag
       ELSE /\ link_up' = (seen # Down) /\ link_speed' = seen
            /\ LET n == [nic EXCEPT !.imr = imask']
               IN nic' = IF seen # link_speed THEN StartMac(n, seen) ELSE n
            /\ Again(FALSE)
    /\ UNCHANGED <<phy, line, ret, seen, bounds>>

\* The rest of check_link: the interrupt of the PHY is opened again.  start_mac if the link
\* is new or has another speed; if it is gone the MAC is reset, and all set up again.
Apply ==
    /\ pc = "apply"
    /\ imask' = imask \cup {"phy"}
    /\ IF seen = Down /\ link_up
       THEN /\ link_up' = FALSE /\ link_speed' = Down
            /\ nic' = [nic EXCEPT !.imr = imask']
            /\ pc' = "down" /\ UNCHANGED flag
       ELSE /\ link_up' = (seen # Down) /\ link_speed' = seen
            /\ LET n == [nic EXCEPT !.imr = imask']
               IN nic' = IF seen # link_speed THEN StartMac(n, seen) ELSE n
            /\ Again(FALSE)
    /\ UNCHANGED <<phy, line, ret, seen, bounds>>

LinkDown ==
    /\ pc = "down"
    /\ \/ nic' = SetUp(ResetMac(FALSE)) /\ Again(FALSE) /\ UNCHANGED bounds
       \/ nic' = ResetMac(TRUE) /\ Again(TRUE) /\ FaultsBy(1)
    /\ UNCHANGED <<phy, line, ret, imask, link_up, link_speed, seen>>

Next ==
    \/ \E s \in Speeds \cup {Down} : LinkChange(s)
    \/ Fatal \/ Raise \/ Wild
    \/ IntrLegacy \/ Return \/ Ack
    \/ Task \/ Halt \/ Activate \/ Probe
    \/ ClearPhyIntr \/ GetPhyLink \/ GetPhySpeed \/ Apply \/ LinkDown

-----------------------------------------------------------------------------
\* Between interrupts the driver can be interrupted, unless the first interrupt came while
\* open was running: open may have dealt with its cause, and then intr_legacy takes it for a
\* wild one and does not acknowledge it.  And once the PHY has nothing more to
\* say it has followed the link: the MAC runs at its speed, or is off, and is set up.  So no
\* change is lost, whenever it comes and whatever times out or fails while one is handled
\* (intr_1, check_link, reinit).
LinkFollowed ==
    pc = "wait" =>
        /\ ~nic.dis /\ nic.imr = Misc /\ imask = Misc /\ flag = {} /\ nic.set_up
        /\ line.masked => line.event \/ line.early
        /\ ~phy.int => /\ link_up = (phy.speed # Down) /\ link_speed = phy.speed
                       /\ nic.mac = phy.speed
=============================================================================
