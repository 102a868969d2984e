------------------------------- MODULE UsbHid -------------------------------
(***************************************************************************)
(* usbhidd: each report of a USB keyboard or mouse is a sequence of events  *)
(* of its fields.  Keys are passed on as they come, what the mouse did is   *)
(* collected and sent at the end of the report, if it differs from what was *)
(* sent before.  An event that cannot be written is only logged.            *)
(***************************************************************************)
EXTENDS InputEvents

CONSTANTS MaxReport,    \* events in a report
          Screen,       \* largest absolute position
          MaxFaults     \* events that cannot be written

Keys == {"E1", "E5", "a"}    \* the usages of the shift keys and of one more
Buttons == {1}

VARIABLES hid,       \* the device: keys and buttons held, position, the character of the last key
          left_shift, right_shift, last_mouse_pos, last_buttons,
          report,    \* what the loop over the report's events has collected
          view, faults,
          stale      \* kinds of events of which the view missed the last one

vars == <<hid, left_shift, right_shift, last_mouse_pos, last_buttons, report, view, faults, stale>>

NewReport(pos, buttons) == [left |-> MaxReport, pos |-> pos, dx |-> 0, buttons |-> buttons]

Init ==
    /\ hid = [keys |-> {}, buttons |-> {}, pos |-> 0, char |-> NoChar]
    /\ left_shift = FALSE /\ right_shift = FALSE
    /\ last_mouse_pos = 0 /\ last_buttons = {}
    /\ report = NewReport(0, {})
    /\ view = NoInput
    /\ faults = MaxFaults
    /\ stale = {}

-----------------------------------------------------------------------------
\* An event is written, or lost.
Sent(kind, v) ==
    \/ view' = v /\ stale' = stale \ {kind} /\ UNCHANGED faults
    \/ faults > 0 /\ faults' = faults - 1 /\ stale' = stale \cup {kind} /\ UNCHANGED view

Toggle(set, x) == IF x \in set THEN set \ {x} ELSE set \cup {x}

\* The scancodes of the usages.
Scancode(usage) == CASE usage = "E1" -> "lshift" [] usage = "E5" -> "rshift" [] usage = "a" -> "a"

\* The device's side of a key: pressed, it means the shifted character if a shift key is held.
Pressed(k) ==
    [hid EXCEPT !.keys = Toggle(@, k),
                !.char = IF k \in hid.keys THEN @ ELSE GetChar(Scancode(k), hid.keys \cap {"E1", "E5"} # {})]


\* A key is pressed or released: send_key_event, with the shift keys as they were before.
Key(k) ==
    LET pressed == k \notin hid.keys
        char == GetChar(Scancode(k), left_shift \/ right_shift)
    IN /\ report.left > 0
       /\ hid' = Pressed(k)
       /\ left_shift' = IF k = "E1" THEN pressed ELSE left_shift
       /\ right_shift' = IF k = "E5" THEN pressed ELSE right_shift
       /\ Sent(k, KeyEvent(view, Scancode(k), pressed, char))
       /\ report' = [report EXCEPT !.left = @ - 1]
       /\ UNCHANGED <<last_mouse_pos, last_buttons>>

\* A button changes, or an axis moves to a place or by a distance.  The last is any usage
\* that is only logged: an unknown key, another button or axis.
Mouse(r, h) ==
    /\ report.left > 0
    /\ report' = [r EXCEPT !.left = @ - 1]
    /\ hid' = h
    /\ UNCHANGED <<left_shift, right_shift, last_mouse_pos, last_buttons, view, faults, stale>>

Button(b) == Mouse([report EXCEPT !.buttons = Toggle(@, b)], [hid EXCEPT !.buttons = Toggle(@, b)])
Unsupported == Mouse(report, hid)
Absolute(x) == Mouse([report EXCEPT !.pos = x], [hid EXCEPT !.pos = x])
Relative(dx) == Mouse([report EXCEPT !.dx = @ + dx], hid)

\* After the report, in this order: position, distance, buttons.  Each is sent only if
\* there is something new.  The distance of the wheel, sent after that of the axes, is
\* treated alike.
SendPosition ==
    /\ report.left < MaxReport /\ report.pos # last_mouse_pos
    /\ last_mouse_pos' = report.pos
    /\ Sent("pos", MouseEvent(view, 2 * report.pos))
    /\ report' = [report EXCEPT !.left = 0]
    /\ UNCHANGED <<hid, left_shift, right_shift, last_buttons>>

SendDistance ==
    /\ report.left < MaxReport /\ report.pos = last_mouse_pos /\ report.dx # 0
    /\ Sent("distance", view)
    /\ report' = [report EXCEPT !.left = 0, !.dx = 0]
    /\ UNCHANGED <<hid, left_shift, right_shift, last_mouse_pos, last_buttons>>

SendButtons ==
    /\ report.left < MaxReport /\ report.pos = last_mouse_pos /\ report.dx = 0
    /\ report.buttons # last_buttons
    /\ last_buttons' = report.buttons
    /\ Sent("buttons", ButtonEvent(view, report.buttons))
    /\ report' = [report EXCEPT !.left = 0]
    /\ UNCHANGED <<hid, left_shift, right_shift, last_mouse_pos>>

EndReport ==
    /\ report.left < MaxReport /\ report.pos = last_mouse_pos /\ report.dx = 0
    /\ report.buttons = last_buttons
    /\ report' = NewReport(report.pos, report.buttons)
    /\ view' = [view EXCEPT !.char = NoChar] /\ hid' = [hid EXCEPT !.char = NoChar]
    /\ UNCHANGED <<left_shift, right_shift, last_mouse_pos, last_buttons, faults, stale>>

Next == \/ \E k \in Keys : Key(k)
        \/ \E b \in Buttons : Button(b)
        \/ Unsupported
        \/ \E x \in 0 .. Screen : Absolute(x)
        \/ \E dx \in {-1, 1} : Relative(dx)
        \/ SendPosition \/ SendDistance \/ SendButtons \/ EndReport

Spec == Init /\ [][Next]_vars

-----------------------------------------------------------------------------
=============================================================================
