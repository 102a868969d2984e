--------------------------------- MODULE Ps2 ----------------------------------
(*****************************************************************************)
(* ps2d, first its init: the commands that bring up the PS/2 controller,     *)
(* the keyboard and the mouse.  A device answers a command with an           *)
(* acknowledgement and what the command asks for; it may ask for the         *)
(* command again, answer something else, not answer, or answer after the     *)
(* driver stopped waiting.  An answer that nobody read stays in the output   *)
(* buffer until it is flushed, and until then is taken for the answer to     *)
(* the next command.                                                         *)
(*                                                                           *)
(* Then its input: the bytes of the keyboard and of the mouse come from two  *)
(* files, in any order between the two, and handle turns them into input     *)
(* events.  Some keys send a prefix and a code, a packet of the mouse is     *)
(* three bytes (four with a wheel) and has no other frame than a bit of its  *)
(* first byte.  With a virtual machine's mouse, a byte only says that the    *)
(* queue of the virtual device is to be read.                                *)
(*****************************************************************************)
EXTENDS InputEvents, SequencesExt

CONSTANTS Retries,      \* tries of a command, 4 in the code
          MaxFaults     \* answers that are not the acknowledgement in time

Row(dev, cmd, more, must) == [dev |-> dev, cmd |-> cmd, more |-> more, must |-> must]

\* The commands in order, each with the bytes read after the acknowledgement.  What must
\* succeed is tried again as a whole; an answer that is not an acknowledgement is logged
\* for the others.
Program == <<
    Row("ctl", "config", 0, FALSE), Row("ctl", "test", 0, FALSE),
    Row("kbd", "reset", 1, FALSE), Row("kbd", "defaults", 0, TRUE), Row("kbd", "scancodes", 1, FALSE),
    Row("mouse", "reset", 2, TRUE), Row("mouse", "defaults", 0, FALSE),
    Row("mouse", "200", 1, FALSE), Row("mouse", "100", 1, FALSE), Row("mouse", "80", 1, FALSE),
    Row("mouse", "id", 1, FALSE), Row("mouse", "resolution", 1, FALSE),
    Row("mouse", "scaling", 0, FALSE), Row("mouse", "200", 1, FALSE), Row("mouse", "status", 3, FALSE),
    Row("kbd", "report", 0, FALSE), Row("mouse", "report", 0, FALSE), Row("ctl", "enable", 0, FALSE) >>

Report == 16                   \* the row where the keyboard starts to report
Rates == {8, 9}                \* the first two of the three sample rates

\* The rows that end with a flush.  The status of the mouse, its last command, does not.
Flushed(i) == i \notin Rates \union {15, Report, Report + 1}

VARIABLES row, tries, outer,   \* where init is, and what is left of the retries
          out,                 \* the output buffer
          mouse_found, mouse_extra, config,
          ctl_mouse, ctl_kbd,  \* the devices
          faults, bad          \* bound; whether a device ever answered something else

setup_vars == <<row, tries, outer, out, mouse_found, mouse_extra, config, ctl_mouse, ctl_kbd, faults, bad>>

SetupInit ==
    /\ row = 1 /\ tries = Retries /\ outer = Retries
    /\ out = <<>>
    /\ mouse_found = TRUE /\ mouse_extra = FALSE
    /\ config = {}
    /\ \E wheel \in BOOLEAN :
         ctl_mouse = [wheel |-> wheel, rates |-> <<>>, id |-> "00", reporting |-> FALSE]
    /\ ctl_kbd = "disabled"
    /\ faults = MaxFaults /\ bad = FALSE

Done == row = Len(Program) + 1
Failed == row = 0

-----------------------------------------------------------------------------
(* The devices *)

\* Three sample rates in a row switch a mouse with a wheel to longer packets.
Rate(m, r) ==
    LET rates == IF Len(m.rates) = 3 THEN Append(Tail(m.rates), r) ELSE Append(m.rates, r)
    IN [m EXCEPT !.rates = rates,
                 !.id = IF m.wheel /\ rates = <<"200", "100", "80">> THEN "03" ELSE @]

Executes(cmd) ==
    IF Program[row].dev = "mouse"
    THEN /\ ctl_mouse' = CASE cmd \in {"200", "100", "80"} -> Rate(ctl_mouse, cmd)
                       [] cmd \in {"reset", "defaults"}
                            -> [ctl_mouse EXCEPT !.rates = <<>>, !.reporting = FALSE,
                                             !.id = IF cmd = "reset" THEN "00" ELSE @]
                       [] cmd = "report" -> [ctl_mouse EXCEPT !.reporting = TRUE]
                       [] OTHER -> ctl_mouse
         /\ UNCHANGED ctl_kbd
    ELSE /\ ctl_kbd' = CASE cmd = "report" -> "reporting" [] cmd = "defaults" -> "disabled"
                     [] OTHER -> ctl_kbd
         /\ UNCHANGED ctl_mouse

\* What a device sends for a command it executes.
Reply(dev, cmd) ==
    CASE dev = "ctl" -> <<>>
      [] cmd = "id" -> <<"FA", ctl_mouse.id>>
      [] cmd = "reset" -> IF dev = "kbd" THEN <<"FA", "AA">> ELSE <<"FA", "AA", "00">>
      [] cmd = "status" -> <<"FA", "st", "st", "st">>
      [] Program[row].more = 1 -> <<"FA", "FA">>
      [] OTHER -> <<"FA">>

-----------------------------------------------------------------------------
(* The driver *)

\* flush_read at the end of a row.
Flush(q, i) == IF Flushed(i) THEN <<>> ELSE q

\* The row is over: on to the next one.  The mouse's report is skipped without a mouse,
\* the other sample rates after one that was refused.
Forward(q, ok) ==
    /\ row' = CASE row = Report /\ ~mouse_found -> row + 2
                [] row \in Rates /\ ~ok -> 11
                [] OTHER -> row + 1
    /\ out' = Flush(q, row' - 1)
    /\ tries' = Retries /\ outer' = Retries

\* The row fails: again as a whole if it must succeed, after a flush; without a mouse if
\* it is one of init_mouse; otherwise init fails, and the daemon with it.
Fails(q) ==
    IF Program[row].must /\ outer > 1
    THEN /\ outer' = outer - 1 /\ tries' = Retries /\ out' = <<>>
         /\ UNCHANGED <<row, mouse_found, mouse_extra>>
    ELSE /\ out' = q /\ tries' = Retries /\ outer' = Retries
         /\ IF Program[row].dev = "mouse" /\ row < Report
            THEN row' = Report /\ mouse_found' = FALSE /\ mouse_extra' = FALSE
            ELSE row' = 0 /\ UNCHANGED <<mouse_found, mouse_extra>>

\* No answer, or FE: the command is written again (retry).  The commands that start the
\* reporting are not.
Again(q) ==
    IF tries > 1 /\ row \notin {Report, Report + 1}
    THEN tries' = tries - 1 /\ out' = q /\ UNCHANGED <<row, outer, mouse_found, mouse_extra>>
    ELSE Fails(q)

SelfTest == <<"AA", "00">>

\* The answer b is read, and q is left: the further bytes are read too.  The rest of the
\* keyboard's reset may be missing.
Answered(b, q) ==
    LET r == Program[row]
        more == IF b = "FA" THEN r.more ELSE 0
    IN IF more > Len(q) /\ ~(r.dev = "kbd" /\ r.cmd = "reset")
       THEN IF r.cmd \in {"id", "status", "reset"} THEN Fails(<<>>) ELSE Again(<<>>)
       ELSE IF r.must /\ (b # "FA" \/ (r.cmd = "reset" /\ SubSeq(q, 1, 2) # SelfTest))
       THEN Fails(q)
       ELSE /\ Forward(SubSeq(q, more + 1, Len(q)), b = "FA" /\ (q = <<>> \/ Head(q) = "FA"))
            /\ mouse_extra' = IF r.cmd = "id" THEN b = "FA" /\ Head(q) = "03" ELSE mouse_extra
            /\ UNCHANGED mouse_found

\* A command is written and its answer read.
Command(how) ==
    LET r == Program[row]
        reply == CASE how \in {"in time", "late"} -> Reply(r.dev, r.cmd)
                   [] how = "resend" -> <<"FE">> [] how = "bad" -> <<"bad">> [] OTHER -> <<>>
        now == IF how = "late" THEN out ELSE out \o reply
        later == IF how = "late" THEN reply ELSE <<>>
    IN /\ ~Done /\ ~Failed /\ r.dev # "ctl"
       /\ IF how = "in time" THEN UNCHANGED faults ELSE faults > 0 /\ faults' = faults - 1
       /\ bad' = (bad \/ how = "bad")
       /\ IF how \in {"in time", "late"} THEN Executes(r.cmd) ELSE UNCHANGED <<ctl_mouse, ctl_kbd>>
       /\ IF now = <<>> \/ Head(now) = "FE" THEN Again(IF now = <<>> THEN later ELSE Tail(now) \o later)
                                           ELSE Answered(Head(now), Tail(now) \o later)
       /\ UNCHANGED config

\* The controller's own commands: the configuration is written without interrupts first,
\* and last with those of the devices that were found.  Each may time out.
Controller ==
    /\ ~Done /\ ~Failed /\ Program[row].dev = "ctl"
    /\ \/ /\ Forward(out, TRUE)
          /\ config' = CASE Program[row].cmd = "config" -> {"first disabled", "second disabled"}
                         [] Program[row].cmd = "enable"
                              -> {"first interrupt", IF mouse_found THEN "second interrupt"
                                                     ELSE "second disabled"}
                         [] OTHER -> config
          /\ UNCHANGED faults
       \/ /\ faults > 0 /\ faults' = faults - 1
          /\ row' = IF tries > 1 /\ Program[row].cmd # "test" THEN row ELSE 0
          /\ tries' = tries - 1
          /\ UNCHANGED <<outer, out, config>>
    /\ UNCHANGED <<mouse_found, mouse_extra, ctl_mouse, ctl_kbd, bad>>

SetupNext == Controller \/ \E how \in {"in time", "late", "resend", "bad", "lost"} : Command(how)

-----------------------------------------------------------------------------
(* Properties *)

\* When the driver is ready it agrees with the devices: the interrupts are on for what was
\* found, it reads packets of the length the mouse sends, however many answers were late,
\* lost or asked for a command again, and what was found reports.  The last holds only up
\* to one such answer: init_mouse leaves the answer to its last command in the buffer, where
\* it hides that a device did not take EnableReporting (init, init_mouse, flush_read).
Agrees ==
    Done => /\ ("second interrupt" \in config) = mouse_found
            /\ ~bad /\ mouse_found => mouse_extra = (ctl_mouse.id = "03")
            /\ ~bad /\ faults + 1 >= MaxFaults
                 => ctl_kbd = "reporting" /\ (mouse_found => ctl_mouse.reporting)
-----------------------------------------------------------------------------
(* Input *)

CONSTANTS Setups,     \* the machines: [vmmouse, extra_packet], and the bounds [keys, moves] on
                      \* the keys that are typed and the packets of the mouse
          MaxBytes,   \* bytes that wait in a file
          MaxLost     \* bytes of the mouse that are lost

\* The codes the keys send, and whether a prefix comes before them.  The fake shift comes
\* before and after some extended keys, and has no scancode.
Code(k) == CASE k = "lshift" -> "2A" [] k = "rshift" -> "36" [] k = "a" -> "1E"
             [] k = "home" -> "47" [] k = "fake" -> "2A"
Prefixed(k) == k \in {"home", "fake"}

VARIABLES kbd, mouse,              \* the devices
          kbd_file, mouse_file,    \* bytes that wait to be read
          setup,
          extended, lshift, rshift, buttons, mouse_x, packets,
          view, lost, moves

input_vars == <<kbd, mouse, kbd_file, mouse_file, setup, extended, lshift, rshift, buttons,
          mouse_x, packets, view, lost, moves>>

keyVars == <<kbd, kbd_file, extended, lshift, rshift>>
mouseVars == <<mouse, mouse_file, buttons, mouse_x, packets, lost, moves>>

InputInit ==
    /\ setup \in Setups
    /\ kbd = {} /\ mouse = [buttons |-> {}, pos |-> 0, queue |-> <<>>]
    /\ kbd_file = <<>> /\ mouse_file = <<>>
    /\ extended = FALSE /\ lshift = FALSE /\ rshift = FALSE
    /\ buttons = {} /\ mouse_x = 0 /\ packets = <<>>
    /\ view = NoInput
    /\ lost = 0 /\ moves = setup.moves

-----------------------------------------------------------------------------
(* The keyboard *)

\* A key is pressed or released.
Type(k) ==
    LET pressed == k \notin kbd
        byte == [code |-> Code(k), pressed |-> pressed]
        bytes == IF Prefixed(k) THEN <<[code |-> "E0", pressed |-> TRUE], byte>> ELSE <<byte>>
    IN /\ Len(kbd_file) + Len(bytes) <= MaxBytes
       /\ kbd_file' = kbd_file \o bytes
       /\ kbd' = IF pressed THEN kbd \cup {k} ELSE kbd \ {k}
       /\ UNCHANGED <<extended, lshift, rshift, setup, mouseVars, view>>

\* The tables of scancodes.
Scancode(code, ext) ==
    IF ext THEN IF code = "47" THEN "home" ELSE "none"
    ELSE CASE code = "2A" -> "lshift" [] code = "36" -> "rshift" [] code = "1E" -> "a"
           [] code = "47" -> "num7" [] OTHER -> "none"

\* handle for a byte of the keyboard.
HandleKey ==
    /\ kbd_file # <<>>
    /\ kbd_file' = Tail(kbd_file)
    /\ LET b == Head(kbd_file)
           key == Scancode(b.code, extended)
       IN IF b.code = "E0"
          THEN extended' = TRUE /\ UNCHANGED <<lshift, rshift, view>>
          ELSE /\ extended' = FALSE
               /\ lshift' = IF key = "lshift" THEN b.pressed ELSE lshift
               /\ rshift' = IF key = "rshift" THEN b.pressed ELSE rshift
               /\ view' = IF key = "none" THEN view
                          ELSE KeyEvent(view, key, b.pressed, GetChar(b.code, lshift' \/ rshift'))
    /\ UNCHANGED <<kbd, setup, mouseVars>>

-----------------------------------------------------------------------------
(* The mouse *)

Byte(on, d) == [on |-> on, held |-> {}, sign |-> FALSE, overflow |-> FALSE, d |-> d]
Extra == IF setup.extra_packet THEN <<Byte(FALSE, 0)>> ELSE <<>>

\* The mouse moves by dx, with these buttons held: a packet.  The bit that marks a first
\* byte may be set in the others, here in that of the distance.  One that overflows is
\* dropped by the driver.
Move(dx, held, mark, overflow) ==
    /\ ~setup.vmmouse /\ moves > 0 /\ mouse_file = <<>>
    /\ moves' = moves - 1
    /\ mouse_file' = <<[Byte(TRUE, 0) EXCEPT !.held = held, !.sign = dx < 0,
                                              !.overflow = overflow],
                       Byte(mark, dx % 4), Byte(FALSE, 0)>> \o Extra
    /\ mouse' = IF overflow THEN mouse ELSE [mouse EXCEPT !.buttons = held, !.pos = @ + dx]
    /\ UNCHANGED <<keyVars, setup, buttons, mouse_x, packets, view, lost>>

\* A byte is lost before it is read.
LoseByte ==
    /\ lost < MaxLost /\ mouse_file # <<>>
    /\ lost' = lost + 1
    /\ mouse_file' = Tail(mouse_file)
    /\ UNCHANGED <<keyVars, setup, mouse, buttons, mouse_x, packets, view, moves>>

\* Two's complement in the width of a distance, here two bits and the sign.
Distance(first, d) == IF first.sign THEN d - 4 ELSE d

\* handle for a byte of the mouse: the packet starts over at a first byte that is none.
HandleMouse ==
    /\ ~setup.vmmouse /\ mouse_file # <<>>
    /\ mouse_file' = Tail(mouse_file)
    /\ LET p == Append(packets, Head(mouse_file))
           first == p[1]
       IN IF ~first.on
          THEN packets' = <<>> /\ UNCHANGED <<buttons, view>>
          ELSE IF Len(p) < Len(Extra) + 3
          THEN packets' = p /\ UNCHANGED <<buttons, view>>
          ELSE /\ packets' = <<>>
               /\ IF first.overflow THEN UNCHANGED <<buttons, view>>
                  ELSE LET v1 == MouseRelativeEvent(view, Distance(first, p[2].d))
                       IN /\ buttons' = first.held
                          /\ view' = IF first.held # buttons THEN ButtonEvent(v1, first.held) ELSE v1
    /\ UNCHANGED <<keyVars, setup, mouse, mouse_x, lost, moves>>

\* The virtual mouse queues its states, and a byte announces them.
VmMove(x, held) ==
    /\ setup.vmmouse /\ moves > 0
    /\ moves' = moves - 1
    /\ mouse' = [buttons |-> held, pos |-> x, queue |-> Append(mouse.queue, [x |-> x, b |-> held])]
    /\ mouse_file' = <<Byte(FALSE, 0)>>
    /\ UNCHANGED <<keyVars, setup, buttons, mouse_x, packets, view, lost>>

\* handle with a virtual mouse: the queue is read until it is empty.  Only what changed is
\* sent.
HandleVmMouse ==
    /\ setup.vmmouse /\ mouse_file # <<>>
    /\ mouse_file' = Tail(mouse_file)
    /\ LET seen == FoldLeft(LAMBDA s, e :
                       [x |-> e.x, b |-> e.b,
                        view |-> LET v1 == IF e.x # s.x THEN MouseEvent(s.view, e.x) ELSE s.view
                                 IN IF e.b # s.b THEN ButtonEvent(v1, e.b) ELSE v1],
                     [x |-> mouse_x, b |-> buttons, view |-> view], mouse.queue)
       IN mouse_x' = seen.x /\ buttons' = seen.b /\ view' = seen.view
    /\ mouse' = [mouse EXCEPT !.queue = <<>>]
    /\ UNCHANGED <<keyVars, setup, packets, lost, moves>>

-----------------------------------------------------------------------------
InputNext ==
    \/ \E k \in setup.keys : Type(k)
    \/ HandleKey
    \/ \E dx \in {-1, 1}, held \in {{}, {"left"}}, mark, overflow \in BOOLEAN :
         Move(dx, held, mark, overflow)
    \/ LoseByte \/ HandleMouse
    \/ \E x \in {0, 1}, held \in {{}, {"left"}} : VmMove(x, held)
    \/ HandleVmMouse

-----------------------------------------------------------------------------
(* Properties *)

\* When all bytes of the keyboard are handled, the consumer sees exactly the keys held,
\* and the driver the shift keys held: a prefix belongs to the one code after it, whatever
\* the mouse sends between the two, and the fake shift is none (handle).
KeysFollowed ==
    kbd_file = <<>> => /\ view.down = kbd \ {"fake"}
                       /\ ~extended
                       /\ lshift = ("lshift" \in kbd) /\ rshift = ("rshift" \in kbd)

\* When all packets are handled and no byte was lost, the consumer has the buttons and
\* the position of the mouse, and the next byte starts a packet (handle).
MouseFollowed ==
    mouse_file = <<>> /\ lost = 0 => /\ view.buttons = mouse.buttons
                                     /\ view.pos = mouse.pos
                                     /\ packets = <<>>
=============================================================================
