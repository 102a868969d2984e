----------------------------- MODULE FbConsole -----------------------------
(***************************************************************************)
(* fbcond serves a terminal on one VT.  Keys come from inputd and bytes go  *)
(* to the programs that read, which wait in the call, poll, or ask to be    *)
(* notified.  What programs write is drawn by console-draw, and the rows    *)
(* that changed are shown.  Between any two steps of the event loop the     *)
(* programs and the keyboard go on.                                         *)
(***************************************************************************)
EXTENDS Integers, SequencesExt, FiniteSetsExt

CONSTANTS Users,       \* programs, each with one handle and one call at a time
          Rows,        \* of the display
          Scenes       \* [users, keys, max_keys, outputs, read_lens, max_calls, signals]: who uses
                       \* the terminal, what is typed and written and how much of it, and whether
                       \* calls are interrupted.  Keys are "ctrl" and those that send a character,
                       \* a sequence, or nothing; what is written is [draw, reply, cursor].

VARIABLES scene,
          inbox, keyboard,       \* events of inputd not read yet; the state of the control key
          events,                \* of the event queue: "scheme", "vt"
          pc,                    \* handle_event: "wait", "scheme", "vt", "retry", "notify"
          socket, blocked,       \* requests not taken, and calls that wait
          ctrl, input,           \* struct TextScreen
          handles,               \* FbconScheme
          text, cursor,          \* what ransid's console holds; a cursor in row Rows is not shown
          offscreen, onscreen,   \* the buffer that is drawn to, and the screen
          waiting,               \* the id of the call each program waits for, 0 for none
          ids, keys,             \* calls and keys so far
          told,                  \* programs notified since input was last empty
          gap                    \* input was "emptied", or then "refilled", since handles were notified

in_vars == <<scene, inbox, keyboard, keys>>
screen_vars == <<text, cursor, offscreen, onscreen>>
vars == <<in_vars, events, pc, socket, blocked, ctrl, input, handles, screen_vars, waiting, ids, told, gap>>

Lines == 0 .. Rows - 1
Closed == [open |-> FALSE, nonblock |-> FALSE, events |-> FALSE, notified_read |-> FALSE]

\* handle_event is called for every source before the first event is waited for.
Init ==
    /\ scene \in Scenes
    /\ inbox = <<>> /\ keyboard = FALSE /\ keys = 0
    /\ events = {"scheme", "vt"} /\ pc = "wait"
    /\ socket = <<>> /\ blocked = <<>>
    /\ ctrl = FALSE /\ input = <<>>
    /\ handles = [p \in Users |-> Closed]
    /\ text = [y \in Lines |-> " "] /\ cursor = Rows
    /\ offscreen = [y \in Lines |-> <<" ", FALSE>>] /\ onscreen = offscreen
    /\ waiting = [p \in Users |-> 0] /\ ids = 0
    /\ told = {} /\ gap = "none"

-----------------------------------------------------------------------------
(* Keyboard and programs *)

Type(key, pressed) ==
    /\ keys < scene.max_keys
    /\ key = "ctrl" => pressed # keyboard
    /\ keyboard' = IF key = "ctrl" THEN pressed ELSE keyboard
    /\ inbox' = Append(inbox, [key |-> key, pressed |-> pressed])
    /\ keys' = keys + 1 /\ UNCHANGED scene
    /\ events' = events \cup {"vt"}
    /\ UNCHANGED <<pc, socket, blocked, ctrl, input, handles, screen_vars, waiting, ids, told, gap>>

Call(p, op, arg) ==
    /\ waiting[p] = 0 /\ ids < scene.max_calls
    /\ (op = "open") = ~handles[p].open
    /\ ids' = ids + 1
    /\ waiting' = [waiting EXCEPT ![p] = ids']
    /\ socket' = Append(socket, [id |-> ids', p |-> p, op |-> op, arg |-> arg])
    /\ events' = events \cup {"scheme"}
    /\ UNCHANGED <<in_vars, pc, blocked, ctrl, input, handles, screen_vars, told, gap>>

Calls(p) == \/ \E nonblock \in BOOLEAN : Call(p, "open", nonblock)
            \/ \E n \in scene.read_lens : Call(p, "read", n)
            \/ \E o \in scene.outputs : Call(p, "write", o)
            \/ Call(p, "fevent", TRUE) \/ Call(p, "close", TRUE)

\* A signal interrupts the call: it is asked to end.
Interrupt(p) ==
    /\ scene.signals /\ waiting[p] # 0 /\ \A k \in DOMAIN socket : socket[k].op # "cancel"
    /\ socket' = Append(socket, [id |-> waiting[p], p |-> p, op |-> "cancel", arg |-> TRUE])
    /\ events' = events \cup {"scheme"}
    /\ UNCHANGED <<in_vars, pc, blocked, ctrl, input, handles, screen_vars, waiting, ids, told, gap>>

-----------------------------------------------------------------------------
(* Keys *)

\* TextScreen::input, for an event that is no control key.
Bytes(e, held) ==
    IF ~e.pressed \/ e.key = "none" THEN <<>>
    ELSE IF e.key = "up" THEN <<"esc", "[", "A">>
    ELSE <<IF held THEN "^" ELSE e.key>>

AddInput(bytes) ==
    /\ input' = input \o bytes
    /\ gap' = IF gap = "emptied" /\ bytes # <<>> THEN "refilled" ELSE gap

-----------------------------------------------------------------------------
(* What is drawn *)

\* The rows of a Move one after the other, from the side that is not overwritten first.
MoveRows(map, d) ==
    LET Copy(m, raw_y) ==
            LET y == IF d.from > d.to THEN raw_y ELSE d.h - raw_y - 1
            IN IF d.from + y \in Lines /\ d.to + y \in Lines
               THEN [m EXCEPT ![d.to + y] = m[d.from + y]] ELSE m
    IN FoldLeft(Copy, map, [k \in 1 .. d.h |-> k - 1])

\* TextScreen::rect is clipped to the map, char is left out unless it fits.
DrawRect(map, d) == [y \in Lines |-> IF y \in d.to .. d.to + d.h - 1 THEN <<d.c, FALSE>> ELSE map[y]]
DrawChar(map, d) == IF d.to < Rows THEN [map EXCEPT ![d.to] = <<d.c, FALSE>>] ELSE map

Draw(map, d) ==
    CASE d.op = "move" -> MoveRows(map, d)
      [] d.op = "rect" -> DrawRect(map, d)
      [] d.op = "char" -> DrawChar(map, d)

\* TextScreen::invert at the cursor, if it is shown.
Invert(map, row) == [y \in Lines |-> IF y = row THEN <<map[y][1], ~map[y][2]>> ELSE map[y]]

Changed(o) == ({cursor, o.cursor} \cap Lines)
              \cup UNION {o.draw[k].to .. o.draw[k].to + o.draw[k].h - 1 : k \in DOMAIN o.draw}

\* Rows that follow each other are one rectangle.
Damage(changed) ==
    LET Add(damage, y) ==
            IF damage # <<>> /\ y = Last(damage).y + Last(damage).height
            THEN [damage EXCEPT ![Len(damage)].height = @ + 1]
            ELSE Append(damage, [y |-> y, height |-> 1])
    IN FoldLeft(Add, <<>>, SetToSortSeq(changed, <))

\* Damage::clip, with which the graphics driver starts, and the rows it shows.
Clip(d) ==
    LET y == Min({d.y, Rows})
    IN [y |-> y, height |-> IF y + d.height > Rows THEN Min({d.height, Rows - y}) ELSE d.height]

Synced(damage) ==
    UNION {LET d == Clip(damage[k]) IN d.y .. d.y + d.height - 1 : k \in DOMAIN damage}

\* TextScreen::write: the cursor is taken away before the text is drawn and put back.
Show(o) ==
    LET cleared == Invert(offscreen, cursor)
        synced == Synced(Damage(Changed(o)))
    IN /\ offscreen' = Invert(FoldLeft(Draw, cleared, o.draw), o.cursor)
       /\ onscreen' = [y \in Lines |-> IF y \in synced THEN offscreen'[y] ELSE onscreen[y]]

\* ransid's console: every event of a write is one of what it holds, all rows at once.
Hold(held, d) ==
    [y \in Lines |->
       IF y \notin d.to .. d.to + d.h - 1 THEN held[y]
       ELSE IF d.op # "move" THEN d.c
       ELSE IF d.from + y - d.to \in Lines THEN held[d.from + y - d.to] ELSE held[y]]

Console(o) == text' = FoldLeft(Hold, text, o.draw) /\ cursor' = o.cursor

-----------------------------------------------------------------------------
(* The event loop *)

TakeEvent(e) ==
    /\ pc = "wait" /\ e \in events
    /\ events' = events \ {e}
    /\ pc' = e
    /\ UNCHANGED <<in_vars, socket, blocked, ctrl, input, handles, screen_vars, waiting, ids, told, gap>>

\* All events that are there are read, until there is none.
ReadKeys ==
    LET Key(s, e) == IF e.key = "ctrl" THEN [s EXCEPT !.ctrl = e.pressed]
                     ELSE [s EXCEPT !.bytes = @ \o Bytes(e, s.ctrl)]
        s == FoldLeft(Key, [ctrl |-> ctrl, bytes |-> <<>>], inbox)
    IN /\ pc = "vt"
       /\ inbox' = <<>> /\ ctrl' = s.ctrl
       /\ AddInput(s.bytes)
       /\ pc' = IF inbox = <<>> THEN "retry" ELSE "vt"
       /\ UNCHANGED <<scene, keyboard, keys, events, socket, blocked, handles, screen_vars, waiting, ids, told>>

Answer(p) == waiting' = [waiting EXCEPT ![p] = 0]

Blocks(r) == r.op = "read" /\ input = <<>> /\ ~handles[r.p].nonblock

\* read takes what there is, up to the length of the buffer.
Read(n) ==
    /\ input' = SubSeq(input, Min({n, Len(input)}) + 1, Len(input))
    /\ IF input' = <<>> /\ input # <<>> THEN told' = {} /\ gap' = "emptied" ELSE UNCHANGED <<told, gap>>

\* The methods of the scheme.
Perform(r) ==
    /\ Answer(r.p)
    /\ handles' = CASE r.op = "open" -> [handles EXCEPT ![r.p] = [Closed EXCEPT !.open = TRUE, !.nonblock = r.arg]]
                    [] r.op = "fevent" -> [handles EXCEPT ![r.p].events = r.arg, ![r.p].notified_read = FALSE]
                    [] r.op = "close" -> [handles EXCEPT ![r.p] = Closed]
                    [] OTHER -> handles
    /\ CASE r.op = "read" -> Read(r.arg)
         [] r.op = "write" -> AddInput(r.arg.reply) /\ UNCHANGED told
         [] r.op \in {"fevent", "close"} -> told' = told \ {r.p} /\ UNCHANGED <<input, gap>>
         [] OTHER -> UNCHANGED <<input, told, gap>>
    /\ IF r.op = "write" THEN Show(r.arg) /\ Console(r.arg) ELSE UNCHANGED screen_vars

TakeCall ==
    LET r == Head(socket)
    IN /\ pc = "scheme" /\ socket # <<>> /\ r.op # "cancel"
       /\ socket' = Tail(socket)
       /\ IF Blocks(r) THEN /\ blocked' = Append(blocked, r)
                            /\ UNCHANGED <<waiting, handles, input, told, gap, screen_vars>>
                       ELSE Perform(r) /\ UNCHANGED blocked
       /\ UNCHANGED <<in_vars, events, pc, ctrl, ids>>

\* A call that was answered meanwhile is not there any more.
TakeCancellation ==
    LET r == Head(socket)
        cancelled == SelectSeq(blocked, LAMBDA b : b.id = r.id)
    IN /\ pc = "scheme" /\ socket # <<>> /\ r.op = "cancel"
       /\ socket' = Tail(socket)
       /\ blocked' = SelectSeq(blocked, LAMBDA b : b.id # r.id)
       /\ IF cancelled # <<>> THEN Answer(Head(cancelled).p) ELSE UNCHANGED waiting
       /\ UNCHANGED <<in_vars, events, pc, ctrl, input, handles, screen_vars, ids, told, gap>>

NoRequest ==
    /\ pc = "scheme" /\ socket = <<>>
    /\ pc' = "retry"
    /\ UNCHANGED <<in_vars, events, socket, blocked, ctrl, input, handles, screen_vars, waiting, ids, told, gap>>

\* The calls that wait are tried again in their order; all of them are reads.
Retry ==
    /\ pc = "retry"
    /\ IF blocked # <<>> /\ ~Blocks(Head(blocked))
       THEN /\ Perform(Head(blocked))
            /\ blocked' = Tail(blocked)
            /\ UNCHANGED pc
       ELSE pc' = "notify" /\ UNCHANGED <<blocked, waiting, handles, input, told, gap, screen_vars>>
    /\ UNCHANGED <<in_vars, events, socket, ctrl, ids>>

Notify ==
    LET due == {p \in Users : handles[p].events /\ input # <<>> /\ ~handles[p].notified_read}
    IN /\ pc = "notify"
       /\ handles' = [p \in Users |-> IF handles[p].events
                                      THEN [handles[p] EXCEPT !.notified_read = (input # <<>>)]
                                      ELSE handles[p]]
       /\ told' = told \cup due
       /\ gap' = IF input = <<>> THEN "none" ELSE gap
       /\ pc' = "wait"
       /\ UNCHANGED <<in_vars, events, socket, blocked, ctrl, input, screen_vars, waiting, ids>>

Next == \/ \E key \in scene.keys, pressed \in BOOLEAN : Type(key, pressed)
        \/ \E p \in scene.users : Calls(p) \/ Interrupt(p)
        \/ \E e \in {"scheme", "vt"} : TakeEvent(e)
        \/ ReadKeys \/ TakeCall \/ TakeCancellation \/ NoRequest \/ Retry \/ Notify

-----------------------------------------------------------------------------
\* No call is lost: one that waits was not taken yet or is blocked.  When the loop waits, no
\* read waits while there is input, the control key is as it was last read, and every handle that asked for it was notified since the
\* input was last empty: unless one batch of requests emptied the input and filled it again
\* with the terminal's own reply, which the loop does not see (handle_event).
ReadersWoken ==
    /\ \A p \in Users : waiting[p] # 0 =>
         \E r \in Range(socket) \cup Range(blocked) : r.id = waiting[p] /\ r.op # "cancel"
    /\ pc = "wait" =>
         /\ blocked # <<>> => input = <<>>
         /\ input # <<>> => \A p \in Users : handles[p].events => p \in told \/ gap = "refilled"
         /\ inbox = <<>> => ctrl = keyboard

\* The screen shows the text, and the cursor in its place only: scrolling copies rows that
\* overlap, the damage is joined from the rows, and the cursor is drawn by inverting what is
\* there (TextScreen::write of console-draw, sync_rects).
TextShown == \A y \in Lines : onscreen[y] = <<text[y], y = cursor>>
=============================================================================
