---------------------------- MODULE InputEvents ----------------------------
(***************************************************************************)
(* What the consumer of input events knows from the events that reached it: *)
(* the keys it sees pressed, the mouse buttons, the position of the pointer *)
(* and the character of the last key.  The drivers of keyboards and mice write to the  *)
(* same input socket and share the keymaps.                                 *)
(***************************************************************************)
EXTENDS Integers

NoChar == <<>>

NoInput == [down |-> {}, buttons |-> {}, pos |-> 0, char |-> NoChar]

\* get_char of a keymap: a table of two characters for each key.
GetChar(key, shift) == <<key, shift>>

KeyEvent(view, key, pressed, char) ==
    [view EXCEPT !.down = IF pressed THEN @ \cup {key} ELSE @ \ {key},
                 !.char = IF pressed THEN char ELSE @]
MouseEvent(view, x) == [view EXCEPT !.pos = x]
MouseRelativeEvent(view, dx) == [view EXCEPT !.pos = @ + dx]
ButtonEvent(view, buttons) == [view EXCEPT !.buttons = buttons]
=============================================================================
