----------------------------- MODULE MCVtSwitch -----------------------------
(* Two devices and two VTs; one console, on VT 2, or the boot log, on VT 1. *)
EXTENDS VtSwitch

CONSTANTS vesa, gpu, fbcond, bootlog

FbcondVt == fbcond :> 2
BootlogVt == bootlog :> 1

Ev(t, n) == <<[type |-> t, n |-> n]>>
JustKey == {Ev("key", 0)}
SwitchKeys == {Ev("super_down", 0) \o Ev("fkey", 2) \o Ev("super_up", 0),
               Ev("resize", 0)}
=============================================================================
