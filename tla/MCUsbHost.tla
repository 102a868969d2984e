----------------------------- MODULE MCUsbHost -----------------------------
(***************************************************************************)
(* One port, which devices come to and leave; a ring of eight TRBs, so that *)
(* transfers go over its end; devices whose descriptors are in order, and   *)
(* some whose are not.                                                      *)
(***************************************************************************)
EXTENDS UsbHost

MCBudgets == {<<3, 0, 0>>, <<2, 1, 0>>, <<1, 1, 1>>}

Interface(n, hid) == [kind |-> "interface", n |-> n, hid |-> hid]
Endpoint(dir, ty) == [kind |-> "endpoint", dir |-> dir, ty |-> ty]
HidDesc == [kind |-> "hid"]
UnknownDesc == [kind |-> "unknown"]
In == Endpoint("in", "interrupt")
Out == Endpoint("out", "interrupt")

MCDevices == {
    << <<Interface(2, TRUE), HidDesc, In, Out>>,
       <<Interface(1, FALSE), Out, Interface(2, FALSE), In, In>> >>,
    << <<Interface(2, FALSE), In, Interface(1, FALSE), Out>> >>,
    << <<Interface(1, FALSE), HidDesc, In>> >>,
    << <<Interface(1, FALSE), In, UnknownDesc, Interface(1, FALSE), In>> >>,
    << <<Interface(1, FALSE), Endpoint("in", "bulk")>> >> }
=============================================================================
