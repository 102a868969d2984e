---------------------------- MODULE MCPlatform ----------------------------
(***************************************************************************)
(* Small machines for Platform.                                             *)
(***************************************************************************)
EXTENDS Platform, TLC, Sequences

\* ps2d: all keys; keys and a mouse; mice with short and long packets; a virtual mouse.
MCSetups ==
    {[vmmouse |-> FALSE, extra_packet |-> FALSE, keys |-> {"lshift", "rshift", "a", "home", "fake"}, moves |-> 0],
     [vmmouse |-> FALSE, extra_packet |-> FALSE, keys |-> {"fake", "a"}, moves |-> 1],
     [vmmouse |-> FALSE, extra_packet |-> FALSE, keys |-> {}, moves |-> 3],
     [vmmouse |-> FALSE, extra_packet |-> TRUE, keys |-> {}, moves |-> 2],
     [vmmouse |-> TRUE, extra_packet |-> TRUE, keys |-> {}, moves |-> 3]}

-----------------------------------------------------------------------------
(* fbcond: a program that writes text, scrolls both ways and clears; one that reads while the
   terminal replies; all kinds of keys; two readers; a reader that is interrupted. *)
Char(y, c) == [op |-> "char", from |-> 0, to |-> y, h |-> 1, c |-> c]
Clear(y, h) == [op |-> "rect", from |-> 0, to |-> y, h |-> h, c |-> " "]
Scroll(from, to, h) == [op |-> "move", from |-> from, to |-> to, h |-> h, c |-> " "]
Output(draw, y) == [draw |-> draw, reply |-> <<>>, cursor |-> y]
Reply == [Output(<<>>, 3) EXCEPT !.reply = <<"r">>]
Outputs == {Output(<<Char(0, "x"), Char(1, "y")>>, 2), Output(<<Scroll(1, 0, 2), Clear(2, 1)>>, 2),
            Output(<<Scroll(0, 1, 3), Char(0, "z")>>, 0), Reply}
Scene(users, typed, max_keys, outputs, read_lens, max_calls) ==
    [users |-> users, keys |-> typed, max_keys |-> max_keys, outputs |-> outputs,
     read_lens |-> read_lens, max_calls |-> max_calls, signals |-> FALSE]

MCScenes ==
    {Scene({"p"}, {}, 0, Outputs, {}, 4),
     Scene({"p"}, {"c"}, 1, {Reply}, {1}, 4),
     Scene({"p"}, {"ctrl", "c", "up", "none"}, 2, {}, {2}, 2),
     Scene({"p", "q"}, {"c"}, 1, {}, {1}, 4),
     [Scene({"p"}, {"c"}, 1, {}, {1}, 3) EXCEPT !.signals = TRUE]}

-----------------------------------------------------------------------------
(* Codecs: a mixer between pin and converter; headphones that may be plugged in, beside a
   speaker with a range in its list; a line out; a list of long entries; a list with a
   range and two responses; a selector that leads nowhere. *)
E(a) == [addr |-> a, range |-> FALSE]
R(a) == [addr |-> a, range |-> TRUE]
Widget(type, list, select) ==
    [type |-> type, device |-> "none", seq |-> 0, jack |-> FALSE, list |-> list, long |-> FALSE,
     select |-> select, in_amp |-> -1, out_amp |-> -1]
Dac == [Widget("AudioOutput", <<>>, 0) EXCEPT !.out_amp = 5]
Mixer(list, select) == [Widget("AudioMixer", list, select) EXCEPT !.in_amp = 3]
Pin(device, jack, list, select) ==
    [Widget("PinComplex", list, select) EXCEPT !.device = device, !.jack = jack]

MCCodecs ==
    {<<Dac, Mixer(<<E(1)>>, 0), Pin("LineOut", FALSE, <<E(2)>>, 0), Pin("MicIn", FALSE, <<>>, 0)>>,
     <<Dac, Dac, Dac, Dac, Dac, Pin("Speaker", FALSE, <<E(1), R(3)>>, 2),
       Pin("HPOut", TRUE, <<E(1), E(2), E(3), E(4), E(5)>>, 4), Pin("HPOut", TRUE, <<E(2)>>, 0)>>,
     <<Dac, Pin("LineOut", FALSE, <<E(1)>>, 0), Pin("LineOut", TRUE, <<E(1)>>, 0)>>,
     <<Dac, Dac, Dac, [Mixer(<<E(3), E(2), E(1)>>, 2) EXCEPT !.long = TRUE], Pin("SPDIF", FALSE, <<E(4)>>, 0)>>,
     <<Dac, Dac, Dac, Dac, Dac, Dac, Pin("Speaker", FALSE, <<E(1), R(3), E(4), E(5), E(6)>>, 4)>>,
     <<Dac, Pin("HPOut", FALSE, <<E(1)>>, 1)>>}

-----------------------------------------------------------------------------
(* Machines: a bridge, a function behind a missing one, BARs of 64 bits; a table in a BAR that
   is no memory; legacy lines with and without a pin and an interrupt map. *)
Id(class, vendor, device) == [class |-> class, subclass |-> 0, interface |-> 0, vendor |-> vendor, device |-> device]
NoSlot == [kind |-> "none", size |-> 0]
Mem(n) == [kind |-> "mem32", size |-> n]
Mem64(n) == [kind |-> "mem64", size |-> n]
High == [kind |-> "high", size |-> 0]
Io == [kind |-> "io", size |-> 8]
Slots(list) == [i \in 1 .. 6 |-> IF i <= Len(list) THEN list[i] ELSE NoSlot]
Table(bar, n) == [table_bar |-> bar, table_offset |-> 0, table_size |-> n, pba_bar |-> bar, pba_offset |-> 16 * n]
Func(header, id) ==
    [header |-> header, id |-> id, secondary |-> 0, slots |-> Slots(<<>>), pin |-> 1, line |-> 255,
     msi |-> -1, msix |-> Table(0, 0), left |-> {}]
Bridge(n) == [Func("bridge", Id(6, 1, 1)) EXCEPT !.secondary = n]
Disk == [Func("endpoint", Id(1, 2, 1)) EXCEPT !.msi = 0, !.msix = Table(0, 2), !.left = {"msi"},
                                              !.slots = Slots(<<Mem64(64), High>>)]
Net == [Func("endpoint", Id(2, 3, 7)) EXCEPT !.msi = 1, !.msix = Table(2, 1), !.left = {"msix"},
                                             !.slots = Slots(<<Io, NoSlot, Mem(64)>>)]
NetBadTable == [Func("endpoint", Id(2, 3, 7)) EXCEPT !.msi = 1, !.msix = Table(1, 1),
                                                     !.slots = Slots(<<Mem64(64), High>>)]
SoundFn == [Func("endpoint", Id(4, 5, 9)) EXCEPT !.msi = 0]
Usb(pin) == [Func("endpoint", Id(12, 5, 9)) EXCEPT !.pin = pin]
Virtio == [Func("endpoint", Id(3, 6, 1)) EXCEPT !.msix = Table(0, 1), !.slots = Slots(<<Mem(64)>>), !.pin = 5]
Machine(funcs) == [funcs |-> funcs, map |-> <<>>, mask |-> {1, 2, 3, 4}]

MCMachines ==
    {Machine(<<0, 0, 0>> :> Bridge(1) @@ <<1, 0, 0>> :> Disk @@ <<1, 1, 1>> :> SoundFn
             @@ <<0, 1, 0>> :> Func("cardbus", Id(6, 1, 1)) @@ <<0, 1, 1>> :> Net),
     Machine(<<0, 0, 0>> :> SoundFn @@ <<0, 1, 0>> :> NetBadTable @@ <<0, 1, 1>> :> Virtio),
     [Machine(<<0, 0, 0>> :> Usb(0) @@ <<0, 1, 0>> :> Usb(2) @@ <<0, 1, 1>> :> Disk)
        EXCEPT !.map = <<[addr |-> << <<0, 1, 0>>, 2>>, parent |-> "gic"]>>, !.mask = {2, 4}]}

MCConfig ==
    <<[match |-> [class |-> 1, vendor |-> 2, device |-> 1], command |-> "nvmed"],
      [match |-> [ids |-> {<<3, 7>>}, range |-> <<7, 8>>], command |-> "rtl8168d"],
      [match |-> [class |-> 4, subclass |-> 0, interface |-> 0], command |-> "ihdad"],
      [match |-> [class |-> 4], command |-> "none"],
      [match |-> [class |-> 12], command |-> "xhcid"],
      [match |-> [class |-> 3], command |-> "virtio"]>>

\* Allocations out of order, in two segments, one that cannot be mapped.
Alloc(seg, start, end, maps) == [seg |-> seg, start |-> start, end |-> end, maps |-> maps]
MCTables ==
    {<<>>, <<Alloc(0, 4, 7, TRUE), Alloc(1, 0, 255, TRUE), Alloc(0, 0, 1, TRUE), Alloc(0, 9, 9, FALSE)>>}
Register(bus, dev, func, offset) == [bus |-> bus, dev |-> dev, func |-> func, offset |-> offset]
MCAccesses ==
    {Register(0, 31, 7, 252), Register(1, 0, 0, 4), Register(2, 1, 0, 16), Register(5, 2, 1, 256),
     Register(255, 3, 2, 8)}

-----------------------------------------------------------------------------
(* Firmwares: tables at all places in their pages and two of one name; a DSDT that is damaged;
   one that is missing; no FADT. *)
AcpiTable(sig, name, length) ==
    [sig |-> sig, name |-> name, length |-> length, sound |-> TRUE, dsdt |-> 0, symbols |-> {}, s5 |-> {}]
Facp(addr) == [AcpiTable("FACP", "F", 5) EXCEPT !.dsdt = addr]
Dsdt == [AcpiTable("DSDT", "D", 21) EXCEPT !.symbols = {"_S5", "x"}, !.s5 = {5}]
Ssdt(length) == [AcpiTable("SSDT", "S", length) EXCEPT !.symbols = {"y"}]
Firmware(listed, memory) == [listed |-> listed, at |-> memory]

MCFirmwares ==
    {Firmware(<<3, 30, 50>>, 3 :> Facp(70) @@ 30 :> Ssdt(3) @@ 50 :> Ssdt(9) @@ 70 :> Dsdt),
     Firmware(<<6>>, 6 :> Facp(75) @@ 75 :> [Dsdt EXCEPT !.sound = FALSE]),
     Firmware(<<6, 16>>, 6 :> Facp(75) @@ 16 :> Ssdt(2)),
     Firmware(<<16>>, 16 :> Ssdt(3))}
MCAmlAddresses == [address : {4, 9}, size : {2}, write : {FALSE}]
=============================================================================
