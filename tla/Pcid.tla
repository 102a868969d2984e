-------------------------------- MODULE Pcid --------------------------------
(***************************************************************************)
(* pcid: it walks the buses, starts the configured drivers for every        *)
(* function and answers their requests, one handler thread for each.  The   *)
(* drivers set up their interrupt (get_int_method) before they are ready,   *)
(* and pcid waits for that before it goes on.                               *)
(***************************************************************************)
EXTENDS Integers, SequencesExt

CONSTANTS
    Machines,      \* [funcs, map, mask], where funcs goes from <<bus, device, function>> to
                   \*   [header, id, secondary, slots, pin, line, msi, msix, left]; msi is the
                   \*   log2 of its messages, -1 for none, a table_size of 0 is no MSI-X
    Config,        \* the drivers of the configuration: [match, command]
    NumDevs,       \* devices of a bus, 32 in the code
    NumFuncs,      \* functions of a device, 8 in the code
    Vectors,       \* interrupt vectors of the boot processor, numbers
    MaxCrashes     \* bound on drivers that stop

VARIABLES
    machine, hw,                 \* the functions, and the registers of each
    pc, bus_nums, at,            \* the walk: at = [bus, dev, func, driver]
    drivers,                     \* the drivers started, in order
    holder,                      \* who has each vector: 0 nobody, -1 another process
    crashes

vars == <<machine, hw, pc, bus_nums, at, drivers, holder, crashes>>

None == "none"
NoVector == -1
NoMessage == <<>>        \* in a pipe

\* left are the features that the firmware, or an earlier system, left enabled.
Init ==
    /\ machine \in Machines
    /\ hw = [a \in DOMAIN machine.funcs |->
               [command |-> FALSE, line |-> machine.funcs[a].line,
                enabled |-> machine.funcs[a].left, mme |-> 0, message |-> NoVector,
                entry |-> NoVector, masked |-> machine.funcs[a].left = {}]]
    /\ pc = "scan" /\ bus_nums = <<0>>
    /\ at = [bus |-> 1, dev |-> 0, func |-> 0, driver |-> 1]
    /\ drivers = <<>>
    /\ holder = [v \in Vectors |-> 0]
    /\ crashes = 0

-----------------------------------------------------------------------------
(* The walk over the buses *)

NextDev == IF at.dev + 1 < NumDevs THEN [at EXCEPT !.dev = @ + 1, !.func = 0]
           ELSE [at EXCEPT !.bus = @ + 1, !.dev = 0, !.func = 0]

NextFunc == IF at.func + 1 < NumFuncs THEN [at EXCEPT !.func = @ + 1] ELSE NextDev

Address == <<bus_nums[at.bus], at.dev, at.func>>

\* main_inner: a device without function 0 is not there.
Scan ==
    /\ pc = "scan" /\ at.bus <= Len(bus_nums)
    /\ IF Address \notin DOMAIN machine.funcs
       THEN /\ at' = IF at.func = 0 THEN NextDev ELSE NextFunc
            /\ UNCHANGED <<pc, bus_nums>>
       ELSE LET f == machine.funcs[Address]
            IN CASE f.header = "endpoint" ->
                      pc' = "match" /\ at' = [at EXCEPT !.driver = 1] /\ UNCHANGED bus_nums
                 [] f.header = "bridge" ->
                      bus_nums' = Append(bus_nums, f.secondary) /\ at' = NextFunc /\ UNCHANGED pc
                 [] OTHER ->
                      at' = NextFunc /\ UNCHANGED <<pc, bus_nums>>
    /\ UNCHANGED <<machine, hw, drivers, holder, crashes>>

Ready ==
    /\ pc = "scan" /\ at.bus > Len(bus_nums)
    /\ pc' = "ready"
    /\ UNCHANGED <<machine, hw, bus_nums, at, drivers, holder, crashes>>

\* match_function.  A driver's entry has only the fields that it states.
MatchFunction(match, id) ==
    /\ "class" \in DOMAIN match => match.class = id.class
    /\ "subclass" \in DOMAIN match => match.subclass = id.subclass
    /\ "interface" \in DOMAIN match => match.interface = id.interface
    /\ IF "ids" \in DOMAIN match THEN <<id.vendor, id.device>> \in match.ids
       ELSE /\ "vendor" \in DOMAIN match => match.vendor = id.vendor
            /\ "device" \in DOMAIN match => match.device = id.device
    /\ "range" \in DOMAIN match => match.range[1] <= id.device /\ id.device < match.range[2]

NoBar == [kind |-> None, size |-> 0]

\* EndpointHeader::bar.  The second half of a 64-bit BAR read on its own looks like a small one.
BarAt(slots, i) == IF slots[i].kind = "high" THEN [kind |-> "mem32", size |-> 1] ELSE slots[i]

\* The BARs of handle_parsed_header: a 64-bit one skips the slot of its second half.
Bars(slots) ==
    LET RECURSIVE From(_)
        From(i) == IF i > 6 THEN <<>>
                   ELSE LET bar == BarAt(slots, i)
                        IN IF bar.kind = "mem64" /\ i < 6 THEN <<bar, NoBar>> \o From(i + 2)
                           ELSE <<bar>> \o From(i + 1)
    IN From(1)

\* The line of the function, or the interrupt of the device tree that the masked address maps to.
MaskedAddress(a, pin) ==
    <<[i \in 1 .. 3 |-> IF i \in machine.mask THEN a[i] ELSE 0], IF 4 \in machine.mask THEN pin ELSE 0>>

LegacyLine(a, pin, line) ==
    LET found == SelectSeq(machine.map, LAMBDA m : m.addr = MaskedAddress(a, pin))
    IN CASE pin \notin 1 .. 4 -> [kind |-> None]
         [] pin \in 1 .. 4 /\ found = <<>> -> [kind |-> "irq", irq |-> line]
         [] pin \in 1 .. 4 /\ found # <<>> -> [kind |-> "phandle", parent |-> found[1].parent]

\* A driver that was just started.  seen is the first vector of its directory listing.
Started(a, command, line) ==
    [addr |-> a, command |-> command, state |-> "init", todo |-> <<<<"config">>, <<"features">>>>,
     asked |-> NoMessage, half |-> FALSE, answer |-> NoMessage,
     bars |-> Bars(machine.funcs[a].slots), line |-> LegacyLine(a, machine.funcs[a].pin, line),
     listens |-> None, seen |-> NoVector, vector |-> NoVector]

\* handle_parsed_header for one entry of the configuration, up to the wait for the child.
Match ==
    LET a == Address
        f == machine.funcs[a]
        d == Config[at.driver]
        line == IF hw[a].line = 255 THEN 9 ELSE hw[a].line
    IN /\ pc = "match" /\ at.driver <= Len(Config)
       /\ \/ /\ ~MatchFunction(d.match, f.id) \/ d.command = None
             /\ at' = [at EXCEPT !.driver = @ + 1]
             /\ UNCHANGED <<hw, pc, drivers>>
          \/ /\ MatchFunction(d.match, f.id) /\ d.command # None
             /\ hw' = [hw EXCEPT ![a].command = TRUE, ![a].line = line]
             /\ drivers' = Append(drivers, Started(a, d.command, line))
             /\ pc' = "wait"
             /\ UNCHANGED at
       /\ UNCHANGED <<machine, bus_nums, holder, crashes>>

Matched ==
    /\ pc = "match" /\ at.driver > Len(Config)
    /\ at' = NextFunc /\ pc' = "scan"
    /\ UNCHANGED <<machine, hw, bus_nums, drivers, holder, crashes>>

\* child.wait: the process that was started ends when its daemon is ready, or stops.
Wait ==
    /\ pc = "wait"
    /\ Last(drivers).state # "init"
    /\ at' = [at EXCEPT !.driver = @ + 1] /\ pc' = "match"
    /\ UNCHANGED <<machine, hw, bus_nums, drivers, holder, crashes>>

-----------------------------------------------------------------------------
(* The handler threads *)

Features(a) == (IF machine.funcs[a].msi >= 0 THEN {"msi"} ELSE {})
               \cup (IF machine.funcs[a].msix.table_size > 0 THEN {"msix"} ELSE {})

Ok == <<"ok">>
Error == <<"error">>
Answer(i, answer) == [drivers EXCEPT ![i].asked = NoMessage, ![i].half = FALSE, ![i].answer = answer]


\* EnableFeature: the other feature is disabled, then this one enabled, each an access of its own.
EnableFeature(i, feature) ==
    LET a == drivers[i].addr
    IN IF ~drivers[i].half
       THEN /\ hw' = [hw EXCEPT ![a].enabled = @ \cap {feature}]
            /\ drivers' = [drivers EXCEPT ![i].half = TRUE]
       ELSE IF feature \in Features(a)
       THEN /\ hw' = [hw EXCEPT ![a].enabled = @ \cup {feature}]
            /\ drivers' = Answer(i, Ok)
       ELSE drivers' = Answer(i, Error) /\ UNCHANGED hw

\* SetFeatureInfo for MSI.  The number of messages is set before the data is looked at.
SetMsi(i, mme, vector) ==
    LET a == drivers[i].addr
        capable == machine.funcs[a].msi
    IN CASE mme > capable -> drivers' = Answer(i, Error) /\ UNCHANGED hw
         [] mme <= capable /\ (vector + 32) % 2^mme # 0 ->
              hw' = [hw EXCEPT ![a].mme = mme] /\ drivers' = Answer(i, Error)
         [] OTHER ->
              /\ hw' = [hw EXCEPT ![a].mme = mme, ![a].message = vector]
              /\ drivers' = Answer(i, Ok)

\* respond, for the next request in the pipe of driver i.
Respond(i) ==
    LET d == drivers[i]
        request == d.asked
    IN /\ request # NoMessage
       /\ CASE request[1] = "config" -> drivers' = Answer(i, Ok) /\ UNCHANGED hw
            [] request[1] = "features" -> drivers' = Answer(i, <<"features", Features(d.addr)>>) /\ UNCHANGED hw
            [] request[1] = "info" ->
                 /\ drivers' = Answer(i, IF request[2] \in Features(d.addr) THEN Ok ELSE Error)
                 /\ UNCHANGED hw
            [] request[1] = "enable" -> EnableFeature(i, request[2])
            [] request[1] = "set" -> SetMsi(i, 0, d.vector)
       /\ UNCHANGED <<machine, pc, bus_nums, at, holder, crashes>>

\* The thread of a driver, which is started before pcid waits for the child: it answers its
\* requests, in the order they come, as long as there are any.
Handler(i) == Respond(i)

-----------------------------------------------------------------------------
(* The drivers *)

Requests == {"config", "features", "info", "enable", "set"}
Vector == <<<<"list">>, <<"create">>>>
Msi == <<<<"info", "msi">>>> \o Vector \o <<<<"set">>, <<"enable", "msi">>, <<"ready">>>>
Legacy(line) == IF line.kind = None THEN <<<<"panic">>>> ELSE <<<<"line">>, <<"ready">>>>

\* nvmed masks the table and enables MSI-X, and fills the entry after that.
PlanNvmed(features, line) ==
    CASE "msix" \in features ->
           <<<<"info", "msix">>, <<"mask">>, <<"enable", "msix">>>> \o Vector \o <<<<"table">>, <<"ready">>>>
      [] features = {"msi"} -> Msi
      [] OTHER -> Legacy(line)

\* enable_msix of virtio-core, and what the other drivers do with MSI-X.
Msix == <<<<"info", "msix">>>> \o Vector \o <<<<"table">>, <<"enable", "msix">>, <<"ready">>>>

PlanVirtio(features) == IF "msix" \in features THEN Msix ELSE <<<<"panic">>>>

PlanRtl8168d(features, line) ==
    CASE features = {"msi"} -> Msi
      [] "msix" \in features -> Msix
      [] OTHER -> Legacy(line)

PlanRtl8139d(features, line) == PlanRtl8168d(features, line)

\* xhcid goes on without interrupts: it polls.
PlanXhcid(features, line) ==
    IF features = {} /\ line.kind = None THEN <<<<"ready">>>> ELSE PlanRtl8168d(features, line)

\* ihdad does not know MSI-X.
PlanIhdad(features, line) == IF features = {"msi"} THEN Msi ELSE Legacy(line)

Plan(command, features, line) ==
    CASE command = "nvmed" -> PlanNvmed(features, line)
      [] command = "virtio" -> PlanVirtio(features)
      [] command = "rtl8168d" -> PlanRtl8168d(features, line)
      [] command = "rtl8139d" -> PlanRtl8139d(features, line)
      [] command = "xhcid" -> PlanXhcid(features, line)
      [] command = "ihdad" -> PlanIhdad(features, line)

\* validate: the table and the pending bits are in memory BARs, and end before their end.
Within(bars, bar, end) == /\ bar \in 0 .. 5 /\ bars[bar + 1].kind \in {"mem32", "mem64"}
                          /\ end < bars[bar + 1].size

Validate(msix, bars) ==
    /\ Within(bars, msix.table_bar, msix.table_offset + msix.table_size * 16)
    /\ Within(bars, msix.pba_bar, msix.pba_offset + ((msix.table_size + 7) \div 8))

Ask(i) ==
    LET d == drivers[i]
    IN /\ d.state = "init" /\ d.asked = NoMessage /\ d.answer = NoMessage /\ d.todo # <<>>
       /\ Head(d.todo)[1] \in Requests
       /\ drivers' = [drivers EXCEPT ![i].asked = Head(d.todo)]
       /\ UNCHANGED <<machine, hw, pc, bus_nums, at, holder, crashes>>

Stopped(i) == [drivers EXCEPT ![i].state = "stopped", ![i].vector = NoVector, ![i].listens = None,
                              ![i].asked = NoMessage, ![i].half = FALSE, ![i].answer = NoMessage]

Release(i) == [v \in Vectors |-> IF holder[v] = i THEN 0 ELSE holder[v]]

\* The answer is taken.  An error stops the driver, and so does a table that does not fit.
Take(i) ==
    LET d == drivers[i]
        step == Head(d.todo)
        bad == \/ d.answer = Error
               \/ step = <<"info", "msix">> /\ ~Validate(machine.funcs[d.addr].msix, d.bars)
    IN /\ d.state = "init" /\ d.answer # NoMessage
       /\ IF bad
          THEN drivers' = Stopped(i) /\ holder' = Release(i)
          ELSE /\ drivers' = [drivers EXCEPT ![i].answer = NoMessage,
                    ![i].todo = IF step[1] = "features" THEN Plan(d.command, d.answer[2], d.line)
                                ELSE Tail(@)]
               /\ UNCHANGED holder
       /\ UNCHANGED <<machine, hw, pc, bus_nums, at, crashes>>

\* A step without pcid.  The vector is listed, then created; it may be gone by then.
Step(i) ==
    LET d == drivers[i]
        a == d.addr
        step == Head(d.todo)
        free == {v \in Vectors : holder[v] = 0}
        First == CHOOSE v \in free : \A w \in free : v <= w
        done == [drivers EXCEPT ![i].todo = Tail(@)]
    IN /\ d.state = "init" /\ d.todo # <<>> /\ step[1] \notin Requests
       /\ CASE step[1] = "list" ->
                 /\ drivers' = IF free = {} THEN Stopped(i) ELSE [done EXCEPT ![i].seen = First]
                 /\ UNCHANGED <<hw, holder>>
            [] step[1] = "create" /\ d.seen \in free ->
                 /\ drivers' = [done EXCEPT ![i].vector = d.seen, ![i].listens = "vector"]
                 /\ holder' = [holder EXCEPT ![d.seen] = i]
                 /\ UNCHANGED hw
            [] (step[1] = "create" /\ d.seen \notin free) \/ step[1] = "panic" ->
                 drivers' = Stopped(i) /\ UNCHANGED <<hw, holder>>
            [] step[1] = "mask" ->
                 hw' = [hw EXCEPT ![a].masked = TRUE] /\ drivers' = done /\ UNCHANGED holder
            [] step[1] = "table" ->
                 /\ hw' = [hw EXCEPT ![a].entry = d.vector, ![a].masked = FALSE]
                 /\ drivers' = done /\ UNCHANGED holder
            [] step[1] = "line" ->
                 drivers' = [done EXCEPT ![i].listens = "line"] /\ UNCHANGED <<hw, holder>>
            [] step[1] = "ready" ->
                 drivers' = [done EXCEPT ![i].state = "ready"] /\ UNCHANGED <<hw, holder>>
       /\ UNCHANGED <<machine, pc, bus_nums, at, crashes>>

\* A driver stops at any time.  Its vector is free again; its function is left as it is.
Crash(i) ==
    /\ crashes < MaxCrashes /\ drivers[i].state \in {"init", "ready"}
    /\ crashes' = crashes + 1
    /\ drivers' = Stopped(i) /\ holder' = Release(i)
    /\ UNCHANGED <<machine, hw, pc, bus_nums, at>>

\* Another process takes a vector, or gives it back.
Rival(v) ==
    /\ holder[v] \in {0, -1}
    /\ holder' = [holder EXCEPT ![v] = -1 - @]
    /\ UNCHANGED <<machine, hw, pc, bus_nums, at, drivers, crashes>>

Next ==
    \/ Scan \/ Ready \/ Match \/ Matched \/ Wait
    \/ \E i \in DOMAIN drivers : Handler(i) \/ Ask(i) \/ Take(i) \/ Step(i) \/ Crash(i)
    \/ \E v \in Vectors : Rival(v)

\* The main thread, the handlers and the drivers go on.
Walk == Scan \/ Ready \/ Match \/ Matched \/ Wait
Serve == \E i \in DOMAIN drivers : Handler(i)
Drive == \E i \in DOMAIN drivers : Ask(i) \/ Take(i) \/ Step(i)

-----------------------------------------------------------------------------
(* Properties *)

\* The interrupts of function a reach vector v.
Raises(a, v) == \/ hw[a].enabled = {"msi"} /\ hw[a].message = v
                \/ hw[a].enabled = {"msix"} /\ hw[a].entry = v /\ ~hw[a].masked

\* A driver that is ready gets the interrupts of its function: on its own vector, which nobody
\* else holds and no function of another ready driver raises, or on the line, with neither MSI
\* nor MSI-X enabled.  The two are never enabled together (EnableFeature, get_int_method).
InterruptsReach ==
    /\ \A a \in DOMAIN hw : hw[a].enabled # {"msi", "msix"}
    /\ \A i \in DOMAIN drivers :
         LET d == drivers[i]
         IN d.state = "ready" =>
              CASE d.listens = "vector" ->
                     /\ Raises(d.addr, d.vector) /\ holder[d.vector] = i
                     /\ \A j \in DOMAIN drivers :
                          j # i /\ drivers[j].state = "ready" => ~Raises(drivers[j].addr, d.vector)
                [] d.listens = "line" -> hw[d.addr].enabled = {}
                [] OTHER -> d.command = "xhcid"

\* A MSI-X table is only written inside a BAR that the function has (Bars, validate).
TableInBar ==
    \A i \in DOMAIN drivers :
        LET d == drivers[i]
            f == machine.funcs[d.addr]
            table == f.slots[f.msix.table_bar + 1]
        IN d.todo # <<>> /\ Head(d.todo)[1] \in {"table", "mask"} =>
             /\ table.kind \in {"mem32", "mem64"}
             /\ f.msix.table_offset + f.msix.table_size * 16 <= table.size

\* The buses that are reached from bus 0 over the bridges.
Reached ==
    LET RECURSIVE Grow(_)
        Grow(set) ==
            LET more == set \cup {machine.funcs[a].secondary :
                          a \in {b \in DOMAIN machine.funcs : /\ machine.funcs[b].header = "bridge"
                                                              /\ b[1] \in set
                                                              /\ <<b[1], b[2], 0>> \in DOMAIN machine.funcs}}
            IN IF more = set THEN set ELSE Grow(more)
    IN Grow({0})

\* When pcid is ready, each endpoint that can be reached was given to each of its drivers, once,
\* with its memory and its bus mastering enabled (main_inner, handle_parsed_header).
AllStarted ==
    pc = "ready" =>
        \A a \in DOMAIN machine.funcs : \A k \in DOMAIN Config :
            LET f == machine.funcs[a]
                n == Len(SelectSeq(drivers, LAMBDA d : d.addr = a /\ d.command = Config[k].command))
            IN n = IF /\ f.header = "endpoint" /\ a[1] \in Reached
                      /\ <<a[1], a[2], 0>> \in DOMAIN machine.funcs
                      /\ Config[k].command # None /\ MatchFunction(Config[k].match, f.id)
                   THEN 1 ELSE 0

\* pcid gets ready whatever its drivers do, even those that stop.
GetsReady == <>(pc = "ready")
=============================================================================
