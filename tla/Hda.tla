--------------------------------- MODULE Hda ----------------------------------
(*****************************************************************************)
(* ihdad and the codec.  Commands go to it one at a time, through the rings  *)
(* CORB and RIRB or through the immediate command registers.  At the start   *)
(* the codec's widgets are read one by one, a pin is chosen and the way      *)
(* from it to a converter followed, and the widgets on that way and the      *)
(* stream are set up (IntelHDA::new).  Something may be plugged in or out    *)
(* at any time.                                                              *)
(*****************************************************************************)
EXTENDS Integers, SequencesExt

CONSTANT Sizes      \* entries of the controller's rings, subset of {2, 16, 256}

\* Three commands that are sent in turn, so that no two near each other are the same; the
\* answer to a command is the command.  0 is memory not written.
Following(c) == (c % 3) + 1

VARIABLES hw,       \* [size, w1c]: entries of the rings, IRV is cleared by writing one
          use_immediate_cmd,
          corb, corbwp, corbrp, taken,       \* the command ring, a command without answer
          rirb, rirbwp, rirb_rp,             \* the response ring; rirb_rp is the driver's
          icoi, irii, icb, irv,              \* the immediate registers
          cmd_pc, cmd, answer

cmd_vars == <<hw, use_immediate_cmd, corb, corbwp, corbrp, taken, rirb, rirbwp, rirb_rp,
          icoi, irii, icb, irv, cmd_pc, cmd, answer>>
ringVars == <<corb, corbwp, corbrp, taken, rirb, rirbwp, rirb_rp>>
immVars == <<icoi, irii, icb, irv>>

\* The counts init chooses for the sizes.
corb_count == hw.size
rirb_count == IF hw.size = 16 THEN 8 ELSE hw.size

CommandInit ==
    /\ hw \in [size : Sizes, w1c : BOOLEAN]
    /\ use_immediate_cmd \in BOOLEAN
    /\ corb = [i \in 0 .. hw.size - 1 |-> 0] /\ corbwp = 0 /\ corbrp = 0 /\ taken = 0
    /\ rirb = [i \in 0 .. hw.size - 1 |-> 0] /\ rirbwp = 0 /\ rirb_rp = 0
    /\ icoi = 0 /\ irii = 0 /\ icb = FALSE /\ irv = FALSE
    /\ cmd_pc = "idle" /\ cmd = 0 /\ answer = 0

-----------------------------------------------------------------------------
(* The driver *)

Call ==
    /\ cmd_pc = "idle"
    /\ cmd' = Following(cmd) /\ answer' = 0
    /\ cmd_pc' = "send"
    /\ UNCHANGED <<hw, use_immediate_cmd, ringVars, immVars>>

\* send_command, once the controller has taken all commands.
SendCommand ==
    /\ cmd_pc = "send" /\ ~use_immediate_cmd /\ corbwp = corbrp
    /\ corbwp' = (corbwp + 1) % corb_count
    /\ corb' = [corb EXCEPT ![corbwp'] = cmd]
    /\ cmd_pc' = "read"
    /\ UNCHANGED <<hw, use_immediate_cmd, corbrp, taken, rirb, rirbwp, rirb_rp, immVars, cmd, answer>>

\* read_response, once there is one.
ReadResponse ==
    /\ cmd_pc = "read" /\ ~use_immediate_cmd /\ rirbwp # rirb_rp
    /\ rirb_rp' = (rirb_rp + 1) % rirb_count
    /\ answer' = rirb[rirb_rp']
    /\ cmd_pc' = "idle"
    /\ UNCHANGED <<hw, use_immediate_cmd, corb, corbwp, corbrp, taken, rirb, rirbwp, immVars, cmd>>

\* The first half of cmd: the read-modify-write that sets ICB writes IRV as it was read.
SendImmediate ==
    /\ cmd_pc = "send" /\ use_immediate_cmd /\ ~icb
    /\ icoi' = cmd
    /\ icb' = TRUE /\ irv' = (irv /\ ~hw.w1c)
    /\ cmd_pc' = "read"
    /\ UNCHANGED <<hw, use_immediate_cmd, ringVars, irii, cmd, answer>>

\* The second half: IRV is written as zero, which clears it unless ones do.
ReadImmediate ==
    /\ cmd_pc = "read" /\ use_immediate_cmd /\ irv
    /\ answer' = irii
    /\ irv' = hw.w1c
    /\ cmd_pc' = "idle"
    /\ UNCHANGED <<hw, use_immediate_cmd, ringVars, icoi, irii, icb, cmd>>

-----------------------------------------------------------------------------
(* The controller *)

Take ==
    /\ corbrp # corbwp /\ taken = 0
    /\ corbrp' = (corbrp + 1) % hw.size
    /\ taken' = corb[corbrp']
    /\ UNCHANGED <<hw, use_immediate_cmd, corb, corbwp, rirb, rirbwp, rirb_rp, immVars, cmd_pc, cmd, answer>>

Respond ==
    /\ taken # 0
    /\ rirbwp' = (rirbwp + 1) % hw.size
    /\ rirb' = [rirb EXCEPT ![rirbwp'] = taken]
    /\ taken' = 0
    /\ UNCHANGED <<hw, use_immediate_cmd, corb, corbwp, corbrp, rirb_rp, immVars, cmd_pc, cmd, answer>>

RespondImmediate ==
    /\ icb
    /\ irii' = icoi /\ irv' = TRUE /\ icb' = FALSE
    /\ UNCHANGED <<hw, use_immediate_cmd, ringVars, icoi, cmd_pc, cmd, answer>>

CommandNext ==
    \/ Call
    \/ SendCommand \/ ReadResponse \/ SendImmediate \/ ReadImmediate
    \/ Take \/ Respond \/ RespondImmediate

-----------------------------------------------------------------------------
\* A command returns its own answer, whether the bit that announces it is cleared by the
\* zero the driver writes or by the one it writes back with the next command, and however
\* often the rings wrapped.  It does not with rings of 16 entries, for which init counts 8
\* responses (cmd_buff, ImmediateCommand::cmd).
OwnAnswer == cmd_pc = "idle" /\ rirb_count = hw.size => answer = cmd
-----------------------------------------------------------------------------
(* Setting up the codec *)

\* The codecs: from the addresses of the widgets to
\*   [type, device, seq, jack, list, long, select, in_amp, out_amp]
\* where list is the connection list as the codec sends it, entries [addr, range], and the
\* amplifiers are the gain of 0 dB, -1 for none.  Addresses are consecutive.
CONSTANT Codecs

VARIABLES codec, plugged,                    \* the codec, and the pins with a plug
          pc, widget_map, output_pins, path,
          told,                              \* what each widget was told
          stream                             \* the stream descriptor

codec_vars == <<codec, plugged, pc, widget_map, output_pins, path, told, stream>>

Untold == [power |-> 3, enabled |-> FALSE, stream |-> 0, format |-> 0,
           in_gain |-> -1, out_gain |-> -1]
IdleStream == [number |-> 0, format |-> 0, length |-> 0, last |-> 0, buffers |-> 0, run |-> FALSE]

CodecInit ==
    /\ codec \in Codecs
    /\ plugged = {}
    /\ pc = "enumerate"
    /\ widget_map = <<>> /\ output_pins = <<>> /\ path = <<>>
    /\ told = [a \in DOMAIN codec |-> Untold]
    /\ stream = IdleStream

Plug(a) ==
    /\ codec[a].jack
    /\ plugged' = IF a \in plugged THEN plugged \ {a} ELSE plugged \cup {a}
    /\ UNCHANGED <<codec, pc, widget_map, output_pins, path, told, stream>>

-----------------------------------------------------------------------------
(* Reading the codec *)

\* One response of the codec: up to four entries, or two in the long form.
Response(w, offset) ==
    LET n == IF w.long THEN 2 ELSE 4
    IN SubSeq(w.list, offset + 1, IF offset + n > Len(w.list) THEN Len(w.list) ELSE offset + n)

\* A range ends with its entry and starts with the one before.
AddEntry(list, e) ==
    IF e.range THEN list \o [i \in 1 .. e.addr - Last(list) |-> Last(list) + i]
    ELSE Append(list, e.addr)

\* node_get_connection_list: the next response is asked for from the length of the list.
ConnectionList(w) ==
    LET RECURSIVE Read(_)
        Read(list) == IF Len(list) >= Len(w.list) THEN list
                      ELSE Read(FoldLeft(AddEntry, list, Response(w, Len(list))))
    IN Read(<<>>)

IsOutput(device) == device \in {"LineOut", "Speaker", "HPOut", "SPDIF"}

\* read_node for the next widget of the function group.
Enumerate ==
    LET a == Len(widget_map) + 1
        w == codec[a]
    IN /\ pc = "enumerate"
       /\ widget_map' = Append(widget_map, [type |-> w.type, device |-> w.device, seq |-> w.seq,
                                            connections |-> ConnectionList(w), select |-> w.select])
       /\ output_pins' = IF w.type = "PinComplex" /\ IsOutput(w.device)
                         THEN Append(output_pins, a) ELSE output_pins
       /\ pc' = IF a = Len(codec) THEN "pin" ELSE "enumerate"
       /\ UNCHANGED <<codec, plugged, path, told, stream>>

-----------------------------------------------------------------------------
(* configure *)

\* The pins of find_best_output_pin for one kind of device: nothing is plugged in elsewhere.
Usable(device) ==
    SelectSeq(output_pins, LAMBDA a : /\ widget_map[a].seq = 0 /\ widget_map[a].device = device
                                      /\ (codec[a].jack => a \in plugged))

FindBestOutputPin ==
    IF Len(output_pins) = 1 THEN output_pins
    ELSE Usable("HPOut") \o Usable("Speaker")

\* find_path_to_dac, empty when there is none.
FindPathToDac(pin) ==
    LET RECURSIVE Find(_)
        Find(a) == LET w == widget_map[a]
                   IN IF w.type = "AudioOutput" THEN <<a>>
                      ELSE IF w.select >= Len(w.connections) THEN <<>>
                      ELSE LET rest == Find(w.connections[w.select + 1])
                           IN IF rest = <<>> THEN <<>> ELSE <<a>> \o rest
    IN Find(pin)

\* The pin is chosen and its way followed.  The driver stops without one.
Route ==
    /\ pc = "pin"
    /\ LET pins == FindBestOutputPin
           way == IF pins = <<>> THEN <<>> ELSE FindPathToDac(Head(pins))
       IN path' = way /\ pc' = IF way = <<>> THEN "stopped" ELSE "widgets"
    /\ UNCHANGED <<codec, plugged, widget_map, output_pins, told, stream>>

OnPath(a) == \E i \in DOMAIN path : path[i] = a

\* Power for all widgets of the way, the pin enabled, the converter bound to stream 1.
SetUpWidgets ==
    /\ pc = "widgets"
    /\ told' = [a \in DOMAIN told |->
                  [told[a] EXCEPT !.power = IF OnPath(a) THEN 0 ELSE @,
                                  !.enabled = (a = Head(path)),
                                  !.stream = IF a = Last(path) THEN 1 ELSE @]]
    /\ pc' = "stream"
    /\ UNCHANGED <<codec, plugged, widget_map, output_pins, path, stream>>

\* format_to_u16: the base rate, its multiple and divisor, bits per sample and channels.
Format(base441, mult, div, bits, channels) ==
    (IF base441 THEN 2^14 ELSE 0) + ((mult - 1) % 8) * 2^11 + ((div - 1) % 8) * 2^8
        + bits * 2^4 + ((channels - 1) % 16)

NumSubBuffs == 32
SubBuffSize == 2048

\* update_sound_buffers and the registers of the stream.
SetUpStream ==
    /\ pc = "stream"
    /\ stream' = [stream EXCEPT !.buffers = NumSubBuffs, !.length = NumSubBuffs * SubBuffSize,
                                !.last = NumSubBuffs - 1, !.number = 1,
                                !.format = Format(TRUE, 1, 1, 1, 2)]
    /\ pc' = "format"
    /\ UNCHANGED <<codec, plugged, widget_map, output_pins, path, told>>

\* The converter's format, then the gain of every amplifier on the way.
SetUpAmplifiers ==
    /\ pc = "format"
    /\ told' = [a \in DOMAIN told |->
                  [told[a] EXCEPT !.format = IF a = Last(path) THEN Format(TRUE, 1, 1, 1, 2) ELSE @,
                                  !.in_gain = IF OnPath(a) THEN codec[a].in_amp ELSE @,
                                  !.out_gain = IF OnPath(a) THEN codec[a].out_amp ELSE @]]
    /\ pc' = "run"
    /\ UNCHANGED <<codec, plugged, widget_map, output_pins, path, stream>>

Run ==
    /\ pc = "run"
    /\ stream' = [stream EXCEPT !.run = TRUE]
    /\ pc' = "done"
    /\ UNCHANGED <<codec, plugged, widget_map, output_pins, path, told>>

CodecNext ==
    (\E a \in DOMAIN codec : Plug(a)) \/ Enumerate \/ Route \/ SetUpWidgets \/ SetUpStream
    \/ SetUpAmplifiers \/ Run

-----------------------------------------------------------------------------
(* Properties *)

\* The addresses a connection list stands for.
Expand(list) == FoldLeft(AddEntry, <<>>, list)

\* A list without ranges, or of one response, is read as the codec means it.  A longer one
\* with ranges is not: its length counts entries, current counts addresses.
ListsRead ==
    \A a \in DOMAIN widget_map :
        LET w == codec[a]
        IN (\A i \in DOMAIN w.list : ~w.list[i].range) \/ Len(w.list) <= (IF w.long THEN 2 ELSE 4)
            => widget_map[a].connections = Expand(w.list)

\* The stream runs only when its sound comes out: the way starts at an output pin, follows
\* the inputs that the widgets have selected and ends at a converter that takes this stream
\* in the stream's format; all of it has power and its amplifiers are at 0 dB (configure).
Routed ==
    stream.run =>
        LET pin == Head(path)
            dac == Last(path)
        IN /\ codec[pin].type = "PinComplex" /\ IsOutput(codec[pin].device) /\ told[pin].enabled
           /\ codec[dac].type = "AudioOutput"
           /\ told[dac].stream = stream.number /\ told[dac].format = stream.format
           /\ \A i \in 1 .. Len(path) - 1 :
                path[i + 1] = Expand(codec[path[i]].list)[codec[path[i]].select + 1]
           /\ \A i \in DOMAIN path :
                /\ told[path[i]].power = 0
                /\ told[path[i]].in_gain = codec[path[i]].in_amp
                /\ told[path[i]].out_gain = codec[path[i]].out_amp
           /\ stream.length = stream.buffers * SubBuffSize /\ stream.last = stream.buffers - 1
=============================================================================
