------------------------------ MODULE Platform ------------------------------
(***************************************************************************)
(* The daemons between the machine and its users and drivers: the input     *)
(* devices of usbhidd, ps2d and vboxd, the console of fbcond, the sound of  *)
(* ihdad, ac97d, sb16d and pcspkrd, pcid with the registers it shares       *)
(* between threads, and acpid.  They meet only in the kernel's schemes, so a *)
(* behaviour runs one of them beside its hardware and its clients.          *)
(***************************************************************************)
EXTENDS Integers

CONSTANTS
    Absent,
    MaxReport, Screen, MaxFaults,                                  \* usbhidd
    Retries, MaxLate, Setups, MaxBytes, MaxLost,                   \* ps2d
    Scale, Widths, MaxChanges,                                     \* vboxd
    Users, Rows, Scenes,                                           \* fbcond
    Cards, SubBuffs, MaxBehind, MaxOpens, DumpLen,                 \* the sound cards
    Sizes, Codecs,                                                 \* ihdad
    Programs, MaxSpeakerOpens,                                     \* pcspkrd
    Machines, Config, NumDevs, NumFuncs, Vectors, MaxCrashes,      \* pcid
    Tables, Accesses, Threads, MaxAccesses,
    Firmwares, PageSize, HeaderSize, SimultaneousPages, AmlAddresses, MaxAcpiOpens    \* acpid

Parts == {"usbhidd", "ps2d_init", "ps2d", "vboxd", "fbcond", "audio", "ihdad_command", "ihdad_codec", "pcspkrd", "pcid",
          "pcid_access", "acpid"}

VARIABLES using,
          hid, left_shift, right_shift, last_mouse_pos, last_buttons, report, hid_view, hid_faults, stale,
          row, tries, outer, out, mouse_found, mouse_extra, config, ctl_mouse, ctl_kbd, ctl_faults, bad,
          ps_kbd, ps_mouse, kbd_file, mouse_file, setup, extended, lshift, rshift, buttons, mouse_x, packets,
          ps_view, lost, moves,
          host, host_events, irq_line, vb_pc, seen, width, bga, vb_view, display_size, missed, resized,
          changes,
          scene, inbox, keyboard, events, fb_pc, socket, blocked, ctrl, input, fb_handles, text, cursor,
          offscreen, onscreen, waiting, ids, keys, notified, gap,
          card, block, current, ints, event, masked, behind, snd_pc, snd_handles, call, snd_todo, queue,
          hda_hw, use_immediate_cmd, corb, corbwp, corbrp, taken, rirb, rirbwp, rirb_rp, icoi, irii, icb, irv,
          hda_pc, cmd, answer,
          codec, plugged, codec_pc, widget_map, output_pins, path, told, stream,
          handle, next_id, fds, gate, tone,
          machine, pci_hw, pci_pc, bus_nums, at, drivers, holder, crashes,
          allocs, lock, port, thread,
          firmware, acpi_pc, load, acpi_todo, tables, fadt, dsdt, namespace, page_cache, symbol_cache, asked,
          acpi_handles, next_fd, power

hid_vars == <<hid, left_shift, right_shift, last_mouse_pos, last_buttons, report, hid_view, hid_faults, stale>>
ps_init_vars == <<row, tries, outer, out, mouse_found, mouse_extra, config, ctl_mouse, ctl_kbd, ctl_faults, bad>>
ps_vars == <<ps_kbd, ps_mouse, kbd_file, mouse_file, setup, extended, lshift, rshift, buttons, mouse_x, packets,
        ps_view, lost, moves>>
vb_vars == <<host, host_events, irq_line, vb_pc, seen, width, bga, vb_view, display_size, missed,
           resized, changes>>
fb_vars == <<scene, inbox, keyboard, events, fb_pc, socket, blocked, ctrl, input, fb_handles, text,
           cursor, offscreen, onscreen, waiting, ids, keys, notified, gap>>
sound_vars == <<card, block, current, ints, event, masked, behind, snd_pc, snd_handles, call, snd_todo, queue>>
hda_cmd_vars == <<hda_hw, use_immediate_cmd, corb, corbwp, corbrp, taken, rirb, rirbwp, rirb_rp, icoi, irii, icb, irv,
             hda_pc, cmd, answer>>
hda_codec_vars == <<codec, plugged, codec_pc, widget_map, output_pins, path, told, stream>>
speaker_vars == <<handle, next_id, fds, gate, tone>>
pci_vars == <<machine, pci_hw, pci_pc, bus_nums, at, drivers, holder, crashes>>
cfg_vars == <<allocs, lock, port, thread>>
acpi_vars == <<firmware, acpi_pc, load, acpi_todo, tables, fadt, dsdt, namespace, page_cache, symbol_cache, asked,
          acpi_handles, next_fd, power>>
vars == <<using, hid_vars, ps_init_vars, ps_vars, vb_vars, fb_vars, sound_vars, hda_cmd_vars,
          hda_codec_vars, speaker_vars, pci_vars, cfg_vars, acpi_vars>>

Hid == INSTANCE UsbHid WITH view <- hid_view, faults <- hid_faults
Ps == INSTANCE Ps2 WITH MaxFaults <- MaxLate, faults <- ctl_faults, kbd <- ps_kbd, mouse <- ps_mouse,
        view <- ps_view
Vbox == INSTANCE VboxGuest WITH line <- irq_line, pc <- vb_pc, view <- vb_view, size <- display_size
Console == INSTANCE FbConsole WITH pc <- fb_pc, handles <- fb_handles, told <- notified
Audio == INSTANCE Sound WITH NumSubBuffs <- SubBuffs, pc <- snd_pc, handles <- snd_handles, todo <- snd_todo
HdAudio == INSTANCE Hda WITH hw <- hda_hw, cmd_pc <- hda_pc, pc <- codec_pc
Pci == INSTANCE Pcid WITH hw <- pci_hw, pc <- pci_pc
Cfg == INSTANCE CfgAccess
Fw == INSTANCE Acpi WITH MaxOpens <- MaxAcpiOpens, pc <- acpi_pc, todo <- acpi_todo, handles <- acpi_handles

-----------------------------------------------------------------------------
\* One part runs, the others are not there.
Init ==
    /\ using \in Parts
    /\ IF using = "usbhidd" THEN Hid!Init
       ELSE hid = Absent /\ left_shift = Absent /\ right_shift = Absent /\ last_mouse_pos = Absent
            /\ last_buttons = Absent /\ report = Absent /\ hid_view = Absent /\ hid_faults = Absent
            /\ stale = Absent
    /\ IF using = "ps2d_init" THEN Ps!SetupInit
       ELSE row = Absent /\ tries = Absent /\ outer = Absent /\ out = Absent /\ mouse_found = Absent
            /\ mouse_extra = Absent /\ config = Absent /\ ctl_mouse = Absent /\ ctl_kbd = Absent
            /\ ctl_faults = Absent /\ bad = Absent
    /\ IF using = "ps2d" THEN Ps!InputInit
       ELSE ps_kbd = Absent /\ ps_mouse = Absent /\ kbd_file = Absent /\ mouse_file = Absent /\ setup = Absent
            /\ extended = Absent /\ lshift = Absent /\ rshift = Absent /\ buttons = Absent /\ mouse_x = Absent
            /\ packets = Absent /\ ps_view = Absent /\ lost = Absent /\ moves = Absent
    /\ IF using = "vboxd" THEN Vbox!Init
       ELSE host = Absent /\ host_events = Absent /\ irq_line = Absent /\ vb_pc = Absent
            /\ seen = Absent /\ width = Absent /\ bga = Absent /\ vb_view = Absent
            /\ display_size = Absent /\ missed = Absent /\ resized = Absent /\ changes = Absent
    /\ IF using = "fbcond" THEN Console!Init
       ELSE scene = Absent /\ inbox = Absent /\ keyboard = Absent /\ events = Absent
            /\ fb_pc = Absent /\ socket = Absent /\ blocked = Absent /\ ctrl = Absent
            /\ input = Absent /\ fb_handles = Absent /\ text = Absent /\ cursor = Absent
            /\ offscreen = Absent /\ onscreen = Absent /\ waiting = Absent /\ ids = Absent
            /\ keys = Absent /\ notified = Absent /\ gap = Absent
    /\ IF using = "audio" THEN Audio!Init
       ELSE card = Absent /\ block = Absent /\ current = Absent /\ ints = Absent /\ event = Absent
            /\ masked = Absent /\ behind = Absent /\ snd_pc = Absent /\ snd_handles = Absent /\ call = Absent
            /\ snd_todo = Absent /\ queue = Absent
    /\ IF using = "ihdad_command" THEN HdAudio!CommandInit
       ELSE hda_hw = Absent /\ use_immediate_cmd = Absent /\ corb = Absent /\ corbwp = Absent
            /\ corbrp = Absent /\ taken = Absent /\ rirb = Absent /\ rirbwp = Absent /\ rirb_rp = Absent
            /\ icoi = Absent /\ irii = Absent /\ icb = Absent /\ irv = Absent /\ hda_pc = Absent /\ cmd = Absent
            /\ answer = Absent
    /\ IF using = "ihdad_codec" THEN HdAudio!CodecInit
       ELSE codec = Absent /\ plugged = Absent /\ codec_pc = Absent /\ widget_map = Absent
            /\ output_pins = Absent /\ path = Absent /\ told = Absent /\ stream = Absent
    /\ IF using = "pcspkrd" THEN Audio!SpeakerInit
       ELSE handle = Absent /\ next_id = Absent /\ fds = Absent /\ gate = Absent /\ tone = Absent
    /\ IF using = "pcid" THEN Pci!Init
       ELSE machine = Absent /\ pci_hw = Absent /\ pci_pc = Absent /\ bus_nums = Absent /\ at = Absent
            /\ drivers = Absent /\ holder = Absent /\ crashes = Absent
    /\ IF using = "pcid_access" THEN Cfg!Init
       ELSE allocs = Absent /\ lock = Absent /\ port = Absent /\ thread = Absent
    /\ IF using = "acpid" THEN Fw!Init
       ELSE firmware = Absent /\ acpi_pc = Absent /\ load = Absent /\ acpi_todo = Absent /\ tables = Absent
            /\ fadt = Absent /\ dsdt = Absent /\ namespace = Absent /\ page_cache = Absent
            /\ symbol_cache = Absent /\ asked = Absent /\ acpi_handles = Absent /\ next_fd = Absent
            /\ power = Absent

\* A step of a part leaves the others alone.
In(part) ==
    /\ using = part /\ UNCHANGED using
    /\ IF part = "usbhidd" THEN TRUE ELSE UNCHANGED hid_vars
    /\ IF part = "ps2d_init" THEN TRUE ELSE UNCHANGED ps_init_vars
    /\ IF part = "ps2d" THEN TRUE ELSE UNCHANGED ps_vars
    /\ IF part = "vboxd" THEN TRUE ELSE UNCHANGED vb_vars
    /\ IF part = "fbcond" THEN TRUE ELSE UNCHANGED fb_vars
    /\ IF part = "audio" THEN TRUE ELSE UNCHANGED sound_vars
    /\ IF part = "ihdad_command" THEN TRUE ELSE UNCHANGED hda_cmd_vars
    /\ IF part = "ihdad_codec" THEN TRUE ELSE UNCHANGED hda_codec_vars
    /\ IF part = "pcspkrd" THEN TRUE ELSE UNCHANGED speaker_vars
    /\ IF part = "pcid" THEN TRUE ELSE UNCHANGED pci_vars
    /\ IF part = "pcid_access" THEN TRUE ELSE UNCHANGED cfg_vars
    /\ IF part = "acpid" THEN TRUE ELSE UNCHANGED acpi_vars

HidStep == In("usbhidd") /\ Hid!Next
PsInitStep == In("ps2d_init") /\ Ps!SetupNext
PsStep == In("ps2d") /\ Ps!InputNext
VboxStep == In("vboxd") /\ Vbox!Next
ConsoleStep == In("fbcond") /\ Console!Next
SoundStep == In("audio") /\ Audio!Next
HdaCmdStep == In("ihdad_command") /\ HdAudio!CommandNext
CodecStep == In("ihdad_codec") /\ HdAudio!CodecNext
SpeakerStep == In("pcspkrd") /\ Audio!SpeakerNext
PciStep == In("pcid") /\ Pci!Next
CfgStep == In("pcid_access") /\ Cfg!Next
FwStep == In("acpid") /\ Fw!Next

Next == \/ HidStep \/ PsInitStep \/ PsStep \/ VboxStep \/ ConsoleStep \/ SoundStep
        \/ HdaCmdStep \/ CodecStep \/ SpeakerStep \/ PciStep \/ CfgStep \/ FwStep

\* The event loop of a sound card's driver takes an interrupt or a call when it waits for
\* either, whichever comes; the card plays on.  pcid walks the buses, its threads and the
\* drivers run until they wait.
Fairness ==
    /\ WF_vars(In("audio") /\ Audio!Play)
    /\ SF_vars(In("audio") /\ Audio!Scheme)
    /\ WF_vars(In("audio") /\ Audio!Irq)
    /\ WF_vars(In("audio") /\ Audio!Clear)
    /\ WF_vars(In("audio") /\ Audio!Ack)
    /\ WF_vars(In("audio") /\ Audio!Retry)
    /\ WF_vars(In("pcid") /\ Pci!Walk)
    /\ WF_vars(In("pcid") /\ Pci!Serve)
    /\ WF_vars(In("pcid") /\ Pci!Drive)

Spec == Init /\ [][Next]_vars /\ Fairness

-----------------------------------------------------------------------------
(* Properties *)




=============================================================================
