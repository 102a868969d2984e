------------------------------ MODULE UsbScsi ------------------------------
(***************************************************************************)
(* usbscsid: a USB disk behind the bulk-only transport.  A command is a     *)
(* wrapper (CBW) written to the out endpoint, the data, and a status        *)
(* wrapper (CSW) read from the in endpoint, each a transfer of the          *)
(* endpoints that xhcid serves.  The device answers the commands it gets;   *)
(* it may send less, stall, or send a status that is not the one due.       *)
(*                                                                          *)
(* xhcid gives the driver of a device two files for each endpoint: a Ctl    *)
(* file that announces a transfer and returns its result, and a Data file   *)
(* whose reads and writes are the transfer.  The driver uses them through   *)
(* XhciEndpHandle, whose calls are three calls of xhcid each, and sends     *)
(* control requests through a handle that it opens for each of them.  The   *)
(* main thread of xhcid serves one call at a time.                          *)
(***************************************************************************)
EXTENDS Naturals, Sequences

CONSTANTS None,
          BlockSize, Sizes,    \* bytes of a block, and of the requests
          MaxCommands, MaxFaults

Ends == {"in", "out"}    \* the endpoint of each direction

VARIABLES driver_if_state,  \* EndpIfState of each endpoint
          halted,           \* endpoints the controller holds halted
          xhcid,            \* its main thread: "serving", for ever "deadlocked", or "panicked"
          port_req,         \* PortReqState of the open request handle
          call              \* the driver's call of the library

endpVars == <<driver_if_state, halted, xhcid, port_req, call>>

IfInit == [st |-> "Init", to |-> 0, done |-> 0, res |-> None]
NoCall == [op |-> None, end |-> None, len |-> 0, at |-> "done", res |-> None, got |-> 0]

EndpInit ==
    /\ driver_if_state = [e \in Ends |-> IfInit]
    /\ halted = {}
    /\ xhcid = "serving"
    /\ port_req = None
    /\ call = NoCall

-----------------------------------------------------------------------------
(* What the driver calls, and how the call ends *)

\* transfer_read and transfer_write
Transfer(e, n) == [NoCall EXCEPT !.op = "transfer", !.end = e, !.len = n, !.at = "ctl"]
Status(e) == [NoCall EXCEPT !.op = "status", !.end = e, !.at = "ctl"]

\* device_request opens the handle, so each request starts in Init.
Request(dir, n) == [NoCall EXCEPT !.op = "request", !.end = dir, !.len = n, !.at = "open"]

Return(res, got) == call' = [call EXCEPT !.at = "done", !.res = res, !.got = got]

If(e, st) == driver_if_state' = [driver_if_state EXCEPT ![e] = st]

-----------------------------------------------------------------------------
(* The Ctl and Data files *)

\* on_write_endp_ctl.  Anything but the first request of an exchange is EBADF.
CtlReq ==
    LET e == call.end
    IN /\ xhcid = "serving" /\ call.at = "ctl"
       /\ IF driver_if_state[e].st # "Init"
          THEN Return("err", 0) /\ UNCHANGED driver_if_state
          ELSE IF call.op = "status"
          THEN If(e, [IfInit EXCEPT !.st = "WaitingForStatus"]) /\ call' = [call EXCEPT !.at = "res"]
          ELSE /\ If(e, [IfInit EXCEPT !.st = "WaitingForDataPipe", !.to = call.len])
               /\ call' = [call EXCEPT !.at = "data"]
       /\ UNCHANGED <<halted, xhcid, port_req>>

\* on_read_endp_data and on_write_endp_data, up to the transfer: the buffer is the one the
\* library announced.  An empty one is EINVAL and leaves the data pipe announced.
EmptyData ==
    /\ xhcid = "serving" /\ call.at = "data" /\ call.len = 0
    /\ Return("err", 0)
    /\ UNCHANGED <<driver_if_state, halted, xhcid, port_req>>

\* After the transfer: the exchange is complete with the last byte, or with any
\* completion code but Success.
Transferred(e, n, code) ==
    LET s == driver_if_state[e]
    IN If(e, IF s.done + n = s.to \/ code # "Success"
             THEN [IfInit EXCEPT !.st = "WaitingForTransferResult", !.res = code]
             ELSE [s EXCEPT !.done = @ + n])

\* A transfer that ends with Success or a short packet.
Data(n, code) ==
    /\ xhcid = "serving" /\ call.at = "data" /\ call.len > 0 /\ call.end \notin halted
    /\ Transferred(call.end, n, code)
    /\ call' = [call EXCEPT !.at = "res", !.got = n]
    /\ UNCHANGED <<halted, xhcid, port_req>>

\* execute_transfer returns EIO for every other code, so the exchange stays where it is.
DataFailed ==
    /\ xhcid = "serving" /\ call.at = "data" /\ call.len > 0 /\ call.end \notin halted
    /\ halted' = halted \cup {call.end}
    /\ Return("err", 0)
    /\ UNCHANGED <<driver_if_state, xhcid, port_req>>

\* on_read_endp_ctl.  For a status it holds the guard of the port's state, which
\* get_endp_status then asks for again.
CtlRes ==
    LET e == call.end
        s == driver_if_state[e]
    IN /\ xhcid = "serving" /\ call.at = "res"
       /\ \/ /\ s.st = "WaitingForTransferResult"
             /\ If(e, IfInit)
             \* generic_transfer
             /\ IF s.res = "Success" /\ call.got # call.len
                THEN Return("err", call.got) ELSE Return(s.res, call.got)
             /\ UNCHANGED xhcid
          \/ /\ s.st = "WaitingForStatus"
             /\ If(e, IfInit)
             /\ xhcid' = "deadlocked"
             /\ UNCHANGED call
       /\ UNCHANGED <<halted, port_req>>

-----------------------------------------------------------------------------
(* A request handle: its state is Tmp while a call uses it, and stays Tmp if the call *)
(* fails.                                                                             *)

OpenRequest ==
    /\ xhcid = "serving" /\ call.at = "open"
    /\ port_req' = "Init"
    /\ call' = [call EXCEPT !.at = "setup"]
    /\ UNCHANGED <<driver_if_state, halted, xhcid>>

\* handle_port_req_write of the request: one without data is transferred at once.
SetupReq(ok) ==
    /\ xhcid = "serving" /\ call.at = "setup"
    /\ IF port_req = "Tmp"
       THEN xhcid' = "panicked" /\ UNCHANGED <<port_req, call>>
       ELSE /\ port_req' = IF call.len > 0
                           THEN IF call.end = "in" THEN "WaitingForDeviceBytes"
                                                   ELSE "WaitingForHostBytes"
                           ELSE IF ok THEN "Init" ELSE "Tmp"
            /\ IF call.len > 0 THEN call' = [call EXCEPT !.at = "bytes"]
               ELSE Return(IF ok THEN "Success" ELSE "err", 0)
            /\ UNCHANGED xhcid
    /\ UNCHANGED <<driver_if_state, halted>>

\* handle_port_req_read and handle_port_req_write of the data
RequestBytes(ok) ==
    /\ xhcid = "serving" /\ call.at = "bytes"
    /\ port_req = IF call.end = "in" THEN "WaitingForDeviceBytes" ELSE "WaitingForHostBytes"
    /\ port_req' = IF ok THEN "Init" ELSE "Tmp"
    /\ Return(IF ok THEN "Success" ELSE "err", IF ok THEN call.len ELSE 0)
    /\ UNCHANGED <<driver_if_state, halted, xhcid>>

-----------------------------------------------------------------------------
(* usbscsid *)

Cbw == 31
Csw == 13

\* Scsi::new: two inquiries, two mode senses, and the capacity when the mode sense
\* has no block descriptor; then daemon reads the first block.
Setup == <<"inquiry_len", "inquiry", "mode_len", "mode", "capacity", "first">>

VARIABLES scsi,      \* the driver
          device,    \* the device: the command it works on
          answer,    \* the last answer: what the driver returned, and for which command
          commands, faults

vars == <<endpVars, scsi, device, answer, commands, faults>>
bounds == <<commands, faults>>

Ready == Len(Setup) + 1
NoStatus == [tag |-> 0, status |-> None, residue |-> 0]

Init ==
    /\ EndpInit
    /\ scsi = [pc |-> "start", step |-> 0, tag |-> 0, dir |-> None, len |-> 0, early |-> 0]
    /\ device = [st |-> "cbw", tag |-> 0, dir |-> None, len |-> 0, moved |-> 0, csw |-> NoStatus]
    /\ answer = None
    /\ commands = MaxCommands /\ faults = MaxFaults

-----------------------------------------------------------------------------
(* The driver *)

Goes(s, c) == scsi' = s /\ call' = c
Keep == UNCHANGED <<driver_if_state, halted, xhcid, port_req>>

\* BulkOnlyTransport::init asks for the highest logical unit.
Start ==
    /\ scsi.pc = "start"
    /\ Goes([scsi EXCEPT !.pc = "lun"], Request("in", 1))
    /\ Keep /\ UNCHANGED <<device, answer, bounds>>

GotMaxLun ==
    /\ scsi.pc = "lun" /\ call.at = "done"
    /\ Goes(IF call.res = "Success" THEN [scsi EXCEPT !.pc = "idle", !.step = 1]
            ELSE [scsi EXCEPT !.pc = "dead"], NoCall)
    /\ Keep /\ UNCHANGED <<device, answer, bounds>>

\* send_command, from the next tag on
Send(dir, n) ==
    Goes([scsi EXCEPT !.pc = "cbw", !.tag = @ + 1, !.dir = dir, !.len = n, !.early = 0],
         Transfer("out", Cbw))

SetupCommand ==
    /\ scsi.pc = "idle" /\ scsi.step < Ready
    /\ Send("in", IF Setup[scsi.step] = "first" THEN BlockSize ELSE 1)
    /\ Keep /\ UNCHANGED <<device, answer, bounds>>

\* ScsiScheme::read and write, with Scsi::read and write.
Serve(dir, n) ==
    /\ scsi.pc = "idle" /\ scsi.step = Ready /\ commands > 0
    /\ commands' = commands - 1
    /\ IF n % BlockSize # 0
       THEN answer' = [tag |-> scsi.tag, res |-> "EINVAL", count |-> 0] /\ UNCHANGED <<scsi, call>>
       ELSE Send(dir, n) /\ UNCHANGED answer
    /\ Keep /\ UNCHANGED <<device, faults>>

\* The command ends: a request is answered, a command of the setup must not fail.  An
\* unreadable mode page panics, and a block descriptor spares the capacity.
Finish(res, count) ==
    /\ answer' = [tag |-> scsi.tag, res |-> res, count |-> count]
    /\ \E skip \in (IF scsi.step < Ready /\ Setup[scsi.step] = "mode" THEN {1, 2} ELSE {1}) :
         Goes([scsi EXCEPT !.pc = IF scsi.step < Ready
                                     /\ (res = "err" \/ (res = "Failed" /\ Setup[scsi.step] = "mode_len"))
                                  THEN "dead" ELSE "idle",
                           !.step = IF @ < Ready THEN @ + skip ELSE @], NoCall)

Panic == Goes([scsi EXCEPT !.pc = "dead"], NoCall) /\ UNCHANGED answer

ReadCsw(early) == Goes([scsi EXCEPT !.pc = "csw", !.early = early], Transfer("in", Csw))

CbwSent ==
    /\ scsi.pc = "cbw" /\ call.at = "done"
    /\ IF call.res = "err" THEN Finish("err", 0)
       ELSE IF call.got # Cbw THEN Panic
       ELSE Goes([scsi EXCEPT !.pc = "data"], Transfer(scsi.dir, scsi.len)) /\ UNCHANGED answer
    /\ Keep /\ UNCHANGED <<device, bounds>>

\* A short packet's length is taken for the residue.
DataDone ==
    /\ scsi.pc = "data" /\ call.at = "done"
    /\ IF call.res = "err" THEN Finish("err", 0)
       ELSE /\ ReadCsw(IF call.res = "ShortPacket" THEN call.got ELSE 0)
            /\ UNCHANGED answer
    /\ Keep /\ UNCHANGED <<device, bounds>>


\* The status must be valid and of this command; otherwise reset_recovery, whose first
\* request resets the device and whose next call asks for the endpoint's status.
CswRead ==
    LET csw == device.csw
        residue == IF scsi.early # 0 THEN scsi.early ELSE csw.residue
    IN /\ scsi.pc = "csw" /\ call.at = "done"
       /\ IF call.res = "err" THEN Finish("err", 0)
          ELSE IF call.got # Csw THEN Panic
          ELSE IF csw.status = "invalid" \/ csw.tag # scsi.tag
          THEN Goes([scsi EXCEPT !.pc = "recover"], Request("out", 0)) /\ UNCHANGED answer
          ELSE IF csw.status = "PhaseError" THEN Finish("err", 0)
          ELSE Finish(csw.status, scsi.len - residue)
       /\ Keep /\ UNCHANGED <<device, bounds>>

Recover ==
    /\ scsi.pc = "recover" /\ call.at = "done"
    /\ IF call.res = "err" THEN Finish("err", 0)
       ELSE Goes([scsi EXCEPT !.pc = "stall"], Status("in")) /\ UNCHANGED answer
    /\ Keep /\ UNCHANGED <<device, bounds>>

Driver == \/ Start \/ GotMaxLun \/ SetupCommand
          \/ CbwSent \/ DataDone \/ CswRead \/ Recover
          \/ CtlReq /\ UNCHANGED <<scsi, device, answer, bounds>>
          \/ EmptyData /\ UNCHANGED <<scsi, device, answer, bounds>>
          \/ CtlRes /\ UNCHANGED <<scsi, device, answer, bounds>>
          \/ OpenRequest /\ UNCHANGED <<scsi, device, answer, bounds>>

-----------------------------------------------------------------------------
(* The device *)

Others == UNCHANGED <<scsi, answer, commands>>
Fault == faults > 0 /\ faults' = faults - 1

\* It takes a wrapper only when it waits for one.
TakeCbw ==
    /\ scsi.pc = "cbw" /\ device.st = "cbw"
    /\ \/ Data(Cbw, "Success") /\ UNCHANGED faults
       \/ Data(Cbw - 1, "ShortPacket") /\ Fault
    /\ device' = [device EXCEPT !.st = IF scsi.len = 0 THEN "csw" ELSE "data", !.tag = scsi.tag,
                                !.dir = scsi.dir, !.len = scsi.len, !.moved = 0]
    /\ Others

\* Data, in full or in part.
MoveData ==
    /\ scsi.pc = "data" /\ device.st = "data"
    /\ \E n \in 0 .. device.len :
         /\ Data(n, IF n = device.len THEN "Success" ELSE "ShortPacket")
         /\ device' = [device EXCEPT !.st = "csw", !.moved = n]
    /\ UNCHANGED faults /\ Others

\* The status of the command, or one that is not due.
SendCsw ==
    /\ scsi.pc = "csw" /\ device.st = "csw"
    /\ \/ \E st \in {"Success", "Failed"} :
            /\ Data(Csw, "Success") /\ UNCHANGED faults
            /\ device' = [device EXCEPT !.st = "cbw",
                             !.csw = [tag |-> device.tag, status |-> st,
                                      residue |-> device.len - device.moved]]
       \/ \E st \in {"Success", "PhaseError", "invalid"}, n \in {Csw, Csw - 1} :
            /\ Data(n, IF n = Csw THEN "Success" ELSE "ShortPacket") /\ Fault
            /\ device' = [device EXCEPT !.st = "cbw",
                             !.csw = [tag |-> device.tag - 1, status |-> st, residue |-> 0]]
    /\ Others

\* A stall, or a transfer the device does not expect.
Stall ==
    /\ scsi.pc \in {"cbw", "data", "csw"}
    /\ IF device.st = scsi.pc THEN Fault ELSE UNCHANGED faults
    /\ DataFailed
    /\ UNCHANGED device /\ Others

Control ==
    /\ \/ (SetupReq(TRUE) \/ RequestBytes(TRUE)) /\ UNCHANGED faults
       \/ (SetupReq(FALSE) \/ RequestBytes(FALSE)) /\ Fault
    /\ UNCHANGED device /\ Others

Device == TakeCbw \/ MoveData \/ SendCsw \/ Stall \/ Control

-----------------------------------------------------------------------------
Next == Driver \/ Device \/ \E dir \in Ends, n \in Sizes : Serve(dir, n)

\* The driver runs, and the device answers.
Spec == Init /\ [][Next]_vars /\ WF_vars(Driver) /\ WF_vars(Device)

-----------------------------------------------------------------------------
(* Properties *)

\* A driver that reads the Ctl file after its data finds the result of its transfer
\* there, not Pending or Idle: "a non-pending status will be returned" when all bytes
\* were read or written, or the device sent fewer; and no request finds its handle in the
\* state Tmp, where xhcid panics (on_read_endp_data, generic_transfer, device_request).
ResultReady ==
    /\ xhcid # "panicked"
    /\ call.op = "transfer" /\ call.at = "res"
           => /\ driver_if_state[call.end].st = "WaitingForTransferResult"
              /\ (driver_if_state[call.end].res = "Success") = (call.got = call.len)
    /\ \A e \in Ends : driver_if_state[e].st = "WaitingForDataPipe" /\ driver_if_state[e].to > 0
                          => driver_if_state[e].done < driver_if_state[e].to

\* A request is answered with the status of its own command, which the device took and
\* finished, and with the bytes the device moved, unless a short packet was taken for the
\* residue (send_command, bytes_transferred).
OwnStatus ==
    answer # None /\ answer.res \in {"Success", "Failed"} /\ answer.tag = scsi.tag
        => /\ device.tag = answer.tag /\ device.csw.tag = answer.tag
           /\ scsi.early = 0 => answer.count = device.moved

\* A command comes to an end: only the status of an endpoint, which the driver asks for
\* to recover, never comes (send_command, get_endp_status).
CommandsEnd == []<>(scsi.pc \in {"idle", "dead"} \/ xhcid = "deadlocked")
=============================================================================
