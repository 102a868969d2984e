----------------------------- MODULE XhciScheme -----------------------------
(***************************************************************************)
(* The usb scheme of one port: the descriptors of the device as get_desc    *)
(* groups them, the configuration of the endpoints, the handles and what a  *)
(* driver reads through them, and the doorbell a transfer rings.  A driver  *)
(* and the scheme number the endpoints by their place in the list of        *)
(* descriptors, the controller by the index of a device context.            *)
(***************************************************************************)
EXTENDS Naturals, SequencesExt

CONSTANTS Devices,      \* the devices: sequences of configurations
          BufLens,      \* lengths of a reader's buffer
          MaxOpens, MaxConfigures, MaxAttaches, None

\* A configuration is the sequence of the descriptors that follow it, records with a kind:
\* an interface with the number n of its endpoints and whether it is hid, an endpoint with
\* its direction and type, "hid", and "unknown".

VARIABLES port,       \* the port's device, its entry in port_states, and its slot context
          handles,    \* fd -> handle
          bell,       \* the last transfer: the ring it wrote, and the one behind its doorbell
          xhcid,      \* "up", or "panicked"
          opens, configures, attaches

vars == <<port, handles, bell, xhcid, opens, configures, attaches>>

Empty == [dev |-> None, cfg_idx |-> None, endpoint_states |-> <<>>, ctx |-> <<>>,
          failed |-> FALSE]

Init ==
    /\ port = Empty
    /\ handles = <<>>
    /\ bell = None
    /\ xhcid = "up"
    /\ opens = 0 /\ configures = 0 /\ attaches = 0

-----------------------------------------------------------------------------
(* Descriptors *)

\* The loop of get_desc over the descriptors: acc.left endpoints are still expected for the
\* last interface.  A descriptor that is not expected there is dropped and ends the
\* interface; where an interface is expected it ends the list, as one that
\* AnyDescriptor::parse does not know does anywhere.
Group(acc, d) ==
    CASE acc.stop -> acc
      [] d.kind = "unknown" -> [acc EXCEPT !.stop = TRUE]
      [] acc.left = 0 /\ d.kind = "interface"
           -> [acc EXCEPT !.ifs = Append(@, <<>>), !.left = d.n, !.hid = d.hid]
      [] acc.left = 0 -> [acc EXCEPT !.stop = TRUE]
      [] d.kind = "endpoint"
           -> [acc EXCEPT !.ifs[Len(acc.ifs)] = Append(@, d), !.left = @ - 1]
      [] d.kind = "hid" /\ acc.hid -> acc
      [] OTHER -> [acc EXCEPT !.left = 0]

ConfigDesc(config) ==
    FoldLeft(Group, [ifs |-> <<>>, left |-> 0, hid |-> FALSE, stop |-> FALSE], config).ifs

\* The endpoints of a configuration in the order of get_endp_desc.
EndpDescs(config) == FlattenSeq(ConfigDesc(config))

-----------------------------------------------------------------------------
(* Configuration *)

endp_num_to_dci(endp_num, dir) == endp_num * 2 + (IF dir = "in" THEN 1 ELSE 0)

\* The endpoints of the chosen configuration; none before one was chosen.
Chosen ==
    IF port.dev = None \/ port.cfg_idx = None \/ port.cfg_idx \notin DOMAIN port.dev THEN <<>>
    ELSE EndpDescs(port.dev[port.cfg_idx])

\* Every ring is new, and known by the configuration that allocated it.
Ring(e) == <<configures + 1, e>>

\* The endpoint contexts of the input context, by their index.
Contexts(eps) ==
    LET Dci(e) == endp_num_to_dci(e, eps[e].dir)
    IN [i \in {Dci(e) : e \in DOMAIN eps} |-> Ring(Max({e \in DOMAIN eps : Dci(e) = i}))]

\* configure_endpoints_once puts a ring behind every endpoint.  One that is not periodic has
\* its payload computed from a companion descriptor, which get_desc never fills in: that
\* ends xhcid.  Then the controller takes the contexts or refuses them.  cfg_idx is set
\* before all of this, and stays when it fails.
Configure(cfg) ==
    LET eps == EndpDescs(port.dev[cfg])
        kinds == {eps[e].ty : e \in DOMAIN eps}
    IN /\ xhcid = "up" /\ port.dev # None /\ configures < MaxConfigures
       /\ configures' = configures + 1
       /\ \/ port.cfg_idx = cfg /\ UNCHANGED <<port, xhcid>>         \* already configured
          \/ /\ port.cfg_idx # cfg /\ cfg \notin DOMAIN port.dev
             /\ port' = [port EXCEPT !.cfg_idx = cfg, !.failed = TRUE]
             /\ UNCHANGED xhcid
          \/ /\ port.cfg_idx # cfg /\ cfg \in DOMAIN port.dev
             /\ \/ "bulk" \in kinds /\ xhcid' = "panicked" /\ UNCHANGED port
                \/ \E taken \in BOOLEAN :
                   /\ kinds \subseteq {"interrupt"}
                   /\ port' = [port EXCEPT !.cfg_idx = cfg, !.failed = @ \/ ~taken,
                                           !.endpoint_states = [e \in DOMAIN eps |-> Ring(e)] @@ @,
                                           !.ctx = IF taken THEN Contexts(eps) @@ @ ELSE @]
                   /\ UNCHANGED xhcid
       /\ UNCHANGED <<handles, bell, opens, attaches>>

\* attach_device, with its descriptor; and detach_device.
Attach(dev) ==
    /\ xhcid = "up" /\ port.dev = None /\ attaches < MaxAttaches
    /\ port' = [Empty EXCEPT !.dev = dev, !.endpoint_states = [e \in {0} |-> <<0, 0>>]]
    /\ attaches' = attaches + 1
    /\ UNCHANGED <<handles, bell, xhcid, opens, configures>>

Detach ==
    /\ xhcid = "up" /\ port.dev # None
    /\ port' = Empty
    /\ UNCHANGED <<handles, bell, xhcid, opens, configures, attaches>>

-----------------------------------------------------------------------------
(* Handles *)

\* What the fixed files hold when they are opened.
Contents(ty, ep) ==
    CASE ty = "top" -> IF port.dev = None THEN <<>> ELSE <<"port">>
      [] ty = "descriptors" -> <<"desc", "desc", "desc">>
      [] ty = "endpoints" -> [i \in 1..Cardinality(DOMAIN port.endpoint_states) |-> "n"]
      [] ty = "root" -> <<"ctl", "data">>
      [] OTHER -> <<>>

Directories == {"top", "endpoints", "root"}
Fixed == Directories \union {"descriptors"}

\* open with O_DIRECTORY, or with read and write: the type says which it must be.  A state,
\* request or configure file opens for any port number; the others need the device, and an
\* endpoint its number in endpoint_states.
Open(ty, ep, directory, write_only) ==
    /\ xhcid = "up" /\ opens < MaxOpens
    /\ directory = (ty \in Directories)
    /\ ty = "configure" => write_only
    /\ ty \in {"descriptors", "endpoints", "root", "ctl", "data"} => port.dev # None
    /\ ty \in {"root", "ctl", "data"} => ep \in DOMAIN port.endpoint_states
    /\ ty \notin {"root", "ctl", "data"} => ep = 0
    /\ handles' = Append(handles, [ty |-> ty, ep |-> ep, offset |-> 0, buf |-> Contents(ty, ep),
                                   attached |-> attaches, open |-> TRUE])
    /\ opens' = opens + 1
    /\ UNCHANGED <<port, bell, xhcid, configures, attaches>>

Larger(a, b) == IF a > b THEN a ELSE b
Smaller(a, b) == IF a < b THEN a ELSE b

\* read of a fixed file, or of the state, whose text is "addressed" or so.
read(h, n) == Larger(Smaller(Len(h.buf), n), h.offset) - h.offset

Read(fd, n) ==
    LET h == handles[fd]
    IN /\ xhcid = "up" /\ h.open /\ h.ty \in Fixed
       /\ handles' = [handles EXCEPT ![fd].offset = @ + read(h, n)]
       /\ UNCHANGED <<port, bell, xhcid, opens, configures, attaches>>

\* seek is clamped to the file.
Seek(fd, pos) ==
    /\ xhcid = "up" /\ handles[fd].open /\ handles[fd].ty \in Fixed
    /\ handles' = [handles EXCEPT ![fd].offset = Larger(0, Smaller(pos, Len(handles[fd].buf)))]
    /\ UNCHANGED <<port, bell, xhcid, opens, configures, attaches>>

Close(fd) ==
    /\ xhcid = "up" /\ handles[fd].open
    /\ handles' = [handles EXCEPT ![fd].open = FALSE]
    /\ UNCHANGED <<port, bell, xhcid, opens, configures, attaches>>

\* A transfer through a data handle: the endpoint's descriptor by its number, its ring, and
\* the doorbell of its context.
Transfer(fd) ==
    LET h == handles[fd]
    IN /\ xhcid = "up" /\ h.open /\ h.ty = "data"
       /\ h.ep \in DOMAIN Chosen /\ h.ep \in DOMAIN port.endpoint_states
       /\ LET i == endp_num_to_dci(h.ep, Chosen[h.ep].dir)
          IN bell' = [ring |-> port.endpoint_states[h.ep], failed |-> port.failed,
                      rung |-> IF i \in DOMAIN port.ctx THEN port.ctx[i] ELSE None]
       /\ UNCHANGED <<port, handles, xhcid, opens, configures, attaches>>

Next ==
    \/ \E dev \in Devices : Attach(dev)
    \/ Detach
    \/ \E cfg \in 1..2 : Configure(cfg)
    \/ \E ty \in Fixed \union {"state", "request", "configure", "ctl", "data"}, ep \in 0..3 :
         Open(ty, ep, ty \in Directories, TRUE)
    \/ \E fd \in DOMAIN handles :
         \/ \E n \in BufLens : Read(fd, n) \/ Seek(fd, n)
         \/ Close(fd)
         \/ Transfer(fd)

Spec == Init /\ [][Next]_vars

-----------------------------------------------------------------------------
(* Properties *)

\* A list of descriptors that keeps the order of the specification: every interface is
\* followed by as many endpoints as it says, a HID descriptor only comes before them.
WellFormed(config) ==
    /\ config # <<>> => config[1].kind = "interface"
    /\ \A i \in DOMAIN config :
         /\ config[i].kind # "unknown"
         /\ config[i].kind = "hid" => config[i - 1].kind = "interface" /\ config[i - 1].hid
                                      /\ config[i - 1].n > 0
         /\ config[i].kind = "interface" =>
              LET ends == {j \in DOMAIN config : j > i /\ config[j].kind = "interface"}
                  last == IF ends = {} THEN Len(config) ELSE (CHOOSE j \in ends : \A k \in ends : j <= k) - 1
              IN Cardinality({j \in (i + 1)..last : config[j].kind = "endpoint"}) = config[i].n

\* get_desc finds every endpoint of a device whose descriptors are in order, in that order;
\* and as long as every configuration was accepted, the doorbell of a transfer is that of
\* the context with the ring it wrote, also after a change of configuration, and no other
\* endpoint's (get_desc, configure_endpoints_once, endp_num_to_dci, transfer).
EndpointsServed ==
    /\ port.dev # None => \A c \in DOMAIN port.dev :
         WellFormed(port.dev[c]) =>
           EndpDescs(port.dev[c]) = SelectSeq(port.dev[c], LAMBDA d : d.kind = "endpoint")
    /\ bell # None /\ ~bell.failed => bell.rung = bell.ring

\* A handle stays usable: its offset is inside its file, and the endpoint it was opened for
\* is there as long as the device is, whatever is configured (open, read, seek).
HandlesUsable ==
    \A fd \in DOMAIN handles :
      LET h == handles[fd]
      IN /\ h.offset \in 0..Len(h.buf)
         /\ h.ty \in {"root", "ctl", "data"} /\ port.dev # None /\ h.attached = attaches
              => h.ep \in DOMAIN port.endpoint_states
=============================================================================
