---------------------------- MODULE NetworkScheme ----------------------------
(***************************************************************************)
(* driver-network: the scheme every network driver serves, and the event   *)
(* loop of a driver around its tick().  A tick retries the blocked calls,  *)
(* serves the new ones and tells the handles of packets that are left; in  *)
(* between packets arrive and clients submit and cancel calls.             *)
(***************************************************************************)
EXTENDS Naturals, Sequences, FiniteSets, Functions

CONSTANTS Calls,           \* numbers of the calls clients make, in their order
          IrqSubscribed,   \* the driver's event queue listens to its interrupt
          MaxPackets       \* bound on the packets that arrive

ASSUME CallsAssumption == Calls \subseteq Nat
ASSUME NetworkConstants == IrqSubscribed \in BOOLEAN /\ MaxPackets \in Nat

\* open of "" or "mac", read with and without O_NONBLOCK, write, fevent and
\* the other calls that only look at their handle, close.  An open that is
\* refused and a SendFd change nothing either and stand with "stat".
Ops == {"open_data", "open_mac", "read", "read_nb", "write", "stat", "close"}
Requests == [op : Ops, id : Nat]

VARIABLES handles,    \* BTreeMap<usize, Handle>: "data" or "mac", or "closed"
          next_id,
          blocked,    \* calls to try again
          socket,     \* messages the kernel holds for the scheme
          req,        \* what each call asks for
          answers,    \* how often each call was answered
          rx,         \* packets the adapter has ready
          arrived,    \* packets that have ever arrived
          icr,        \* the adapter has an interrupt cause to report
          irq,        \* event of the interrupt file
          scheme,     \* event of the scheme file
          posted,     \* handles with an event in the kernel's queue
          pc, i       \* where tick() is, and its loop variable

vars == <<handles, next_id, blocked, socket, req, answers, rx, arrived, icr, irq,
          scheme, posted, pc, i>>

Messages == [kind : {"call", "cancel"}, call : Calls]

Unsent == [op |-> "none", id |-> 0]
CallMsg(c) == [kind |-> "call", call |-> c]
CancelMsg(c) == [kind |-> "cancel", call |-> c]

RemoveFrom(s, k) == [j \in 1 .. Len(s) - 1 |-> IF j < k THEN s[j] ELSE s[j + 1]]

Open(r) == r.id \in DOMAIN handles

-----------------------------------------------------------------------------
(* handle_scheme_block *)

\* A read that has to wait: the only call that is not answered at once.
Blocks_Nonblocking(r) ==
    r.op \in {"read", "read_nb"} /\ Open(r) /\ handles[r.id] = "data" /\ rx = 0

Blocks(r) == r.op = "read" /\ Open(r) /\ handles[r.id] = "data" /\ rx = 0

TakesPacket(r) ==
    r.op \in {"read", "read_nb"} /\ Open(r) /\ handles[r.id] = "data" /\ rx > 0

Perform_OldId(r) ==
    /\ rx' = IF TakesPacket(r) THEN rx - 1 ELSE rx
    /\ IF r.op \in {"open_data", "open_mac"}
       THEN /\ next_id' = next_id + 1
            /\ handles' = [h \in DOMAIN handles \cup {next_id} |->
                             IF h \in DOMAIN handles THEN handles[h]
                             ELSE IF r.op = "open_data" THEN "data" ELSE "mac"]
       ELSE /\ handles' = IF r.op = "close"
                          THEN [h \in DOMAIN handles \ {r.id} |-> handles[h]]
                          ELSE handles
            /\ UNCHANGED next_id

\* What an answered call does to the scheme and to the adapter.
Perform(r) ==
    /\ rx' = IF TakesPacket(r) THEN rx - 1 ELSE rx
    /\ IF r.op \in {"open_data", "open_mac"}
       THEN /\ next_id' = next_id + 1
            /\ handles' = [h \in DOMAIN handles \cup {next_id + 1} |->
                             IF h \in DOMAIN handles THEN handles[h]
                             ELSE IF r.op = "open_data" THEN "data" ELSE "mac"]
       ELSE /\ handles' = IF r.op = "close"
                          THEN [h \in DOMAIN handles \ {r.id} |-> handles[h]]
                          ELSE handles
            /\ UNCHANGED next_id

Answer(c) == answers' = [answers EXCEPT ![c] = @ + 1]

-----------------------------------------------------------------------------
(* tick *)

RetryBlocked_Keeps ==
    /\ pc = "blocked" /\ i <= Len(blocked)
    /\ IF Blocks(req[blocked[i]])
       THEN UNCHANGED <<handles, next_id, rx, answers>>
       ELSE Perform(req[blocked[i]]) /\ Answer(blocked[i])
    /\ i' = i + 1
    /\ UNCHANGED <<blocked, socket, req, arrived, icr, irq, scheme, posted, pc>>

\* The calls that still have to wait stay, the others are answered and removed.
RetryBlocked ==
    /\ pc = "blocked" /\ i <= Len(blocked)
    /\ IF Blocks(req[blocked[i]])
       THEN /\ i' = i + 1
            /\ UNCHANGED <<handles, next_id, blocked, rx, answers>>
       ELSE /\ Perform(req[blocked[i]])
            /\ Answer(blocked[i])
            /\ blocked' = RemoveFrom(blocked, i)
            /\ UNCHANGED i
    /\ UNCHANGED <<socket, req, arrived, icr, irq, scheme, posted, pc>>

RetryDone ==
    /\ pc = "blocked" /\ i > Len(blocked)
    /\ pc' = "new"
    /\ UNCHANGED <<handles, next_id, blocked, socket, req, answers, rx, arrived,
                   icr, irq, scheme, posted, i>>

NewCall_Drops ==
    /\ pc = "new" /\ socket # <<>> /\ Head(socket).kind = "call"
    /\ LET c == Head(socket).call
       IN  IF Blocks(req[c])
           THEN UNCHANGED <<handles, next_id, rx, answers>>
           ELSE Perform(req[c]) /\ Answer(c)
    /\ socket' = Tail(socket)
    /\ UNCHANGED <<blocked, req, arrived, icr, irq, scheme, posted, pc, i>>

NewCall ==
    /\ pc = "new" /\ socket # <<>> /\ Head(socket).kind = "call"
    /\ LET c == Head(socket).call
       IN  IF Blocks(req[c])
           THEN /\ blocked' = Append(blocked, c)
                /\ UNCHANGED <<handles, next_id, rx, answers>>
           ELSE /\ Perform(req[c])
                /\ Answer(c)
                /\ UNCHANGED blocked
    /\ socket' = Tail(socket)
    /\ UNCHANGED <<req, arrived, icr, irq, scheme, posted, pc, i>>

Unblock(k) == blocked' = RemoveFrom(blocked, k)

\* EINTR for a call that is blocked; a cancellation of any other is dropped.
NewCancellation ==
    /\ pc = "new" /\ socket # <<>> /\ Head(socket).kind = "cancel"
    /\ LET c == Head(socket).call
       IN  \/ \E k \in 1 .. Len(blocked) :
                blocked[k] = c /\ Unblock(k) /\ Answer(c)
           \/ /\ \A k \in 1 .. Len(blocked) : blocked[k] # c
              /\ UNCHANGED <<blocked, answers>>
    /\ socket' = Tail(socket)
    /\ UNCHANGED <<handles, next_id, req, rx, arrived, icr, irq, scheme, posted, pc, i>>

\* EAGAIN from the socket.
NewDone ==
    /\ pc = "new" /\ socket = <<>>
    /\ pc' = "notify"
    /\ UNCHANGED <<handles, next_id, blocked, socket, req, answers, rx, arrived,
                   icr, irq, scheme, posted, i>>

NotifyReaders_Once ==
    /\ pc = "notify"
    /\ posted' = IF rx = 1 THEN posted \cup DOMAIN handles ELSE posted
    /\ pc' = "wait"
    /\ UNCHANGED <<handles, next_id, blocked, socket, req, answers, rx, arrived,
                   icr, irq, scheme, i>>

NotifyReaders ==
    /\ pc = "notify"
    /\ posted' = IF rx > 0 THEN posted \cup DOMAIN handles ELSE posted
    /\ pc' = "wait"
    /\ UNCHANGED <<handles, next_id, blocked, socket, req, answers, rx, arrived,
                   icr, irq, scheme, i>>

-----------------------------------------------------------------------------
(* The driver's event loop *)

StartTick_New == pc' = "new" /\ i' = 1

StartTick == pc' = "blocked" /\ i' = 1

\* irq() reads and clears the cause; an interrupt of another device is ignored.
IrqEvent ==
    /\ pc = "wait" /\ irq /\ IrqSubscribed
    /\ irq' = FALSE
    /\ icr' = FALSE
    /\ IF icr THEN StartTick ELSE UNCHANGED <<pc, i>>
    /\ UNCHANGED <<handles, next_id, blocked, socket, req, answers, rx, arrived,
                   scheme, posted>>

SchemeEvent ==
    /\ pc = "wait" /\ scheme
    /\ scheme' = FALSE
    /\ StartTick
    /\ UNCHANGED <<handles, next_id, blocked, socket, req, answers, rx, arrived,
                   icr, irq, posted>>

-----------------------------------------------------------------------------
(* The device, the kernel and the clients *)

Receive ==
    /\ arrived < MaxPackets
    /\ arrived' = arrived + 1
    /\ rx' = rx + 1
    /\ icr' = TRUE /\ irq' = TRUE
    /\ UNCHANGED <<handles, next_id, blocked, socket, req, answers, scheme, posted, pc, i>>

SharedIrq ==
    /\ ~irq
    /\ irq' = TRUE
    /\ UNCHANGED <<handles, next_id, blocked, socket, req, answers, rx, arrived,
                   icr, scheme, posted, pc, i>>

Post(m) == /\ socket' = Append(socket, m)
           /\ scheme' = TRUE

\* A client uses a handle it was given once; another one may have closed it.
Submit(c) ==
    /\ req[c] = Unsent
    /\ \A d \in Calls : d < c => req[d] # Unsent
    /\ \E op \in Ops, h \in 0 .. next_id :
         /\ h = 0 <=> op \in {"open_data", "open_mac"}
         /\ req' = [req EXCEPT ![c] = [op |-> op, id |-> h]]
         /\ posted' = IF op = "read_nb" THEN posted \ {h} ELSE posted
    /\ Post(CallMsg(c))
    /\ UNCHANGED <<handles, next_id, blocked, answers, rx, arrived, icr, irq, pc, i>>

\* A signal reaches the caller.
Cancel(c) ==
    /\ req[c] # Unsent /\ CancelMsg(c) \notin Range(socket)
    /\ answers[c] = 0
    /\ Post(CancelMsg(c))
    /\ UNCHANGED <<handles, next_id, blocked, req, answers, rx, arrived, icr, irq, posted, pc, i>>

-----------------------------------------------------------------------------
Init ==
    /\ handles = [h \in {} |-> "data"] /\ next_id = 0
    /\ blocked = <<>> /\ socket = <<>>
    /\ req = [c \in Calls |-> Unsent]
    /\ answers = [c \in Calls |-> 0]
    /\ rx = 0 /\ arrived = 0
    /\ icr = FALSE /\ irq = FALSE /\ scheme = FALSE
    /\ posted = {}
    /\ pc = "blocked" /\ i = 1

Tick == RetryBlocked \/ RetryDone \/ NewCall \/ NewCancellation \/ NewDone \/ NotifyReaders
Driver == Tick \/ IrqEvent \/ SchemeEvent

Next == \/ Driver \/ Receive \/ SharedIrq
        \/ \E c \in Calls : Submit(c) \/ Cancel(c)

\* The event queue delivers every event it holds; nothing has to arrive.
Fairness == WF_vars(Tick) /\ WF_vars(IrqEvent) /\ WF_vars(SchemeEvent)
Spec == Init /\ [][Next]_vars /\ Fairness

-----------------------------------------------------------------------------
TypeOK ==
    /\ next_id \in Nat
    /\ DOMAIN handles \subseteq 1 .. next_id
    /\ \A h \in DOMAIN handles : handles[h] \in {"data", "mac"}
    /\ blocked \in Seq(Calls)
    /\ socket \in Seq(Messages)
    /\ req \in [Calls -> Requests \cup {Unsent}]
    /\ answers \in [Calls -> Nat]
    /\ rx \in Nat /\ arrived \in Nat
    /\ icr \in BOOLEAN /\ irq \in BOOLEAN /\ scheme \in BOOLEAN
    /\ posted \subseteq 1 .. next_id
    /\ pc \in {"blocked", "new", "notify", "wait"}
    /\ i \in Nat \ {0}

\* A call is answered at most once, whatever its retries, its cancellation and
\* the close of its handle do (tick: answered calls leave `blocked`).
AnsweredOnce == \A c \in Calls : answers[c] <= 1

\* A call is never forgotten either: it is answered, or waits in the socket or
\* in `blocked` (tick).
NoCallLost ==
    \A c \in Calls : req[c] # Unsent =>
        \/ answers[c] = 1
        \/ CallMsg(c) \in Range(socket)
        \/ c \in Range(blocked)

StillBlocked(r) == r.op = "read" /\ Open(r) /\ handles[r.id] = "data"

\* The driver never goes back to sleep, with no event left to wake it, on a
\* packet somebody waits for: "This needs to be called each time there is a new
\* event on the scheme file and each time a new network packet has been
\* received by the driver" (tick).
NoReaderLeftBehind ==
    pc = "wait" /\ ~(irq /\ IrqSubscribed) /\ ~scheme /\ rx > 0 =>
        \A k \in 1 .. Len(blocked) : ~StillBlocked(req[blocked[k]])

\* Nor does it sleep while a handle has not been told of the packets that are
\* left, so a client that polls with O_NONBLOCK is always told to try again.
HandlesAreNotified ==
    pc = "wait" /\ ~(irq /\ IrqSubscribed) /\ ~scheme /\ rx > 0 =>
        DOMAIN handles \subseteq posted

\* Without a packet only a blocking read waits: every other call is answered.
OthersAreAnswered ==
    \A c \in Calls : (req[c] # Unsent /\ req[c].op # "read") ~> answers[c] = 1

\* A blocked read is answered once there are packets, unless other readers
\* take them all.
ReadersAreServed ==
    \A c \in Calls :
        (c \in Range(blocked) /\ rx > 0) ~> (c \notin Range(blocked) \/ rx = 0)
=============================================================================
