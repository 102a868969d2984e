------------------------------- MODULE Nvme -------------------------------
(***************************************************************************)
(* nvmed with its default feature "async".  The main thread sets up the    *)
(* queues and serves the block requests of the disk scheme.  For each      *)
(* command it polls a CompletionFuture under block_on.  The completion     *)
(* queue reactor is a second thread: it waits for interrupts, takes the    *)
(* completion entries and wakes the future.  The controller fetches        *)
(* commands when a doorbell rings, executes them and posts completions.    *)
(*                                                                         *)
(* Queue 0 is the admin queue, queue 1 the I/O queue; both interrupt on    *)
(* vector 0.                                                               *)
(***************************************************************************)
EXTENDS Naturals, Sequences

CONSTANTS SqLen, CqLen,     \* 64 and 256 entries in the driver
          Namespaces,       \* how many the controller lists
          Blocks,           \* blocks of the disk
          Data,             \* what a block can hold
          MaxChunks,        \* chunks of the largest request
          None

ASSUME NvmeConstants == SqLen \in Nat /\ SqLen > 1 /\ CqLen \in Nat /\ CqLen > 1
                        /\ Namespaces \in Nat

VARIABLES
  setup,        \* admin commands init_with_queues still has to issue
  pc,           \* main: "idle", "submit", "ring", "wait", "ready"
  cmd,          \* the command the future is about
  comp,         \* the completion block_on returned
  arc,          \* which Arc<Mutex<Option<CompletionMessage>>> the future holds
  message,      \* what is in it
  woken,        \* the unpark token of block_on
  request,      \* the block request that is served
  answer,       \* what the last block request was answered
  channel,      \* of NotifReq, from the future to the reactor
  sq, cq,       \* submission_queues and completion_queues, by queue id
  vector,       \* cqs_for_ivs[0]
  rpc,          \* reactor: "drain", "event", "mask", "poll", "head", "notify"
  todo,         \* queues poll_completion_queues has not finished
  entry,        \* the completion entry it is at
  pending_reqs,
  dsq,          \* controller, by queue: tail doorbell, head, commands it holds
  dcq,          \* controller, by queue: ring, tail, phase, head doorbell
  intr, masked, \* the controller has an interrupt to send; vector 0 is masked
  event,        \* an event for the interrupt is in the event queue
  dma, disk     \* Nvme::buffer and the blocks of the disk

mainVars == <<setup, pc, cmd, arc, message, comp, woken,
              request, answer>>
reactorVars == <<rpc, todo, entry, pending_reqs>>
controllerVars == <<dsq, dcq, intr, event, disk>>
vars == <<mainVars, reactorVars, controllerVars, channel, sq, cq, vector,
          masked, dma>>

Queues == {0, 1}
Lbas == 0 .. Blocks - 1

Commands == [sq : Queues, op : {"admin", "read", "write"}, lba : Nat,
             cid : 0 .. SqLen - 1]
Entries == [sq : Queues, cid : 0 .. SqLen - 1, ok : BOOLEAN,
            sq_head : 0 .. SqLen - 1, phase : {0, 1}]
SubmissionQueues == [data : [0 .. SqLen - 1 -> Commands \cup {None}],
                     tail : 0 .. SqLen - 1, head : 0 .. SqLen - 1]
CompletionQueues == [head : 0 .. CqLen - 1, phase : {0, 1}]

\* None is an empty slot, an empty message, or a queue that is not there.
ASSUME NoneAssumption ==
    None \notin Commands \cup Entries \cup SubmissionQueues \cup CompletionQueues

-----------------------------------------------------------------------------
(* Queues *)

NewSq == [data |-> [i \in 0 .. SqLen - 1 |-> None], tail |-> 0, head |-> 0]
NewCq == [head |-> 0, phase |-> 1]

\* The driver compares without wrapping around.
IsFull(q) == sq[q].head = sq[q].tail + 1

SubmitUnchecked(q, c) ==
    sq' = [sq EXCEPT ![q] = [data |-> [sq[q].data EXCEPT ![sq[q].tail] = c],
                             tail |-> (sq[q].tail + 1) % SqLen,
                             head |-> sq[q].head]]

\* NvmeCompQueue::complete(None): there is a new entry when its phase bit is
\* the one the driver expects.
Fresh(q) == dcq[q].ring[cq[q].head].phase = cq[q].phase

Consumed_PhaseKept(q) ==
    [head |-> (cq[q].head + 1) % CqLen, phase |-> cq[q].phase]

Consumed(q) ==
    LET next == (cq[q].head + 1) % CqLen
    IN  [head  |-> next,
         phase |-> IF next = 0 THEN 1 - cq[q].phase ELSE cq[q].phase]

-----------------------------------------------------------------------------
(* The main thread: commands *)

\* block_on polls the new future at once.
Issue(q, op, lba) ==
    /\ cmd' = [sq |-> q, op |-> op, lba |-> lba, cid |-> None]
    /\ pc' = "submit" /\ woken' = TRUE

Completion(c, a) == [kind |-> "completion", sq |-> c.sq, cid |-> c.cid, arc |-> a]
AvailSubmission(c) == [kind |-> "avail", sq |-> c.sq]

\* CompletionFuture::poll in PendingSubmission.  The lock of the submission
\* queue is taken here and, once the command is submitted, held until the
\* doorbell has rung.
PollSubmission ==
    /\ pc = "submit" /\ woken
    /\ woken' = FALSE
    /\ IF IsFull(cmd.sq)
       THEN /\ channel' = channel \cup {AvailSubmission(cmd)}
            /\ UNCHANGED <<pc, cmd, arc, message, sq>>
       ELSE LET c == [cmd EXCEPT !.cid = sq[cmd.sq].tail]
            IN  /\ cmd' = c
                /\ SubmitUnchecked(cmd.sq, c)
                /\ arc' = 1 - arc /\ message' = None
                /\ channel' = channel \cup {Completion(c, arc')}
                /\ pc' = "ring"
    /\ UNCHANGED <<setup, comp, request, answer, cq, vector, reactorVars,
                   controllerVars, masked, dma>>

\* nvme.submission_queue_tail, and the end of the poll.
RingDoorbell ==
    /\ pc = "ring"
    /\ dsq' = [dsq EXCEPT ![cmd.sq].tail = sq[cmd.sq].tail]
    /\ pc' = "wait"
    /\ UNCHANGED <<setup, cmd, arc, message, comp, woken, request, answer, channel,
                   sq, cq, vector, reactorVars, dcq, intr, event, disk,
                   masked, dma>>

\* CompletionFuture::poll in PendingCompletion.
PollCompletion ==
    /\ pc = "wait" /\ woken
    /\ woken' = FALSE
    /\ comp' = message /\ message' = None
    /\ IF message = None
       THEN channel' = channel \cup {Completion(cmd, arc)} /\ UNCHANGED pc
       ELSE pc' = "ready" /\ UNCHANGED channel
    /\ UNCHANGED <<setup, cmd, arc, request, answer, sq, cq, vector,
                   reactorVars, controllerVars, masked, dma>>

-----------------------------------------------------------------------------
(* The main thread: init_with_queues, then the block requests *)

\* identify_controller, identify_namespace_list, identify_namespace for each
\* namespace, create_io_completion_queue and create_io_submission_queue.
Setup == 2 + Namespaces + 2

othersUnchanged == UNCHANGED <<arc, message, channel, reactorVars,
                               controllerVars, masked>>

\* submit_and_complete_command has returned and its locals are gone.
Return == pc' = "idle" /\ cmd' = None /\ comp' = None

Identify ==
    /\ pc = "idle" /\ setup > 2
    /\ Issue(0, "admin", 0)
    /\ othersUnchanged /\ UNCHANGED <<setup, comp, request, answer, sq, cq, vector, dma>>

Identified ==
    /\ pc = "ready" /\ setup > 2
    /\ setup' = setup - 1 /\ Return
    /\ othersUnchanged /\ UNCHANGED <<woken, request, answer, sq, cq, vector, dma>>

\* The reactor reads cqs_for_ivs and completion_queues under their locks for
\* as long as it polls.
ReactorPolls == rpc \in {"poll", "head", "notify"}

CreateIoCompletionQueue ==
    /\ pc = "idle" /\ setup = 2 /\ ~ReactorPolls
    /\ cq' = [cq EXCEPT ![1] = IF @ = None THEN NewCq ELSE @]
    /\ Issue(0, "admin", 0)
    /\ othersUnchanged /\ UNCHANGED <<setup, comp, request, answer, sq, vector, dma>>

IoCompletionQueueCreated ==
    /\ pc = "ready" /\ setup = 2 /\ ~ReactorPolls
    /\ vector' = Append(vector, 1)
    /\ setup' = setup - 1 /\ Return
    /\ othersUnchanged /\ UNCHANGED <<woken, request, answer, sq, cq, dma>>

CreateIoSubmissionQueue ==
    /\ pc = "idle" /\ setup = 1
    /\ sq' = [sq EXCEPT ![1] = IF @ = None THEN NewSq ELSE @]
    /\ Issue(0, "admin", 0)
    /\ othersUnchanged /\ UNCHANGED <<setup, comp, request, answer, cq, vector, dma>>

IoSubmissionQueueCreated ==
    /\ pc = "ready" /\ setup = 1
    /\ setup' = setup - 1 /\ Return
    /\ othersUnchanged /\ UNCHANGED <<woken, request, answer, sq, cq, vector, dma>>

\* One turn of the loop over the chunks: a write fills the buffer first.
Chunk(r) ==
    /\ Issue(1, IF r.write THEN "write" ELSE "read", r.lba + r.done)
    /\ dma' = IF r.write THEN r.buf[r.done + 1] ELSE dma

Requests ==
    [write : BOOLEAN, lba : Lbas, done : {0},
     buf : UNION {[1..n -> Data] : n \in 1..MaxChunks}]

\* namespace_read or namespace_write for a block request of the scheme.
NamespaceRw ==
    /\ pc = "idle" /\ setup = 0
    /\ \E r \in Requests :
          /\ r.write \/ r.buf = [i \in DOMAIN r.buf |-> CHOOSE d \in Data : TRUE]
          /\ request' = r /\ Chunk(r)
    /\ answer' = "none"
    /\ othersUnchanged /\ UNCHANGED <<setup, comp, sq, cq, vector>>

\* The rest of the turn, when the command has succeeded.
ChunkDone ==
    /\ pc = "ready" /\ setup = 0 /\ comp.ok
    /\ LET r == [request EXCEPT
                   !.buf = IF request.write THEN @
                           ELSE [@ EXCEPT ![request.done + 1] = dma],
                   !.done = @ + 1]
       IN  /\ request' = r
           /\ IF r.done < Len(r.buf)
              THEN Chunk(r) /\ UNCHANGED <<answer, comp>>
              ELSE Return /\ answer' = "Ok" /\ UNCHANGED <<woken, dma>>
    /\ othersUnchanged /\ UNCHANGED <<setup, sq, cq, vector>>

ChunkFailed_Unchecked ==
    /\ pc = "ready" /\ setup = 0 /\ ~comp.ok
    /\ Return /\ answer' = "Ok"
    /\ othersUnchanged /\ UNCHANGED <<setup, woken, request, sq, cq, vector, dma>>

\* EIO ends the request.
ChunkFailed ==
    /\ pc = "ready" /\ setup = 0 /\ ~comp.ok
    /\ Return /\ answer' = "EIO"
    /\ othersUnchanged /\ UNCHANGED <<setup, woken, request, sq, cq, vector, dma>>

Main == PollSubmission \/ RingDoorbell \/ PollCompletion
        \/ Identify \/ Identified
        \/ CreateIoCompletionQueue \/ IoCompletionQueueCreated
        \/ CreateIoSubmissionQueue \/ IoSubmissionQueueCreated
        \/ NamespaceRw \/ ChunkDone \/ ChunkFailed

-----------------------------------------------------------------------------
(* The reactor *)

mainUnchanged == UNCHANGED <<mainVars, sq, vector, dsq, disk, dma>>

Drained_NewOnly == channel

\* handle_notif_reqs_raw moves every request of the channel.
Drained == pending_reqs \cup channel

\* The head of the loop of run: with nothing pending, it blocks on the channel.
HandleNotifReqs ==
    /\ rpc = "drain"
    /\ pending_reqs = {} => channel # {}
    /\ pending_reqs' = Drained /\ channel' = {}
    /\ rpc' = "event"
    /\ mainUnchanged
    /\ UNCHANGED <<cq, todo, entry, dcq, intr, event, masked>>

\* The event is read, then the interrupt handle is read and acknowledged.
TakeEvent ==
    /\ rpc = "event" /\ event
    /\ event' = FALSE /\ rpc' = "mask"
    /\ mainUnchanged
    /\ UNCHANGED <<channel, cq, todo, entry, pending_reqs, dcq, intr, masked>>

Mask ==
    /\ rpc = "mask"
    /\ masked' = TRUE
    /\ todo' = vector /\ rpc' = "poll"
    /\ mainUnchanged /\ UNCHANGED <<channel, cq, entry, pending_reqs, dcq, intr, event>>

\* poll_completion_queues: take an entry and ring the doorbell of the queue.
Complete ==
    /\ rpc = "poll" /\ todo # <<>> /\ Fresh(Head(todo))
    /\ LET q == Head(todo)
       IN  /\ entry' = dcq[q].ring[cq[q].head]
           /\ cq' = [cq EXCEPT ![q] = Consumed(q)]
           /\ dcq' = [dcq EXCEPT ![q] = [ring |-> dcq[q].ring, tail |-> dcq[q].tail,
                                         phase |-> dcq[q].phase,
                                         head |-> Consumed(q).head]]
    /\ rpc' = "head"
    /\ mainUnchanged
    /\ UNCHANGED <<channel, todo, pending_reqs, intr, event, masked>>

QueueEmpty ==
    /\ rpc = "poll" /\ todo # <<>> /\ ~Fresh(Head(todo))
    /\ todo' = Tail(todo)
    /\ mainUnchanged
    /\ UNCHANGED <<channel, cq, rpc, entry, pending_reqs, dcq, intr, event, masked>>

SetHead_NoDrain ==
    /\ rpc = "head"
    /\ ~(pc = "ring" /\ cmd.sq = entry.sq)
    /\ sq' = [sq EXCEPT ![entry.sq].head = entry.sq_head]
    /\ rpc' = "notify"
    /\ UNCHANGED <<mainVars, vector, dsq, disk, dma, cq, todo, entry, dcq,
                   channel, pending_reqs, intr, event, masked>>

SetHead_NotSet ==
    /\ rpc = "head"
    /\ ~(pc = "ring" /\ cmd.sq = entry.sq)
    /\ pending_reqs' = Drained /\ channel' = {}
    /\ rpc' = "notify"
    /\ UNCHANGED <<mainVars, sq, vector, dsq, disk, dma, cq, todo, entry, dcq,
                   intr, event, masked>>

\* Under the lock of the submission queue.
SetHead ==
    /\ rpc = "head"
    /\ ~(pc = "ring" /\ cmd.sq = entry.sq)
    /\ sq' = [sq EXCEPT ![entry.sq].head = entry.sq_head]
    /\ pending_reqs' = Drained /\ channel' = {}
    /\ rpc' = "notify"
    /\ UNCHANGED <<mainVars, vector, dsq, disk, dma, cq, todo, entry, dcq,
                   intr, event, masked>>

\* finish_pending_completion and finish_pending_avail_submission.
Matches(r) ==
    /\ r.sq = entry.sq
    /\ r.kind = "completion" => Head(todo) = entry.sq /\ r.cid = entry.cid

TryNotifyFutures_Keeps ==
    /\ rpc = "notify"
    /\ LET notified == {r \in pending_reqs : Matches(r)}
       IN  /\ woken' = (woken \/ notified # {})
           /\ message' = IF \E r \in notified : r.kind = "completion" /\ r.arc = arc
                         THEN entry ELSE message
    /\ rpc' = "poll" /\ entry' = None
    /\ UNCHANGED <<setup, pc, cmd, arc, comp, request, answer, sq, cq, vector,
                   channel, todo, pending_reqs, controllerVars, masked, dma>>

TryNotifyFutures ==
    /\ rpc = "notify"
    /\ pending_reqs' = {r \in pending_reqs : ~Matches(r)}
    /\ LET notified == {r \in pending_reqs : Matches(r)}
       IN  /\ woken' = (woken \/ notified # {})
           /\ message' = IF \E r \in notified : r.kind = "completion" /\ r.arc = arc
                         THEN entry ELSE message
    /\ rpc' = "poll" /\ entry' = None
    /\ UNCHANGED <<setup, pc, cmd, arc, comp, request, answer, sq, cq, vector,
                   channel, todo, controllerVars, masked, dma>>

Unmask ==
    /\ rpc = "poll" /\ todo = <<>>
    /\ masked' = FALSE
    /\ rpc' = "drain"
    /\ mainUnchanged
    /\ UNCHANGED <<channel, cq, todo, entry, pending_reqs, dcq, intr, event>>

Reactor == HandleNotifReqs \/ TakeEvent \/ Mask \/ Complete \/ QueueEmpty
           \/ SetHead \/ TryNotifyFutures \/ Unmask

-----------------------------------------------------------------------------
(* The controller and the kernel's interrupt and event queues *)

driverUnchanged == UNCHANGED <<mainVars, reactorVars, channel, cq, vector, masked>>

\* An entry that was fetched is not looked at again.
Fetch(q) ==
    /\ dsq[q].head # dsq[q].tail
    /\ dsq' = [dsq EXCEPT ![q] = [tail |-> dsq[q].tail,
                                  head |-> (dsq[q].head + 1) % SqLen,
                                  held |-> dsq[q].held \cup {sq[q].data[dsq[q].head]}]]
    /\ sq' = [sq EXCEPT ![q].data = [@ EXCEPT ![dsq[q].head] = None]]
    /\ driverUnchanged /\ UNCHANGED <<dcq, intr, event, disk, dma>>

\* A command is executed and its completion posted.
Execute(q, c, ok) ==
    /\ dsq' = [dsq EXCEPT ![q] = [tail |-> dsq[q].tail, head |-> dsq[q].head,
                                  held |-> dsq[q].held \ {c}]]
    /\ dcq' = [dcq EXCEPT ![q] =
         [ring  |-> [dcq[q].ring EXCEPT ![dcq[q].tail] =
                       [sq |-> q, cid |-> c.cid, ok |-> ok,
                        sq_head |-> dsq[q].head, phase |-> dcq[q].phase]],
          tail  |-> (dcq[q].tail + 1) % CqLen,
          phase |-> IF dcq[q].tail + 1 = CqLen
                    THEN 1 - dcq[q].phase ELSE dcq[q].phase,
          head  |-> dcq[q].head]]
    /\ disk' = IF ok /\ c.op = "write" THEN [disk EXCEPT ![c.lba] = dma] ELSE disk
    /\ dma' = IF ok /\ c.op = "read" THEN disk[c.lba] ELSE dma

\* I/O may fail, and does when the block does not exist; the admin commands
\* of the start succeed, as the driver takes for granted.
Post(q) ==
    /\ (dcq[q].tail + 1) % CqLen # dcq[q].head
    /\ \E c \in dsq[q].held, ok \in BOOLEAN :
          /\ IF c.op = "admin" THEN ok ELSE c.lba \notin Lbas => ~ok
          /\ Execute(q, c, ok)
    /\ intr' = TRUE
    /\ driverUnchanged /\ UNCHANGED <<sq, event>>

\* The message is sent when the vector is not masked, and later if it is.
Interrupt ==
    /\ intr /\ ~masked
    /\ intr' = FALSE /\ event' = TRUE
    /\ driverUnchanged /\ UNCHANGED <<sq, dsq, dcq, disk, dma>>

\* The line of INTx# is shared: another device has raised it.
OtherInterrupt ==
    /\ ~event
    /\ event' = TRUE
    /\ driverUnchanged /\ UNCHANGED <<sq, dsq, dcq, intr, disk, dma>>

Controller == Interrupt \/ OtherInterrupt
              \/ \E q \in Queues : Fetch(q) \/ Post(q)

-----------------------------------------------------------------------------
EmptyEntry == [sq |-> 0, cid |-> 0, ok |-> TRUE, sq_head |-> 0, phase |-> 0]

Init ==
    /\ setup = Setup /\ pc = "idle" /\ cmd = None /\ arc = 0
    /\ message = None /\ comp = None /\ woken = FALSE
    /\ request = None /\ answer = "none"
    /\ channel = {}
    /\ sq = [q \in Queues |-> IF q = 0 THEN NewSq ELSE None]
    /\ cq = [q \in Queues |-> IF q = 0 THEN NewCq ELSE None]
    /\ vector = <<0>>
    /\ rpc = "drain" /\ todo = <<>> /\ entry = None /\ pending_reqs = {}
    /\ dsq = [q \in Queues |-> [tail |-> 0, head |-> 0, held |-> {}]]
    /\ dcq = [q \in Queues |-> [ring |-> [i \in 0 .. CqLen - 1 |-> EmptyEntry],
                                tail |-> 0, phase |-> 1, head |-> 0]]
    /\ intr = FALSE /\ masked = FALSE /\ event = FALSE
    /\ disk \in [Lbas -> Data] /\ dma \in Data

Next == Main \/ Reactor \/ Controller

Spec == Init /\ [][Next]_vars

\* The threads run, and the controller serves its queues and its interrupts.
Fairness ==
    /\ WF_vars(Main) /\ WF_vars(Reactor) /\ WF_vars(Interrupt)
    /\ \A q \in Queues : WF_vars(Fetch(q)) /\ WF_vars(Post(q))

FairSpec == Spec /\ Fairness

-----------------------------------------------------------------------------
\* The phase bit tells a new completion entry from one of the round before:
\* the driver sees an entry exactly when the controller has posted one that
\* was not taken (NvmeCompQueue::complete).
FreshIsPosted ==
    \A q \in Queues : cq[q] # None => (Fresh(q) <=> cq[q].head # dcq[q].tail)

\* When a command is about to be submitted, the controller holds none of its
\* queue and has fetched all of them: the slot is free and the command id,
\* which is the slot, names no other command (CompletionFuture::poll).
SlotIsFree ==
    pc = "submit" => /\ sq[cmd.sq].head = sq[cmd.sq].tail
                     /\ dsq[cmd.sq].head = sq[cmd.sq].tail
                     /\ dsq[cmd.sq].held = {}

\* When block_on returns, the controller is done with the command, and no
\* request to be notified is left over for a later command with its id.
DoneWhenReady ==
    pc \in {"idle", "ready"} => /\ \A q \in Queues : dsq[q].held = {}
                                /\ pending_reqs = {} /\ channel = {}

\* A block request answered with its length moved the data: the blocks of
\* the disk are those of the buffer (namespace_read, namespace_write).
OkMeansMoved ==
    answer = "Ok" => \A i \in 1 .. Len(request.buf) :
                        disk[request.lba + i - 1] = request.buf[i]

\* Every command that is submitted completes: no completion is taken by the
\* reactor before the request to be notified has reached it, and none stays
\* in the queue without an interrupt (CqReactor::run, poll_completion_queues).
CommandsComplete == pc = "submit" ~> pc = "ready"

-----------------------------------------------------------------------------
(* An inductive invariant, for rings of any length.  The one thread that   *)
(* submits commands, the reactor and the controller agree on the queues.   *)
(* A command is at one place at a time; Shape lists the places, in the     *)
(* order in which a command goes through them.                             *)

Idx == 0 .. SqLen - 1
Cdx == 0 .. CqLen - 1

Types ==
    /\ setup \in 0 .. Setup
    /\ arc \in {0, 1}
    /\ sq \in [Queues -> SubmissionQueues \cup {None}] /\ sq[0] # None
    /\ cq \in [Queues -> CompletionQueues \cup {None}] /\ cq[0] # None
    /\ dsq \in [Queues -> [tail : Idx, head : Idx, held : SUBSET Commands]]
    /\ dcq \in [Queues -> [ring : [Cdx -> Entries], tail : Cdx, phase : {0, 1}, head : Cdx]]
    /\ vector \in Seq(Queues) /\ todo \in Seq(Queues)
    /\ \A i \in 1 .. Len(vector) : cq[vector[i]] # None
    /\ \A i \in 1 .. Len(todo) : cq[todo[i]] # None
    /\ pc \in {"idle", "submit", "ring", "wait", "ready"}
    /\ rpc \in {"drain", "event", "mask", "poll", "head", "notify"}

\* The queues a step of the main thread needs are there.
QueuesMade ==
    /\ setup < 2 \/ (setup = 2 /\ pc # "idle") => cq[1] # None
    /\ setup = 0 \/ (setup = 1 /\ pc # "idle") => sq[1] # None
    /\ pc # "idle" => cmd.sq \in Queues /\ sq[cmd.sq] # None /\ cq[cmd.sq] # None

\* The phase bits of the ring: those before the tail are of this round.
RingPhases ==
    \A q \in Queues : \A i \in Cdx :
       dcq[q].ring[i].phase = IF i < dcq[q].tail THEN dcq[q].phase ELSE 1 - dcq[q].phase

\* Nothing is in the completion queue, or in the submission queue.
CqIdle(q) == IF cq[q] # None
             THEN cq[q].head = dcq[q].tail /\ cq[q].phase = dcq[q].phase
             ELSE dcq[q].tail = 0 /\ dcq[q].phase = 1
SqIdle(q) == /\ dsq[q].head = dsq[q].tail /\ dsq[q].held = {}
             /\ IF sq[q] # None
                THEN sq[q].head = sq[q].tail /\ dsq[q].tail = sq[q].tail
                ELSE dsq[q].tail = 0

Quiet == rpc \notin {"head", "notify"}

\* A completion without an error: the block and the buffer are the same.
Moved(e) == e.ok /\ cmd.op # "admin" => cmd.lba \in Lbas /\ disk[cmd.lba] = dma

\* No command is on its way.
Between ==
    /\ pc \in {"idle", "submit", "ready"} /\ Quiet
    /\ \A q \in Queues : SqIdle(q) /\ CqIdle(q)
    /\ message = None
    /\ channel = {} /\ pending_reqs = {}
    /\ pc = "ready" => Moved(comp)

\* What holds of the command on its way until the reactor notifies the future.
UnderWay ==
    /\ cmd \in Commands
    /\ \A q \in Queues : q # cmd.sq => SqIdle(q) /\ CqIdle(q)
    /\ sq[cmd.sq].tail = (cmd.cid + 1) % SqLen

Unnotified ==
    /\ UnderWay /\ sq[cmd.sq].head = cmd.cid /\ message = None /\ ~woken
    /\ pending_reqs \cup channel = {Completion(cmd, arc)}

AtSlot == sq[cmd.sq].data[cmd.cid] = cmd

\* The completion entry e answers the command.
Answers(e) ==
    /\ e \in Entries
    /\ e.sq = cmd.sq /\ e.cid = cmd.cid /\ e.sq_head = sq[cmd.sq].tail
    /\ Moved(e)

Ringing ==
    /\ pc = "ring" /\ Quiet /\ Unnotified /\ AtSlot /\ CqIdle(cmd.sq)
    /\ dsq[cmd.sq] = [tail |-> cmd.cid, head |-> cmd.cid, held |-> {}]

Rung ==
    /\ pc = "wait" /\ Quiet /\ Unnotified /\ AtSlot /\ CqIdle(cmd.sq)
    /\ dsq[cmd.sq] = [tail |-> sq[cmd.sq].tail, head |-> cmd.cid, held |-> {}]

Fetched ==
    /\ pc = "wait" /\ Quiet /\ Unnotified /\ CqIdle(cmd.sq)
    /\ dsq[cmd.sq] = [tail |-> sq[cmd.sq].tail, head |-> sq[cmd.sq].tail, held |-> {cmd}]

SqServed == dsq[cmd.sq] = [tail |-> sq[cmd.sq].tail, head |-> sq[cmd.sq].tail, held |-> {}]

Posted ==
    /\ pc = "wait" /\ Quiet /\ Unnotified /\ SqServed
    /\ dcq[cmd.sq].tail = (cq[cmd.sq].head + 1) % CqLen
    /\ dcq[cmd.sq].phase = IF dcq[cmd.sq].tail = 0 THEN 1 - cq[cmd.sq].phase ELSE cq[cmd.sq].phase
    /\ Answers(dcq[cmd.sq].ring[cq[cmd.sq].head])

Taken ==
    /\ pc = "wait" /\ rpc = "head" /\ Unnotified /\ SqServed /\ CqIdle(cmd.sq)
    /\ Answers(entry) /\ todo # <<>> /\ Head(todo) = cmd.sq

Headed ==
    /\ pc = "wait" /\ rpc = "notify" /\ SqServed /\ CqIdle(cmd.sq)
    /\ UnderWay /\ sq[cmd.sq].head = sq[cmd.sq].tail /\ message = None /\ ~woken
    /\ channel = {} /\ pending_reqs = {Completion(cmd, arc)}
    /\ Answers(entry) /\ todo # <<>> /\ Head(todo) = cmd.sq

Notified ==
    /\ pc = "wait" /\ Quiet /\ SqServed /\ CqIdle(cmd.sq)
    /\ UnderWay /\ sq[cmd.sq].head = sq[cmd.sq].tail /\ message # None /\ Moved(message)
    /\ channel = {} /\ pending_reqs = {}

Shape == Between \/ Ringing \/ Rung \/ Fetched \/ Posted \/ Taken \/ Headed \/ Notified

RequestType == [write : BOOLEAN, lba : Nat, done : Nat, buf : Seq(Data)]
Unsubmitted == [sq : Queues, op : {"admin", "read", "write"}, lba : Nat, cid : {None}]

\* The first n chunks of the request are on the disk.
OnDisk(n) ==
    \A i \in 1 .. n : /\ request.lba + i - 1 \in Lbas
                       /\ disk[request.lba + i - 1] = request.buf[i]

\* How far the block request has come.
Progress ==
    /\ disk \in [Lbas -> Data] /\ dma \in Data
    /\ pc = "submit" => cmd \in Unsubmitted
    /\ setup # 0 => answer = "none" /\ (pc # "idle" => cmd.op = "admin")
    /\ setup = 0 /\ pc # "idle" =>
          /\ request \in RequestType /\ request.done < Len(request.buf)
          /\ cmd.op = (IF request.write THEN "write" ELSE "read")
          /\ cmd.lba = request.lba + request.done
          /\ request.write => dma = request.buf[request.done + 1]
          /\ OnDisk(request.done)
          /\ answer = "none"
    /\ answer = "Ok" => request \in RequestType /\ OnDisk(Len(request.buf))

\* The invariant that the proofs rest on: the command is at one of its places,
\* the queues of the driver and of the controller agree about it, the phase
\* bits are those of the round, and the request has come as far as it says.
IInv == Types /\ QueuesMade /\ RingPhases /\ Progress /\ Shape
=============================================================================
