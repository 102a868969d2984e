------------------------------ MODULE VirtQueue ------------------------------
(***************************************************************************)
(* virtio-core: one split virtqueue.  The tasks of a driver send chains of *)
(* buffers and await their completion, the device answers them in any      *)
(* order, and the interrupt thread wakes the tasks that wait.  The tasks   *)
(* share one executor: they interleave where a future is polled, with the  *)
(* device and the interrupt thread anywhere.                               *)
(***************************************************************************)
EXTENDS Naturals, Sequences, FiniteSets, SequencesExt

CONSTANTS Tasks,
          QueueSize,    \* descriptors in the table, a power of two
          IndexSpan,    \* 2^16, a multiple of QueueSize: the ring indices wrap around there
          ChainLens,    \* numbers of buffers a driver chains, at most QueueSize
          None          \* no descriptor

VARIABLES descriptor_stack,   \* the free descriptors, first in first out
          next,               \* descriptor table: the next one, or None
          avail, avail_idx,   \* available ring and its head index
          used, used_idx,     \* used ring and its head index
          used_head,          \* how far the driver has looked at the used ring
          waker,              \* set of <<first descriptor, task>>
          state,              \* of each task
          first,              \* first descriptor of the request of each task
          woken,              \* tasks with an unused wake-up
          held,               \* chains the device has taken and not answered
          taken,              \* how far the device has looked at avail
          irq,                \* an interrupt is on its way
          panicked            \* descriptor_stack.pop().unwrap() failed

Descriptors == 0 .. QueueSize - 1

driverVars == <<descriptor_stack, next, avail, avail_idx, used_head, waker,
                state, first, panicked>>
deviceVars == <<used, used_idx, held, taken>>
vars == <<driverVars, deviceVars, woken, irq>>

Advance(i) == (i + 1) % IndexSpan
Slot(i) == i % QueueSize

\* The descriptors of the chain that starts at d, in order.  A chain is at
\* most as long as the table.
Chain(d) ==
    LET walk[n \in 0..QueueSize] ==
          IF n = 0 THEN <<d>>
          ELSE LET w == walk[n - 1]
               IN  IF next[Last(w)] = None THEN w ELSE Append(w, next[Last(w)])
    IN  walk[QueueSize - 1]

-----------------------------------------------------------------------------
(* The driver *)

\* set_flags and set_next along the chain: only the last has no NEXT flag.
Link(ds) ==
    [d \in Descriptors |->
        CASE \E i \in 1 .. Len(ds) - 1 : ds[i] = d ->
               ds[CHOOSE i \in 2 .. Len(ds) : ds[i - 1] = d]
          [] d = Last(ds) -> None
          [] OTHER -> next[d]]

Send(t) ==
    /\ state[t] = "idle" /\ ~panicked
    /\ \E n \in ChainLens :
         IF n > Len(descriptor_stack)
         THEN /\ panicked' = TRUE
              /\ UNCHANGED <<descriptor_stack, next, avail, avail_idx, first, state>>
         ELSE LET ds == SubSeq(descriptor_stack, 1, n)
              IN  /\ descriptor_stack' = SubSeq(descriptor_stack, n + 1, Len(descriptor_stack))
                  /\ next' = Link(ds)
                  /\ avail' = [avail EXCEPT ![Slot(avail_idx)] = ds[1]]
                  /\ avail_idx' = Advance(avail_idx)
                  /\ first' = [first EXCEPT ![t] = ds[1]]
                  /\ state' = [state EXCEPT ![t] = "register"]
                  /\ UNCHANGED panicked
    /\ UNCHANGED <<deviceVars, used_head, waker, woken, irq>>

\* PendingRequest::poll, up to the insertion of the waker.
PollRegister(t) ==
    /\ state[t] = "register"
    /\ waker' = {w \in waker : w[1] # first[t]} \cup {<<first[t], t>>}
    /\ state' = [state EXCEPT ![t] = "check"]
    /\ UNCHANGED <<descriptor_stack, next, avail, avail_idx, used_head, first,
                   panicked, deviceVars, woken, irq>>

\* Only the last element of the used ring is looked at.
Completed(t) == /\ used_idx # used_head
                /\ used[Slot(used_idx + IndexSpan - 1)] = first[t]

Recycle(t) == descriptor_stack' = descriptor_stack \o Chain(first[t])

PollReady(t) ==
    /\ state[t] = "check"
    /\ Completed(t)
    /\ Recycle(t)
    /\ waker' = {w \in waker : w[1] # first[t]}
    /\ used_head' = used_idx
    /\ state' = [state EXCEPT ![t] = "idle"]
    /\ first' = [first EXCEPT ![t] = None]
    /\ woken' = woken \ {t}
    /\ UNCHANGED <<next, avail, avail_idx, panicked, deviceVars, irq>>

PollPending(t) ==
    /\ state[t] = "check"
    /\ ~Completed(t)
    /\ state' = [state EXCEPT ![t] = "parked"]
    /\ UNCHANGED <<descriptor_stack, next, avail, avail_idx, used_head, waker,
                   first, panicked, deviceVars, woken, irq>>

\* The executor polls a task that was woken.
Unpark(t) ==
    /\ state[t] = "parked" /\ t \in woken
    /\ woken' = woken \ {t}
    /\ state' = [state EXCEPT ![t] = "register"]
    /\ UNCHANGED <<descriptor_stack, next, avail, avail_idx, used_head, waker,
                   first, panicked, deviceVars, irq>>

\* spawn_irq_thread: every registered task is woken.
IrqThread ==
    /\ irq
    /\ irq' = FALSE
    /\ woken' = woken \cup {w[2] : w \in waker}
    /\ UNCHANGED <<driverVars, deviceVars>>

-----------------------------------------------------------------------------
(* The device *)

DeviceTake ==
    /\ taken # avail_idx
    /\ held' = held \cup {avail[Slot(taken)]}
    /\ taken' = Advance(taken)
    /\ UNCHANGED <<driverVars, used, used_idx, woken, irq>>

DeviceComplete ==
    /\ \E d \in held : /\ held' = held \ {d}
                       /\ used' = [used EXCEPT ![Slot(used_idx)] = d]
    /\ used_idx' = Advance(used_idx)
    /\ irq' = TRUE
    /\ UNCHANGED <<driverVars, taken, woken>>

-----------------------------------------------------------------------------
Init ==
    /\ descriptor_stack = [i \in 1..QueueSize |-> i - 1]
    /\ next = [d \in Descriptors |-> None]
    /\ avail = [i \in Descriptors |-> None] /\ avail_idx = 0
    /\ used = [i \in Descriptors |-> None] /\ used_idx = 0
    /\ used_head = 0
    /\ waker = {} /\ woken = {}
    /\ state = [t \in Tasks |-> "idle"]
    /\ first = [t \in Tasks |-> None]
    /\ held = {} /\ taken = 0
    /\ irq = FALSE /\ panicked = FALSE

Poll(t) == PollRegister(t) \/ PollReady(t) \/ PollPending(t) \/ Unpark(t)

Next == \/ \E t \in Tasks : Send(t) \/ Poll(t)
        \/ IrqThread \/ DeviceTake \/ DeviceComplete

\* The executor polls woken tasks, the interrupt thread runs, and the device
\* answers what it was given.  Nobody has to send.
Fairness == /\ \A t \in Tasks : WF_vars(Poll(t))
            /\ WF_vars(IrqThread) /\ WF_vars(DeviceTake) /\ WF_vars(DeviceComplete)

Spec == Init /\ [][Next]_vars /\ Fairness

-----------------------------------------------------------------------------
Waiting(t) == state[t] # "idle"

\* Chains made available and not taken yet.
Offered == {avail[Slot(taken + i)] :
              i \in 0 .. ((avail_idx + IndexSpan - taken) % IndexSpan) - 1}

\* Every descriptor is free or belongs to the request of exactly one task:
\* none is handed out twice and none is lost (send, poll).
DescriptorsConserved ==
    LET chains == [t \in {u \in Tasks : Waiting(u)} |-> Chain(first[t])]
        all == FoldSet(LAMBDA t, s : s \o chains[t], descriptor_stack, DOMAIN chains)
    IN  Len(all) = QueueSize /\ ToSet(all) = Descriptors

\* The memory the device may still write is never free for another request:
\* a request is over for its task only after the device answered it (poll).
DeviceOwnsItsChains ==
    \A d \in held \cup Offered : ToSet(Chain(d)) \cap ToSet(descriptor_stack) = {}

\* A task that sleeps for good has nothing to collect: registering the waker
\* before the check "avoid[s] the race condition where you lose a
\* notification" (PendingRequest::poll).
NoLostNotification ==
    \A t \in Tasks :
        (state[t] = "parked" /\ t \notin woken /\ ~irq) => ~Completed(t)

\* "The function returns a future that must be awaited to ensure the sent
\* request is completed": an awaited request completes.
AwaitedRequestCompletes == \A t \in Tasks : Waiting(t) ~> ~Waiting(t)
=============================================================================
