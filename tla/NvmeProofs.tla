--------------------------- MODULE NvmeProofs ---------------------------
(* What the invariant of nvmed establishes. *)
EXTENDS NvmeMainProofs, NvmeReactorProofs

USE NvmeConstants, NoneAssumption

\* The submission queue that is not idle is that of the command.
LEMMA BusyQueue ==
  ASSUME IInv, ~Between, NEW q \in Queues, ~SqIdle(q)
  PROVE  q = cmd.sq
BY DEF IInv, Shape, Ringing, Rung, Fetched, Posted, Taken, Headed, Notified,
       Unnotified, UnderWay

\* From Rung to Fetched.
LEMMA FetchStep == ASSUME IInv, NEW q \in Queues, Fetch(q) PROVE IInv'
<1>. USE DEF Fetch, driverUnchanged, mainVars, reactorVars
<1>0. Rung /\ q = cmd.sq
  <2>1. ~SqIdle(q)
    BY DEF SqIdle
  <2>2. ~Between
    BY <2>1 DEF Between
  <2>3. q = cmd.sq
    BY SMTT(30), <2>1, <2>2, BusyQueue
  <2>4. ~Ringing /\ ~Fetched /\ ~SqServed
    BY SMTT(90), <2>3 DEF Ringing, Fetched, SqServed
  <2>. QED
    BY <2>2, <2>3, <2>4 DEF IInv, Shape, Posted, Taken, Headed, Notified
<1>1. /\ sq \in [Queues -> SubmissionQueues \cup {None}] /\ sq[q] # None
      /\ dsq \in [Queues -> [tail : Idx, head : Idx, held : SUBSET Commands]]
      /\ sq[q] \in SubmissionQueues
  BY <1>0 DEF IInv, Types, QueuesMade, Rung
<1>2. /\ cmd \in Commands /\ cmd.cid \in Idx
      /\ dsq[q].head = cmd.cid /\ dsq[q].tail = sq[q].tail /\ dsq[q].held = {}
      /\ sq[q].data[cmd.cid] = cmd /\ sq[q].tail = (cmd.cid + 1) % SqLen
      /\ sq[q].tail \in Idx
  BY <1>0, <1>1 DEF Rung, Unnotified, UnderWay, AtSlot, Commands, SubmissionQueues, Idx
<1>3. dsq' = [dsq EXCEPT ![q] = [tail |-> sq[q].tail, head |-> sq[q].tail, held |-> {cmd}]]
  BY <1>2
<1>4. /\ dsq' \in [Queues -> [tail : Idx, head : Idx, held : SUBSET Commands]]
      /\ dsq'[q] = [tail |-> sq[q].tail, head |-> sq[q].tail, held |-> {cmd}]
      /\ \A x \in Queues : x # q => dsq'[x] = dsq[x]
  BY <1>1, <1>2, <1>3
<1>5. /\ sq' \in [Queues -> SubmissionQueues \cup {None}] /\ sq'[q] # None
      /\ sq'[q].tail = sq[q].tail /\ sq'[q].head = sq[q].head
      /\ \A x \in Queues : x # q => sq'[x] = sq[x]
  <2>. DEFINE n == [sq[q] EXCEPT !.data = [@ EXCEPT ![dsq[q].head] = None]]
  <2>1. n \in SubmissionQueues /\ n.tail = sq[q].tail /\ n.head = sq[q].head
    BY Zenon, <1>1, <1>2 DEF SubmissionQueues
  <2>2. sq' = [sq EXCEPT ![q] = n]
    BY <1>1
  <2>. QED
    BY Zenon, <1>1, <2>1, <2>2
<1>6. Types'
  <2>1. sq[0] # None => sq'[0] # None
    BY <1>5 DEF Queues
  <2>. QED
    BY Zenon, <1>4, <1>5, <2>1 DEF IInv, Types
<1>7. QueuesMade' /\ RingPhases'
  BY SMTT(90), <1>1, <1>5 DEF IInv, QueuesMade, RingPhases, Queues
<1>8. Progress'
  BY SMTT(30) DEF IInv, Progress, OnDisk
<1>9. UnderWay'
  BY Zenon, <1>0, <1>4, <1>5, UnderWayFrame DEF Rung, Unnotified
<1>10. Unnotified'
  BY Zenon, <1>0, <1>5, <1>9 DEF Rung, Unnotified, Completion
<1>11. Fetched'
  BY Zenon, <1>0, <1>4, <1>5, <1>10 DEF Rung, Fetched, CqIdle, Quiet
<1>. QED
  BY SMTT(30), <1>6, <1>7, <1>8, <1>11 DEF IInv, Shape

\* From Fetched to Posted.
LEMMA PostStep == ASSUME IInv, NEW q \in Queues, Post(q) PROVE IInv'
<1>. USE DEF driverUnchanged, mainVars, reactorVars
<1>0. PICK c \in dsq[q].held, ok \in BOOLEAN :
          /\ IF c.op = "admin" THEN ok ELSE c.lba \notin Lbas => ~ok
          /\ Execute(q, c, ok)
  BY DEF Post
<1>1. Fetched /\ q = cmd.sq /\ c = cmd /\ dsq[q].held = {cmd}
  <2>1. ~SqIdle(q)
    BY <1>0 DEF SqIdle
  <2>2. ~Between
    BY <2>1 DEF Between
  <2>3. q = cmd.sq
    BY <2>1, <2>2, BusyQueue
  <2>4. ~Ringing /\ ~Rung /\ ~SqServed
    BY SMTT(30), <1>0, <2>3 DEF Ringing, Rung, SqServed
  <2>5. Fetched
    BY SMTT(30), <2>2, <2>3, <2>4 DEF IInv, Shape, Posted, Taken, Headed, Notified
  <2>. QED
    BY <1>0, <2>3, <2>5 DEF Fetched
<1>a. /\ dsq[q].tail = sq[q].tail /\ dsq[q].head = sq[q].tail
      /\ cmd \in Commands /\ cmd.cid \in Idx /\ sq[q].tail \in Idx
      /\ cmd.op \in {"admin", "read", "write"}
  BY SMTT(30), <1>1 DEF Fetched, Unnotified, UnderWay, Commands, Idx
<1>2. /\ dsq \in [Queues -> [tail : Idx, head : Idx, held : SUBSET Commands]]
      /\ dcq \in [Queues -> [ring : [Cdx -> Entries], tail : Cdx, phase : {0, 1}, head : Cdx]]
      /\ cq[q] # None /\ CqIdle(q)
      /\ UNCHANGED <<mainVars, reactorVars, channel, cq, vector, sq>>
  BY SMTT(30), <1>1 DEF IInv, Types, QueuesMade, Fetched, Post
<1>3. /\ dsq' \in [Queues -> [tail : Idx, head : Idx, held : SUBSET Commands]]
      /\ dsq'[q] = [tail |-> sq[q].tail, head |-> sq[q].tail, held |-> {}]
      /\ \A x \in Queues : x # q => dsq'[x] = dsq[x]
  <2>1. dsq' = [dsq EXCEPT ![q] = [tail |-> sq[q].tail, head |-> sq[q].tail, held |-> {}]]
    <3>1. dsq[q].held \ {c} = {}
      BY <1>1
    <3>. QED
      BY Zenon, <1>0, <1>a, <3>1 DEF Execute
  <2>. QED
    BY <1>2, <1>a, <2>1
<1>. DEFINE t == dcq[q].tail
            e == [sq |-> q, cid |-> cmd.cid, ok |-> ok, sq_head |-> sq[q].tail,
                  phase |-> dcq[q].phase]
            d == [ring  |-> [dcq[q].ring EXCEPT ![t] = e],
                  tail  |-> (t + 1) % CqLen,
                  phase |-> IF t + 1 = CqLen THEN 1 - dcq[q].phase ELSE dcq[q].phase,
                  head  |-> dcq[q].head]
<1>5. t \in Cdx /\ dcq[q].ring \in [Cdx -> Entries] /\ dcq[q].phase \in {0, 1}
      /\ dcq[q].head \in Cdx
  BY <1>2
<1>4. e \in Entries
  BY <1>5, <1>a DEF Entries, Idx
<1>6. dcq' = [dcq EXCEPT ![q] = d]
  BY <1>0, <1>1, <1>a DEF Execute
<1>7. /\ d.ring \in [Cdx -> Entries] /\ d.tail \in Cdx /\ d.phase \in {0, 1} /\ d.head \in Cdx
      /\ d.ring[t] = e /\ \A i \in Cdx : i # t => d.ring[i] = dcq[q].ring[i]
  <2>1. (t + 1) % CqLen \in Cdx /\ 1 - dcq[q].phase \in {0, 1}
    BY <1>5 DEF Cdx
  <2>. HIDE DEF e, t
  <2>. QED
    BY <1>4, <1>5, <2>1
<1>8. \A i \in Cdx : d.ring[i].phase = IF i < d.tail THEN d.phase ELSE 1 - d.phase
  <2>1. \A i \in Cdx : dcq[q].ring[i].phase = IF i < t THEN dcq[q].phase ELSE 1 - dcq[q].phase
    BY DEF IInv, RingPhases
  <2>2. d.tail = IF t + 1 = CqLen THEN 0 ELSE t + 1
    BY SMTT(30), <1>5 DEF Cdx
  <2>3. e.phase = dcq[q].phase
    OBVIOUS
  <2>4. d.phase = IF t + 1 = CqLen THEN 1 - dcq[q].phase ELSE dcq[q].phase
    OBVIOUS
  <2>. HIDE DEF t, e, d
  <2>5. SUFFICES ASSUME NEW i \in Cdx
                 PROVE  d.ring[i].phase = IF i < d.tail THEN d.phase ELSE 1 - d.phase
    OBVIOUS
  <2>6. CASE i = t
    BY <1>5, <1>7, <2>2, <2>3, <2>4, <2>6 DEF Cdx
  <2>7. CASE i # t
    <3>1. d.ring[i].phase = IF i < t THEN dcq[q].phase ELSE 1 - dcq[q].phase
      BY <1>7, <2>1, <2>7
    <3>. QED
      BY <1>5, <2>2, <2>4, <2>7, <3>1 DEF Cdx
  <2>. QED
    BY <2>6, <2>7
<1>9. d.tail = (t + 1) % CqLen /\ d.phase = IF d.tail = 0 THEN 1 - dcq[q].phase ELSE dcq[q].phase
  <2>1. (t + 1) % CqLen = 0 <=> t + 1 = CqLen
    BY SMTT(30), <1>5 DEF Cdx
  <2>. QED
    BY <2>1
<1>10. e.sq = q /\ e.cid = cmd.cid /\ e.sq_head = sq[q].tail /\ e.ok = ok
  OBVIOUS
<1>. HIDE DEF e, d
<1>11. d \in [ring : [Cdx -> Entries], tail : Cdx, phase : {0, 1}, head : Cdx]
  BY <1>7 DEF d
<1>12. /\ dcq' \in [Queues -> [ring : [Cdx -> Entries], tail : Cdx, phase : {0, 1}, head : Cdx]]
       /\ dcq'[q] = d /\ \A x \in Queues : x # q => dcq'[x] = dcq[x]
  BY <1>2, <1>6, <1>11
<1>13. Types'
  BY <1>2, <1>3, <1>12 DEF IInv, Types
<1>14. QueuesMade' /\ RingPhases'
  <2>1. QueuesMade'
    BY Zenon, <1>2 DEF IInv, QueuesMade
  <2>2. ASSUME NEW x \in Queues, NEW i \in Cdx
        PROVE  dcq'[x].ring[i].phase
                 = IF i < dcq'[x].tail THEN dcq'[x].phase ELSE 1 - dcq'[x].phase
    <3>1. CASE x = q
      BY Zenon, <1>8, <1>12, <3>1
    <3>2. CASE x # q
      BY Zenon, <1>12, <3>2 DEF IInv, RingPhases
    <3>. QED
      BY <3>1, <3>2
  <2>. QED
    BY <2>1, <2>2 DEF RingPhases
<1>15. /\ disk' \in [Lbas -> Data] /\ dma' \in Data
       /\ ok /\ cmd.op # "admin" => cmd.lba \in Lbas /\ disk'[cmd.lba] = dma'
       /\ cmd.op = "write" => dma' = dma
       /\ \A l \in Lbas : l # cmd.lba \/ cmd.op = "admin" => disk'[l] = disk[l]
  <2>1. /\ disk \in [Lbas -> Data] /\ dma \in Data
        /\ cmd.op \in {"admin", "read", "write"}
    BY <1>1 DEF IInv, Progress, Fetched, Unnotified, UnderWay, Commands
  <2>2. CASE cmd.op = "admin"
    BY <1>0, <1>1, <2>1, <2>2 DEF Execute
  <2>3. CASE cmd.op = "read"
    BY <1>0, <1>1, <2>1, <2>3 DEF Execute
  <2>4. CASE cmd.op = "write"
    BY <1>0, <1>1, <2>1, <2>4 DEF Execute
  <2>. QED
    BY <2>1, <2>2, <2>3, <2>4
<1>16. Progress'
  <2>1. pc = "wait" /\ answer = "none"
    BY <1>1 DEF Fetched, IInv, Progress, Types
  <2>2. setup = 0 => OnDisk(request.done)'
    <3>1. SUFFICES ASSUME setup = 0, NEW i \in 1 .. request.done
                   PROVE  /\ request.lba + i - 1 \in Lbas
                          /\ disk'[request.lba + i - 1] = request.buf[i]
      BY <1>2 DEF OnDisk
    <3>2. /\ request.lba + i - 1 \in Lbas /\ disk[request.lba + i - 1] = request.buf[i]
          /\ cmd.lba = request.lba + request.done /\ request \in RequestType
      BY <2>1, <3>1 DEF IInv, Progress, OnDisk
    <3>3. request.lba + i - 1 # cmd.lba
      BY SMTT(30), <3>1, <3>2 DEF RequestType
    <3>. QED
      BY <1>15, <3>2, <3>3
  <2>. QED
    BY <1>2, <1>15, <2>1, <2>2 DEF IInv, Progress
<1>17. Unnotified'
  <2>1. UnderWay'
    BY <1>1, <1>2, <1>3, <1>12, UnderWayFrame DEF Fetched, Unnotified
  <2>. QED
    BY SMTT(30), <1>1, <1>2, <2>1 DEF Fetched, Unnotified, Completion
<1>18. cq[q].head = t /\ cq[q].phase = dcq[q].phase
  BY SMTT(30), <1>2 DEF CqIdle
<1>19. Answers(dcq[cmd.sq].ring[cq[cmd.sq].head])'
  <2>1. (dcq[cmd.sq].ring[cq[cmd.sq].head])' = e
    BY Zenon, <1>1, <1>2, <1>7, <1>12, <1>18
  <2>2. cmd' = cmd /\ sq' = sq
    BY Zenon, <1>2
  <2>. QED
    BY Zenon, <1>1, <1>4, <1>10, <1>15, <2>1, <2>2 DEF Answers, Moved
<1>20. Posted'
  BY <1>1, <1>2, <1>3, <1>9, <1>12, <1>17, <1>18, <1>19 DEF Fetched, Posted, SqServed, Quiet
<1>. QED
  BY <1>13, <1>14, <1>16, <1>20 DEF IInv, Shape

\* Every step keeps the invariant.
LEMMA NextStep == IInv /\ [Next]_vars => IInv'
<1> SUFFICES ASSUME IInv, [Next]_vars PROVE IInv'
  OBVIOUS
<1>1. CASE Main
  BY <1>1, PollSubmissionStep, RingDoorbellStep, PollCompletionStep, AdminStep,
     CreateIoCompletionQueueStep, IoCompletionQueueCreatedStep, CreateIoSubmissionQueueStep,
     NamespaceRwStep, ChunkDoneStep, ChunkFailedStep DEF Main
<1>2. CASE Reactor
  BY <1>2, HandleNotifReqsStep, QuietStep, CompleteStep, SetHeadStep, TryNotifyFuturesStep
     DEF Reactor
<1>3. CASE Controller
  BY <1>3, InterruptStep, FetchStep, PostStep DEF Controller
<1>. QED
  BY <1>1, <1>2, <1>3, InterruptStep DEF Next

\* At all times a command of nvmed is at one of its places (see Shape), and
\* the queues of the driver and of the controller agree about it.
THEOREM NvmeInvariant == Spec => []IInv
BY InitStep, NextStep, PTL DEF Spec

-----------------------------------------------------------------------------
\* The phase bit that NvmeCompQueue::complete looks at is right: the driver
\* sees an entry exactly when the controller has posted one, after any number
\* of rounds of a completion queue of any length.
THEOREM FreshTheorem == Spec => []FreshIsPosted
<1>1. IInv => FreshIsPosted
  <2> SUFFICES ASSUME IInv, NEW q \in Queues, cq[q] # None
               PROVE  Fresh(q) <=> cq[q].head # dcq[q].tail
    BY DEF FreshIsPosted
  <2>1. CASE CqIdle(q)
    BY <2>1, IdleNotFresh DEF CqIdle
  <2>2. CASE ~CqIdle(q)
    <3>. DEFINE h == cq[q].head
                t == dcq[q].tail
    <3>1. /\ t = (h + 1) % CqLen
          /\ dcq[q].phase = IF t = 0 THEN 1 - cq[q].phase ELSE cq[q].phase
      BY <2>2, CqBusy DEF Posted
    <3>2. cq[q] \in CompletionQueues /\ t \in Cdx
      BY DEF IInv, Types
    <3>3. h \in Cdx /\ cq[q].phase \in {0, 1}
      BY <3>2 DEF CompletionQueues, Cdx
    <3>4. dcq[q].ring[h].phase = IF h < t THEN dcq[q].phase ELSE 1 - dcq[q].phase
      BY <3>3 DEF IInv, RingPhases
    <3>. HIDE DEF h, t
    <3>5. t = IF h + 1 = CqLen THEN 0 ELSE h + 1
      BY <3>1, <3>3 DEF Cdx
    <3>6. h # t /\ dcq[q].ring[h].phase = cq[q].phase
      BY SMTT(30), <3>1, <3>3, <3>4, <3>5 DEF Cdx
    <3>. QED
      BY <3>6 DEF Fresh, h, t
  <2>. QED
    BY <2>1, <2>2
<1>. QED
  BY <1>1, NvmeInvariant, PTL

\* A command goes into a slot that the controller is done with, and no other
\* command has its id (CompletionFuture::poll and submit_unchecked), although
\* is_full does not wrap around.
THEOREM SlotTheorem == Spec => []SlotIsFree
<1>1. IInv => SlotIsFree
  BY MainPlaces DEF IInv, Types, QueuesMade, Between, SqIdle, SlotIsFree
<1>. QED
  BY <1>1, NvmeInvariant, PTL

\* When submit_and_complete_command returns, the controller holds no command
\* and the reactor no request to be notified.
THEOREM DoneTheorem == Spec => []DoneWhenReady
<1>1. IInv => DoneWhenReady
  BY MainPlaces DEF Between, SqIdle, DoneWhenReady
<1>. QED
  BY <1>1, NvmeInvariant, PTL

\* namespace_read and namespace_write return the length of the buffer only
\* when every block of the request is on the disk and in the buffer.
THEOREM MovedTheorem == Spec => []OkMeansMoved
<1>1. IInv => OkMeansMoved
  BY DEF IInv, Progress, OnDisk, OkMeansMoved
<1>. QED
  BY <1>1, NvmeInvariant, PTL
=============================================================================
