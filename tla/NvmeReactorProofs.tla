--------------------------- MODULE NvmeReactorProofs ---------------------------
(* The steps of the reactor and of the controller keep the invariant. *)
EXTENDS Nvme, TLAPS

USE NvmeConstants, NoneAssumption

\* A step of the reactor or of the interrupts that only changes where the
\* reactor is, outside the handling of an entry.
LEMMA QuietFrame ==
  ASSUME IInv, Quiet, Quiet', rpc' \in {"drain", "event", "mask", "poll"},
         UNCHANGED <<mainVars, sq, vector, dsq, dcq, disk, dma, cq, channel, pending_reqs>>,
         todo' \in Seq(Queues), \A i \in 1 .. Len(todo') : cq[todo'[i]] # None
  PROVE  IInv'
<1>. USE DEF mainVars
<1>1. Types' /\ QueuesMade' /\ RingPhases'
  BY DEF IInv, Types, QueuesMade, RingPhases
<1>2. Progress'
  BY DEF IInv, Progress, OnDisk
<1>3. Between \/ Ringing \/ Rung \/ Fetched \/ Posted \/ Notified
  BY DEF IInv, Shape, Quiet, Taken, Headed
<1>a. Unnotified => Unnotified'
  BY DEF Unnotified, UnderWay, SqIdle, CqIdle, Completion
<1>b. \A q \in Queues : (SqIdle(q) => SqIdle(q)') /\ (CqIdle(q) => CqIdle(q)')
  BY DEF SqIdle, CqIdle
<1>c. (AtSlot => AtSlot') /\ (SqServed => SqServed')
  BY DEF AtSlot, SqServed
<1>d. UnderWay => UnderWay'
  BY DEF UnderWay, SqIdle, CqIdle
<1>4. ASSUME Between PROVE Between'
  BY <1>4, <1>b DEF Between, Shape, Moved
<1>5. ASSUME Ringing PROVE Ringing'
  BY <1>5, <1>a, <1>c DEF Ringing, CqIdle
<1>6. ASSUME Rung PROVE Rung'
  BY <1>6, <1>a, <1>c DEF Rung, CqIdle
<1>7. ASSUME Fetched PROVE Fetched'
  BY SMTT(30), <1>7, <1>a DEF Fetched, CqIdle
<1>8. ASSUME Posted PROVE Posted'
  BY Zenon, <1>8, <1>a, <1>c DEF Posted, Answers, Moved
<1>9. ASSUME Notified PROVE Notified'
  BY SMTT(30), <1>9, <1>c DEF Notified, CqIdle, UnderWay, SqIdle, Moved
<1>10. Shape'
  BY <1>3, <1>4, <1>5, <1>6, <1>7, <1>8, <1>9 DEF Shape
<1>. QED
  BY <1>1, <1>2, <1>10 DEF IInv

\* The reactor outside the handling of an entry.
LEMMA QuietStep ==
  IInv /\ (TakeEvent \/ Mask \/ QueueEmpty \/ Unmask) => IInv'
<1> SUFFICES ASSUME IInv, TakeEvent \/ Mask \/ QueueEmpty \/ Unmask PROVE IInv'
  OBVIOUS
<1>. USE DEF TakeEvent, Mask, QueueEmpty, Unmask, mainUnchanged
<1>0. /\ todo \in Seq(Queues) /\ \A i \in 1 .. Len(todo) : cq[todo[i]] # None
      /\ vector \in Seq(Queues) /\ \A i \in 1 .. Len(vector) : cq[vector[i]] # None
  BY DEF IInv, Types
<1>a. todo # <<>> => /\ Tail(todo) \in Seq(Queues)
                     /\ \A i \in 1 .. Len(Tail(todo)) : cq[Tail(todo)[i]] # None
  BY <1>0
<1>1. todo' \in Seq(Queues) /\ \A i \in 1 .. Len(todo') : cq[todo'[i]] # None
  BY Zenon, <1>0, <1>a
<1>2. /\ Quiet /\ Quiet' /\ rpc' \in {"drain", "event", "mask", "poll"}
      /\ UNCHANGED <<mainVars, sq, vector, dsq, dcq, disk, dma, cq, channel, pending_reqs>>
  BY DEF Quiet
<1>. QED
  BY <1>1, <1>2, QuietFrame

\* The reactor drains the channel.
LEMMA HandleNotifReqsStep == IInv /\ HandleNotifReqs => IInv'
<1> SUFFICES ASSUME IInv, HandleNotifReqs PROVE IInv'
  OBVIOUS
<1>. USE DEF HandleNotifReqs, mainUnchanged, mainVars
<1>1. Types' /\ QueuesMade' /\ RingPhases'
  BY DEF IInv, Types, QueuesMade, RingPhases
<1>2. Progress'
  BY DEF IInv, Progress, OnDisk
<1>3. Ringing \/ Rung \/ Fetched \/ Posted
  BY DEF IInv, Shape, Between, Taken, Headed, Notified
<1>4. Unnotified'
  BY Zenon, <1>3 DEF Ringing, Rung, Fetched, Posted, Unnotified, Drained, UnderWay, SqIdle, CqIdle, Completion
<1>. USE <1>4 DEF CqIdle, Answers, Moved, AtSlot, SqServed, Quiet
<1>5. ASSUME Ringing PROVE Ringing'
  BY SMTT(90), <1>5 DEF Ringing
<1>6. ASSUME Rung PROVE Rung'
  BY SMTT(30), <1>6 DEF Rung
<1>7. ASSUME Fetched PROVE Fetched'
  BY SMTT(30), <1>7 DEF Fetched
<1>8. ASSUME Posted PROVE Posted'
  BY Zenon, <1>8 DEF Posted
<1>. QED
  BY <1>1, <1>2, <1>3, <1>5, <1>6, <1>7, <1>8 DEF IInv, Shape

\* The invariant is about all of the state but the interrupts.
LEMMA InterruptFrame ==
  ASSUME IInv, UNCHANGED <<mainVars, reactorVars, channel, sq, cq, vector, dsq, dcq, disk, dma>>
  PROVE  IInv'
<1>. USE DEF mainVars, reactorVars
<1>1. Types' /\ QueuesMade' /\ RingPhases'
  BY DEF IInv, Types, QueuesMade, RingPhases
<1>2. Progress'
  BY SMTT(30) DEF IInv, Progress, OnDisk
<1>3. CASE Quiet
  <2>1. rpc' \in {"drain", "event", "mask", "poll"} /\ Quiet'
    BY <1>3 DEF IInv, Types, Quiet
  <2>2. todo' \in Seq(Queues) /\ \A i \in 1 .. Len(todo') : cq[todo'[i]] # None
    BY SMTT(30) DEF IInv, Types
  <2>. QED
    BY <1>3, <2>1, <2>2, QuietFrame
<1>4. CASE Taken
  <2>1. Unnotified'
    BY SMTT(90), <1>4 DEF Taken, Unnotified, UnderWay, SqIdle, CqIdle, Completion
  <2>2. SqServed' /\ CqIdle(cmd.sq)' /\ Answers(entry)'
    BY Zenon, <1>4 DEF Taken, SqServed, CqIdle, Answers, Moved
  <2>3. Taken'
    BY Zenon, <1>4, <2>1, <2>2 DEF Taken
  <2>. QED
    BY <1>1, <1>2, <2>3 DEF IInv, Shape
<1>5. CASE Headed
  <2>1. UnderWay' /\ pending_reqs' = {Completion(cmd, arc)'}
    BY <1>5 DEF Headed, UnderWay, SqIdle, CqIdle, Completion
  <2>2. SqServed' /\ CqIdle(cmd.sq)' /\ Answers(entry)'
    BY Zenon, <1>5 DEF Headed, SqServed, CqIdle, Answers, Moved
  <2>3. Headed'
    BY Zenon, <1>5, <2>1, <2>2 DEF Headed, Completion
  <2>. QED
    BY <1>1, <1>2, <2>3 DEF IInv, Shape
<1>. QED
  BY Zenon, <1>3, <1>4, <1>5 DEF IInv, Shape, Between, Ringing, Rung, Fetched, Posted, Notified

\* Interrupts change nothing the invariant speaks of.
LEMMA InterruptStep == IInv /\ (Interrupt \/ OtherInterrupt \/ UNCHANGED vars) => IInv'
BY InterruptFrame DEF Interrupt, OtherInterrupt, driverUnchanged, vars, controllerVars

\* The queues other than that of the command stay idle.
LEMMA UnderWayFrame ==
  ASSUME UnderWay, cmd' = cmd, sq'[cmd.sq].tail = sq[cmd.sq].tail,
         \A x \in Queues : x # cmd.sq =>
            /\ sq'[x] = sq[x] /\ dsq'[x] = dsq[x]
            /\ cq'[x] = cq[x] /\ dcq'[x].tail = dcq[x].tail /\ dcq'[x].phase = dcq[x].phase
  PROVE  UnderWay'
<1>1. ASSUME NEW x \in Queues, x # cmd.sq PROVE SqIdle(x)'
  BY SMTT(30), <1>1 DEF UnderWay, SqIdle
<1>2. ASSUME NEW x \in Queues, x # cmd.sq PROVE CqIdle(x)'
  BY <1>2 DEF UnderWay, CqIdle
<1>. QED
  BY <1>1, <1>2 DEF UnderWay

\* From Taken to Headed.
LEMMA SetHeadStep == IInv /\ SetHead => IInv'
<1> SUFFICES ASSUME IInv, SetHead PROVE IInv'
  OBVIOUS
<1>. USE DEF SetHead, mainVars
<1>. DEFINE q == cmd.sq
<1>0. /\ Taken /\ q \in Queues /\ sq[q] # None /\ cq[q] # None
      /\ sq \in [Queues -> SubmissionQueues \cup {None}]
  BY DEF IInv, Types, QueuesMade, Shape, Between, Ringing, Rung, Fetched, Posted, Taken,
         Headed, Notified, Quiet
<1>1. entry.sq = q /\ entry.sq_head = sq[q].tail /\ sq[q] \in SubmissionQueues
  BY <1>0 DEF Taken, Answers
<1>2. sq' = [sq EXCEPT ![q] = [sq[q] EXCEPT !.head = sq[q].tail]]
  BY <1>1
<1>3. /\ [sq[q] EXCEPT !.head = sq[q].tail] \in SubmissionQueues
      /\ [sq[q] EXCEPT !.head = sq[q].tail].tail = sq[q].tail
      /\ [sq[q] EXCEPT !.head = sq[q].tail].head = sq[q].tail
  BY <1>1 DEF SubmissionQueues
<1>4. /\ sq' \in [Queues -> SubmissionQueues \cup {None}] /\ sq'[q] # None
      /\ sq'[q].tail = sq[q].tail /\ sq'[q].head = sq[q].tail
      /\ \A x \in Queues : x # q => sq'[x] = sq[x]
  BY Zenon, <1>0, <1>2, <1>3
<1>5. Types'
  BY <1>0, <1>4 DEF IInv, Types, Queues
<1>6. QueuesMade' /\ RingPhases'
  BY <1>0, <1>4 DEF IInv, QueuesMade, RingPhases, Queues
<1>7. Progress'
  BY DEF IInv, Progress, OnDisk
<1>8. UnderWay'
  BY <1>0, <1>4, UnderWayFrame DEF Taken, Unnotified
<1>9. Answers(entry)'
  BY <1>0, <1>4 DEF Taken, Answers, Moved
<1>10. pending_reqs' = {Completion(cmd, arc)} /\ channel' = {}
  BY <1>0 DEF Taken, Unnotified, Drained
<1>11. Headed'
  BY Zenon, <1>0, <1>4, <1>8, <1>9, <1>10 DEF Taken, Headed, Unnotified, SqServed, CqIdle, Completion
<1>. QED
  BY <1>5, <1>6, <1>7, <1>11 DEF IInv, Shape

\* From Headed to Notified.
LEMMA TryNotifyFuturesStep == IInv /\ TryNotifyFutures => IInv'
<1> SUFFICES ASSUME IInv, TryNotifyFutures PROVE IInv'
  OBVIOUS
<1>. USE DEF TryNotifyFutures, controllerVars
<1>0. Headed
  BY DEF IInv, Shape, Between, Ringing, Rung, Fetched, Posted, Taken, Headed, Notified, Quiet
<1>1. /\ pending_reqs = {Completion(cmd, arc)} /\ Matches(Completion(cmd, arc))
      /\ entry # None
  BY <1>0 DEF Headed, Answers, Matches, Completion
<1>2. pending_reqs' = {} /\ message' = entry
  BY <1>1 DEF Completion
<1>3. Types' /\ QueuesMade' /\ RingPhases'
  BY DEF IInv, Types, QueuesMade, RingPhases
<1>4. Progress'
  BY SMTT(30) DEF IInv, Progress, OnDisk
<1>5. UnderWay'
  BY <1>0, UnderWayFrame DEF Headed
<1>6. SqServed' /\ CqIdle(cmd.sq)' /\ (sq[cmd.sq].head = sq[cmd.sq].tail)'
  BY Zenon, <1>0 DEF Headed, SqServed, CqIdle
<1>7. Moved(message)'
  BY Zenon, <1>0, <1>2 DEF Headed, Answers, Moved
<1>8. Notified'
  BY Zenon, <1>0, <1>1, <1>2, <1>5, <1>6, <1>7 DEF Headed, Notified, Quiet
<1>. QED
  BY <1>3, <1>4, <1>8 DEF IInv, Shape

\* The queue in which an entry can be is that of the command.
LEMMA CqBusy ==
  ASSUME IInv, NEW q \in Queues, ~CqIdle(q)
  PROVE  Posted /\ q = cmd.sq
BY Zenon DEF IInv, Shape, Between, Ringing, Rung, Fetched, Posted, Taken, Headed, Notified,
       Unnotified, UnderWay

\* An idle queue holds no entry with the phase that the driver expects.
LEMMA IdleNotFresh ==
  ASSUME IInv, NEW q \in Queues, cq[q] # None, CqIdle(q)
  PROVE  ~Fresh(q)
<1>1. dcq[q].tail \in Cdx /\ dcq[q].phase \in {0, 1}
  BY DEF IInv, Types
<1>2. dcq[q].ring[dcq[q].tail].phase = 1 - dcq[q].phase
  BY <1>1 DEF IInv, RingPhases, Cdx
<1>3. dcq[q].ring[dcq[q].tail].phase # dcq[q].phase
  BY <1>1, <1>2
<1>. QED
  BY <1>3 DEF CqIdle, Fresh

\* From Posted to Taken.
LEMMA CompleteStep == IInv /\ Complete => IInv'
<1> SUFFICES ASSUME IInv, Complete PROVE IInv'
  OBVIOUS
<1>. USE DEF Complete, mainUnchanged, mainVars
<1>. DEFINE q == Head(todo)
<1>0. /\ q \in Queues /\ cq[q] # None
      /\ cq \in [Queues -> CompletionQueues \cup {None}]
      /\ dcq \in [Queues -> [ring : [Cdx -> Entries], tail : Cdx, phase : {0, 1}, head : Cdx]]
  <2>1. /\ todo \in Seq(Queues) /\ \A i \in 1 .. Len(todo) : cq[todo[i]] # None
        /\ todo # <<>>
    BY DEF IInv, Types
  <2>2. 1 \in 1 .. Len(todo) /\ q = todo[1]
    BY SMTT(30), <2>1
  <2>. QED
    BY SMTT(90), <2>1, <2>2 DEF IInv, Types
<1>1. Posted /\ q = cmd.sq
  BY SMTT(90), <1>0, CqBusy, IdleNotFresh
<1>2. Consumed(q) = [head |-> dcq[q].tail, phase |-> dcq[q].phase]
  BY Zenon, <1>1 DEF Posted, Consumed
<1>3. Consumed(q) \in CompletionQueues
  BY SMTT(90), <1>0, <1>2 DEF CompletionQueues, Cdx
<1>. HIDE DEF q
<1>4. /\ cq' \in [Queues -> CompletionQueues \cup {None}] /\ cq'[q] = Consumed(q)
      /\ cq'[q] # None /\ \A x \in Queues : x # q => cq'[x] = cq[x]
  BY SMTT(90), <1>0, <1>3 DEF q
<1>5. /\ dcq' \in [Queues -> [ring : [Cdx -> Entries], tail : Cdx, phase : {0, 1}, head : Cdx]]
      /\ \A x \in Queues : /\ dcq'[x].ring = dcq[x].ring /\ dcq'[x].tail = dcq[x].tail
                           /\ dcq'[x].phase = dcq[x].phase
  <2>1. Consumed(q).head \in Cdx
    BY <1>3 DEF CompletionQueues, Cdx
  <2>. DEFINE d == [ring |-> dcq[q].ring, tail |-> dcq[q].tail,
                    phase |-> dcq[q].phase, head |-> Consumed(q).head]
  <2>2. dcq' = [dcq EXCEPT ![q] = d]
    BY DEF q
  <2>3. d \in [ring : [Cdx -> Entries], tail : Cdx, phase : {0, 1}, head : Cdx]
    BY <1>0, <2>1
  <2>4. d.ring = dcq[q].ring /\ d.tail = dcq[q].tail /\ d.phase = dcq[q].phase
    OBVIOUS
  <2>. HIDE DEF d
  <2>. QED
    BY Zenon, <1>0, <2>2, <2>3, <2>4
<1>a. \A x \in Queues : cq[x] # None => cq'[x] # None
  BY <1>4
<1>b. /\ vector \in Seq(Queues) /\ todo \in Seq(Queues)
      /\ \A i \in 1 .. Len(vector) : cq[vector[i]] # None
      /\ \A i \in 1 .. Len(todo) : cq[todo[i]] # None
  BY DEF IInv, Types
<1>c. /\ \A i \in 1 .. Len(vector) : cq'[vector[i]] # None
      /\ \A i \in 1 .. Len(todo) : cq'[todo[i]] # None
  BY SMTT(30), <1>a, <1>b
<1>6. Types'
  <2>1. cq[0] # None => cq'[0] # None
    BY <1>a DEF Queues
  <2>2. UNCHANGED <<setup, arc, sq, dsq, vector, todo, pc>> /\ rpc' = "head"
    OBVIOUS
  <2>. HIDE DEF Complete, mainUnchanged, mainVars
  <2>. QED
    BY SMTT(30), <1>c, <1>4, <1>5, <2>1, <2>2 DEF IInv, Types
<1>7. QueuesMade'
  BY Zenon, <1>0, <1>4 DEF IInv, QueuesMade, Queues
<1>8. RingPhases'
  BY ZenonT(40), <1>5 DEF IInv, RingPhases
<1>9. Progress'
  BY SMTT(90) DEF IInv, Progress, OnDisk
<1>10. Unnotified'
  <2>1. UnderWay'
    BY Zenon, <1>1, <1>4, <1>5, UnderWayFrame DEF Posted, Unnotified
  <2>. QED
    BY Zenon, <1>1, <2>1 DEF Posted, Unnotified, Completion
<1>11. CqIdle(cmd.sq)'
  <2>1. cq'[q].head = dcq[q].tail /\ cq'[q].phase = dcq[q].phase
    BY <1>2, <1>4
  <2>2. cmd'.sq = q /\ dcq'[q].tail = dcq[q].tail /\ dcq'[q].phase = dcq[q].phase
    BY <1>0, <1>1, <1>5
  <2>. QED
    BY Zenon, <1>4, <2>1, <2>2 DEF CqIdle
<1>12. Answers(entry)'
  BY Zenon, <1>1 DEF Posted, Answers, Moved, q
<1>13. Taken'
  BY Zenon, <1>1, <1>10, <1>11, <1>12 DEF Posted, Taken, SqServed, q
<1>. QED
  BY SMTT(30), <1>6, <1>7, <1>8, <1>9, <1>13 DEF IInv, Shape
=============================================================================
