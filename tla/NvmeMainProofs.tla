--------------------------- MODULE NvmeMainProofs ---------------------------
(* The steps of the main thread keep the invariant of nvmed. *)
EXTENDS Nvme, TLAPS

USE NvmeConstants, NoneAssumption

\* The initial state satisfies the invariant.
LEMMA InitStep == Init => IInv
<1> SUFFICES ASSUME Init PROVE IInv
  OBVIOUS
<1>0. NewSq \in SubmissionQueues /\ NewCq \in CompletionQueues /\ EmptyEntry \in Entries
  BY DEF NewSq, NewCq, SubmissionQueues, CompletionQueues, EmptyEntry, Entries, Queues
<1>1. Types
  BY <1>0 DEF Init, Types, Queues, Idx, Cdx, Setup
<1>2. QueuesMade
  BY DEF Init, QueuesMade, Setup
<1>3. RingPhases
  BY DEF Init, RingPhases, EmptyEntry, Cdx, Queues
<1>4. Between
  BY <1>0 DEF Init, Between, Quiet, SqIdle, CqIdle, NewSq, NewCq, Queues
<1>5. Progress
  BY SMTT(30) DEF Init, Progress, Setup
<1>. QED
  BY <1>1, <1>2, <1>3, <1>4, <1>5 DEF IInv, Shape

\* The places of a command that a step of the main thread starts from.
LEMMA MainPlaces ==
  ASSUME IInv
  PROVE  /\ pc \in {"idle", "submit", "ready"} => Between
         /\ pc = "ring" => Ringing
         /\ pc = "wait" /\ woken => Notified
BY DEF IInv, Shape, Between, Ringing, Rung, Fetched, Posted, Taken, Headed, Notified, Unnotified

\* submit_unchecked keeps the type of a queue.
LEMMA SubmittedType ==
  ASSUME NEW s \in SubmissionQueues, NEW c \in Commands
  PROVE  [data |-> [s.data EXCEPT ![s.tail] = c], tail |-> (s.tail + 1) % SqLen, head |-> s.head]
            \in SubmissionQueues
<1>1. s.tail \in 0 .. SqLen - 1 /\ s.head \in 0 .. SqLen - 1
      /\ s.data \in [0 .. SqLen - 1 -> Commands \cup {None}]
  BY DEF SubmissionQueues
<1>2. (s.tail + 1) % SqLen \in 0 .. SqLen - 1
  BY <1>1
<1>3. [s.data EXCEPT ![s.tail] = c] \in [0 .. SqLen - 1 -> Commands \cup {None}]
  BY <1>1
<1>. QED
  BY <1>1, <1>2, <1>3 DEF SubmissionQueues

\* A command is put into the ring.
LEMMA PollSubmissionStep == IInv /\ PollSubmission => IInv'
<1> SUFFICES ASSUME IInv, PollSubmission PROVE IInv'
  OBVIOUS
<1>. USE DEF PollSubmission, reactorVars, controllerVars
<1>. DEFINE q == cmd.sq
            c == [cmd EXCEPT !.cid = sq[q].tail]
<1>0. /\ Between /\ cmd \in Unsubmitted
      /\ q \in Queues /\ sq[q] # None /\ cq[q] # None
  BY MainPlaces DEF IInv, QueuesMade, Progress
<1>a. sq[q] \in SubmissionQueues /\ SqIdle(q)
  BY <1>0 DEF IInv, Types, Between
<1>1. sq[q] \in SubmissionQueues /\ SqIdle(q) /\ ~IsFull(q)
  BY <1>0, <1>a DEF SqIdle, SubmissionQueues, IsFull
<1>2. /\ c \in Commands /\ cmd' = c /\ c.sq = q /\ c.cid = sq[q].tail
      /\ c.op = cmd.op /\ c.lba = cmd.lba
  BY SMTT(30), <1>0, <1>1 DEF Unsubmitted, Commands, SubmissionQueues
<1>b. sq' = [sq EXCEPT ![q] = [data |-> [sq[q].data EXCEPT ![sq[q].tail] = c],
                              tail |-> (sq[q].tail + 1) % SqLen,
                              head |-> sq[q].head]]
  BY <1>1 DEF SubmitUnchecked
<1>c. sq \in [Queues -> SubmissionQueues \cup {None}]
  BY DEF IInv, Types
<1>3. /\ sq'[q].head = sq[q].head /\ sq'[q].tail = (sq[q].tail + 1) % SqLen
      /\ sq'[q].data[sq[q].tail] = c /\ sq'[q] \in SubmissionQueues
  <2>1. sq'[q] = [data |-> [sq[q].data EXCEPT ![sq[q].tail] = c],
                  tail |-> (sq[q].tail + 1) % SqLen, head |-> sq[q].head]
    BY <1>0, <1>b, <1>c
  <2>2. sq'[q] \in SubmissionQueues
    BY <1>1, <1>2, <2>1, SubmittedType
  <2>3. sq[q].tail \in DOMAIN sq[q].data
    BY SMTT(30), <1>1 DEF SubmissionQueues
  <2>. QED
    BY <2>1, <2>2, <2>3
<1>d. /\ sq' \in [Queues -> SubmissionQueues \cup {None}]
      /\ \A x \in Queues : x # q => sq'[x] = sq[x]
      /\ sq'[q] # None
  BY <1>0, <1>3, <1>b, <1>c
<1>4. Types'
  BY <1>0, <1>1, <1>d DEF IInv, Types, Queues
<1>5. QueuesMade' /\ RingPhases'
  BY <1>0, <1>1, <1>2, <1>d DEF IInv, QueuesMade, RingPhases, Queues
<1>6. Progress'
  BY <1>0, <1>1, <1>2 DEF IInv, Progress, OnDisk
<1>7. Ringing'
  <2>1. Quiet' /\ AtSlot' /\ CqIdle(cmd.sq)'
    BY SMTT(90), <1>0, <1>1, <1>2, <1>3 DEF Between, Quiet, AtSlot, CqIdle
  <2>2. UnderWay' /\ (sq[cmd.sq].head = cmd.cid)'
    BY SMTT(30), <1>0, <1>1, <1>2, <1>3, <1>d DEF Between, UnderWay, SqIdle, CqIdle
  <2>3. Unnotified'
    BY <1>0, <1>1, <1>2, <2>2 DEF Between, Unnotified
  <2>4. dsq'[cmd'.sq] = [tail |-> cmd'.cid, head |-> cmd'.cid, held |-> {}]
    BY Zenon, <1>0, <1>1, <1>2 DEF SqIdle, IInv, Types
  <2>. QED
    BY SMTT(30), <1>1, <2>1, <2>3, <2>4 DEF Ringing
<1>. QED
  BY <1>4, <1>5, <1>6, <1>7 DEF IInv, Shape

\* The controller is told of it.
LEMMA RingDoorbellStep == IInv /\ RingDoorbell => IInv'
<1> SUFFICES ASSUME IInv, RingDoorbell PROVE IInv'
  OBVIOUS
<1>. USE DEF RingDoorbell, reactorVars
<1>. DEFINE q == cmd.sq
<1>0. Ringing /\ q \in Queues /\ sq[q] # None
  BY MainPlaces DEF IInv, QueuesMade
<1>1. sq[q] \in SubmissionQueues /\ sq[q].tail \in Idx
  BY <1>0 DEF IInv, Types, SubmissionQueues, Idx
<1>a. dsq \in [Queues -> [tail : Idx, head : Idx, held : SUBSET Commands]]
  BY DEF IInv, Types
<1>b. dsq' = [dsq EXCEPT ![q] = [dsq[q] EXCEPT !.tail = sq[q].tail]]
  OBVIOUS
<1>c. dsq[q] = [tail |-> cmd.cid, head |-> cmd.cid, held |-> {}]
  BY <1>0 DEF Ringing
<1>2. dsq'[q] = [tail |-> sq[q].tail, head |-> cmd.cid, held |-> {}]
  <2>1. dsq'[q] = [[tail |-> cmd.cid, head |-> cmd.cid, held |-> {}] EXCEPT !.tail = sq[q].tail]
    BY <1>0, <1>a, <1>b, <1>c
  <2>. QED
    BY <2>1
<1>3. /\ dsq' \in [Queues -> [tail : Idx, head : Idx, held : SUBSET Commands]]
      /\ \A x \in Queues : x # q => dsq'[x] = dsq[x]
  BY <1>0, <1>1, <1>a, <1>b
<1>4. Types'
  BY SMTT(30), <1>3 DEF IInv, Types
<1>5. QueuesMade' /\ RingPhases'
  BY DEF IInv, QueuesMade, RingPhases
<1>6. Progress'
  BY DEF IInv, Progress, OnDisk
<1>7. UnderWay' /\ (sq[cmd.sq].head = cmd.cid)'
  BY <1>0, <1>3 DEF Ringing, Unnotified, UnderWay, SqIdle, CqIdle
<1>8. Rung'
  BY <1>0, <1>2, <1>7 DEF Ringing, Rung, Unnotified, Quiet, AtSlot, CqIdle
<1>. QED
  BY <1>4, <1>5, <1>6, <1>8 DEF IInv, Shape

\* The future takes the message.
LEMMA PollCompletionStep == IInv /\ PollCompletion => IInv'
<1> SUFFICES ASSUME IInv, PollCompletion PROVE IInv'
  OBVIOUS
<1>. USE DEF PollCompletion, reactorVars, controllerVars
<1>0. Notified /\ cmd.sq \in Queues /\ sq[cmd.sq] # None /\ cq[cmd.sq] # None
  BY MainPlaces DEF IInv, QueuesMade
<1>1. pc' = "ready" /\ comp' = message /\ message' = None /\ UNCHANGED channel
  BY <1>0 DEF Notified
<1>2. Types' /\ QueuesMade' /\ RingPhases'
  BY <1>1 DEF IInv, Types, QueuesMade, RingPhases
<1>3. Progress'
  BY <1>1 DEF IInv, Progress, OnDisk
<1>4. SqIdle(cmd.sq)
  BY <1>0 DEF Notified, SqServed, UnderWay, SqIdle
<1>5. \A x \in Queues : SqIdle(x) /\ CqIdle(x)
  BY <1>0, <1>4 DEF Notified, UnderWay
<1>6. Between'
  BY <1>0, <1>1, <1>5 DEF Notified, Between, SqIdle, CqIdle, Quiet, Moved
<1>. QED
  BY <1>2, <1>3, <1>6 DEF IInv, Shape

\* A step of the main thread that leaves the queues alone.
LEMMA MainFrame ==
  ASSUME IInv, Between, UNCHANGED <<sq, cq, vector, arc, message, channel,
                                    reactorVars, controllerVars>>,
         pc' \in {"idle", "submit"}, setup' \in 0 .. Setup
  PROVE  Types' /\ RingPhases' /\ Between'
<1>. USE DEF reactorVars, controllerVars
<1>1. Types' /\ RingPhases'
  BY DEF IInv, Types, RingPhases
<1>2. Between'
  BY DEF Between, SqIdle, CqIdle, Quiet
<1>. QED
  BY <1>1, <1>2

\* The commands that identify, and the end of the set-up.
LEMMA AdminStep ==
  IInv /\ (Identify \/ Identified \/ IoSubmissionQueueCreated) => IInv'
<1> SUFFICES ASSUME IInv, Identify \/ Identified \/ IoSubmissionQueueCreated PROVE IInv'
  OBVIOUS
<1>. USE DEF Identify, Identified, IoSubmissionQueueCreated, othersUnchanged, Return, Issue,
            controllerVars
<1>0. Between /\ setup \in 0 .. Setup /\ Setup \in Nat
  BY MainPlaces DEF IInv, Types, Setup
<1>1. Types' /\ RingPhases' /\ Between'
  BY <1>0, MainFrame DEF Setup
<1>2. QueuesMade'
  BY <1>0 DEF IInv, QueuesMade, Types, Queues
<1>3. CASE Identify
  BY SMTT(90), <1>0, <1>1, <1>2, <1>3 DEF IInv, Shape, Progress, OnDisk, Unsubmitted, Queues
<1>4. CASE Identified
  BY SMTT(90), <1>0, <1>1, <1>2, <1>4 DEF IInv, Shape, Progress, OnDisk
<1>5. CASE IoSubmissionQueueCreated
  BY <1>0, <1>1, <1>2, <1>5 DEF IInv, Shape, Progress, OnDisk
<1>. QED
  BY Zenon, <1>3, <1>4, <1>5

\* A new completion queue is idle.
LEMMA CreateIoCompletionQueueStep == IInv /\ CreateIoCompletionQueue => IInv'
<1> SUFFICES ASSUME IInv, CreateIoCompletionQueue PROVE IInv'
  OBVIOUS
<1>. USE DEF CreateIoCompletionQueue, othersUnchanged, Issue, reactorVars, controllerVars
<1>0. Between /\ setup \in 0 .. Setup
  BY MainPlaces DEF IInv, Types
<1>1. /\ cq' \in [Queues -> CompletionQueues \cup {None}]
      /\ cq'[0] = cq[0] /\ cq'[1] # None
      /\ cq'[1] = IF cq[1] = None THEN NewCq ELSE cq[1]
      /\ NewCq \in CompletionQueues
  BY DEF IInv, Types, Queues, NewCq, CompletionQueues
<1>2. Types' /\ RingPhases'
  BY <1>1 DEF IInv, Types, RingPhases, Queues
<1>3. QueuesMade'
  BY SMTT(30), <1>1 DEF IInv, QueuesMade, Types, Queues
<1>4. Progress'
  <2>1. cmd' \in Unsubmitted /\ cmd'.op = "admin"
    BY DEF Unsubmitted, Queues
  <2>2. setup' = setup /\ setup # 0 /\ UNCHANGED <<disk, dma, answer>>
    OBVIOUS
  <2>. QED
    BY SMTT(30), <2>1, <2>2 DEF IInv, Progress
<1>5. \A x \in Queues : SqIdle(x)' /\ CqIdle(x)'
  BY <1>0, <1>1 DEF Between, SqIdle, CqIdle, Queues, NewCq
<1>6. Between'
  BY <1>0, <1>5 DEF Between, Quiet
<1>. QED
  BY SMTT(30), <1>2, <1>3, <1>4, <1>6 DEF IInv, Shape

\* It is polled from then on.
LEMMA IoCompletionQueueCreatedStep == IInv /\ IoCompletionQueueCreated => IInv'
<1> SUFFICES ASSUME IInv, IoCompletionQueueCreated PROVE IInv'
  OBVIOUS
<1>. USE DEF IoCompletionQueueCreated, othersUnchanged, Return, reactorVars, controllerVars
<1>0. Between /\ setup \in 0 .. Setup /\ Setup \in Nat /\ cq[1] # None
  BY MainPlaces DEF IInv, Types, Setup, QueuesMade
<1>1. vector' \in Seq(Queues) /\ \A i \in 1 .. Len(vector') : cq[vector'[i]] # None
  BY SMTT(30), <1>0 DEF IInv, Types, Queues
<1>2. Types' /\ RingPhases' /\ QueuesMade'
  BY <1>0, <1>1 DEF IInv, Types, RingPhases, QueuesMade
<1>3. Progress'
  BY SMTT(30), <1>0 DEF IInv, Progress, OnDisk
<1>4. Between'
  BY <1>0 DEF Between, SqIdle, CqIdle, Quiet
<1>. QED
  BY SMTT(30), <1>2, <1>3, <1>4 DEF IInv, Shape

\* A new submission queue is idle.
LEMMA CreateIoSubmissionQueueStep == IInv /\ CreateIoSubmissionQueue => IInv'
<1> SUFFICES ASSUME IInv, CreateIoSubmissionQueue PROVE IInv'
  OBVIOUS
<1>. USE DEF CreateIoSubmissionQueue, othersUnchanged, Issue, reactorVars, controllerVars
<1>0. Between /\ setup \in 0 .. Setup
  BY SMTT(30), MainPlaces DEF IInv, Types
<1>1. /\ sq' \in [Queues -> SubmissionQueues \cup {None}]
      /\ sq'[0] = sq[0] /\ sq'[1] # None
      /\ sq'[1] = IF sq[1] = None THEN NewSq ELSE sq[1]
      /\ NewSq \in SubmissionQueues
  BY SMTT(30) DEF IInv, Types, Queues, NewSq, SubmissionQueues
<1>2. Types' /\ RingPhases'
  BY <1>1 DEF IInv, Types, RingPhases, Queues
<1>3. QueuesMade'
  BY SMTT(30), <1>1 DEF IInv, QueuesMade, Types, Queues
<1>4. Progress'
  <2>1. cmd' \in Unsubmitted /\ cmd'.op = "admin"
    BY DEF Unsubmitted, Queues
  <2>2. setup' = setup /\ setup # 0 /\ UNCHANGED <<disk, dma, answer>>
    OBVIOUS
  <2>. QED
    BY SMTT(90), <2>1, <2>2 DEF IInv, Progress
<1>5. \A x \in Queues : SqIdle(x)' /\ CqIdle(x)'
  BY <1>0, <1>1 DEF Between, SqIdle, CqIdle, Queues, NewSq
<1>6. Between'
  BY <1>0, <1>5 DEF Between, Quiet
<1>. QED
  BY SMTT(30), <1>2, <1>3, <1>4, <1>6 DEF IInv, Shape

\* What Chunk(r) does for a request r that has a chunk left.
LEMMA ChunkStep ==
  ASSUME NEW r \in RequestType, r.done < Len(r.buf), Chunk(r), dma \in Data
  PROVE  /\ cmd' \in Unsubmitted /\ cmd'.sq = 1 /\ cmd'.lba = r.lba + r.done
         /\ cmd'.op = (IF r.write THEN "write" ELSE "read")
         /\ pc' = "submit" /\ dma' \in Data
         /\ r.write => dma' = r.buf[r.done + 1]
<1>1. r.done + 1 \in 1 .. Len(r.buf) /\ r.buf \in Seq(Data) /\ r.lba + r.done \in Nat
  BY DEF RequestType
<1>2. r.buf[r.done + 1] \in Data
  BY <1>1
<1>. QED
  BY <1>1, <1>2 DEF Chunk, Issue, Unsubmitted, Queues

\* A block request starts.
LEMMA NamespaceRwStep == IInv /\ NamespaceRw => IInv'
<1> SUFFICES ASSUME IInv, NamespaceRw PROVE IInv'
  OBVIOUS
<1>. USE DEF NamespaceRw, othersUnchanged, controllerVars
<1>0. Between /\ setup = 0 /\ setup \in 0 .. Setup
  BY SMTT(30), MainPlaces DEF IInv, Types
<1>1. PICK r \in Requests : request' = r /\ Chunk(r)
  OBVIOUS
<1>2. r \in RequestType /\ r.done = 0 /\ 0 < Len(r.buf)
  <2>1. PICK n \in 1 .. MaxChunks : r.buf \in [1 .. n -> Data]
    BY DEF Requests
  <2>2. r.buf \in Seq(Data) /\ Len(r.buf) = n
    BY SMTT(30), <2>1
  <2>. QED
    BY <2>1, <2>2 DEF Requests, RequestType, Lbas
<1>3. /\ cmd' \in Unsubmitted /\ cmd'.sq = 1 /\ cmd'.lba = r.lba + r.done
      /\ cmd'.op = (IF r.write THEN "write" ELSE "read")
      /\ pc' = "submit" /\ dma' \in Data
      /\ r.write => dma' = r.buf[r.done + 1]
  BY SMTT(30), <1>1, <1>2, ChunkStep DEF IInv, Progress
<1>4. Types' /\ RingPhases' /\ Between'
  BY SMTT(30), <1>0, <1>3, MainFrame
<1>5. QueuesMade'
  BY SMTT(30), <1>0, <1>3 DEF IInv, QueuesMade, Queues
<1>6. Progress'
  BY SMTT(30), <1>0, <1>1, <1>2, <1>3 DEF IInv, Progress, OnDisk
<1>. QED
  BY SMTT(90), <1>4, <1>5, <1>6 DEF IInv, Shape

\* The request after a chunk.
LEMMA Advanced ==
  ASSUME NEW x \in RequestType, NEW b \in Seq(Data)
  PROVE  LET r == [x EXCEPT !.buf = b, !.done = x.done + 1]
         IN  /\ r \in RequestType /\ r.done = x.done + 1 /\ r.lba = x.lba
             /\ r.buf = b /\ r.write = x.write
<1>. DEFINE y == [x EXCEPT !.buf = b]
            r == [y EXCEPT !.done = x.done + 1]
<1>1. x.done + 1 \in Nat
  BY DEF RequestType
<1>2. y \in RequestType /\ y.buf = b /\ y.lba = x.lba /\ y.write = x.write /\ y.done = x.done
  BY Zenon DEF RequestType
<1>3. r \in RequestType /\ r.buf = y.buf /\ r.lba = y.lba /\ r.write = y.write /\ r.done = x.done + 1
  BY <1>1, <1>2, Zenon DEF RequestType
<1>. QED
  BY <1>2, <1>3

\* A chunk was moved.
LEMMA ChunkDoneStep == IInv /\ ChunkDone => IInv'
<1> SUFFICES ASSUME IInv, ChunkDone PROVE IInv'
  OBVIOUS
<1>. DEFINE b == IF request.write THEN request.buf
                 ELSE [request.buf EXCEPT ![request.done + 1] = dma]
            r == [request EXCEPT !.buf = b, !.done = request.done + 1]
<1>0. /\ Between /\ setup = 0 /\ setup \in 0 .. Setup /\ pc = "ready" /\ comp.ok
      /\ UNCHANGED <<setup, sq, cq, vector, arc, message, channel, reactorVars, controllerVars>>
      /\ disk' = disk
  BY SMTT(30), MainPlaces DEF IInv, Types, ChunkDone, othersUnchanged, controllerVars
<1>1. /\ request \in RequestType /\ request.done < Len(request.buf)
      /\ cmd.op = (IF request.write THEN "write" ELSE "read")
      /\ cmd.lba = request.lba + request.done
      /\ request.write => dma = request.buf[request.done + 1]
      /\ OnDisk(request.done)
      /\ answer = "none" /\ dma \in Data /\ disk \in [Lbas -> Data]
  BY SMTT(30), <1>0 DEF IInv, Progress
<1>2. cmd.lba \in Lbas /\ disk[cmd.lba] = dma
  BY <1>0, <1>1 DEF Between, Moved
<1>3. /\ request' = r
      /\ IF r.done < Len(r.buf)
         THEN Chunk(r) /\ UNCHANGED <<answer, comp>>
         ELSE Return /\ answer' = "Ok" /\ UNCHANGED <<woken, dma>>
  BY SMTT(30) DEF ChunkDone
<1>4. /\ b \in Seq(Data) /\ Len(b) = Len(request.buf) /\ b[request.done + 1] = dma
      /\ \A i \in 1 .. request.done : b[i] = request.buf[i]
  <2>1. request.buf \in Seq(Data) /\ request.done \in Nat
    BY SMTT(30), <1>1 DEF RequestType
  <2>2. CASE request.write
    BY SMTT(30), <1>1, <2>1, <2>2
  <2>3. CASE ~request.write
    BY SMTT(30), <1>1, <2>1, <2>3
  <2>. QED
    BY <2>2, <2>3
<1>. HIDE DEF b
<1>5. /\ r \in RequestType /\ r.done = request.done + 1 /\ r.lba = request.lba
      /\ r.buf = b /\ r.write = request.write
  BY Zenon, <1>1, <1>4, Advanced
<1>. HIDE DEF r
<1>6. \A i \in 1 .. r.done : r.lba + i - 1 \in Lbas /\ disk[r.lba + i - 1] = r.buf[i]
  <2>1. r.done \in Nat /\ request.done \in Nat /\ request.lba \in Nat
    BY <1>1, <1>5 DEF RequestType
  <2>2. ASSUME NEW i \in 1 .. r.done
        PROVE  r.lba + i - 1 \in Lbas /\ disk[r.lba + i - 1] = r.buf[i]
    <3>1. CASE i = r.done
      BY SMTT(30), <1>1, <1>2, <1>4, <1>5, <2>1, <3>1
    <3>2. CASE i # r.done
      BY <1>1, <1>4, <1>5, <2>1, <3>2 DEF OnDisk
    <3>. QED
      BY SMTT(30), <3>1, <3>2
  <2>. QED
    BY <2>2
<1>7. CASE r.done < Len(r.buf)
  <2>1. Chunk(r) /\ answer' = "none"
    BY SMTT(30), <1>1, <1>3, <1>7
  <2>2. /\ cmd' \in Unsubmitted /\ cmd'.sq = 1 /\ cmd'.lba = r.lba + r.done
        /\ cmd'.op = (IF r.write THEN "write" ELSE "read")
        /\ pc' = "submit" /\ dma' \in Data
        /\ r.write => dma' = r.buf[r.done + 1]
    BY SMTT(30), <1>1, <1>5, <1>7, <2>1, ChunkStep
  <2>3. Types' /\ RingPhases' /\ Between'
    BY SMTT(30), <1>0, <2>2, MainFrame
  <2>4. QueuesMade'
    BY SMTT(30), <1>0, <2>2 DEF IInv, QueuesMade, Queues
  <2>5. Progress'
    BY <1>0, <1>1, <1>3, <1>5, <1>6, <1>7, <2>1, <2>2 DEF Progress, OnDisk
  <2>. QED
    BY <2>3, <2>4, <2>5 DEF IInv, Shape
<1>8. CASE ~(r.done < Len(r.buf))
  <2>1. pc' = "idle" /\ answer' = "Ok" /\ dma' = dma
    BY <1>3, <1>8 DEF Return
  <2>2. r.done = Len(r.buf)
    BY <1>1, <1>4, <1>5, <1>8 DEF RequestType
  <2>3. Types' /\ RingPhases' /\ Between'
    BY <1>0, <2>1, MainFrame
  <2>4. QueuesMade'
    BY SMTT(30), <1>0, <2>1 DEF IInv, QueuesMade, Queues
  <2>5. Progress'
    BY <1>0, <1>1, <1>3, <1>5, <1>6, <2>1, <2>2 DEF Progress, OnDisk
  <2>. QED
    BY <2>3, <2>4, <2>5 DEF IInv, Shape
<1>. QED
  BY <1>7, <1>8

\* The request fails.
LEMMA ChunkFailedStep == IInv /\ ChunkFailed => IInv'
<1> SUFFICES ASSUME IInv, ChunkFailed PROVE IInv'
  OBVIOUS
<1>. USE DEF ChunkFailed, othersUnchanged, controllerVars, Return
<1>0. Between /\ setup = 0 /\ setup \in 0 .. Setup
  BY MainPlaces DEF IInv, Types
<1>1. Types' /\ RingPhases' /\ Between'
  BY SMTT(30), <1>0, MainFrame
<1>2. QueuesMade' /\ Progress'
  BY <1>0 DEF IInv, QueuesMade, Progress
<1>. QED
  BY SMTT(30), <1>1, <1>2 DEF IInv, Shape
=============================================================================
