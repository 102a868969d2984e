------------------------ MODULE NetworkSchemeProofs ------------------------
(***************************************************************************)
(* The safety properties of NetworkScheme for every set of calls and any   *)
(* number of packets.                                                      *)
(***************************************************************************)
EXTENDS NetworkScheme, TLAPS

\* A call that was sent is in one place: each message and each blocked call is
\* there once, no call is in both places, and none of them is answered.
OnePlace ==
    /\ \A j, k \in 1 .. Len(blocked) : blocked[j] = blocked[k] => j = k
    /\ \A j, k \in 1 .. Len(socket) :
          socket[j].kind = "call" /\ socket[k].kind = "call"
            /\ socket[j].call = socket[k].call => j = k
    /\ \A j \in 1 .. Len(blocked), k \in 1 .. Len(socket) :
          socket[k].kind = "call" => socket[k].call # blocked[j]

Unanswered ==
    /\ \A k \in 1 .. Len(blocked) : answers[blocked[k]] = 0
    /\ \A k \in 1 .. Len(socket) : socket[k].kind = "call" => answers[socket[k].call] = 0

\* Only calls that were sent are anywhere, on handles that were given out.
OnlySent ==
    /\ \A c \in Calls : req[c] = Unsent => answers[c] = 0
    /\ \A k \in 1 .. Len(blocked) : req[blocked[k]] # Unsent
    /\ \A k \in 1 .. Len(socket) : req[socket[k].call] # Unsent
    /\ \A c \in Calls : req[c].id <= next_id

OnlyReadsBlock == \A k \in 1 .. Len(blocked) : req[blocked[k]].op = "read"

\* A blocked read that a packet could serve is one the retry loop has yet to
\* reach, or the packet came with an interrupt that is still to be handled.
WakeUpPending ==
    rx > 0 /\ ~icr =>
        \A k \in 1 .. Len(blocked) :
            StillBlocked(req[blocked[k]]) => pc = "blocked" /\ k >= i

NoticePending == pc = "wait" /\ rx > 0 /\ ~icr /\ ~scheme => DOMAIN handles \subseteq posted

CauseRaisesIrq == icr => irq

Accounting == TypeOK /\ OnePlace /\ Unanswered /\ OnlySent /\ AnsweredOnce
IInv == Accounting /\ OnlyReadsBlock /\ WakeUpPending /\ NoticePending /\ CauseRaisesIrq

-----------------------------------------------------------------------------
LEMMA RemoveFromFacts ==
    ASSUME NEW S, NEW s \in Seq(S), NEW k \in 1 .. Len(s)
    PROVE  /\ RemoveFrom(s, k) \in Seq(S)
           /\ Len(RemoveFrom(s, k)) = Len(s) - 1
           /\ \A j \in 1 .. Len(s) - 1 :
                RemoveFrom(s, k)[j] = IF j < k THEN s[j] ELSE s[j + 1]
  BY DEF RemoveFrom

Distinct(s) == \A j, m \in 1 .. Len(s) : s[j] = s[m] => j = m

\* The elements of t are those of s but the one at k, each once, and none of
\* them has moved to the front of the gap.
Without(t, s, k) ==
    /\ \A j \in 1 .. Len(t) : \E m \in 1 .. Len(s) :
          t[j] = s[m] /\ s[m] # s[k] /\ (m >= k => j >= k)
    /\ Distinct(t)

LEMMA RemoveFromDistinct ==
    ASSUME NEW S, NEW s \in Seq(S), NEW k \in 1 .. Len(s), Distinct(s)
    PROVE  Without(RemoveFrom(s, k), s, k)
  <1> DEFINE r == RemoveFrom(s, k)
  <1> DEFINE from(j) == IF j < k THEN j ELSE j + 1
  <1>1. /\ Len(r) = Len(s) - 1 /\ Len(s) \in Nat /\ k \in Nat
        /\ \A j \in 1 .. Len(r) : r[j] = s[from(j)]
    <2>1. Len(r) = Len(s) - 1
      BY RemoveFromFacts
    <2>2. \A j \in 1 .. Len(s) - 1 : r[j] = IF j < k THEN s[j] ELSE s[j + 1]
      BY RemoveFromFacts
    <2> QED BY <2>1, <2>2
  <1>2. \A j \in 1 .. Len(r) : from(j) \in 1 .. Len(s) /\ from(j) # k /\ (from(j) >= k => j >= k)
    BY <1>1
  <1>3. \A j, m \in 1 .. Len(r) : from(j) = from(m) => j = m
    BY <1>1
  <1> HIDE DEF from, r
  <1>4. /\ \A j \in 1 .. Len(r) : \E m \in 1 .. Len(s) :
               r[j] = s[m] /\ s[m] # s[k] /\ (m >= k => j >= k)
        /\ \A j, m \in 1 .. Len(r) : r[j] = r[m] => j = m
    BY <1>1, <1>2, <1>3 DEF Distinct
  <1> QED BY <1>4 DEF r, Without, Distinct

\* What serving a call may do: handles are only ever opened under new ids, and
\* packets only ever taken.
LEMMA PerformFacts ==
    ASSUME TypeOK, NEW STATE r, Perform(r)
    PROVE  /\ rx' \in Nat /\ rx' <= rx
           /\ next_id' \in Nat /\ next_id <= next_id'
           /\ DOMAIN handles' \subseteq 1 .. next_id'
           /\ \A h \in DOMAIN handles' : handles'[h] \in {"data", "mac"}
           /\ \A h \in DOMAIN handles' : h <= next_id =>
                h \in DOMAIN handles /\ handles'[h] = handles[h]
  <1>1. rx' \in Nat /\ rx' <= rx
    BY DEF TypeOK, Perform, TakesPacket
  <1>2. CASE r.op \in {"open_data", "open_mac"}
    <2>1. next_id' = next_id + 1 /\ DOMAIN handles' = DOMAIN handles \cup {next_id + 1}
      BY <1>2 DEF Perform
    <2>2. \A h \in DOMAIN handles : handles'[h] = handles[h]
      BY <1>2 DEF Perform
    <2>3. handles'[next_id + 1] \in {"data", "mac"}
      <3>1. next_id + 1 \notin DOMAIN handles
        BY DEF TypeOK
      <3> QED BY <1>2, <3>1 DEF Perform
    <2> QED BY <1>1, <2>1, <2>2, <2>3 DEF TypeOK
  <1>3. CASE r.op \notin {"open_data", "open_mac"}
    <2>1. /\ next_id' = next_id /\ DOMAIN handles' \subseteq DOMAIN handles
          /\ \A h \in DOMAIN handles' : handles'[h] = handles[h]
      BY <1>3 DEF Perform
    <2> QED BY <1>1, <2>1 DEF TypeOK
  <1> QED BY <1>2, <1>3

LEMMA InitIInv == Init => IInv
  <1> SUFFICES ASSUME Init PROVE IInv
    OBVIOUS
  <1>1. TypeOK
    <2>1. DOMAIN handles = {} /\ blocked = <<>> /\ socket = <<>>
      BY DEF Init
    <2>2. req \in [Calls -> Requests \cup {Unsent}] /\ answers \in [Calls -> Nat]
      BY DEF Init
    <2>3. icr \in BOOLEAN /\ irq \in BOOLEAN /\ scheme \in BOOLEAN
      BY Zenon DEF Init
    <2>4. blocked \in Seq(Calls) /\ socket \in Seq(Messages)
      BY <2>1
    <2>5. /\ next_id \in Nat /\ rx \in Nat /\ arrived \in Nat /\ posted \subseteq 1 .. next_id
          /\ pc \in {"blocked", "new", "notify", "wait"} /\ i \in Nat \ {0}
      BY DEF Init
    <2> QED BY <2>1, <2>2, <2>3, <2>4, <2>5, Zenon DEF TypeOK
  <1>2. Len(blocked) = 0 /\ Len(socket) = 0
    BY DEF Init
  <1>3. OnePlace /\ Unanswered /\ OnlySent /\ AnsweredOnce
    BY <1>2 DEF Init, OnePlace, Unanswered, OnlySent, AnsweredOnce, Unsent
  <1>4. OnlyReadsBlock /\ WakeUpPending /\ NoticePending /\ CauseRaisesIrq
    BY <1>2 DEF Init, OnlyReadsBlock, WakeUpPending, NoticePending, CauseRaisesIrq
  <1> QED BY <1>1, <1>3, <1>4 DEF IInv, Accounting

\* Answering a call that is in one place and taking it from there.
LEMMA AnswerFacts ==
    ASSUME TypeOK, NEW STATE c, c \in Calls, Answer(c), answers[c] = 0, AnsweredOnce
    PROVE  /\ answers' \in [Calls -> Nat] /\ answers'[c] = 1
           /\ \A d \in Calls : d # c => answers'[d] = answers[d]
           /\ AnsweredOnce'
  BY DEF TypeOK, Answer, AnsweredOnce

LEMMA SocketFacts ==
    TypeOK => \A k \in 1 .. Len(socket) :
                 socket[k].call \in Calls /\ socket[k].kind \in {"call", "cancel"}
  <1> SUFFICES ASSUME TypeOK, NEW k \in 1 .. Len(socket)
               PROVE  socket[k].call \in Calls /\ socket[k].kind \in {"call", "cancel"}
    OBVIOUS
  <1>1. socket[k] \in Messages
    BY DEF TypeOK
  <1> QED BY <1>1 DEF Messages

\* The steps that move no call.
LEMMA NoCallMoves ==
    ASSUME IInv, UNCHANGED <<blocked, socket, req, answers, next_id>>
    PROVE  OnePlace' /\ Unanswered' /\ OnlySent' /\ AnsweredOnce' /\ OnlyReadsBlock'
  BY DEF IInv, Accounting, OnePlace, Unanswered, OnlySent, AnsweredOnce, OnlyReadsBlock

LEMMA RetryKeepsIInv == IInv /\ RetryBlocked => IInv'
  <1> SUFFICES ASSUME IInv, RetryBlocked PROVE IInv'
    OBVIOUS
  <1> USE DEF IInv, Accounting
  <1>t. i \in 1 .. Len(blocked) /\ blocked[i] \in Calls /\ pc = "blocked"
    BY DEF RetryBlocked, TypeOK
  <1>1. CASE Blocks(req[blocked[i]])
    <2>1. /\ i' = i + 1 /\ rx = 0
          /\ UNCHANGED <<handles, next_id, blocked, socket, req, answers, rx, arrived,
                         icr, irq, scheme, posted, pc>>
      BY <1>1 DEF RetryBlocked, Blocks
    <2>2. TypeOK' /\ OnePlace' /\ Unanswered' /\ OnlySent' /\ AnsweredOnce'
      BY <2>1 DEF TypeOK, OnePlace, Unanswered, OnlySent, AnsweredOnce, Unsent, Requests
    <2>3. OnlyReadsBlock' /\ WakeUpPending' /\ NoticePending' /\ CauseRaisesIrq'
      BY <2>1 DEF OnlyReadsBlock, WakeUpPending, NoticePending, CauseRaisesIrq
    <2> QED BY <2>2, <2>3
  <1>2. CASE ~Blocks(req[blocked[i]])
    <2> DEFINE c == blocked[i]
    <2>1. /\ Perform(req[c]) /\ Answer(c) /\ blocked' = RemoveFrom(blocked, i)
          /\ UNCHANGED <<socket, req, arrived, icr, irq, scheme, posted, pc, i>>
      BY <1>2 DEF RetryBlocked
    <2>2. /\ rx' \in Nat /\ rx' <= rx
          /\ next_id' \in Nat /\ next_id <= next_id'
          /\ DOMAIN handles' \subseteq 1 .. next_id'
          /\ \A h \in DOMAIN handles' : handles'[h] \in {"data", "mac"}
          /\ \A h \in DOMAIN handles' : h <= next_id =>
               h \in DOMAIN handles /\ handles'[h] = handles[h]
      BY <2>1, PerformFacts
    <2>3. /\ blocked' \in Seq(Calls) /\ Len(blocked') = Len(blocked) - 1
          /\ \A j \in 1 .. Len(blocked) - 1 :
               blocked'[j] = IF j < i THEN blocked[j] ELSE blocked[j + 1]
      BY <2>1, <1>t, RemoveFromFacts DEF TypeOK
    <2>4. /\ answers' \in [Calls -> Nat] /\ answers'[c] = 1
          /\ \A d \in Calls : d # c => answers'[d] = answers[d]
          /\ AnsweredOnce'
      BY <2>1, <1>t, AnswerFacts DEF Unanswered
    <2>5. TypeOK'
      BY <2>1, <2>2, <2>3, <2>4 DEF TypeOK
    <2>6. /\ \A j \in 1 .. Len(blocked') : \E m \in 1 .. Len(blocked) :
               blocked'[j] = blocked[m] /\ blocked[m] # c /\ (m >= i => j >= i)
          /\ \A j, m \in 1 .. Len(blocked') : blocked'[j] = blocked'[m] => j = m
      <3>1. blocked \in Seq(Calls) /\ Distinct(blocked)
        BY DEF TypeOK, OnePlace, Distinct
      <3>2. Without(RemoveFrom(blocked, i), blocked, i)
        BY <1>t, <3>1, RemoveFromDistinct
      <3> QED BY <2>1, <3>2 DEF Without, Distinct
    <2>7. OnePlace'
      <3>1. \A j \in 1 .. Len(blocked'), k \in 1 .. Len(socket) :
               socket[k].kind = "call" => socket[k].call # blocked'[j]
        BY <2>6 DEF OnePlace
      <3> QED BY <2>1, <2>6, <3>1 DEF OnePlace
    <2>8. Unanswered'
      <3>1. ASSUME NEW j \in 1 .. Len(blocked') PROVE answers'[blocked'[j]] = 0
        <4>1. PICK m \in 1 .. Len(blocked) : blocked'[j] = blocked[m] /\ blocked[m] # c
          BY <2>6
        <4>2. blocked[m] \in Calls /\ answers[blocked[m]] = 0
          BY DEF TypeOK, Unanswered
        <4> QED BY <2>4, <4>1, <4>2
      <3>2. \A k \in 1 .. Len(socket) : socket[k].kind = "call" =>
               socket[k].call \in Calls /\ socket[k].call # c
        BY <1>t, SocketFacts DEF OnePlace
      <3> QED BY <2>1, <2>4, <3>1, <3>2 DEF Unanswered
    <2>9. OnlySent' /\ OnlyReadsBlock'
      <3>1. \A d \in Calls : req[d] = Unsent => answers'[d] = 0
        BY <2>4, <1>t DEF OnlySent
      <3>2. \A d \in Calls : req[d].id <= next_id'
        BY <2>2 DEF OnlySent, TypeOK, Requests, Unsent
      <3>3. \A j \in 1 .. Len(blocked') : req[blocked'[j]] # Unsent /\ req[blocked'[j]].op = "read"
        BY <2>6 DEF OnlySent, OnlyReadsBlock
      <3> QED BY <2>1, <3>1, <3>2, <3>3 DEF OnlySent, OnlyReadsBlock
    <2>10. WakeUpPending'
      <3> SUFFICES ASSUME rx' > 0, ~icr, NEW j \in 1 .. Len(blocked'),
                          StillBlocked(req[blocked[j]])'
                   PROVE  j >= i
        BY <2>1, <1>t DEF WakeUpPending
      <3>1. PICK m \in 1 .. Len(blocked) : blocked'[j] = blocked[m] /\ (m >= i => j >= i)
        BY <2>6
      <3>2. blocked[m] \in Calls /\ req[blocked[m]].id <= next_id
        BY DEF TypeOK, OnlySent
      <3>3. StillBlocked(req[blocked[m]])
        BY <2>1, <2>2, <3>1, <3>2 DEF StillBlocked, Open
      <3> QED BY <3>1, <3>3, <2>2 DEF WakeUpPending, TypeOK
    <2>11. NoticePending' /\ CauseRaisesIrq'
      BY <2>1, <1>t DEF NoticePending, CauseRaisesIrq
    <2> QED BY <2>4, <2>5, <2>7, <2>8, <2>9, <2>10, <2>11
  <1> QED BY <1>1, <1>2

LEMMA LoopKeepsIInv ==
    IInv /\ (RetryDone \/ NewDone \/ NotifyReaders \/ IrqEvent \/ SchemeEvent
              \/ Receive \/ SharedIrq) => IInv'
  <1> USE DEF IInv, Accounting
  <1>1. ASSUME IInv, RetryDone PROVE IInv'
    <2>1. TypeOK'
      BY <1>1 DEF TypeOK, RetryDone
    <2>2. WakeUpPending' /\ NoticePending' /\ CauseRaisesIrq'
      BY <1>1 DEF RetryDone, WakeUpPending, NoticePending, CauseRaisesIrq, StillBlocked, Open, TypeOK
    <2> QED BY <1>1, <2>1, <2>2, NoCallMoves DEF RetryDone
  <1>2. ASSUME IInv, NewDone PROVE IInv'
    <2>1. TypeOK'
      BY <1>2 DEF TypeOK, NewDone
    <2>2. WakeUpPending' /\ NoticePending' /\ CauseRaisesIrq'
      BY <1>2 DEF NewDone, WakeUpPending, NoticePending, CauseRaisesIrq, StillBlocked, Open
    <2> QED BY <1>2, <2>1, <2>2, NoCallMoves DEF NewDone
  <1>3. ASSUME IInv, NotifyReaders PROVE IInv'
    <2>1. TypeOK'
      BY <1>3 DEF TypeOK, NotifyReaders
    <2>2. WakeUpPending' /\ NoticePending' /\ CauseRaisesIrq'
      BY <1>3 DEF NotifyReaders, WakeUpPending, NoticePending, CauseRaisesIrq, StillBlocked, Open
    <2> QED BY <1>3, <2>1, <2>2, NoCallMoves DEF NotifyReaders
  <1>4. ASSUME IInv, IrqEvent PROVE IInv'
    <2>1. TypeOK'
      <3>1. pc' \in {"blocked", "new", "notify", "wait"} /\ i' \in Nat \ {0}
        BY <1>4 DEF TypeOK, IrqEvent, StartTick
      <3>2. icr' \in BOOLEAN /\ irq' \in BOOLEAN /\ scheme' \in BOOLEAN
        BY <1>4, Zenon DEF TypeOK, IrqEvent
      <3>3. UNCHANGED <<handles, next_id, blocked, socket, req, answers, rx, arrived, scheme, posted>>
        BY <1>4 DEF IrqEvent
      <3> QED BY <1>4, <3>1, <3>2, <3>3 DEF TypeOK
    <2>2. WakeUpPending' /\ NoticePending' /\ CauseRaisesIrq'
      <3>1. CASE icr
        BY <1>4, <3>1 DEF IrqEvent, StartTick, WakeUpPending, NoticePending, CauseRaisesIrq
      <3>2. CASE ~icr
        BY <1>4, <3>2 DEF IrqEvent, WakeUpPending, NoticePending, CauseRaisesIrq, StillBlocked, Open
      <3> QED BY <3>1, <3>2
    <2> QED BY <1>4, <2>1, <2>2, NoCallMoves DEF IrqEvent
  <1>5. ASSUME IInv, SchemeEvent PROVE IInv'
    <2>1. TypeOK'
      <3>1. pc' \in {"blocked", "new", "notify", "wait"} /\ i' \in Nat \ {0}
        BY <1>5 DEF TypeOK, SchemeEvent, StartTick
      <3>2. icr' \in BOOLEAN /\ irq' \in BOOLEAN /\ scheme' \in BOOLEAN
        BY <1>5, Zenon DEF TypeOK, SchemeEvent
      <3>3. UNCHANGED <<handles, next_id, blocked, socket, req, answers, rx, arrived, icr, irq, posted>>
        BY <1>5 DEF SchemeEvent
      <3> QED BY <1>5, <3>1, <3>2, <3>3 DEF TypeOK
    <2>2. WakeUpPending' /\ NoticePending' /\ CauseRaisesIrq'
      BY <1>5 DEF SchemeEvent, StartTick, WakeUpPending, NoticePending, CauseRaisesIrq
    <2> QED BY <1>5, <2>1, <2>2, NoCallMoves DEF SchemeEvent
  <1>6. ASSUME IInv, Receive PROVE IInv'
    <2>1. TypeOK'
      BY <1>6 DEF TypeOK, Receive
    <2>2. WakeUpPending' /\ NoticePending' /\ CauseRaisesIrq'
      BY <1>6 DEF Receive, WakeUpPending, NoticePending, CauseRaisesIrq
    <2> QED BY <1>6, <2>1, <2>2, NoCallMoves DEF Receive
  <1>7. ASSUME IInv, SharedIrq PROVE IInv'
    <2>1. TypeOK'
      BY <1>7 DEF TypeOK, SharedIrq
    <2>2. WakeUpPending' /\ NoticePending' /\ CauseRaisesIrq'
      BY <1>7 DEF SharedIrq, WakeUpPending, NoticePending, CauseRaisesIrq, StillBlocked, Open
    <2> QED BY <1>7, <2>1, <2>2, NoCallMoves DEF SharedIrq
  <1> QED BY <1>1, <1>2, <1>3, <1>4, <1>5, <1>6, <1>7

LEMMA SubmitKeepsIInv ==
    ASSUME IInv, NEW c \in Calls, Submit(c)
    PROVE  IInv'
  <1> USE DEF IInv, Accounting
  <1> DEFINE m == CallMsg(c)
  <1>1. PICK op \in Ops, h \in 0 .. next_id :
           /\ req' = [req EXCEPT ![c] = [op |-> op, id |-> h]]
           /\ posted' = IF op = "read_nb" THEN posted \ {h} ELSE posted
    BY DEF Submit
  <1>2. /\ socket' = Append(socket, m) /\ scheme' = TRUE /\ req[c] = Unsent
        /\ UNCHANGED <<handles, next_id, blocked, answers, rx, arrived, icr, irq, pc, i>>
    BY DEF Submit, Post
  <1>3. m \in Messages /\ m.kind = "call" /\ m.call = c
    BY DEF CallMsg, Messages
  <1>4. /\ socket' \in Seq(Messages) /\ Len(socket') = Len(socket) + 1
        /\ \A k \in 1 .. Len(socket) : socket'[k] = socket[k]
        /\ socket'[Len(socket) + 1] = m /\ Len(socket) \in Nat
    BY <1>2, <1>3 DEF TypeOK
  <1>5. /\ req' \in [Calls -> Requests \cup {Unsent}]
        /\ \A d \in Calls : d # c => req'[d] = req[d]
        /\ req'[c].id <= next_id /\ req'[c] # Unsent
    BY <1>1 DEF TypeOK, Requests, Unsent, Ops
  <1>6. TypeOK'
    <2>1. posted' \subseteq 1 .. next_id'
      BY <1>1, <1>2 DEF TypeOK
    <2> QED BY <1>2, <1>4, <1>5, <2>1 DEF TypeOK
  <1>7. /\ \A k \in 1 .. Len(blocked) : blocked[k] \in Calls /\ blocked[k] # c
        /\ \A k \in 1 .. Len(socket) : socket[k].call \in Calls /\ socket[k].call # c
    BY <1>2, SocketFacts DEF OnlySent, TypeOK
  <1>8. OnePlace'
    <2>1. \A j, k \in 1 .. Len(socket') :
             socket'[j].kind = "call" /\ socket'[k].kind = "call"
               /\ socket'[j].call = socket'[k].call => j = k
      BY <1>3, <1>4, <1>7 DEF OnePlace
    <2>2. \A j \in 1 .. Len(blocked), k \in 1 .. Len(socket') :
             socket'[k].kind = "call" => socket'[k].call # blocked[j]
      BY <1>3, <1>4, <1>7 DEF OnePlace
    <2> QED BY <1>2, <2>1, <2>2 DEF OnePlace
  <1>9. Unanswered' /\ AnsweredOnce'
    BY <1>2, <1>3, <1>4, <1>7 DEF Unanswered, OnlySent, AnsweredOnce
  <1>10. OnlySent' /\ OnlyReadsBlock'
    <2>1. \A d \in Calls : req'[d] = Unsent => answers[d] = 0
      BY <1>5 DEF OnlySent
    <2>2. \A d \in Calls : req'[d].id <= next_id
      BY <1>5 DEF OnlySent
    <2>3. \A k \in 1 .. Len(socket') : req'[socket'[k].call] # Unsent
      BY <1>3, <1>4, <1>5, <1>7 DEF OnlySent
    <2> QED BY <1>2, <1>5, <1>7, <2>1, <2>2, <2>3 DEF OnlySent, OnlyReadsBlock
  <1>11. WakeUpPending' /\ NoticePending' /\ CauseRaisesIrq'
    BY <1>2, <1>5, <1>7 DEF WakeUpPending, NoticePending, CauseRaisesIrq, StillBlocked, Open
  <1> QED BY <1>6, <1>8, <1>9, <1>10, <1>11

LEMMA CancelKeepsIInv ==
    ASSUME IInv, NEW c \in Calls, Cancel(c)
    PROVE  IInv'
  <1> USE DEF IInv, Accounting
  <1> DEFINE m == CancelMsg(c)
  <1>1. /\ socket' = Append(socket, m) /\ scheme' = TRUE /\ req[c] # Unsent
        /\ UNCHANGED <<handles, next_id, blocked, req, answers, rx, arrived, icr, irq,
                       posted, pc, i>>
    BY DEF Cancel, Post
  <1>2. m \in Messages /\ m.kind = "cancel" /\ m.call = c
    BY DEF CancelMsg, Messages
  <1>3. /\ socket' \in Seq(Messages) /\ Len(socket') = Len(socket) + 1
        /\ \A k \in 1 .. Len(socket) : socket'[k] = socket[k]
        /\ socket'[Len(socket) + 1] = m /\ Len(socket) \in Nat
    BY <1>1, <1>2 DEF TypeOK
  <1>4. TypeOK'
    BY <1>1, <1>3 DEF TypeOK
  <1>5. OnePlace' /\ Unanswered' /\ AnsweredOnce'
    BY SMTT(30), <1>1, <1>2, <1>3 DEF OnePlace, Unanswered, AnsweredOnce
  <1>6. OnlySent' /\ OnlyReadsBlock'
    BY <1>1, <1>2, <1>3 DEF OnlySent, OnlyReadsBlock
  <1>7. WakeUpPending' /\ NoticePending' /\ CauseRaisesIrq'
    BY <1>1 DEF WakeUpPending, NoticePending, CauseRaisesIrq, StillBlocked, Open
  <1> QED BY <1>4, <1>5, <1>6, <1>7

\* Reading the next message leaves the others, each one place further on.
LEMMA TailFacts ==
    ASSUME TypeOK, socket # <<>>, socket' = Tail(socket)
    PROVE  /\ socket' \in Seq(Messages) /\ Len(socket') = Len(socket) - 1
           /\ \A k \in 1 .. Len(socket') : k + 1 \in 1 .. Len(socket) /\ socket'[k] = socket[k + 1]
           /\ Len(socket) \in Nat \ {0} /\ Head(socket) = socket[1]
           /\ Head(socket).call \in Calls
  <1>1. socket \in Seq(Messages) /\ Len(socket) \in Nat \ {0} /\ Head(socket) = socket[1]
    BY DEF TypeOK
  <1>2. socket[1].call \in Calls
    BY <1>1, SocketFacts
  <1> QED BY <1>1, <1>2

\* So what the accounting says of the messages stays true of the rest.
LEMMA TailAccounting ==
    ASSUME Accounting, socket # <<>>, socket' = Tail(socket)
    PROVE  /\ \A k \in 1 .. Len(socket') : socket'[k].call \in Calls /\ req[socket'[k].call] # Unsent
           /\ \A k \in 1 .. Len(socket') : socket'[k].kind = "call" =>
                 /\ answers[socket'[k].call] = 0
                 /\ Head(socket).kind = "call" => socket'[k].call # Head(socket).call
                 /\ \A j \in 1 .. Len(blocked) : socket'[k].call # blocked[j]
           /\ \A j, k \in 1 .. Len(socket') :
                 socket'[j].kind = "call" /\ socket'[k].kind = "call"
                   /\ socket'[j].call = socket'[k].call => j = k
  <1> USE DEF Accounting
  <1>1. /\ \A k \in 1 .. Len(socket') : k + 1 \in 1 .. Len(socket) /\ socket'[k] = socket[k + 1]
        /\ Len(socket) \in Nat \ {0} /\ Head(socket) = socket[1] /\ Len(socket') = Len(socket) - 1
    BY TailFacts
  <1>2. ASSUME NEW k \in 1 .. Len(socket')
        PROVE  /\ socket'[k].call \in Calls /\ req[socket'[k].call] # Unsent
               /\ socket'[k].kind = "call" =>
                    /\ answers[socket'[k].call] = 0
                    /\ Head(socket).kind = "call" => socket'[k].call # Head(socket).call
                    /\ \A j \in 1 .. Len(blocked) : socket'[k].call # blocked[j]
    <2> DEFINE n == k + 1
    <2>1. n \in 1 .. Len(socket) /\ n # 1 /\ 1 \in 1 .. Len(socket) /\ socket'[k] = socket[n]
      BY <1>1
    <2> HIDE DEF n
    <2>2. socket[n].call \in Calls /\ req[socket[n].call] # Unsent
      BY <2>1, SocketFacts DEF OnlySent
    <2>3. socket[n].kind = "call" => answers[socket[n].call] = 0
      BY <2>1 DEF Unanswered
    <2>4. socket[n].kind = "call" /\ socket[1].kind = "call" => socket[n].call # socket[1].call
      BY <2>1 DEF OnePlace
    <2>5. socket[n].kind = "call" => \A j \in 1 .. Len(blocked) : socket[n].call # blocked[j]
      BY <2>1 DEF OnePlace
    <2> QED BY <1>1, <2>1, <2>2, <2>3, <2>4, <2>5
  <1>3. ASSUME NEW j \in 1 .. Len(socket'), NEW k \in 1 .. Len(socket'),
               socket'[j].kind = "call", socket'[k].kind = "call",
               socket'[j].call = socket'[k].call
        PROVE  j = k
    <2>1. /\ j + 1 \in 1 .. Len(socket) /\ k + 1 \in 1 .. Len(socket)
          /\ socket'[j] = socket[j + 1] /\ socket'[k] = socket[k + 1]
      BY <1>1
    <2>2. j + 1 = k + 1
      BY <1>3, <2>1 DEF OnePlace
    <2> QED BY <2>2
  <1> QED BY <1>2, <1>3

LEMMA NewCallKeepsIInv == IInv /\ NewCall => IInv'
  <1> SUFFICES ASSUME IInv, NewCall PROVE IInv'
    OBVIOUS
  <1> USE DEF IInv, Accounting
  <1> DEFINE c == Head(socket).call
  <1>1. /\ socket # <<>> /\ Head(socket).kind = "call" /\ socket' = Tail(socket) /\ pc = "new"
        /\ UNCHANGED <<req, arrived, icr, irq, scheme, posted, pc, i>>
    BY DEF NewCall
  <1>2. /\ socket' \in Seq(Messages) /\ Len(socket') = Len(socket) - 1
        /\ \A k \in 1 .. Len(socket') : k + 1 \in 1 .. Len(socket) /\ socket'[k] = socket[k + 1]
        /\ Len(socket) \in Nat \ {0} /\ Head(socket) = socket[1] /\ c \in Calls
    BY <1>1, TailFacts
  <1>3. /\ answers[c] = 0 /\ req[c] # Unsent
        /\ \A k \in 1 .. Len(blocked) : blocked[k] \in Calls /\ blocked[k] # c
        /\ \A k \in 1 .. Len(socket') : socket'[k].call \in Calls
             /\ (socket'[k].kind = "call" => socket'[k].call # c)
    <2>1. \A k \in 1 .. Len(blocked) : blocked[k] \in Calls
      BY DEF TypeOK
    <2>2. 1 \in 1 .. Len(socket) /\ socket[1].kind = "call"
      BY <1>1, <1>2
    <2>3. \A k \in 1 .. Len(socket') : socket'[k].call \in Calls
             /\ (socket'[k].kind = "call" => socket'[k].call # c)
      BY <1>1, TailAccounting
    <2> QED BY <1>2, <2>1, <2>2, <2>3 DEF OnePlace, Unanswered, OnlySent
  <1>4. CASE Blocks(req[c])
    <2>1. /\ blocked' = Append(blocked, c) /\ rx = 0 /\ req[c].op = "read"
          /\ UNCHANGED <<handles, next_id, rx, answers>>
      BY <1>4 DEF NewCall, Blocks
    <2>2. /\ blocked' \in Seq(Calls) /\ Len(blocked') = Len(blocked) + 1
          /\ \A k \in 1 .. Len(blocked) : blocked'[k] = blocked[k]
          /\ blocked'[Len(blocked) + 1] = c /\ Len(blocked) \in Nat
      BY <1>2, <2>1 DEF TypeOK
    <2>3. TypeOK'
      BY <1>1, <1>2, <2>1, <2>2 DEF TypeOK
    <2>4. OnePlace'
      <3>1. \A j, k \in 1 .. Len(blocked') : blocked'[j] = blocked'[k] => j = k
        BY <1>3, <2>2 DEF OnePlace
      <3>2. \A j \in 1 .. Len(blocked'), k \in 1 .. Len(socket') :
               socket'[k].kind = "call" => socket'[k].call # blocked'[j]
        BY <1>1, <1>3, <2>2, TailAccounting
      <3> QED BY <1>1, <3>1, <3>2, TailAccounting DEF OnePlace
    <2>5. Unanswered' /\ AnsweredOnce'
      BY <1>1, <1>3, <2>1, <2>2, TailAccounting DEF Unanswered, AnsweredOnce
    <2>6. OnlySent' /\ OnlyReadsBlock'
      BY SMTT(30), <1>1, <1>3, <2>1, <2>2, TailAccounting DEF OnlySent, OnlyReadsBlock
    <2>7. WakeUpPending' /\ NoticePending' /\ CauseRaisesIrq'
      BY <1>1, <2>1 DEF WakeUpPending, NoticePending, CauseRaisesIrq
    <2> QED BY <2>3, <2>4, <2>5, <2>6, <2>7
  <1>5. CASE ~Blocks(req[c])
    <2>1. Perform(req[c]) /\ Answer(c) /\ UNCHANGED blocked
      BY <1>5 DEF NewCall
    <2>2. /\ rx' \in Nat /\ rx' <= rx
          /\ next_id' \in Nat /\ next_id <= next_id'
          /\ DOMAIN handles' \subseteq 1 .. next_id'
          /\ \A h \in DOMAIN handles' : handles'[h] \in {"data", "mac"}
          /\ \A h \in DOMAIN handles' : h <= next_id =>
               h \in DOMAIN handles /\ handles'[h] = handles[h]
      BY <2>1, PerformFacts
    <2>3. /\ answers' \in [Calls -> Nat] /\ answers'[c] = 1
          /\ \A d \in Calls : d # c => answers'[d] = answers[d]
          /\ AnsweredOnce'
      BY <2>1, <1>2, <1>3, AnswerFacts
    <2>4. TypeOK'
      BY <1>1, <1>2, <2>1, <2>2, <2>3 DEF TypeOK
    <2>5. OnePlace'
      BY <1>1, <2>1, TailAccounting DEF OnePlace
    <2>6. Unanswered'
      <3>1. \A k \in 1 .. Len(blocked) : answers'[blocked[k]] = 0
        BY <1>3, <2>3 DEF Unanswered
      <3>2. \A k \in 1 .. Len(socket') : socket'[k].kind = "call" => answers'[socket'[k].call] = 0
        BY <1>1, <1>3, <2>3, TailAccounting
      <3> QED BY <2>1, <3>1, <3>2 DEF Unanswered
    <2>7. \A d \in Calls : req[d].id <= next_id'
      BY <2>2 DEF OnlySent, TypeOK, Requests, Unsent
    <2>8. OnlySent' /\ OnlyReadsBlock'
      <3>1. \A d \in Calls : req[d] = Unsent => answers'[d] = 0
        BY <1>3, <2>3 DEF OnlySent
      <3>2. \A k \in 1 .. Len(socket') : req[socket'[k].call] # Unsent
        BY <1>1, TailAccounting
      <3>3. blocked' = blocked /\ req' = req
        BY <1>1, <2>1
      <3>4. OnlySent'
        BY <2>7, <3>1, <3>2, <3>3 DEF OnlySent
      <3> QED BY <3>3, <3>4 DEF OnlyReadsBlock
    <2>9. WakeUpPending'
      BY <1>1, <1>3, <2>1, <2>2 DEF WakeUpPending, StillBlocked, Open, OnlySent, TypeOK
    <2>10. NoticePending' /\ CauseRaisesIrq'
      BY <1>1 DEF NoticePending, CauseRaisesIrq
    <2> QED BY <2>3, <2>4, <2>5, <2>6, <2>8, <2>9, <2>10
  <1> QED BY <1>4, <1>5

LEMMA CancellationKeepsIInv == IInv /\ NewCancellation => IInv'
  <1> SUFFICES ASSUME IInv, NewCancellation PROVE IInv'
    OBVIOUS
  <1> USE DEF IInv, Accounting
  <1> DEFINE c == Head(socket).call
  <1>1. /\ socket # <<>> /\ socket' = Tail(socket) /\ pc = "new"
        /\ UNCHANGED <<handles, next_id, req, rx, arrived, icr, irq, scheme, posted, pc, i>>
    BY DEF NewCancellation
  <1>2. /\ socket' \in Seq(Messages) /\ Len(socket') = Len(socket) - 1
        /\ \A k \in 1 .. Len(socket') : k + 1 \in 1 .. Len(socket) /\ socket'[k] = socket[k + 1]
        /\ Len(socket) \in Nat \ {0} /\ Head(socket) = socket[1] /\ c \in Calls
    BY <1>1, TailFacts
  <1>3. CASE UNCHANGED <<blocked, answers>>
    <2>1. TypeOK'
      BY <1>1, <1>2, <1>3 DEF TypeOK
    <2>2. OnePlace' /\ Unanswered' /\ AnsweredOnce'
      BY <1>1, <1>3, TailAccounting DEF OnePlace, Unanswered, AnsweredOnce
    <2>3. OnlySent' /\ OnlyReadsBlock'
      BY <1>1, <1>3, TailAccounting DEF OnlySent, OnlyReadsBlock
    <2>4. WakeUpPending' /\ NoticePending' /\ CauseRaisesIrq'
      BY <1>1, <1>3 DEF WakeUpPending, NoticePending, CauseRaisesIrq, StillBlocked, Open
    <2> QED BY <2>1, <2>2, <2>3, <2>4
  <1>4. ASSUME NEW k \in 1 .. Len(blocked), blocked[k] = c, Unblock(k), Answer(c)
        PROVE  IInv'
    <2>1. blocked' = RemoveFrom(blocked, k)
      BY <1>4 DEF Unblock
    <2>2. blocked' \in Seq(Calls)
      BY <2>1, RemoveFromFacts DEF TypeOK
    <2>3. /\ \A j \in 1 .. Len(blocked') : \E m \in 1 .. Len(blocked) :
               blocked'[j] = blocked[m] /\ blocked[m] # blocked[k] /\ (m >= k => j >= k)
          /\ \A j, m \in 1 .. Len(blocked') : blocked'[j] = blocked'[m] => j = m
      <3>1. blocked \in Seq(Calls) /\ Distinct(blocked)
        BY DEF TypeOK, OnePlace, Distinct
      <3>2. Without(RemoveFrom(blocked, k), blocked, k)
        BY <3>1, RemoveFromDistinct
      <3> QED BY <2>1, <3>2 DEF Without, Distinct
    <2>4. answers[c] = 0
      BY <1>4 DEF Unanswered
    <2>5. /\ answers' \in [Calls -> Nat] /\ answers'[c] = 1
          /\ \A d \in Calls : d # c => answers'[d] = answers[d]
          /\ AnsweredOnce'
      BY <1>4, <1>2, <2>4, AnswerFacts
    <2>6. TypeOK'
      BY <1>1, <1>2, <2>2, <2>5 DEF TypeOK
    <2>7. \A n \in 1 .. Len(socket') : socket'[n].kind = "call" =>
             /\ socket'[n].call \in Calls /\ socket'[n].call # c
             /\ \A j \in 1 .. Len(blocked) : socket'[n].call # blocked[j]
      BY <1>1, <1>4, TailAccounting
    <2>8. OnePlace'
      <3>1. \A j \in 1 .. Len(blocked'), n \in 1 .. Len(socket') :
               socket'[n].kind = "call" => socket'[n].call # blocked'[j]
        BY <2>3, <2>7
      <3>2. \A j, n \in 1 .. Len(socket') :
               socket'[j].kind = "call" /\ socket'[n].kind = "call"
                 /\ socket'[j].call = socket'[n].call => j = n
        BY <1>1, TailAccounting
      <3> QED BY <2>3, <3>1, <3>2 DEF OnePlace
    <2>9. Unanswered'
      <3>1. ASSUME NEW j \in 1 .. Len(blocked') PROVE answers'[blocked'[j]] = 0
        <4>1. PICK m \in 1 .. Len(blocked) : blocked'[j] = blocked[m] /\ blocked[m] # c
          BY <2>3, <1>4
        <4>2. blocked[m] \in Calls /\ answers[blocked[m]] = 0
          BY DEF TypeOK, Unanswered
        <4> QED BY <2>5, <4>1, <4>2
      <3>2. \A n \in 1 .. Len(socket') : socket'[n].kind = "call" => answers'[socket'[n].call] = 0
        BY <1>1, <2>5, <2>7, TailAccounting
      <3> QED BY <3>1, <3>2 DEF Unanswered
    <2>10. OnlySent' /\ OnlyReadsBlock'
      <3>1. req[c] # Unsent
        BY <1>4 DEF OnlySent
      <3>2. \A d \in Calls : req[d] = Unsent => answers'[d] = 0
        BY <2>5, <3>1 DEF OnlySent
      <3>3. \A j \in 1 .. Len(blocked') : req[blocked'[j]] # Unsent /\ req[blocked'[j]].op = "read"
        <4> TAKE j \in 1 .. Len(blocked')
        <4>1. PICK m \in 1 .. Len(blocked) : blocked'[j] = blocked[m]
          BY <2>3
        <4> QED BY <4>1 DEF OnlySent, OnlyReadsBlock
      <3>4. \A n \in 1 .. Len(socket') : req[socket'[n].call] # Unsent
        BY <1>1, TailAccounting
      <3> QED BY <1>1, <3>2, <3>3, <3>4 DEF OnlySent, OnlyReadsBlock
    <2>11. WakeUpPending'
      <3> SUFFICES ASSUME rx > 0, ~icr, NEW j \in 1 .. Len(blocked'),
                          StillBlocked(req[blocked[j]])'
                   PROVE  FALSE
        BY <1>1 DEF WakeUpPending
      <3>1. PICK m \in 1 .. Len(blocked) : blocked'[j] = blocked[m]
        BY <2>3
      <3>2. StillBlocked(req[blocked[m]])
        BY <1>1, <3>1 DEF StillBlocked, Open
      <3> QED BY <3>2, <1>1 DEF WakeUpPending
    <2>12. NoticePending' /\ CauseRaisesIrq'
      BY <1>1 DEF NoticePending, CauseRaisesIrq
    <2> QED BY <2>5, <2>6, <2>8, <2>9, <2>10, <2>11, <2>12
  <1> QED BY <1>3, <1>4 DEF NewCancellation

LEMMA StepIInv == IInv /\ [Next]_vars => IInv'
  <1> SUFFICES ASSUME IInv, [Next]_vars PROVE IInv'
    OBVIOUS
  <1>1. CASE UNCHANGED vars
    <2>1. TypeOK'
      BY <1>1 DEF vars, IInv, Accounting, TypeOK
    <2>2. OnePlace' /\ Unanswered' /\ OnlySent' /\ AnsweredOnce' /\ OnlyReadsBlock'
      BY <1>1, NoCallMoves DEF vars
    <2>3. WakeUpPending' /\ NoticePending' /\ CauseRaisesIrq'
      BY <1>1 DEF vars, IInv, WakeUpPending, NoticePending, CauseRaisesIrq, StillBlocked, Open
    <2> QED BY <2>1, <2>2, <2>3 DEF IInv, Accounting
  <1>2. CASE Next
    BY <1>2, RetryKeepsIInv, LoopKeepsIInv, NewCallKeepsIInv, CancellationKeepsIInv,
       SubmitKeepsIInv, CancelKeepsIInv DEF Next, Driver, Tick
  <1> QED BY <1>1, <1>2

LEMMA Inductive == Spec => []IInv
  BY InitIInv, StepIInv, PTL DEF Spec

-----------------------------------------------------------------------------
\* The state of the scheme keeps its types.
THEOREM TypeCorrect == Spec => []TypeOK
  <1>1. IInv => TypeOK
    BY DEF IInv, Accounting
  <1> QED BY <1>1, Inductive, PTL

\* tick() never answers a call twice, whatever the order of retries,
\* cancellations and closes.
THEOREM NeverAnsweredTwice == Spec => []AnsweredOnce
  <1>1. IInv => AnsweredOnce
    BY DEF IInv, Accounting
  <1> QED BY <1>1, Inductive, PTL

\* A driver that listens to its interrupt never sleeps on a packet a blocked
\* read waits for: the interrupt of a packet that came after the retry loop had
\* passed the read starts another tick().
THEOREM ReadersWakeUp == IrqSubscribed => (Spec => []NoReaderLeftBehind)
  <1> SUFFICES ASSUME IrqSubscribed PROVE Spec => []NoReaderLeftBehind
    OBVIOUS
  <1>1. IInv => NoReaderLeftBehind
    BY DEF IInv, WakeUpPending, CauseRaisesIrq, NoReaderLeftBehind
  <1> QED BY <1>1, Inductive, PTL

\* Nor does it sleep before every handle was told of the packets that are left.
THEOREM HandlesHearOfPackets == IrqSubscribed => (Spec => []HandlesAreNotified)
  <1> SUFFICES ASSUME IrqSubscribed PROVE Spec => []HandlesAreNotified
    OBVIOUS
  <1>1. IInv => HandlesAreNotified
    BY DEF IInv, NoticePending, CauseRaisesIrq, HandlesAreNotified
  <1> QED BY <1>1, Inductive, PTL
=============================================================================
