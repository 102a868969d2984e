-------------------------------- MODULE Sound ---------------------------------
(*****************************************************************************)
(* The drivers of sound cards, ihdad, ac97d and sb16d: a ring of sub         *)
(* buffers that the card plays and the daemon fills.  A write that would be  *)
(* more than three buffers ahead waits in todo for the next interrupt.       *)
(*                                                                           *)
(* An Intel HD Audio stream plays its ring round and round, whether it was   *)
(* filled or not.  An AC'97 card stops after the last valid buffer.  sb16d   *)
(* plays nothing yet.  The speaker of pcspkrd is at the end.                 *)
(*****************************************************************************)
EXTENDS Integers, FiniteSets, SequencesExt

CONSTANTS Cards,        \* subset of {"ihda", "ac97", "sb16"}
          NumSubBuffs,  \* NUM_SUB_BUFFS, 32 in the code
          MaxBehind,    \* buffers completed before the daemon handles their interrupt
          MaxOpens,     \* handles that are ever opened
          DumpLen       \* length of the text that describes the codec

VARIABLES card,
          block,        \* the buffer that is being played: link_position, civ
          current,      \* ihdad: the buffer to fill next; ac97d: lvi, the last one filled
          ints,         \* the card's interrupt status
          event, masked,\* the irq file: an event to read; not acknowledged since the last one
          behind,       \* buffers completed since the daemon last looked
          pc,           \* the step of the daemon's event loop
          handles,      \* what the open ids stand for
          call, todo,   \* the client's call, and whether it waits for the next interrupt
          queue         \* history: buffers filled ahead of the card and not yet played

vars == <<card, block, current, ints, event, masked, behind, pc, handles, call, todo, queue>>
cardVars == <<block, current, queue>>
irqVars == <<ints, event, masked, behind, pc>>

NoCall == [op |-> "none"]

Init ==
    /\ card \in Cards
    /\ block = 0 /\ current = 0 /\ queue = <<>>
    /\ ints = FALSE /\ event = FALSE /\ masked = FALSE
    /\ behind = 0 /\ pc = "wait"
    /\ handles = <<>>
    /\ call = NoCall /\ todo = FALSE

Succ(b) == (b + 1) % NumSubBuffs

-----------------------------------------------------------------------------
(* The card *)

\* A buffer is completed.  The card goes on to the next one, an AC'97 card only up to the
\* last valid buffer.
Play ==
    /\ card = "ihda" \/ (card = "ac97" /\ block # current)
    /\ behind < MaxBehind /\ behind' = behind + 1
    /\ block' = Succ(block)
    /\ queue' = IF queue # <<>> /\ Head(queue) = Succ(block) THEN Tail(queue) ELSE queue
    /\ ints' = TRUE
    /\ event' = (event \/ ~masked) /\ masked' = TRUE
    /\ UNCHANGED <<card, current, pc, handles, call, todo>>

\* Another device of the interrupt line.
Spurious ==
    /\ ~event /\ ~masked
    /\ event' = TRUE
    /\ UNCHANGED <<card, cardVars, ints, masked, behind, pc, handles, call, todo>>

-----------------------------------------------------------------------------
(* The client *)

Ids == DOMAIN handles

Calls ==
    [op : {"open"}, root : BOOLEAN, path : {"codec", "other"}]
    \cup [op : {"write"}, id : Ids, fits : BOOLEAN]
    \cup [op : {"read", "close"}, id : Ids]
    \cup [op : {"seek"}, id : Ids, pos : {-1}, whence : {"set", "cur", "end"}]

Request ==
    /\ call = NoCall
    /\ \E c \in Calls : call' = c /\ (c.op = "open" => Len(handles) < MaxOpens)
    /\ UNCHANGED <<card, cardVars, irqVars, handles, todo>>

-----------------------------------------------------------------------------
(* The scheme *)

Return == call' = NoCall /\ todo' = FALSE

\* An id is never given twice: next_id only grows.
Open(c) ==
    IF ~c.root THEN Return /\ UNCHANGED handles
    ELSE /\ handles' = Append(handles, IF card = "ihda" /\ c.path = "codec" THEN [kind |-> "text", pos |-> 0]
                                                                           ELSE [kind |-> "sound"])
         /\ Return

\* The position of a text handle.  A negative position from the start is a huge one.
Clamp(n) == IF n < 0 THEN 0 ELSE IF n > DumpLen THEN DumpLen ELSE n
Seek(h, c) ==
    CASE c.whence = "set" -> IF c.pos < 0 THEN DumpLen ELSE Clamp(c.pos)
      [] c.whence = "cur" -> Clamp(h.pos + c.pos)
      [] c.whence = "end" -> Clamp(DumpLen + c.pos)

Text(c) ==
    LET h == handles[c.id]
    IN IF card # "ihda" \/ h.kind # "text"
       THEN Return /\ UNCHANGED handles
       ELSE /\ handles' = [handles EXCEPT ![c.id].pos =
                              IF c.op = "seek" THEN Seek(h, c) ELSE Clamp(h.pos + 1)]
            /\ Return

Close(c) ==
    IF handles[c.id].kind = "closed" THEN Return /\ UNCHANGED handles
    ELSE handles' = [handles EXCEPT ![c.id] = [kind |-> "closed"]] /\ Return


\* The daemon is three buffers ahead of the card.
Full == current = (block + 3) % NumSubBuffs

\* Buffer b is filled.  On ihdad's ring it is heard in this round only if the card has not
\* come to it yet.
Fill(b) ==
    /\ current' = IF card = "ihda" THEN Succ(b) ELSE b
    /\ queue' = IF card = "ac97" \/ (b - block) % NumSubBuffs \in 1 .. 3 THEN Append(queue, b)
                ELSE queue

Blocks == todo' = TRUE /\ UNCHANGED <<call, current, queue>>
Refuses == Return /\ UNCHANGED <<current, queue>>

\* write_to_output of ihdad, which checks the size of the data after the room in the ring.
WriteHda(c) ==
    CASE handles[c.id].kind # "sound" -> Refuses
      [] Full -> Blocks
      [] ~c.fits -> Refuses
      [] OTHER -> Fill(current) /\ Return

\* write of ac97d, which checks it before.
WriteAc97(c) ==
    CASE handles[c.id].kind # "sound" \/ ~c.fits -> Refuses
      [] Full -> Blocks
      [] OTHER -> Fill(Succ(current)) /\ Return

Write(c) ==
    CASE card = "ihda" -> WriteHda(c) [] card = "ac97" -> WriteAc97(c) [] card = "sb16" -> Refuses

Handle ==
    CASE call.op = "open" -> Open(call) /\ UNCHANGED <<current, queue>>
      [] call.op = "write" -> Write(call) /\ UNCHANGED handles
      [] call.op \in {"read", "seek"} -> Text(call) /\ UNCHANGED <<current, queue>>
      [] call.op = "close" -> Close(call) /\ UNCHANGED <<current, queue>>

-----------------------------------------------------------------------------
(* The event loop *)

Scheme ==
    /\ pc = "wait" /\ call # NoCall /\ ~todo
    /\ Handle
    /\ UNCHANGED <<card, block, irqVars>>

\* The event is read, and the status of the card.
Irq ==
    /\ pc = "wait" /\ event
    /\ event' = FALSE
    /\ pc' = IF ints /\ card # "sb16" THEN "clear" ELSE "wait"
    /\ UNCHANGED <<card, cardVars, ints, masked, behind, handles, call, todo>>

\* clear_interrupts, or the status bits written back.
Clear ==
    /\ pc = "clear"
    /\ ints' = FALSE
    /\ pc' = "ack"
    /\ UNCHANGED <<card, cardVars, event, masked, behind, handles, call, todo>>


\* The interrupt is acknowledged: the next one may come, at once if the status is set again.
Ack ==
    /\ pc = "ack"
    /\ event' = (event \/ ints) /\ masked' = ints
    /\ pc' = "retry"
    /\ UNCHANGED <<card, cardVars, ints, behind, handles, call, todo>>

\* The calls in todo are tried again.
Retry ==
    /\ pc = "retry"
    /\ pc' = "wait" /\ behind' = 0
    /\ IF todo THEN Handle ELSE UNCHANGED <<call, todo, handles, current, queue>>
    /\ UNCHANGED <<card, block, ints, event, masked>>

Next == Play \/ Spurious \/ Request \/ Scheme \/ Irq \/ Clear \/ Ack \/ Retry

-----------------------------------------------------------------------------
(* Properties *)

Distance(b) == (b - block) % NumSubBuffs

\* What was filled ahead of the card is played in the order of the writes and none of it is
\* overwritten before, however far the card ran past a slow writer: the card comes to the
\* buffers of the queue in their order, the last three buffers ahead at most.  An AC'97
\* card plays nothing else (write_to_output, write).
InOrder ==
    /\ \A i \in DOMAIN queue : Distance(queue[i]) \in 1 .. 3
    /\ \A i, j \in DOMAIN queue : i < j => Distance(queue[i]) < Distance(queue[j])
    /\ card = "ac97" => Distance(current) = Len(queue)

-----------------------------------------------------------------------------
(* The speaker: pcspkrd gives it to one client at a time, and a tone sounds until it is
   turned off or the client closes its handle. *)

CONSTANTS Programs, MaxSpeakerOpens

VARIABLES handle, next_id,    \* the scheme; 0 is no handle
          fds,                \* the ids each program has open
          gate, tone          \* the speaker, and the program whose tone it is set to

speaker_vars == <<handle, next_id, fds, gate, tone>>

SpeakerInit ==
    /\ handle = 0 /\ next_id = 0
    /\ fds = [p \in Programs |-> {}]
    /\ gate = FALSE /\ tone = "none"

\* open: for writing if nobody else has it.  An open that only asks for the metadata gets
\* the id 0.
SpeakerOpen(p) ==
    /\ handle = 0 /\ next_id < MaxSpeakerOpens
    /\ next_id' = next_id + 1
    /\ handle' = next_id'
    /\ fds' = [fds EXCEPT ![p] = @ \cup {next_id'}]
    /\ UNCHANGED <<gate, tone>>

SpeakerStat(p) ==
    /\ fds' = [fds EXCEPT ![p] = @ \cup {0}]
    /\ UNCHANGED <<handle, next_id, gate, tone>>

\* write of two bytes, a frequency; zero turns the speaker off.  Other writes fail.
SpeakerWrite(p, id, frequency) ==
    /\ id \in fds[p] /\ handle = id /\ id # 0
    /\ gate' = (frequency # 0)
    /\ tone' = IF frequency # 0 THEN p ELSE tone
    /\ UNCHANGED <<handle, next_id, fds>>

\* close, by the program or by its end.
SpeakerClose(p, id) ==
    /\ id \in fds[p]
    /\ fds' = [fds EXCEPT ![p] = @ \ {id}]
    /\ IF handle = id /\ id # 0 THEN gate' = FALSE /\ handle' = 0 ELSE UNCHANGED <<gate, handle>>
    /\ UNCHANGED <<next_id, tone>>

SpeakerNext ==
    \E p \in Programs :
       \/ SpeakerOpen(p) \/ SpeakerStat(p)
       \/ \E id \in fds[p] : SpeakerClose(p, id) \/ \E f \in {0, 1} : SpeakerWrite(p, id, f)

-----------------------------------------------------------------------------
\* The speaker sounds only for the program that has it open, and at most one has it: the
\* tone ends with its handle (open, write, close).
ToneOfOwner ==
    /\ gate => \E id \in fds[tone] : id = handle /\ id # 0
    /\ \A p, q \in Programs : p # q => (fds[p] \cap fds[q]) \subseteq {0}
=============================================================================
