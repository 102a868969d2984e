------------------------------- MODULE SdHost -------------------------------
(***************************************************************************)
(* bcm2835-sdhcid: the start-up of an SD card and its block transfers.  A   *)
(* command is one step, with its wait for the controller and the response;  *)
(* every wait has a limit, so a command may fail.  A card is addressed in   *)
(* blocks or in bytes (SCR_SUPP_CCS); one that counts blocks                *)
(* (SCR_SUPP_SET_BLKCNT) ends a multiple transfer by itself, any other has   *)
(* to be told to stop.                                                      *)
(***************************************************************************)
EXTENDS Naturals

CONSTANTS Sectors,      \* the number of blocks of the card
          BlockLength,  \* 512
          MaxLength,    \* the most blocks a request asks for
          Starts,       \* the first blocks requests ask for
          MaxCalls,     \* how many requests are made
          None

VARIABLES calls,        \* how many requests were made
          scr,          \* SdHostCtrl::scr: what the driver knows of the card
          init,         \* did init reach its end
          card,         \* the card: its kind, its state, where it transfers
          disk,         \* what its blocks hold
          call,         \* the read or write being served, with its buffer
          pc,           \* where it stands
          cnt,          \* blocks moved
          answer        \* the last transfer that was answered

vars == <<calls, scr, init, card, disk, call, pc, cnt, answer>>

LBAs == 0 .. Sectors - 1
Features == [ccs : BOOLEAN, set_blkcnt : BOOLEAN]
NewData == [i \in 0 .. MaxLength - 1 |-> Sectors + i]
NoData == [i \in 0 .. MaxLength - 1 |-> Sectors + MaxLength]
Calls == {[write |-> w, block |-> b, length |-> l, data |-> IF w THEN NewData ELSE NoData] :
            w \in BOOLEAN, b \in Starts, l \in 1 .. MaxLength}

-----------------------------------------------------------------------------
\* The card obeys a transfer command only when it is not transferring.
\* limit is the number of blocks it stops after, None if it goes on.
Transfer(write, arg, limit) ==
    /\ card.mode = "tran"
    /\ LET b == IF card.features.ccs THEN arg ELSE arg \div BlockLength
       IN  card' = [card EXCEPT !.mode = IF write THEN "rcv" ELSE "data", !.block = b, !.limit = limit]

\* init: the last command before scr takes CCS from the OCR sets the bus width,
\* and a failure anywhere leaves scr as it is by then.
CardInit ==
    /\ pc = "init"
    /\ \/ scr' = [ccs |-> FALSE, set_blkcnt |-> FALSE] /\ init' = FALSE
       \/ scr' = [card.features EXCEPT !.ccs = FALSE] /\ init' = FALSE
       \/ scr' = card.features /\ init' = TRUE
    /\ pc' = "idle"
    /\ UNCHANGED <<calls, card, disk, call, cnt, answer>>

Submit(c) ==
    /\ pc = "idle" /\ calls < MaxCalls
    /\ calls' = calls + 1
    /\ call' = c /\ answer' = None /\ cnt' = 0
    /\ pc' = "inhibit"
    /\ UNCHANGED <<scr, init, card, disk>>

Err ==
    /\ call' = None /\ pc' = "idle"
    /\ answer' = [call |-> call, ok |-> FALSE]

\* sd_status waits until the data lines are free.
Inhibit ==
    /\ pc = "inhibit"
    /\ \/ /\ pc' = IF ~scr.ccs THEN "block"
                   ELSE IF call.length > 1 /\ scr.set_blkcnt THEN "count" ELSE "start"
          /\ UNCHANGED <<call, answer>>
       \/ Err
    /\ UNCHANGED <<calls, scr, init, card, disk, cnt>>

\* CMD_SET_BLOCKCNT; the card takes it only between transfers.
SetBlockCount ==
    /\ pc = "count"
    /\ \/ /\ card.mode = "tran"
          /\ card' = [card EXCEPT !.count = call.length]
          /\ pc' = "start"
          /\ UNCHANGED <<call, answer>>
       \/ Err /\ UNCHANGED card
    /\ UNCHANGED <<calls, scr, init, disk, cnt>>

Panic == pc' = "panicked" /\ call' = None /\ answer' = None

\* CMD_READ_SINGLE or CMD_READ_MULTI, or those for writing, at a block.
StartBlocks ==
    /\ pc = "start"
    /\ \/ /\ Transfer(call.write, call.block, IF call.length = 1 THEN 1 ELSE card.count)
          /\ pc' = "ready"
          /\ UNCHANGED <<call, answer>>
       \/ Panic /\ UNCHANGED card
    /\ UNCHANGED <<calls, scr, init, disk, cnt>>

\* A card addressed in bytes is sent a command for each block.
StartBlock ==
    /\ pc = "block" /\ cnt < call.length
    /\ \/ /\ Transfer(call.write, (call.block + cnt) * BlockLength, 1)
          /\ pc' = "ready"
          /\ UNCHANGED <<call, answer>>
       \/ Panic /\ UNCHANGED card
    /\ UNCHANGED <<calls, scr, init, disk, cnt>>

\* sd_int waits for READ_RDY or WRITE_RDY; then a block goes through the data
\* register.  The card is done when it has moved its limit.
MoveBlock ==
    /\ pc = "ready" /\ cnt < call.length
    /\ card.mode = (IF call.write THEN "rcv" ELSE "data") /\ card.block \in LBAs
    /\ IF call.write
       THEN disk' = [disk EXCEPT ![card.block] = call.data[cnt]] /\ UNCHANGED call
       ELSE call' = [call EXCEPT !.data[cnt] = disk[card.block]] /\ UNCHANGED disk
    /\ card' = IF card.limit = 1
               THEN [card EXCEPT !.mode = "tran", !.count = None, !.limit = None]
               ELSE [card EXCEPT !.block = @ + 1, !.limit = IF @ = None THEN None ELSE @ - 1]
    /\ cnt' = cnt + 1
    /\ pc' = IF scr.ccs \/ cnt' = call.length THEN "ready" ELSE "block"
    /\ UNCHANGED <<calls, scr, init, answer>>

\* No block in time, or an error: the card stays where it is.
NotReady ==
    /\ pc = "ready" /\ cnt < call.length
    /\ Err
    /\ UNCHANGED <<calls, scr, init, card, disk, cnt>>

\* A write waits for DATA_DONE.  CMD_STOP_TRANS ends what the card does not end.
Finish_NoStop ==
    /\ pc = "ready" /\ cnt = call.length
    /\ call' = None /\ pc' = "idle" /\ answer' = [call |-> call, ok |-> TRUE]
    /\ UNCHANGED <<calls, scr, init, card, disk, cnt>>

Finish ==
    /\ pc = "ready" /\ cnt = call.length
    /\ \/ call.write /\ Err /\ UNCHANGED card
       \/ /\ call' = None /\ pc' = "idle" /\ answer' = [call |-> call, ok |-> TRUE]
          /\ IF call.length > 1 /\ ~scr.set_blkcnt /\ scr.ccs
             THEN card' = [card EXCEPT !.mode = "tran", !.limit = None]
             ELSE UNCHANGED card
       \/ /\ call.length > 1 /\ ~scr.set_blkcnt /\ scr.ccs
          /\ Panic /\ UNCHANGED card
    /\ UNCHANGED <<calls, scr, init, disk, cnt>>

-----------------------------------------------------------------------------
Init ==
    /\ calls = 0 /\ scr = [ccs |-> FALSE, set_blkcnt |-> FALSE] /\ init = FALSE
    /\ card \in [features : Features, mode : {"tran"}, block : {0}, limit : {None}, count : {None}]
    /\ disk = [b \in LBAs |-> b]
    /\ call = None /\ pc = "init" /\ cnt = 0 /\ answer = None

Driver == \/ CardInit \/ Inhibit \/ SetBlockCount \/ StartBlocks \/ StartBlock
          \/ MoveBlock \/ NotReady \/ Finish
Next == Driver \/ \E c \in Calls : Submit(c)

\* The thread of the driver runs; every wait of it has a limit.
Fairness == WF_vars(Driver)
Spec == Init /\ [][Next]_vars /\ Fairness

-----------------------------------------------------------------------------
\* Once init has come to its end, a transfer that is answered with success has
\* moved exactly its blocks, for every kind of card (sd_readblock, sd_writeblock).
Transferred ==
    answer # None /\ answer.ok /\ init =>
        \A i \in 0 .. answer.call.length - 1 : disk[answer.call.block + i] = answer.call.data[i]

\* Once init has come to its end, a write changes its own blocks only.
OnlyTheSectorsAsked ==
    \A b \in LBAs : disk'[b] # disk[b] /\ init =>
        call # None /\ call.write /\ b \in call.block .. call.block + call.length - 1

\* After a transfer that succeeded the card is ready for the next: the driver
\* stops it exactly when the card does not stop by itself (CMD_STOP_TRANS).
ReadyForNext ==
    answer # None /\ answer.ok /\ init => card.mode = "tran"
=============================================================================
