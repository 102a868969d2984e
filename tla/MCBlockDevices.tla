--------------------------- MODULE MCBlockDevices ---------------------------
(***************************************************************************)
(* Disks of four sectors, commands of two, requests of up to three: every   *)
(* request may start and end within a command.                              *)
(***************************************************************************)
EXTENDS BlockDevices

MCSeeks == [from : {"Start"}, pos : 0 .. 8] \cup [from : {"Current", "End"}, pos : -3 .. 3]

MCTables == {[p \in {0, 1} |-> IF p = 0 THEN [start_lba |-> 0, size |-> 2] ELSE [start_lba |-> 2, size |-> 1]],
             [p \in {0, 1} |-> None]}
MCPartTables == {<<>>, <<[start_lba |-> 1, size |-> 2]>>}

MCImages == {[phys |-> 4, size |-> 6], [phys |-> 5, size |-> 4], [phys |-> 0, size |-> 4]}
=============================================================================
