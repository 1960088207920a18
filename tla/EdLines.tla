------------------------------ MODULE EdLines ------------------------------
(***************************************************************************)
(* What the u command of ed promises: "undoes the last command and         *)
(* restores the current address", and "is its own inverse".  text holds    *)
(* the lines and the current address; saved is what u will bring back.     *)
(***************************************************************************)
EXTENDS Integers, Sequences

CONSTANT Nothing        \* there is nothing to undo

VARIABLES text, saved

Init == saved = Nothing

(* A command that changes lines: first the present state is saved, then    *)
(* the lines are changed, in one step or in several.                       *)
Save == saved' = text /\ text'.lines = text.lines
Change == UNCHANGED saved

(* u                                                                       *)
Undo == saved # Nothing /\ text' = saved /\ saved' = text

(* e reads another file.                                                   *)
Forget == saved' = Nothing

(* Memory runs out: what was saved is given up. When it does so while a    *)
(* line is added, the line stays.                                          *)
GiveUp ==
    /\ saved' = text'
    /\ text'.lines = text.lines \/ Len(text'.lines) = Len(text.lines) + 1

Next == Change \/ Save \/ Undo \/ Forget \/ GiveUp

Spec == Init /\ [][Next]_<<text, saved>>
=============================================================================
