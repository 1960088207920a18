------------------------------ MODULE MCEdUndo ------------------------------
(* Constant values for model checking EdUndo.                              *)
EXTENDS EdUndo, TLC

CONSTANTS n1, n2, n3

(* No action orders the nodes or prefers one.                              *)
Symmetry == Permutations(Nodes)

(* modified and changed are looked at by q and by ChangesNoted only, and q  *)
(* may end a global command, as SIGINT may: states that differ in nothing  *)
(* else have the same future in the buffer.                                *)
Editing == << buf, undoing, heap, isglobal, active, task >>
=============================================================================
