----------------------------- MODULE MCCvsFile -----------------------------
(* Constant values for model checking CvsFile.                             *)
EXTENDS CvsFileInv, TLC

CONSTANTS u1, u2

TwoUsers == {u1, u2}
UserSymmetry == Permutations(TwoUsers)
=============================================================================
