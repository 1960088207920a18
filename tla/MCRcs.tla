------------------------------- MODULE MCRcs -------------------------------
(* Instances of Rcs for TLC.                                               *)
EXTENDS Rcs

SecondRelease == { << 2, 1 >> }

Symmetry == Permutations(Users) \cup Permutations(Texts)

WithoutStopped == << rcs, work, seen >>
=============================================================================
