----------------------------- MODULE MCTftpRecv -----------------------------
(* Constant values for model checking TftpRecv.  Every octet of a file is  *)
(* different from every other, so that a lost, repeated or misplaced one   *)
(* shows.                                                                  *)
EXTENDS TftpRecvInv, TLC

OneFile5 == << <<11, 12, 13, 14, 15>> >>
OneFile3 == << <<11, 12, 13>> >>
TwoFiles == << <<11, 12, 13, 14>>, <<21, 22>> >>

(* The ports are interchangeable: no action orders them or prefers one.    *)
Symmetry == Permutations(Ports)
=============================================================================
