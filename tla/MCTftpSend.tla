----------------------------- MODULE MCTftpSend -----------------------------
(* Constant values for model checking TftpSend.  Every octet of a file is  *)
(* different from every other, so that a lost, repeated or misplaced one   *)
(* shows.                                                                  *)
EXTENDS TftpSendInv, TLC

OneFile3 == << <<11, 12, 13>> >>
TwoFiles == << <<11, 12, 13, 14>>, <<21, 22>> >>

(* The ports are interchangeable: no action orders them or prefers one.    *)
Symmetry == Permutations(Ports)
=============================================================================
