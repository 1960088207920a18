---------------------------- MODULE FileTransfer ----------------------------
(***************************************************************************)
(* What a tftp user is promised of one transfer: the destination grows     *)
(* from nothing along the source, the transfer ends with one verdict, and  *)
(* the verdict "complete" is given only when the destination is the        *)
(* source.  TftpSend and TftpRecv are shown to implement it.               *)
(***************************************************************************)
EXTENDS Integers, Sequences

CONSTANT Source

VARIABLES
    dest,       \* the octets stored at the destination
    verdict     \* "none" until the transfer has ended

Prefixes == { SubSeq(Source, 1, k) : k \in 0..Len(Source) }

Init == dest = << >> /\ verdict = "none"

Extend == dest' \in Prefixes /\ Len(dest') >= Len(dest)

(* Octets under way may still arrive after the transfer was given up.      *)
Grow ==
    /\ verdict # "complete"
    /\ Extend
    /\ UNCHANGED verdict

Complete ==
    /\ verdict = "none"
    /\ dest' = Source
    /\ verdict' = "complete"

GiveUp ==
    /\ verdict = "none"
    /\ Extend
    /\ verdict' = "incomplete"

Next == Grow \/ Complete \/ GiveUp

SafeSpec == Init /\ [][Next]_<< dest, verdict >>

Spec == SafeSpec /\ <>(verdict # "none")
=============================================================================
