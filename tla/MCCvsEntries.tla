---------------------------- MODULE MCCvsEntries ----------------------------
(* Constant values for model checking CvsEntries.                          *)
EXTENDS CvsEntries

CONSTANTS f, g, l1, l2

TwoNames == {f, g}
TwoLines == {l1, l2}
=============================================================================
