----------------------------- MODULE RcsArchive -----------------------------
(***************************************************************************)
(* What an RCS file promises: every revision keeps its text. A check-in    *)
(* adds one that comes after all others; an administrator may outdate      *)
(* some; nothing else changes what can be got from the file.               *)
(***************************************************************************)
EXTENDS Integers

CONSTANT Texts

VARIABLE texts      \* what each revision holds

Revs == Nat \X Nat

Above(a, b) == a[1] > b[1] \/ (a[1] = b[1] /\ a[2] > b[2])

Init == texts = << >>

CheckIn(r, t) ==
    /\ \A q \in DOMAIN texts : Above(r, q)
    /\ texts' = [q \in DOMAIN texts \cup {r} |-> IF q = r THEN t ELSE texts[q]]

Outdate ==
    /\ DOMAIN texts' \subseteq DOMAIN texts
    /\ \A r \in DOMAIN texts' : texts'[r] = texts[r]

(* The number of a new revision is taken from the next state, as there are *)
(* infinitely many.                                                        *)
Next ==
    \/ \E r \in DOMAIN texts', t \in Texts : r \in Revs /\ CheckIn(r, t)
    \/ Outdate

Spec == Init /\ [][Next]_texts
=============================================================================
