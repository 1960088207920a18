----------------------------- MODULE EntriesMap -----------------------------
(***************************************************************************)
(* What the administrative files of a cvs working directory promise: a map *)
(* from file names to lines, which commands change one name at a time.     *)
(***************************************************************************)
CONSTANTS Names, Lines, NoLine

VARIABLE map

Init == map \in [Names -> Lines \cup {NoLine}]

Enter(n, l) == map[n] = NoLine /\ map' = [map EXCEPT ![n] = l]

Forget(n) == map[n] # NoLine /\ map' = [map EXCEPT ![n] = NoLine]

Next == \E n \in Names : Forget(n) \/ \E l \in Lines : Enter(n, l)

Spec == Init /\ [][Next]_map
=============================================================================
