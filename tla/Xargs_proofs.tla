---------------------------- MODULE Xargs_proofs ----------------------------
(***************************************************************************)
(* Proofs about the pool of xargs, for any options, any input, any number  *)
(* of children and any order in which they end.                            *)
(***************************************************************************)
EXTENDS Xargs, FiniteSetTheorems, SequenceTheorems, WellFoundedInduction, TLAPS

-----------------------------------------------------------------------------
(* The inductive invariant                                                 *)

PoolTypes ==
    /\ opt.maxprocs \in Nat \ {0}
    /\ child \in Seq({"running"} \cup Ends)
    /\ reaped \subseteq DOMAIN child
    /\ pc \in {"read", "wait", "drain", "exited"}

(* Every child that is not reported yet is counted, and only a pool that   *)
(* has room reads on.                                                      *)
PoolCounted ==
    /\ curprocs = Cardinality(Children)
    /\ curprocs <= opt.maxprocs
    /\ pc = "read" => curprocs < opt.maxprocs

(* A child that is reported has ended, and rval says how.  One that ends   *)
(* otherwise than with an exit status below 126 ends xargs.                *)
AllEnded == \A i \in reaped : child[i] \in {"zero", "other"}
AllWell == \A i \in reaped : child[i] = "zero"

EndsTold ==
    /\ \A i \in reaped : child[i] # "running"
    /\ pc # "exited" => AllEnded /\ rval = IF AllWell THEN 0 ELSE 123

CodeTold ==
    pc = "exited" =>
        \/ code = 1
        \/ /\ Children = {} /\ AllEnded
           /\ code = IF AllWell THEN 0 ELSE 123
        \/ \E i \in reaped :
              child[i] \in DOMAIN Statuses /\ code = Statuses[child[i]]

PoolInv == PoolTypes /\ PoolCounted /\ EndsTold /\ CodeTold

-----------------------------------------------------------------------------
(* What a character does to the pool: nothing, a fork, or the end          *)

Forks ==
    /\ child' = Append(child, "running") /\ curprocs' = curprocs + 1
    /\ pc' \in {"wait", "drain"}
    /\ UNCHANGED << reaped, rval, code >>

Stays ==
    /\ \/ pc' \in {"read", "drain"} /\ UNCHANGED code
       \/ Exit(1)
    /\ UNCHANGED pool

Parsed == pc = "read" /\ UNCHANGED opt /\ (Forks \/ Stays)

LEMMA RunForks ==
    ASSUME NEW b, NEW where, NEW last, Run(b, where, last)
    PROVE  Forks \/ Stays
BY DEF Run, Forks, Stays, Exit, pool

LEMMA AddChParses ==
    ASSUME NEW c, NEW left, NEW hasblank, pc = "read", AddCh(c, left, hasblank)
    PROVE  Forks \/ Stays
<1>1. CASE Fits(c)
  BY <1>1 DEF Fits, Stays
<1>2. CASE Overflows(c)
  BY <1>2, RunForks DEF Overflows
<1>3. CASE Fail
  BY <1>3 DEF Fail, Stays
<1>4. QED
  BY <1>1, <1>2, <1>3 DEF AddCh

LEMMA EndArgParses ==
    ASSUME NEW c, NEW lines, NEW hasblank, pc = "read", EndArg(c, lines, hasblank)
    PROVE  Forks \/ Stays
<1>1. CASE Fail
  BY <1>1 DEF Fail, Stays
<1>2. CASE \E b, where, last : Run(b, where, last)
  BY <1>2, RunForks
<1>3. CASE UNCHANGED << pool, pc, code >>
  BY <1>3 DEF Stays
<1>4. Fail \/ (\E b, where, last : Run(b, where, last)) \/ UNCHANGED << pool, pc, code >>
  BY DEF EndArg
<1>5. QED
  BY <1>1, <1>2, <1>3, <1>4

LEMMA EOFParses ==
    ASSUME ReadEOF
    PROVE  Parsed
<1>1. pc = "read" /\ UNCHANGED opt
  BY DEF ReadEOF, Reading
<1>2. CASE Fail
  BY <1>1, <1>2 DEF Fail, Stays, Parsed
<1>3. CASE EndArg(EOF, count, FALSE)
  BY <1>1, <1>3, EndArgParses DEF Parsed
<1>4. CASE Run(buf, args, TRUE)
  BY <1>1, <1>4, RunForks DEF Parsed
<1>5. CASE pc' = "drain" /\ UNCHANGED << runs, pool, code >>
  BY <1>1, <1>5 DEF Stays, Parsed
<1>6. QED
  BY <1>2, <1>3, <1>4, <1>5 DEF ReadEOF

LEMMA ReadParses ==
    ASSUME \/ ReadBlank \/ ReadNewline \/ ReadNul \/ ReadQuote
           \/ ReadBackslash \/ ReadLetter \/ ReadEOF
    PROVE  Parsed
<1>1. CASE ReadEOF
  BY <1>1, EOFParses
<1>2. CASE \/ ReadBlank \/ ReadNewline \/ ReadNul \/ ReadQuote
           \/ ReadBackslash \/ ReadLetter
  <2>1. pc = "read" /\ UNCHANGED opt
    BY <1>2 DEF ReadBlank, ReadNewline, ReadNul, ReadQuote, ReadBackslash,
                ReadLetter, Reading
  <2>2. \/ \E c, left, hasblank : AddCh(c, left, hasblank)
        \/ \E c, lines, hasblank : EndArg(c, lines, hasblank)
        \/ Fail
        \/ UNCHANGED << pool, pc, code >>
    BY <1>2 DEF ReadBlank, ReadNewline, ReadNul, ReadQuote, ReadBackslash,
                ReadLetter
  <2>3. CASE Fail
    BY <2>1, <2>3 DEF Fail, Stays, Parsed
  <2>4. CASE UNCHANGED << pool, pc, code >>
    BY <2>1, <2>4 DEF Stays, Parsed
  <2>5. QED
    BY <2>1, <2>2, <2>3, <2>4, AddChParses, EndArgParses DEF Parsed
<1>3. QED
  BY <1>1, <1>2

-----------------------------------------------------------------------------
(* The children                                                            *)

LEMMA ChildrenFinite ==
    ASSUME PoolTypes
    PROVE  IsFiniteSet(Children) /\ Cardinality(Children) \in Nat
<1>1. PICK n \in Nat : DOMAIN child = 1..n
  BY DEF PoolTypes
<1>2. IsFiniteSet(1..n)
  BY <1>1, FS_Interval
<1>3. Children \subseteq 1..n
  BY <1>1 DEF Children
<1>4. QED
  BY <1>2, <1>3, FS_Subset, FS_CardinalityType

LEMMA InitPool ==
    ASSUME Init
    PROVE  PoolInv
<1>1. opt.maxprocs \in Nat \ {0}
  BY XargsAssumption DEF Init
<1>2. /\ child = << >> /\ reaped = {} /\ curprocs = 0 /\ rval = 0
      /\ pc = "read" /\ code = 0
  BY DEF Init
<1>3. Children = {} /\ Cardinality({}) = 0
  BY <1>2, FS_EmptySet DEF Children
<1>4. PoolTypes
  BY <1>1, <1>2 DEF PoolTypes
<1>5. PoolCounted
  BY <1>1, <1>2, <1>3 DEF PoolCounted
<1>6. EndsTold
  BY <1>2 DEF EndsTold, AllEnded, AllWell
<1>7. CodeTold
  BY <1>2 DEF CodeTold
<1>8. QED
  BY <1>4, <1>5, <1>6, <1>7 DEF PoolInv

LEMMA ForkKeeps ==
    ASSUME PoolInv, pc = "read", UNCHANGED opt, Forks
    PROVE  PoolInv'
<1>1. PICK s \in Seq({"running"} \cup Ends) : s = child
  BY DEF PoolInv, PoolTypes
<1>2. /\ child' \in Seq({"running"} \cup Ends)
      /\ DOMAIN child' = DOMAIN child \cup {Len(child) + 1}
      /\ Len(child) + 1 \notin DOMAIN child
      /\ \A i \in DOMAIN child : child'[i] = child[i]
  BY <1>1 DEF Forks
<1>3. UNCHANGED << opt, reaped, rval, code >> /\ pc' \in {"wait", "drain"}
      /\ curprocs' = curprocs + 1
  BY DEF Forks
<1>4. reaped \subseteq DOMAIN child
  BY DEF PoolInv, PoolTypes
<1>5. Children' = Children \cup {Len(child) + 1} /\ Len(child) + 1 \notin Children
  BY <1>2, <1>3, <1>4 DEF Children
<1>6. Cardinality(Children') = Cardinality(Children) + 1
  BY <1>5, ChildrenFinite, FS_AddElement DEF PoolInv
<1>7. PoolTypes'
  BY <1>2, <1>3 DEF PoolInv, PoolTypes
<1>8. PoolCounted'
  BY <1>3, <1>6, ChildrenFinite DEF PoolInv, PoolCounted, PoolTypes
<1>9. \A i \in reaped : child'[i] = child[i]
  BY <1>2, <1>4
<1>10. AllEnded' = AllEnded /\ AllWell' = AllWell
  BY <1>3, <1>9 DEF AllEnded, AllWell
<1>11. EndsTold'
  BY <1>3, <1>9, <1>10 DEF PoolInv, EndsTold
<1>12. CodeTold'
  BY <1>3 DEF CodeTold
<1>13. QED
  BY <1>7, <1>8, <1>11, <1>12 DEF PoolInv

LEMMA StayKeeps ==
    ASSUME PoolInv, pc = "read", UNCHANGED opt, Stays
    PROVE  PoolInv'
<1>1. UNCHANGED << child, reaped, curprocs, rval >>
  BY DEF Stays, pool
<1>2. pc' \in {"read", "drain"} \/ (pc' = "exited" /\ code' = 1)
  BY DEF Stays, Exit
<1>3. Children' = Children /\ AllEnded' = AllEnded /\ AllWell' = AllWell
  BY <1>1 DEF Children, AllEnded, AllWell
<1>4. PoolTypes'
  BY <1>1, <1>2 DEF PoolInv, PoolTypes
<1>5. PoolCounted'
  BY <1>1, <1>3 DEF PoolInv, PoolCounted
<1>6. EndsTold'
  BY <1>1, <1>3 DEF PoolInv, EndsTold
<1>7. CodeTold'
  BY <1>2 DEF CodeTold
<1>8. QED
  BY <1>4, <1>5, <1>6, <1>7 DEF PoolInv

LEMMA ReapKeeps ==
    ASSUME PoolInv, NEW i \in DOMAIN child, Reap(i)
    PROVE  PoolInv'
<1>1. /\ pc \in {"wait", "drain"} /\ i \in Children /\ child[i] # "running"
      /\ reaped' = reaped \cup {i} /\ curprocs' = curprocs - 1
      /\ UNCHANGED << opt, child >>
  BY DEF Reap
<1>2. Children' = Children \ {i} /\ reaped' \subseteq DOMAIN child
  BY <1>1 DEF Children, PoolInv, PoolTypes
<1>3. Cardinality(Children') = Cardinality(Children) - 1
  BY <1>1, <1>2, ChildrenFinite, FS_RemoveElement DEF PoolInv
<1>4. child[i] \in Ends
  BY <1>1 DEF PoolInv, PoolTypes
<1>5. \A j \in reaped' : child'[j] # "running"
  BY <1>1 DEF PoolInv, EndsTold
<1>6. AllEnded /\ rval = IF AllWell THEN 0 ELSE 123
  BY <1>1 DEF PoolInv, EndsTold
<1>7. CASE child[i] \in DOMAIN Statuses
  <2>1. pc' = "exited" /\ code' = Statuses[child[i]]
    BY <1>7 DEF Reap, Exit
  <2>2. PoolTypes'
    BY <1>1, <1>2, <2>1 DEF PoolInv, PoolTypes
  <2>3. PoolCounted'
    BY <1>1, <1>3, <2>1, ChildrenFinite DEF PoolInv, PoolCounted, PoolTypes
  <2>4. EndsTold'
    BY <1>5, <2>1 DEF EndsTold
  <2>5. CodeTold'
    BY <1>1, <1>7, <2>1 DEF CodeTold
  <2>6. QED
    BY <2>2, <2>3, <2>4, <2>5 DEF PoolInv
<1>8. CASE child[i] \notin DOMAIN Statuses
  <2>1. child[i] \in {"zero", "other"}
    BY <1>4, <1>8, XargsAssumption DEF Statuses
  <2>2. rval' = (IF child[i] = "zero" THEN rval ELSE 123) /\ UNCHANGED << pc, code >>
    BY <1>8 DEF Reap
  <2>3. AllEnded' /\ (AllWell' <=> AllWell /\ child[i] = "zero")
    BY <1>1, <1>6, <2>1 DEF AllEnded, AllWell
  <2>4. PoolTypes'
    BY <1>1, <1>2, <2>2 DEF PoolInv, PoolTypes
  <2>5. PoolCounted'
    BY <1>1, <1>3, <2>2, ChildrenFinite DEF PoolInv, PoolCounted, PoolTypes
  <2>6. EndsTold'
    BY <1>5, <1>6, <2>1, <2>2, <2>3 DEF EndsTold
  <2>7. CodeTold'
    BY <1>1, <2>2 DEF CodeTold
  <2>8. QED
    BY <2>4, <2>5, <2>6, <2>7 DEF PoolInv
<1>9. QED
  BY <1>7, <1>8

LEMMA NoMoreKeeps ==
    ASSUME PoolInv, NoMore
    PROVE  PoolInv'
<1>1. /\ pc \in {"wait", "drain"}
      /\ \A i \in Children : ~ MayHang /\ child[i] = "running"
      /\ UNCHANGED << opt, child, reaped, curprocs, rval >>
      /\ IF pc = "wait" THEN pc' = "read" /\ UNCHANGED code ELSE Exit(rval)
  BY DEF NoMore, pool
<1>2. Children' = Children /\ AllEnded' = AllEnded /\ AllWell' = AllWell
  BY <1>1 DEF Children, AllEnded, AllWell
<1>3. AllEnded /\ rval = IF AllWell THEN 0 ELSE 123
  BY <1>1 DEF PoolInv, EndsTold
<1>4. PoolTypes'
  BY <1>1 DEF PoolInv, PoolTypes, Exit
<1>5. EndsTold'
  BY <1>1, <1>2, <1>3 DEF PoolInv, EndsTold
<1>6. CASE pc = "wait"
  <2>1. Children = {} => curprocs = 0
    BY FS_EmptySet DEF PoolInv, PoolCounted
  <2>2. curprocs < opt.maxprocs
    BY <1>1, <2>1, ChildrenFinite DEF PoolInv, PoolCounted, PoolTypes, MayHang
  <2>3. PoolCounted'
    BY <1>1, <1>2, <2>2 DEF PoolInv, PoolCounted
  <2>4. CodeTold'
    BY <1>1, <1>6 DEF CodeTold
  <2>5. QED
    BY <1>4, <1>5, <2>3, <2>4 DEF PoolInv
<1>7. CASE pc = "drain"
  <2>1. Children = {} /\ pc' = "exited" /\ code' = rval
    BY <1>1, <1>7 DEF MayHang, Exit
  <2>2. PoolCounted'
    BY <1>1, <1>2, <2>1 DEF PoolInv, PoolCounted
  <2>3. CodeTold'
    BY <1>2, <1>3, <2>1 DEF CodeTold
  <2>4. QED
    BY <1>4, <1>5, <2>2, <2>3 DEF PoolInv
<1>8. QED
  BY <1>1, <1>6, <1>7

LEMMA UtilityKeeps ==
    ASSUME PoolInv, Utility
    PROVE  PoolInv'
<1>1. PICK i \in DOMAIN child, s \in Ends : ChildEnds(i, s)
  BY DEF Utility
<1>2. /\ child[i] = "running" /\ child' = [child EXCEPT ![i] = s]
      /\ UNCHANGED << opt, reaped, curprocs, rval, pc, code >>
  BY <1>1 DEF ChildEnds
<1>3. i \notin reaped
  BY <1>2 DEF PoolInv, EndsTold
<1>4. child' \in Seq({"running"} \cup Ends) /\ DOMAIN child' = DOMAIN child
  BY <1>2 DEF PoolInv, PoolTypes
<1>5. reaped \subseteq DOMAIN child
  BY DEF PoolInv, PoolTypes
<1>6. \A j \in reaped : child'[j] = child[j]
  BY <1>2, <1>3, <1>5
<1>7. Children' = Children /\ AllEnded' = AllEnded /\ AllWell' = AllWell
  BY <1>2, <1>4, <1>6 DEF Children, AllEnded, AllWell
<1>8. PoolTypes'
  BY <1>2, <1>4 DEF PoolInv, PoolTypes
<1>9. PoolCounted'
  BY <1>2, <1>7 DEF PoolInv, PoolCounted
<1>10. EndsTold'
  BY <1>2, <1>6, <1>7 DEF PoolInv, EndsTold
<1>11. CodeTold'
  BY <1>2, <1>6, <1>7 DEF PoolInv, CodeTold
<1>12. QED
  BY <1>8, <1>9, <1>10, <1>11 DEF PoolInv

LEMMA StutterKeeps ==
    ASSUME PoolInv, UNCHANGED vars
    PROVE  PoolInv'
<1>1. UNCHANGED << opt, child, reaped, curprocs, rval, pc, code >>
  BY DEF vars, pool
<1>2. Children' = Children /\ AllEnded' = AllEnded /\ AllWell' = AllWell
  BY <1>1 DEF Children, AllEnded, AllWell
<1>3. QED
  BY <1>1, <1>2 DEF PoolInv, PoolTypes, PoolCounted, EndsTold, CodeTold

-----------------------------------------------------------------------------
(* The pool is counted and told in every state: waitchildren() misses no   *)
(* child, whatever run() is interrupted by.                                *)
THEOREM PoolInvariant == Spec => []PoolInv
<1>1. Init => PoolInv
  BY InitPool
<1>2. PoolInv /\ [Next]_vars => PoolInv'
  <2>1. SUFFICES ASSUME PoolInv, [Next]_vars
                 PROVE  PoolInv'
    OBVIOUS
  <2>2. CASE \/ ReadBlank \/ ReadNewline \/ ReadNul \/ ReadQuote
             \/ ReadBackslash \/ ReadLetter \/ ReadEOF
    BY <2>1, <2>2, ReadParses, ForkKeeps, StayKeeps DEF Parsed
  <2>3. CASE Waitchildren
    BY <2>1, <2>3, NoMoreKeeps, ReapKeeps DEF Waitchildren
  <2>4. CASE Utility
    BY <2>1, <2>4, UtilityKeeps
  <2>5. CASE UNCHANGED vars
    BY <2>1, <2>5, StutterKeeps
  <2>6. QED
    BY <2>1, <2>2, <2>3, <2>4, <2>5 DEF Next, Xargs
<1>3. QED
  BY <1>1, <1>2, PTL DEF Spec

LEMMA PoolInvTells ==
    ASSUME PoolInv
    PROVE  PoolIsTold
<1>1. DEFINE R == { i \in DOMAIN child : child[i] = "running" }
<1>2. Cardinality(R) <= opt.maxprocs
  <2>1. R \subseteq Children
    BY DEF PoolInv, EndsTold, Children
  <2>2. Cardinality(R) <= Cardinality(Children) /\ Cardinality(R) \in Nat
    BY <2>1, ChildrenFinite, FS_Subset, FS_CardinalityType DEF PoolInv
  <2>3. QED
    BY <2>2, ChildrenFinite DEF PoolInv, PoolCounted, PoolTypes
<1>3. PICK s \in Seq({"running"} \cup Ends) : s = child
  BY DEF PoolInv, PoolTypes
<1>4. ToSet(child) = { child[i] : i \in DOMAIN child }
  BY DEF ToSet
<1>5. reaped \subseteq DOMAIN child
  BY DEF PoolInv, PoolTypes
<1>6. DOMAIN Statuses = {"126", "127", "255", "signal"}
      /\ \A t \in DOMAIN Statuses : Statuses[t] \in 124..127
  BY DEF Statuses
<1>7. ASSUME ExitsWell
      PROVE  /\ reaped = DOMAIN child
             /\ ToSet(child) \subseteq {"zero", "other"}
             /\ code = 0 <=> "other" \notin ToSet(child)
  <2>1. pc = "exited" /\ code \in {0, 123}
    BY <1>7 DEF ExitsWell
  <2>2. Children = {} /\ AllEnded /\ code = IF AllWell THEN 0 ELSE 123
    BY <1>6, <2>1 DEF PoolInv, CodeTold
  <2>3. reaped = DOMAIN child
    BY <1>5, <2>2 DEF Children
  <2>4. QED
    BY <1>4, <2>2, <2>3 DEF AllEnded, AllWell
<1>8. ASSUME pc = "exited", code > 123
      PROVE  \E t \in DOMAIN Statuses \cap ToSet(child) : Statuses[t] = code
  <2>1. PICK i \in reaped : child[i] \in DOMAIN Statuses /\ code = Statuses[child[i]]
    BY <1>8 DEF PoolInv, CodeTold
  <2>2. QED
    BY <1>4, <1>5, <2>1
<1>9. QED
  BY <1>2, <1>7, <1>8 DEF PoolIsTold

(* xargs runs no more than -P utilities at once, and its exit status tells *)
(* how they ended.                                                         *)
THEOREM PoolIsToldAlways == Spec => []PoolIsTold
BY PoolInvariant, PoolInvTells, PTL

-----------------------------------------------------------------------------
(* The buffer                                                              *)

LEMMA LeastNat ==
    ASSUME NEW T, T \subseteq Nat, T # {}
    PROVE  \E n \in T : \A m \in T : n <= m
<1>. DEFINE R == OpToRel(<, Nat)
<1>1. IsWellFoundedOn(R, Nat)
  BY NatLessThanWellFounded
<1>2. \A x, y \in Nat : y < x => << y, x >> \in R
  BY DEF OpToRel
<1>. HIDE DEF R
<1>3. PICK n \in T : \A m \in T : ~ (<< m, n >> \in R)
  BY <1>1, WFMin
<1>4. ASSUME NEW m \in T
      PROVE  n <= m
  <2>1. ~ (m < n)
    BY <1>2, <1>3
  <2>2. QED
    BY <2>1
<1>5. QED
  BY <1>4

Byte == Fresh \cup Char \cup {Nul}

(* Where an argument begins, and the one after the last would.             *)
Place(where, end, k) == IF k <= Len(where) THEN where[k] ELSE end

(* The arguments lie side by side from the start of the buffer to the end, *)
(* each one terminated where the next begins.                              *)
Placed(b, where, end) ==
    /\ Place(where, end, 1) = 0
    /\ \A k \in 1..Len(where) :
          /\ Place(where, end, k) < Place(where, end, k + 1)
          /\ Place(where, end, k + 1) <= end
          /\ b[Place(where, end, k + 1) - 1] = Nul
          /\ \A j \in Place(where, end, k)..(Place(where, end, k + 1) - 2) : b[j] # Nul

Cut(b, from, to) == [ i \in 1..(to - from - 1) |-> b[from + i - 1] ]

LEMMA CStringIs ==
    ASSUME NEW b, NEW from \in Nat, NEW to \in Nat, from < to,
           opt.nline \in Nat, to <= opt.nline,
           b[to - 1] = Nul, \A j \in from..(to - 2) : b[j] # Nul
    PROVE  CString(b, from) = Cut(b, from, to)
<1>. DEFINE IsEnd(i) == b[i] = Nul /\ \A j \in from..(i - 1) : b[j] # Nul
            end == CHOOSE i \in from..opt.nline : IsEnd(i)
<1>1. to - 1 \in from..opt.nline /\ IsEnd(to - 1)
  BY SMT
<1>2. end \in from..opt.nline /\ IsEnd(end)
  BY <1>1
<1>3. ~ (end < to - 1)
  <2>1. SUFFICES ASSUME end < to - 1 PROVE FALSE
    OBVIOUS
  <2>2. end \in from..(to - 2)
    BY <1>2, <2>1
  <2>3. QED
    BY <1>2, <2>2
<1>4. ~ (to - 1 < end)
  <2>1. SUFFICES ASSUME to - 1 < end PROVE FALSE
    OBVIOUS
  <2>2. to - 1 \in from..(end - 1)
    BY <1>2, <2>1
  <2>3. QED
    BY <1>2, <2>2
<1>5. end = to - 1
  BY <1>2, <1>3, <1>4
<1>6. CString(b, from) = [ i \in 1..(end - from) |-> b[from + i - 1] ]
  BY DEF CString
<1>. HIDE DEF end
<1>7. end - from = to - from - 1
  BY <1>5
<1>8. QED
  BY <1>6, <1>7 DEF Cut

LEMMA CutIs ==
    ASSUME NEW b, NEW n \in Nat, b \in [0..n -> Byte],
           NEW from \in Nat, NEW to \in Nat, from < to, to <= n + 1
    PROVE  /\ Cut(b, from, to) \in Seq(Byte)
           /\ Len(Cut(b, from, to)) = to - from - 1
<1>1. to - from - 1 \in Nat
  OBVIOUS
<1>2. \A i \in 1..(to - from - 1) : b[from + i - 1] \in Byte
  OBVIOUS
<1>3. QED
  BY <1>1, <1>2 DEF Cut

(* The bytes that a run takes: up to where the one after it would begin.   *)
BytesTo(run, f, n) ==
    f = [ i \in 0..n |-> IF i = 0 THEN 0 ELSE f[i - 1] + Len(run[i]) + 1 ]

LEMMA BytesIs ==
    ASSUME NEW run, NEW n \in Nat, Len(run) = n,
           NEW f \in [0..n -> Nat], BytesTo(run, f, n),
           \A i \in 1..n : Len(run[i]) \in Nat
    PROVE  Bytes(run) = f[n]
<1>. DEFINE g == CHOOSE sum : BytesTo(run, sum, n)
            T == { i \in 0..n : g[i] # f[i] }
<1>1. BytesTo(run, g, n)
  OBVIOUS
<1>2. Bytes(run) = g[n]
  BY DEF Bytes, BytesTo
<1>. HIDE DEF g
<1>3. /\ \A i \in 0..n : g[i] = IF i = 0 THEN 0 ELSE g[i - 1] + Len(run[i]) + 1
      /\ \A i \in 0..n : f[i] = IF i = 0 THEN 0 ELSE f[i - 1] + Len(run[i]) + 1
  BY <1>1 DEF BytesTo
<1>4. T = {}
  <2>1. SUFFICES ASSUME T # {} PROVE FALSE
    OBVIOUS
  <2>2. T \subseteq Nat
    OBVIOUS
  <2>. HIDE DEF T
  <2>3. PICK k \in T : \A m \in T : k <= m
    BY <2>1, <2>2, LeastNat
  <2>4. k \in 0..n /\ g[k] # f[k]
    BY <2>3 DEF T
  <2>5. k # 0
    BY <1>3, <2>4
  <2>6. k - 1 \in 0..n /\ ~ (k <= k - 1)
    BY <2>4, <2>5
  <2>7. g[k - 1] = f[k - 1]
    BY <2>3, <2>6 DEF T
  <2>8. QED
    BY <1>3, <2>4, <2>5, <2>7
<1>5. QED
  BY <1>2, <1>4

LEMMA RunIs ==
    ASSUME NEW b, NEW where \in Seq(Nat), NEW end \in Nat,
           opt.nline \in Nat, end <= opt.nline,
           b \in [0..opt.nline -> Byte], Placed(b, where, end),
           NEW run, run = Argv(b, where)
    PROVE  /\ run = [ i \in 1..Len(where) |->
                        Cut(b, Place(where, end, i), Place(where, end, i + 1)) ]
           /\ run \in Seq(Seq(Byte)) /\ Len(run) = Len(where)
           /\ \A i \in 1..Len(where) :
                Len(run[i]) = Place(where, end, i + 1) - Place(where, end, i) - 1
           /\ Bytes(run) = end
<1>. DEFINE n == Len(where)
            At(i) == Place(where, end, i)
            f == [ i \in 0..n |-> At(i + 1) ]
<1>1. n \in Nat /\ DOMAIN where = 1..n
  OBVIOUS
<1>2. \A i \in 1..(n + 1) : At(i) \in Nat
  BY <1>1 DEF Place
<1>3. \A i \in 1..n : At(i) < At(i + 1) /\ At(i + 1) <= opt.nline
  <2>1. TAKE i \in 1..n
  <2>2. At(i) < At(i + 1) /\ At(i + 1) <= end
    BY <1>1 DEF Placed
  <2>3. i + 1 \in 1..(n + 1) /\ At(i + 1) \in Nat
    BY <1>1, <1>2
  <2>. HIDE DEF At
  <2>4. QED
    BY <2>2, <2>3
<1>4. \A i \in 1..n : where[i] = At(i)
  BY <1>1 DEF Place
<1>5. ASSUME NEW i \in 1..n
      PROVE  run[i] = Cut(b, At(i), At(i + 1))
  <2>1. run[i] = CString(b, At(i))
    BY <1>1, <1>4 DEF Argv
  <2>2. At(i) \in Nat /\ At(i + 1) \in Nat
    BY <1>1, <1>2
  <2>3. b[At(i + 1) - 1] = Nul /\ \A j \in At(i)..(At(i + 1) - 2) : b[j] # Nul
    BY <1>1 DEF Placed
  <2>4. QED
    BY <1>3, <2>1, <2>2, <2>3, CStringIs
<1>6. run = [ i \in 1..n |-> Cut(b, At(i), At(i + 1)) ]
  BY <1>1, <1>5 DEF Argv
<1>7. \A i \in 1..n : run[i] \in Seq(Byte) /\ Len(run[i]) = At(i + 1) - At(i) - 1
  <2>1. TAKE i \in 1..n
  <2>2. At(i) \in Nat /\ At(i + 1) \in Nat /\ At(i) < At(i + 1) /\ At(i + 1) <= opt.nline + 1
    BY <1>1, <1>2, <1>3
  <2>3. run[i] = Cut(b, At(i), At(i + 1))
    BY <1>5
  <2>4. /\ Cut(b, At(i), At(i + 1)) \in Seq(Byte)
        /\ Len(Cut(b, At(i), At(i + 1))) = At(i + 1) - At(i) - 1
    BY <2>2, CutIs
  <2>5. QED
    BY <2>3, <2>4
<1>8. run \in Seq(Seq(Byte)) /\ Len(run) = n
  BY <1>1, <1>6, <1>7
<1>9. f \in [0..n -> Nat] /\ f[n] = end /\ f[0] = 0
  <2>1. \A i \in 0..n : i + 1 \in 1..(n + 1)
    BY <1>1
  <2>2. At(n + 1) = end
    BY <1>1 DEF Place
  <2>3. At(1) = 0
    BY DEF Placed
  <2>4. QED
    BY <1>1, <1>2, <2>1, <2>2, <2>3
<1>10. BytesTo(run, f, n)
  <2>1. ASSUME NEW i \in 1..n
        PROVE  f[i] = f[i - 1] + Len(run[i]) + 1
    <3>1. i \in 0..n /\ i - 1 \in 0..n /\ (i - 1) + 1 = i
      BY <1>1
    <3>2. f[i] = At(i + 1) /\ f[i - 1] = At((i - 1) + 1)
      BY <3>1
    <3>3. At(i) \in Nat /\ At(i + 1) \in Nat
      BY <1>1, <1>2
    <3>4. Len(run[i]) = At(i + 1) - At(i) - 1
      BY <1>7
    <3>. HIDE DEF At, f
    <3>5. QED
      BY <3>1, <3>2, <3>3, <3>4
  <2>. HIDE DEF f
  <2>2. \A i \in 0..n : f[i] = IF i = 0 THEN 0 ELSE f[i - 1] + Len(run[i]) + 1
    BY <1>1, <1>9, <2>1
  <2>3. f = [ i \in 0..n |-> f[i] ]
    BY <1>9
  <2>4. QED
    BY <2>2, <2>3 DEF BytesTo
<1>11. \A i \in 1..n : Len(run[i]) \in Nat
  BY <1>8
<1>. HIDE DEF f
<1>12. Bytes(run) = end
  BY <1>1, <1>8, <1>9, <1>10, <1>11, BytesIs
<1>13. QED
  BY <1>6, <1>7, <1>8, <1>12

-----------------------------------------------------------------------------
(* The inductive invariant of the runs                                     *)

Collects == pc \in {"read", "wait"}

ParserTypes ==
    /\ opt.nargs \in Nat \ {0} /\ opt.nline \in Nat \ {0}
    /\ pc \in {"read", "wait", "drain", "exited"}
    /\ rest \in Seq(Char)
    /\ runs \in Seq(Seq(Seq(Byte)))

(* The arguments so far and the one that is begun fill the buffer up to p, *)
(* which always leaves room for a NUL; there is room for an argument too.  *)
BufferHolds ==
    Collects =>
        /\ buf \in [0..opt.nline -> Byte]
        /\ p \in Nat /\ argp \in Nat /\ argp <= p /\ p <= Ebp
        /\ args \in Seq(Nat) /\ Len(args) < opt.nargs
        /\ Placed(buf, args, argp)
        /\ \A i \in argp..(p - 1) : buf[i] \in Char \ {Nul}

Clean(s) == opt.zero \/ \A i \in DOMAIN s : s[i] # Nul
NulFree == Clean(rest)

(* An argument of this length would not have fitted into the run.          *)
Crowded(run, len) == Len(run) = opt.nargs \/ Bytes(run) + len + 1 > opt.nline

(* The length of the first argument of the next run, as far as it is read. *)
FirstLen == IF args = << >> THEN p ELSE Place(args, argp, 2) - 1

RunsWithin ==
    \A i \in DOMAIN runs :
        /\ Len(runs[i]) <= opt.nargs
        /\ Bytes(runs[i]) \in Nat /\ Bytes(runs[i]) <= opt.nline

RunsCrowded ==
    ~ xflag =>
        /\ \A i \in 1..(Len(runs) - 1) :
              runs[i + 1] # << >> => Crowded(runs[i], Len(runs[i + 1][1]))
        /\ Collects /\ runs # << >> => Crowded(runs[Len(runs)], FirstLen)

FitInv == ParserTypes /\ BufferHolds /\ NulFree /\ RunsWithin /\ RunsCrowded

LEMMA FitTells ==
    ASSUME FitInv
    PROVE  RunsFit
<1>1. Len(runs) \in Nat /\ DOMAIN runs = 1..Len(runs)
  BY DEF FitInv, ParserTypes
<1>2. ASSUME NEW i \in DOMAIN runs
      PROVE  Len(runs[i]) <= opt.nargs /\ Bytes(runs[i]) <= opt.nline
  BY DEF FitInv, RunsWithin
<1>3. ASSUME NEW i \in DOMAIN runs, i < Len(runs), ~ xflag, runs[i + 1] # << >>
      PROVE  Crowded(runs[i], Len(runs[i + 1][1]))
  <2>1. i \in 1..(Len(runs) - 1)
    BY <1>1, <1>3
  <2>2. QED
    BY <1>3, <2>1 DEF FitInv, RunsCrowded
<1>4. QED
  BY <1>2, <1>3 DEF RunsFit, Crowded

LEMMA CrowdedMore ==
    ASSUME NEW run, Bytes(run) \in Nat, opt.nline \in Nat,
           NEW len \in Int, NEW more \in Int, len <= more, Crowded(run, len)
    PROVE  Crowded(run, more)
<1>1. CASE Len(run) = opt.nargs
  BY <1>1 DEF Crowded
<1>2. CASE Bytes(run) + len + 1 > opt.nline
  <2>1. Bytes(run) + more + 1 > opt.nline
    BY <1>2
  <2>2. QED
    BY <2>1 DEF Crowded
<1>3. QED
  BY <1>1, <1>2 DEF Crowded

(* What is common to every run: its arguments fit, and it is crowded if    *)
(* any other may follow.                                                   *)
LEMMA RunKeeps ==
    ASSUME FitInv, pc = "read", UNCHANGED opt,
           NEW b \in [0..opt.nline -> Byte], NEW where \in Seq(Nat), NEW end \in Nat,
           end <= opt.nline, Len(where) <= opt.nargs, Placed(b, where, end),
           where # << >> => Place(where, end, 2) - 1 >= FirstLen,
           runs' = Append(runs, Argv(b, where)),
           ~ xflag /\ Collects' =>
              (Len(where) = opt.nargs \/ end + FirstLen' + 1 > opt.nline)
    PROVE  runs' \in Seq(Seq(Seq(Byte))) /\ RunsWithin' /\ RunsCrowded'
<1>. DEFINE run == Argv(b, where)
            n == Len(runs)
<1>1. opt.nargs \in Nat \ {0} /\ opt.nline \in Nat \ {0} /\ runs \in Seq(Seq(Seq(Byte)))
  BY DEF FitInv, ParserTypes
<1>2. /\ run \in Seq(Seq(Byte)) /\ Len(run) = Len(where) /\ Bytes(run) = end
      /\ \A i \in 1..Len(where) :
            Len(run[i]) = Place(where, end, i + 1) - Place(where, end, i) - 1
  BY <1>1, RunIs
<1>3. runs' = Append(runs, run)
  OBVIOUS
<1>. HIDE DEF run
<1>4. /\ n \in Nat /\ Len(runs') = n + 1 /\ runs' \in Seq(Seq(Seq(Byte)))
      /\ DOMAIN runs = 1..n /\ DOMAIN runs' = 1..(n + 1)
      /\ \A i \in 1..n : runs'[i] = runs[i]
      /\ runs'[n + 1] = run
  BY <1>1, <1>3, <1>2
<1>5. RunsWithin'
  <2>1. ASSUME NEW i \in 1..(n + 1)
        PROVE  /\ Len(runs'[i]) <= opt.nargs
               /\ Bytes(runs'[i]) \in Nat /\ Bytes(runs'[i]) <= opt.nline
    <3>1. CASE i \in 1..n
      BY <1>4, <3>1 DEF FitInv, RunsWithin
    <3>2. CASE i = n + 1
      BY <1>2, <1>4, <3>2
    <3>3. QED
      BY <1>4, <3>1, <3>2
  <2>2. QED
    BY <1>4, <2>1 DEF RunsWithin
<1>6. xflag' = xflag
  BY DEF xflag
<1>7. ASSUME ~ xflag
      PROVE  /\ \A i \in 1..n :
                    runs'[i + 1] # << >> => Crowded(runs'[i], Len(runs'[i + 1][1]))
             /\ Collects' => Crowded(run, FirstLen')
  <2>1. ASSUME NEW i \in 1..n, runs'[i + 1] # << >>
        PROVE  Crowded(runs'[i], Len(runs'[i + 1][1]))
    <3>1. CASE i < n
      <4>1. i \in 1..(n - 1) /\ i + 1 \in 1..n
        BY <1>4, <3>1
      <4>2. runs'[i] = runs[i] /\ runs'[i + 1] = runs[i + 1]
        BY <1>4, <4>1
      <4>3. QED
        BY <1>7, <2>1, <4>1, <4>2 DEF FitInv, RunsCrowded
    <3>2. CASE i = n
      <4>1. runs # << >> /\ runs'[i] = runs[n] /\ runs'[i + 1] = run
        BY <1>4, <3>2
      <4>2. Crowded(runs[n], FirstLen)
        BY <1>7, <4>1 DEF FitInv, RunsCrowded, Collects
      <4>3. Len(where) \in Nat \ {0} /\ where # << >>
        BY <1>2, <2>1, <4>1
      <4>4. Len(run[1]) = Place(where, end, 2) - Place(where, end, 1) - 1
        BY <1>2, <4>3
      <4>5. Place(where, end, 1) = 0 /\ Place(where, end, 2) \in Nat
        BY <4>3 DEF Placed, Place
      <4>6. FirstLen \in Int
        BY DEF FitInv, BufferHolds, Collects, FirstLen, Place
      <4>7. Len(run[1]) >= FirstLen /\ Len(run[1]) \in Int
        BY <4>3, <4>4, <4>5, <4>6
      <4>8. Bytes(runs[n]) \in Nat
        BY <1>4, <3>2 DEF FitInv, RunsWithin
      <4>9. Crowded(runs[n], Len(run[1]))
        BY <1>1, <4>2, <4>6, <4>7, <4>8, CrowdedMore
      <4>10. QED
        BY <4>1, <4>9
    <3>3. i < n \/ i = n
      <4>1. i \in 1..n /\ n \in Nat
        BY <1>4
      <4>. HIDE DEF n
      <4>2. QED
        BY <4>1
    <3>4. QED
      BY <3>1, <3>2, <3>3
  <2>2. Collects' => Crowded(run, FirstLen')
    BY <1>2, <1>7 DEF Crowded
  <2>3. QED
    BY <2>1, <2>2
<1>8. ASSUME ~ xflag'
      PROVE  /\ \A i \in 1..(Len(runs') - 1) :
                    runs'[i + 1] # << >> => Crowded(runs'[i], Len(runs'[i + 1][1]))
             /\ Collects' => Crowded(runs'[Len(runs')], FirstLen')
  <2>1. Len(runs') - 1 = n /\ runs'[Len(runs')] = run
    BY <1>4
  <2>2. ~ xflag
    BY <1>6, <1>8
  <2>. HIDE DEF n
  <2>3. QED
    BY <1>7, <2>1, <2>2
<1>9. RunsCrowded'
  BY <1>8 DEF RunsCrowded, Crowded
<1>10. QED
  BY <1>4, <1>5, <1>9

(* What lies beyond the arguments does not matter to them.                 *)
LEMMA PlacedSame ==
    ASSUME NEW b, NEW where \in Seq(Nat), NEW end \in Nat, Placed(b, where, end),
           NEW c, \A j \in 0..(end - 1) : c[j] = b[j]
    PROVE  Placed(c, where, end)
<1>1. SUFFICES ASSUME NEW k \in 1..Len(where)
               PROVE  /\ c[Place(where, end, k + 1) - 1] = Nul
                      /\ \A j \in Place(where, end, k)..(Place(where, end, k + 1) - 2) : c[j] # Nul
  BY DEF Placed
<1>. DEFINE from == Place(where, end, k)
            to == Place(where, end, k + 1)
<1>2. from \in Nat /\ to \in Nat
  BY DEF Place
<1>3. /\ from < to /\ to <= end /\ b[to - 1] = Nul
      /\ \A j \in from..(to - 2) : b[j] # Nul
  BY DEF Placed
<1>. HIDE DEF from, to
<1>4. to - 1 \in 0..(end - 1) /\ \A j \in from..(to - 2) : j \in 0..(end - 1)
  BY <1>2, <1>3
<1>5. QED
  BY <1>3, <1>4 DEF from, to

LEMMA PlacedMore ==
    ASSUME NEW b, NEW where \in Seq(Nat), NEW from \in Nat, NEW to \in Nat,
           Placed(b, where, from), from < to,
           NEW c, \A j \in 0..(from - 1) : c[j] = b[j],
           c[to - 1] = Nul, \A j \in from..(to - 2) : c[j] # Nul
    PROVE  Placed(c, Append(where, from), to)
<1>. DEFINE n == Len(where)
            more == Append(where, from)
<1>1. n \in Nat /\ more \in Seq(Nat) /\ Len(more) = n + 1
      /\ (\A k \in 1..n : more[k] = where[k]) /\ more[n + 1] = from
  OBVIOUS
<1>2. Placed(c, where, from)
  BY PlacedSame
<1>. HIDE DEF more
<1>3. /\ \A k \in 1..(n + 1) : Place(more, to, k) = Place(where, from, k)
      /\ Place(more, to, n + 2) = to /\ Place(more, to, n + 1) = from
  BY <1>1 DEF Place
<1>4. Place(more, to, 1) = 0
  <2>1. 1 \in 1..(n + 1)
    BY <1>1
  <2>2. QED
    BY <1>3, <2>1 DEF Placed
<1>5. ASSUME NEW k \in 1..(n + 1)
      PROVE  /\ Place(more, to, k) < Place(more, to, k + 1)
             /\ Place(more, to, k + 1) <= to
             /\ c[Place(more, to, k + 1) - 1] = Nul
             /\ \A j \in Place(more, to, k)..(Place(more, to, k + 1) - 2) : c[j] # Nul
  <2>1. CASE k \in 1..n
    <3>1. k + 1 \in 1..(n + 1)
      BY <1>1, <2>1
    <3>2. Place(more, to, k) = Place(where, from, k)
          /\ Place(more, to, k + 1) = Place(where, from, k + 1)
      BY <1>3, <3>1
    <3>3. Place(where, from, k + 1) \in Nat
      BY <1>1, <3>1 DEF Place
    <3>4. /\ Place(where, from, k) < Place(where, from, k + 1)
          /\ Place(where, from, k + 1) <= from
          /\ c[Place(where, from, k + 1) - 1] = Nul
          /\ \A j \in Place(where, from, k)..(Place(where, from, k + 1) - 2) : c[j] # Nul
      BY <1>2, <2>1 DEF Placed
    <3>5. Place(where, from, k + 1) <= to
      BY <3>3, <3>4
    <3>6. QED
      BY <3>2, <3>4, <3>5
  <2>2. CASE k = n + 1
    <3>1. Place(more, to, k) = from /\ Place(more, to, k + 1) = to
      BY <1>1, <1>3, <2>2
    <3>2. QED
      BY <3>1
  <2>3. k \in 1..n \/ k = n + 1
    BY <1>1
  <2>4. QED
    BY <2>1, <2>2, <2>3
<1>6. QED
  BY <1>1, <1>4, <1>5 DEF Placed, more

LEMMA NoneIsPlaced ==
    ASSUME NEW b
    PROVE  Placed(b, << >>, 0)
BY DEF Placed, Place

-----------------------------------------------------------------------------
(* A character                                                             *)

LEMMA MoreIsCrowded ==
    ASSUME FitInv, Collects, UNCHANGED << opt, runs >>,
           FirstLen \in Int, FirstLen' \in Int, FirstLen <= FirstLen'
    PROVE  RunsCrowded'
<1>1. ASSUME ~ xflag, runs # << >>
      PROVE  Crowded(runs[Len(runs)], FirstLen')
  <2>1. Len(runs) \in DOMAIN runs /\ opt.nline \in Nat
    BY <1>1 DEF FitInv, ParserTypes
  <2>2. Bytes(runs[Len(runs)]) \in Nat
    BY <2>1 DEF FitInv, RunsWithin
  <2>3. Crowded(runs[Len(runs)], FirstLen)
    BY <1>1 DEF FitInv, RunsCrowded
  <2>4. QED
    BY <2>1, <2>2, <2>3, CrowdedMore
<1>2. ~ xflag =>
        \A i \in 1..(Len(runs) - 1) :
            runs[i + 1] # << >> => Crowded(runs[i], Len(runs[i + 1][1]))
  BY DEF FitInv, RunsCrowded
<1>3. xflag' = xflag
  BY DEF xflag
<1>4. QED
  BY <1>1, <1>2, <1>3 DEF RunsCrowded, Crowded

LEMMA FitsKeeps ==
    ASSUME FitInv, pc = "read", UNCHANGED opt, rest' \in Seq(Char), NulFree',
           NEW c \in Char \ {Nul}, Fits(c)
    PROVE  FitInv'
<1>1. /\ opt.nargs \in Nat \ {0} /\ opt.nline \in Nat \ {0}
      /\ runs \in Seq(Seq(Seq(Byte)))
  BY DEF FitInv, ParserTypes
<1>2. /\ buf \in [0..opt.nline -> Byte]
      /\ p \in Nat /\ argp \in Nat /\ argp <= p /\ p <= Ebp
      /\ args \in Seq(Nat) /\ Len(args) < opt.nargs
      /\ Placed(buf, args, argp)
      /\ \A i \in argp..(p - 1) : buf[i] \in Char \ {Nul}
  BY DEF FitInv, BufferHolds, Collects
<1>3. /\ p < Ebp /\ buf' = [buf EXCEPT ![p] = c] /\ p' = p + 1
      /\ UNCHANGED << argp, args, runs, pc >> /\ Ebp' = Ebp /\ xflag' = xflag
  BY DEF Fits, Ebp, xflag
<1>4. p \in 0..opt.nline /\ buf'[p] = c /\ buf' \in [0..opt.nline -> Byte]
      /\ \A j \in 0..(p - 1) : buf'[j] = buf[j]
  BY <1>1, <1>2, <1>3 DEF Ebp, Byte
<1>5. ParserTypes'
  BY <1>3 DEF FitInv, ParserTypes
<1>6. BufferHolds'
  <2>1. Placed(buf', args, argp)
    <3>1. \A j \in 0..(argp - 1) : buf'[j] = buf[j]
      BY <1>2, <1>4
    <3>2. QED
      BY <1>2, <3>1, PlacedSame
  <2>2. Placed(buf, args, argp)'
    BY <1>3, <2>1
  <2>3. p' \in Nat /\ argp <= p' /\ p' <= Ebp
    BY <1>1, <1>2, <1>3 DEF Ebp
  <2>4. \A i \in argp..(p' - 1) : buf'[i] \in Char \ {Nul}
    BY <1>2, <1>3, <1>4
  <2>5. QED
    BY <1>2, <1>3, <1>4, <2>2, <2>3, <2>4 DEF BufferHolds
<1>7. RunsWithin'
  BY <1>3 DEF FitInv, RunsWithin
<1>8. RunsCrowded'
  <2>1. FirstLen \in Int /\ FirstLen' \in Int /\ FirstLen <= FirstLen'
    BY <1>2, <1>3 DEF FirstLen, Place
  <2>2. QED
    BY <1>3, <2>1, MoreIsCrowded DEF Collects
<1>9. QED
  BY <1>5, <1>6, <1>7, <1>8 DEF FitInv

LEMMA OverflowsKeeps ==
    ASSUME FitInv, pc = "read", UNCHANGED opt, rest' \in Seq(Char), NulFree',
           NEW c \in Char \ {Nul}, Overflows(c)
    PROVE  FitInv'
<1>1. opt.nargs \in Nat \ {0} /\ opt.nline \in Nat \ {0}
  BY DEF FitInv, ParserTypes
<1>10. Ebp = opt.nline - 1 /\ Ebp \in Nat
  BY <1>1 DEF Ebp
<1>2. /\ buf \in [0..opt.nline -> Byte]
      /\ p \in Nat /\ argp \in Nat /\ argp <= p /\ p <= Ebp
      /\ args \in Seq(Nat) /\ Len(args) < opt.nargs
      /\ Placed(buf, args, argp)
      /\ \A i \in argp..(p - 1) : buf[i] \in Char \ {Nul}
  BY DEF FitInv, BufferHolds, Collects
<1>. DEFINE cnt == Ebp - argp
<1>3. /\ p >= Ebp /\ args # << >> /\ ~ xflag
      /\ Run(buf, args, FALSE)
      /\ buf' = [ i \in 0..opt.nline |->
                     IF i < cnt THEN buf[argp + i] ELSE IF i = cnt THEN c ELSE buf[i] ]
      /\ p' = cnt + 1 /\ argp' = 0 /\ args' = << >>
      /\ Ebp' = Ebp /\ xflag' = xflag
  BY DEF Overflows, Ebp, xflag
<1>4. runs' = Append(runs, Argv(buf, args)) /\ pc' \in {"read", "wait", "exited"}
  BY <1>3 DEF Run, Exit
<1>5. argp > 0 /\ p = Ebp /\ cnt \in Nat /\ cnt < Ebp
  <2>1. 1 \in 1..Len(args) /\ Place(args, argp, 1) = 0 /\ Place(args, argp, 2) \in Nat
    BY <1>2, <1>3 DEF Placed, Place
  <2>2. 0 < Place(args, argp, 2) /\ Place(args, argp, 2) <= argp
    BY <1>2, <2>1 DEF Placed
  <2>3. argp > 0
    BY <1>2, <2>1, <2>2
  <2>4. p = Ebp
    BY <1>2, <1>3, <1>10
  <2>5. QED
    BY <1>2, <1>10, <2>3, <2>4
<1>6. BufferHolds'
  <2>1. \A i \in 0..opt.nline : buf'[i] \in Byte
    <3>1. TAKE i \in 0..opt.nline
    <3>2. i < cnt => argp + i \in 0..opt.nline
      BY <1>1, <1>2, <1>5 DEF Ebp
    <3>3. QED
      BY <1>2, <1>3, <3>2 DEF Byte
  <2>2. buf' \in [0..opt.nline -> Byte]
    BY <1>3, <2>1
  <2>3. \A i \in 0..(p' - 1) : buf'[i] \in Char \ {Nul}
    <3>1. TAKE i \in 0..(p' - 1)
    <3>2. i \in 0..opt.nline /\ (i < cnt \/ i = cnt)
      BY <1>1, <1>3, <1>5 DEF Ebp
    <3>3. i < cnt => argp + i \in argp..(p - 1)
      BY <1>1, <1>2, <1>5, <3>2 DEF Ebp
    <3>4. QED
      BY <1>2, <1>3, <3>2, <3>3
  <2>4. p' \in Nat /\ 0 <= p' /\ p' <= Ebp
    BY <1>1, <1>3, <1>5 DEF Ebp
  <2>5. Placed(buf, args, argp)'
    BY <1>3, NoneIsPlaced
  <2>6. args' \in Seq(Nat) /\ Len(args') < opt.nargs /\ argp' = 0
    BY <1>1, <1>3
  <2>7. Ebp' = Ebp /\ opt' = opt
    BY <1>3
  <2>8. \A i \in argp'..(p' - 1) : buf'[i] \in Char \ {Nul}
    BY <2>3, <2>6
  <2>. HIDE DEF cnt
  <2>9. QED
    BY <2>2, <2>4, <2>5, <2>6, <2>7, <2>8 DEF BufferHolds
<1>7. runs' \in Seq(Seq(Seq(Byte))) /\ RunsWithin' /\ RunsCrowded'
  <2>1. argp <= opt.nline
    BY <1>1, <1>2 DEF Ebp
  <2>2. FirstLen = Place(args, argp, 2) - 1 /\ FirstLen \in Int
    BY <1>2, <1>3 DEF FirstLen, Place
  <2>3. FirstLen' = p'
    BY <1>3 DEF FirstLen
  <2>4. argp + FirstLen' + 1 > opt.nline
    <3>1. FirstLen' = (Ebp - argp) + 1
      BY <1>3, <2>3
    <3>2. argp \in Nat /\ opt.nline \in Nat
      BY <1>1, <1>2
    <3>3. QED
      BY <1>10, <3>1, <3>2
  <2>5. args # << >> => Place(args, argp, 2) - 1 >= FirstLen
    BY <2>2
  <2>6. Len(args) <= opt.nargs
    BY <1>1, <1>2
  <2>7. QED
    BY <1>2, <1>4, <2>1, <2>4, <2>5, <2>6, RunKeeps
<1>8. ParserTypes'
  BY <1>4, <1>7 DEF FitInv, ParserTypes
<1>9. QED
  BY <1>6, <1>7, <1>8 DEF FitInv

(* A step that leaves the arguments and the runs alone.                    *)
LEMMA OthersKeep ==
    ASSUME FitInv, UNCHANGED << opt, buf, p, argp, args, runs >>,
           rest' \in Seq(Char), NulFree',
           pc' \in {"read", "wait", "drain", "exited"}, Collects' => Collects
    PROVE  FitInv'
<1>1. ParserTypes' /\ RunsWithin'
  BY DEF FitInv, ParserTypes, RunsWithin
<1>2. BufferHolds'
  BY DEF FitInv, BufferHolds, Ebp
<1>3. RunsCrowded'
  BY DEF FitInv, RunsCrowded, Crowded, FirstLen, xflag
<1>4. QED
  BY <1>1, <1>2, <1>3 DEF FitInv

LEMMA CleanGoes ==
    ASSUME NEW s \in Seq(Char), Clean(s), s # << >>
    PROVE  /\ Head(s) \in Char /\ Tail(s) \in Seq(Char)
           /\ opt.zero \/ Head(s) # Nul
           /\ Clean(Tail(s))
<1>1. Head(s) = s[1] /\ 1 \in DOMAIN s /\ Head(s) \in Char /\ Tail(s) \in Seq(Char)
  OBVIOUS
<1>2. \A i \in DOMAIN Tail(s) : i + 1 \in DOMAIN s /\ Tail(s)[i] = s[i + 1]
  OBVIOUS
<1>3. CASE opt.zero
  BY <1>1, <1>3 DEF Clean, Byte
<1>4. CASE \A i \in DOMAIN s : s[i] # Nul
  BY <1>1, <1>2, <1>4 DEF Clean, Byte
<1>5. QED
  BY <1>3, <1>4 DEF Clean

LEMMA RestGoes ==
    ASSUME FitInv, UNCHANGED opt,
           rest' = rest \/ (rest # << >> /\ rest' = Tail(rest))
    PROVE  rest' \in Seq(Char) /\ NulFree'
<1>1. rest \in Seq(Char) /\ Clean(rest)
  BY DEF FitInv, ParserTypes, NulFree
<1>2. rest' \in Seq(Char) /\ Clean(rest')
  BY <1>1, CleanGoes
<1>3. QED
  BY <1>2 DEF NulFree, Clean

(* The arguments at the end of one: it is added unless it is nothing or    *)
(* the end of the input.                                                   *)
IsArg == (argp # p \/ wasquoted) /\ ~ FoundEof
Terminated == IF IsArg THEN [buf EXCEPT ![p] = Nul] ELSE buf
Wheres == IF IsArg THEN Append(args, argp) ELSE args
Stop == IF IsArg THEN p + 1 ELSE argp

LEMMA ArgIsPlaced ==
    ASSUME FitInv, pc = "read"
    PROVE  /\ Terminated \in [0..opt.nline -> Byte]
           /\ Wheres \in Seq(Nat) /\ Len(Wheres) <= opt.nargs
           /\ Stop \in Nat /\ Stop <= opt.nline
           /\ Placed(Terminated, Wheres, Stop)
           /\ FirstLen \in Int
           /\ Wheres # << >> => Place(Wheres, Stop, 2) - 1 >= FirstLen
           /\ IsArg => Wheres # << >>
<1>1. opt.nargs \in Nat \ {0} /\ opt.nline \in Nat \ {0}
  BY DEF FitInv, ParserTypes
<1>2. /\ buf \in [0..opt.nline -> Byte]
      /\ p \in Nat /\ argp \in Nat /\ argp <= p /\ p <= Ebp
      /\ args \in Seq(Nat) /\ Len(args) < opt.nargs
      /\ Placed(buf, args, argp)
      /\ \A i \in argp..(p - 1) : buf[i] \in Char \ {Nul}
  BY DEF FitInv, BufferHolds, Collects
<1>3. Ebp = opt.nline - 1 /\ Len(args) \in Nat /\ Nul \in Byte
  BY <1>2 DEF Ebp, Byte
<1>4. FirstLen \in Int
  BY <1>2 DEF FirstLen, Place
<1>5. CASE ~ IsArg
  <2>1. Terminated = buf /\ Wheres = args /\ Stop = argp
    BY <1>5 DEF Terminated, Wheres, Stop
  <2>2. args # << >> => FirstLen = Place(args, argp, 2) - 1
    BY DEF FirstLen
  <2>3. QED
    BY <1>1, <1>2, <1>3, <1>4, <1>5, <2>1, <2>2
<1>6. CASE IsArg
  <2>1. Terminated = [buf EXCEPT ![p] = Nul] /\ Wheres = Append(args, argp) /\ Stop = p + 1
    BY <1>6 DEF Terminated, Wheres, Stop
  <2>2. /\ Terminated \in [0..opt.nline -> Byte] /\ Terminated[p] = Nul
        /\ \A j \in 0..(p - 1) : Terminated[j] = buf[j]
    BY <1>1, <1>2, <1>3, <2>1
  <2>3. Placed(Terminated, Append(args, argp), p + 1)
    <3>. DEFINE to == p + 1
    <3>1. to \in Nat /\ argp < to /\ to - 1 = p /\ to - 2 = p - 1
      BY <1>2
    <3>2. \A j \in 0..(argp - 1) : Terminated[j] = buf[j]
      BY <1>2, <2>2
    <3>3. \A j \in argp..(p - 1) : Terminated[j] # Nul
      BY <1>2, <2>2
    <3>4. Terminated[to - 1] = Nul /\ \A j \in argp..(to - 2) : Terminated[j] # Nul
      BY <2>2, <3>1, <3>3
    <3>. HIDE DEF to
    <3>5. Placed(Terminated, Append(args, argp), to)
      BY <1>2, <3>1, <3>2, <3>4, PlacedMore
    <3>6. QED
      BY <3>5 DEF to
  <2>4. Place(Append(args, argp), p + 1, 2) - 1 >= FirstLen
    <3>1. CASE args = << >>
      BY <1>2, <3>1 DEF Place, FirstLen
    <3>2. CASE args # << >>
      <4>1. Len(args) >= 1
        BY <1>2, <3>2
      <4>2. Place(Append(args, argp), p + 1, 2) = Place(args, argp, 2)
        BY <1>2, <4>1 DEF Place
      <4>3. QED
        BY <1>4, <3>2, <4>2 DEF FirstLen
    <3>3. QED
      BY <3>1, <3>2
  <2>5. Append(args, argp) \in Seq(Nat) /\ Len(Append(args, argp)) = Len(args) + 1
    BY <1>2
  <2>6. Len(Append(args, argp)) <= opt.nargs /\ Append(args, argp) # << >>
    <3>1. Len(args) \in Nat /\ Len(args) < opt.nargs /\ opt.nargs \in Nat
      BY <1>1, <1>2, <1>3
    <3>2. Len(Append(args, argp)) <= opt.nargs /\ Len(Append(args, argp)) # 0
      BY <2>5, <3>1
    <3>3. QED
      BY <3>2
  <2>7. p + 1 \in Nat /\ p + 1 <= opt.nline
    BY <1>1, <1>2, <1>3
  <2>8. QED
    BY <1>4, <2>1, <2>2, <2>3, <2>4, <2>5, <2>6, <2>7
<1>7. QED
  BY <1>5, <1>6

(* How much of the buffer is used then.                                    *)
Filled == IF IsArg THEN p + 1 ELSE p

Full(c, lines) == IsFull(Len(Wheres), Filled, c, lines, FoundEof)

LEMMA EndArgDoes ==
    ASSUME NEW c, NEW lines, NEW hasblank, EndArg(c, lines, hasblank)
    PROVE  \/ Fail
           \/ /\ Full(c, lines) /\ Run(Terminated, Wheres, c = EOF \/ FoundEof)
              /\ p' = 0 /\ argp' = 0 /\ args' = << >> /\ buf' = Terminated
              /\ wasquoted' = FALSE /\ UNCHANGED quote
              /\ rest' = IF c = EOF THEN rest ELSE Tail(rest)
           \/ /\ ~ Full(c, lines)
              /\ p' = Filled /\ argp' = Filled /\ args' = Wheres /\ buf' = Terminated
              /\ wasquoted' = FALSE /\ rest' = Tail(rest)
              /\ UNCHANGED << quote, runs, pool, pc, code >>
BY DEF EndArg, IsArg, Terminated, Wheres, Filled, Full

LEMMA RunGoesOn ==
    ASSUME NEW b, NEW where, NEW last, Run(b, where, last)
    PROVE  /\ runs' = Append(runs, Argv(b, where))
           /\ pc' \in {"read", "wait", "drain", "exited"}
           /\ last => pc' \in {"drain", "exited"}
BY DEF Run, Exit

LEMMA EndArgKeeps ==
    ASSUME FitInv, pc = "read", UNCHANGED opt, NEW c, NEW lines, NEW hasblank,
           EndArg(c, lines, hasblank), c = EOF \/ rest # << >>
    PROVE  FitInv'
<1>1. opt.nargs \in Nat \ {0} /\ opt.nline \in Nat \ {0}
      /\ p \in Nat /\ argp \in Nat /\ argp <= p /\ p <= Ebp /\ Ebp = opt.nline - 1
  BY DEF FitInv, ParserTypes, BufferHolds, Collects, Ebp
<1>2. rest' = rest \/ (rest # << >> /\ rest' = Tail(rest))
      => rest' \in Seq(Char) /\ NulFree'
  BY RestGoes
<1>3. CASE Fail
  <2>1. UNCHANGED << buf, p, argp, args, rest, runs >> /\ pc' = "exited"
    BY <1>3 DEF Fail, Exit, parser
  <2>2. QED
    BY <1>2, <2>1, OthersKeep DEF Collects
<1>4. CASE /\ Full(c, lines) /\ Run(Terminated, Wheres, c = EOF \/ FoundEof)
           /\ p' = 0 /\ argp' = 0 /\ args' = << >> /\ buf' = Terminated
           /\ rest' = IF c = EOF THEN rest ELSE Tail(rest)
  <2>1. rest' \in Seq(Char) /\ NulFree'
    BY <1>2, <1>4
  <2>2. /\ runs' = Append(runs, Argv(Terminated, Wheres))
        /\ pc' \in {"read", "wait", "drain", "exited"}
        /\ (c = EOF \/ FoundEof) => ~ Collects'
    BY <1>4, RunGoesOn DEF Collects
  <2>3. FirstLen' = 0
    BY <1>4 DEF FirstLen
  <2>4. ASSUME ~ xflag, Collects'
        PROVE  Len(Wheres) = opt.nargs \/ Stop + FirstLen' + 1 > opt.nline
    <3>1. Len(Wheres) = opt.nargs \/ Filled > Ebp
      BY <1>4, <2>2, <2>4 DEF Full, IsFull
    <3>2. Filled > Ebp => Stop = Ebp + 1
      BY <1>1 DEF Filled, Stop
    <3>3. QED
      BY <1>1, <2>3, <3>1, <3>2
  <2>5. runs' \in Seq(Seq(Seq(Byte))) /\ RunsWithin' /\ RunsCrowded'
    BY <2>2, <2>4, ArgIsPlaced, RunKeeps
  <2>6. ParserTypes'
    BY <2>1, <2>2, <2>5 DEF FitInv, ParserTypes
  <2>7. BufferHolds'
    <3>1. buf' \in [0..opt.nline -> Byte]
      BY <1>4, ArgIsPlaced
    <3>2. Placed(buf, args, argp)'
      BY <1>4, NoneIsPlaced
    <3>3. p' \in Nat /\ argp' \in Nat /\ argp' <= p' /\ p' <= Ebp /\ Ebp' = Ebp
      BY <1>1, <1>4 DEF Ebp
    <3>4. args' \in Seq(Nat) /\ Len(args') < opt.nargs
      BY <1>1, <1>4
    <3>5. \A i \in argp'..(p' - 1) : buf'[i] \in Char \ {Nul}
      BY <1>4
    <3>6. QED
      BY <3>1, <3>2, <3>3, <3>4, <3>5 DEF BufferHolds
  <2>8. QED
    BY <2>1, <2>5, <2>6, <2>7 DEF FitInv
<1>5. CASE /\ ~ Full(c, lines)
           /\ p' = Filled /\ argp' = Filled /\ args' = Wheres /\ buf' = Terminated
           /\ rest' = Tail(rest) /\ UNCHANGED << runs, pc >>
  <2>1. /\ Len(Wheres) # opt.nargs /\ ~ (Filled > Ebp) /\ ~ FoundEof /\ rest # << >>
    BY <1>5 DEF Full, IsFull
  <2>2. rest' \in Seq(Char) /\ NulFree'
    BY <1>2, <1>5, <2>1
  <2>3. Filled = Stop /\ Filled \in Nat /\ Filled <= Ebp
    BY <1>1, <2>1 DEF Filled, Stop, IsArg
  <2>4. ParserTypes' /\ RunsWithin'
    BY <1>5, <2>2 DEF FitInv, ParserTypes, RunsWithin
  <2>5. /\ Terminated \in [0..opt.nline -> Byte]
        /\ Wheres \in Seq(Nat) /\ Len(Wheres) <= opt.nargs
        /\ Placed(Terminated, Wheres, Filled)
        /\ Wheres # << >> => Place(Wheres, Filled, 2) - 1 >= FirstLen
    BY <2>3, ArgIsPlaced
  <2>6. BufferHolds'
    <3>1. Placed(buf, args, argp)'
      BY <1>5, <2>5
    <3>2. p' \in Nat /\ argp' \in Nat /\ argp' <= p' /\ p' <= Ebp /\ Ebp' = Ebp
      BY <1>1, <1>5, <2>3 DEF Ebp
    <3>3. args' \in Seq(Nat) /\ Len(args') < opt.nargs
      BY <1>1, <1>5, <2>1, <2>5
    <3>4. \A i \in argp'..(p' - 1) : buf'[i] \in Char \ {Nul}
      BY <1>5, <2>3
    <3>5. QED
      BY <1>5, <2>5, <3>1, <3>2, <3>3, <3>4 DEF BufferHolds
  <2>7. FirstLen' \in Int /\ FirstLen <= FirstLen' /\ FirstLen \in Int
    <3>1. CASE IsArg
      <4>1. Wheres # << >> /\ args' # << >> /\ argp' = Filled
        BY <1>5, <3>1, ArgIsPlaced
      <4>2. FirstLen' = Place(Wheres, Filled, 2) - 1
        BY <1>5, <4>1 DEF FirstLen
      <4>3. Place(Wheres, Filled, 2) \in Nat
        BY <2>3, <2>5 DEF Place
      <4>4. QED
        BY <2>5, <4>1, <4>2, <4>3, ArgIsPlaced
    <3>2. CASE ~ IsArg
      <4>1. argp = p /\ Filled = p /\ Wheres = args
        BY <2>1, <3>2 DEF IsArg, Filled, Wheres
      <4>2. UNCHANGED << p, argp, args >>
        BY <1>5, <4>1
      <4>3. FirstLen' = FirstLen
        BY <4>2 DEF FirstLen
      <4>4. QED
        BY <4>3, ArgIsPlaced
    <3>3. QED
      BY <3>1, <3>2
  <2>8. RunsCrowded'
    BY <1>5, <2>7, MoreIsCrowded DEF Collects
  <2>9. QED
    BY <2>2, <2>4, <2>6, <2>8 DEF FitInv
<1>6. QED
  BY <1>3, <1>4, <1>5, EndArgDoes

-----------------------------------------------------------------------------
(* The steps of the parser                                                 *)

LEMMA AddChKeeps ==
    ASSUME FitInv, pc = "read", UNCHANGED opt, NEW c \in Char \ {Nul},
           NEW left \in Seq(Char), Clean(left), NEW hasblank,
           AddCh(c, left, hasblank)
    PROVE  FitInv'
<1>1. CASE Fail
  <2>1. UNCHANGED << buf, p, argp, args, rest, runs >> /\ pc' = "exited"
    BY <1>1 DEF Fail, Exit, parser
  <2>2. QED
    BY <2>1, RestGoes, OthersKeep DEF Collects
<1>2. CASE (Fits(c) \/ Overflows(c)) /\ rest' = left
  <2>1. rest' \in Seq(Char) /\ NulFree'
    BY <1>2 DEF NulFree, Clean
  <2>2. QED
    BY <1>2, <2>1, FitsKeeps, OverflowsKeeps
<1>3. QED
  BY <1>1, <1>2 DEF AddCh

(* What a character does: it is added, it ends an argument, it is a quote, *)
(* or it is the end of xargs.                                              *)
LEMMA CharDoes ==
    ASSUME FitInv,
           \/ ReadBlank \/ ReadNewline \/ ReadNul \/ ReadQuote
           \/ ReadBackslash \/ ReadLetter
    PROVE  /\ pc = "read" /\ UNCHANGED opt /\ rest # << >>
           /\ \/ \E c \in Char \ {Nul}, left \in Seq(Char), hasblank \in BOOLEAN :
                    Clean(left) /\ AddCh(c, left, hasblank)
              \/ \E c, lines, hasblank : EndArg(c, lines, hasblank)
              \/ Fail
              \/ UNCHANGED << buf, p, argp, args, runs, pc >> /\ rest' = Left
<1>1. pc = "read" /\ UNCHANGED opt
  BY DEF ReadBlank, ReadNewline, ReadNul, ReadQuote, ReadBackslash, ReadLetter, Reading
<1>2. rest # << >>
  BY DEF ReadBlank, ReadNewline, ReadNul, ReadQuote, ReadBackslash, ReadLetter,
         Next1, EOF, Blank, Newline, Nul, Quotes, Backslash
<1>3. /\ Next1 = Head(rest) /\ Next1 \in Char /\ Left \in Seq(Char) /\ Clean(Left)
      /\ opt.zero \/ Next1 # Nul
  BY <1>2, CleanGoes DEF FitInv, ParserTypes, NulFree, Next1, Left
<1>4. CASE ReadBlank \/ ReadNewline \/ ReadNul \/ ReadQuote \/ ReadLetter
  <2>1. \/ \E hasblank \in BOOLEAN : AddCh(Next1, Left, hasblank) /\ Next1 # Nul
        \/ \E c, lines, hasblank : EndArg(c, lines, hasblank)
        \/ Fail
        \/ UNCHANGED << buf, p, argp, args, runs, pc >> /\ rest' = Left
    BY <1>3, <1>4 DEF ReadBlank, ReadNewline, ReadNul, ReadQuote, ReadLetter,
         Blank, Newline, Nul, Quotes
  <2>2. QED
    BY <1>1, <1>2, <1>3, <2>1
<1>5. CASE ReadBackslash
  <2>1. \/ AddCh(Backslash, Left, FALSE) /\ Next1 = Backslash
        \/ Left # << >> /\ ~ opt.zero /\ AddCh(Head(Left), Tail(Left), FALSE)
        \/ Fail
    BY <1>5 DEF ReadBackslash
  <2>2. Backslash # Nul
    BY DEF Backslash, Nul
  <2>3. Left # << >> /\ ~ opt.zero =>
          Head(Left) \in Char /\ Head(Left) # Nul
          /\ Tail(Left) \in Seq(Char) /\ Clean(Tail(Left))
    BY <1>3, CleanGoes
  <2>4. QED
    BY <1>1, <1>2, <1>3, <2>1, <2>2, <2>3
<1>6. QED
  BY <1>4, <1>5

LEMMA CharKeepsFit ==
    ASSUME FitInv,
           \/ ReadBlank \/ ReadNewline \/ ReadNul \/ ReadQuote
           \/ ReadBackslash \/ ReadLetter
    PROVE  FitInv'
<1>1. pc = "read" /\ UNCHANGED opt /\ rest # << >>
  BY CharDoes
<1>2. ASSUME NEW c \in Char \ {Nul}, NEW left \in Seq(Char), NEW hasblank \in BOOLEAN,
             Clean(left), AddCh(c, left, hasblank)
      PROVE  FitInv'
  BY <1>1, <1>2, AddChKeeps
<1>3. ASSUME NEW c, NEW lines, NEW hasblank, EndArg(c, lines, hasblank)
      PROVE  FitInv'
  BY <1>1, <1>3, EndArgKeeps
<1>4. CASE Fail
  <2>1. UNCHANGED << buf, p, argp, args, rest, runs >> /\ pc' = "exited"
    BY <1>4 DEF Fail, Exit, parser
  <2>2. QED
    BY <1>1, <2>1, RestGoes, OthersKeep DEF Collects
<1>5. CASE UNCHANGED << buf, p, argp, args, runs, pc >> /\ rest' = Left
  <2>1. rest' \in Seq(Char) /\ NulFree'
    BY <1>1, <1>5, RestGoes DEF Left
  <2>2. pc' = "read"
    BY <1>1, <1>5
  <2>3. QED
    BY <1>1, <1>5, <2>1, <2>2, OthersKeep DEF Collects
<1>6. QED
  BY <1>2, <1>3, <1>4, <1>5, CharDoes

LEMMA EOFKeepsFit ==
    ASSUME FitInv, ReadEOF
    PROVE  FitInv'
<1>1. pc = "read" /\ UNCHANGED opt
  BY DEF ReadEOF, Reading
<1>2. CASE EndArg(EOF, count, FALSE)
  BY <1>1, <1>2, EndArgKeeps
<1>3. CASE Fail
  <2>1. UNCHANGED << buf, p, argp, args, rest, runs >> /\ pc' = "exited"
    BY <1>3 DEF Fail, Exit, parser
  <2>2. QED
    BY <1>1, <2>1, RestGoes, OthersKeep DEF Collects
<1>4. CASE UNCHANGED parser /\ pc' = "drain" /\ UNCHANGED runs
  <2>1. UNCHANGED << buf, p, argp, args, rest, runs >>
    BY <1>4 DEF parser
  <2>2. QED
    BY <1>1, <1>4, <2>1, RestGoes, OthersKeep DEF Collects
<1>5. CASE UNCHANGED parser /\ Run(buf, args, TRUE)
  <2>1. UNCHANGED << buf, p, argp, args, rest >>
    BY <1>5 DEF parser
  <2>2. runs' = Append(runs, Argv(buf, args)) /\ pc' \in {"drain", "exited"}
    BY <1>5, RunGoesOn
  <2>3. /\ opt.nargs \in Nat \ {0} /\ opt.nline \in Nat \ {0}
        /\ buf \in [0..opt.nline -> Byte]
        /\ p \in Nat /\ argp \in Nat /\ argp <= p /\ p <= Ebp /\ Ebp = opt.nline - 1
        /\ args \in Seq(Nat) /\ Len(args) < opt.nargs
        /\ Placed(buf, args, argp)
    BY <1>1 DEF FitInv, ParserTypes, BufferHolds, Collects, Ebp
  <2>4. argp <= opt.nline /\ Len(args) <= opt.nargs
    BY <2>3
  <2>5. args # << >> => Place(args, argp, 2) - 1 >= FirstLen
    BY <2>3 DEF FirstLen, Place
  <2>6. ~ Collects'
    BY <2>2 DEF Collects
  <2>7. runs' \in Seq(Seq(Seq(Byte))) /\ RunsWithin' /\ RunsCrowded'
    BY <1>1, <2>2, <2>3, <2>4, <2>5, <2>6, RunKeeps
  <2>8. rest' \in Seq(Char) /\ NulFree'
    BY <1>1, <2>1, RestGoes
  <2>9. ParserTypes' /\ BufferHolds'
    BY <1>1, <2>2, <2>6, <2>7, <2>8 DEF FitInv, ParserTypes, BufferHolds
  <2>10. QED
    BY <2>7, <2>8, <2>9 DEF FitInv
<1>6. QED
  BY <1>2, <1>3, <1>4, <1>5 DEF ReadEOF

LEMMA PoolKeepsFit ==
    ASSUME FitInv, Waitchildren \/ Utility \/ UNCHANGED vars
    PROVE  FitInv'
<1>1. UNCHANGED << opt, parser, runs >>
  BY DEF Waitchildren, NoMore, Reap, Utility, ChildEnds, vars
<1>2. UNCHANGED << opt, buf, p, argp, args, rest, runs >>
  BY <1>1 DEF parser
<1>3. pc \in {"read", "wait", "drain", "exited"}
  BY DEF FitInv, ParserTypes
<1>4. pc' \in {"read", "wait", "drain", "exited"} /\ (Collects' => Collects)
  BY <1>3 DEF Waitchildren, NoMore, Reap, Utility, ChildEnds, vars, Exit, Collects
<1>5. QED
  BY <1>2, <1>4, RestGoes, OthersKeep

-----------------------------------------------------------------------------
(* Texts have no NUL, unless it ends the arguments.                        *)
TextsWithoutNul ==
    \A c \in Cases : c[1].zero \/ \A i \in DOMAIN c[2] : c[2][i] # Nul

LEMMA InitFit ==
    ASSUME TextsWithoutNul, Init
    PROVE  FitInv
<1>1. PICK c \in Cases : opt = c[1] /\ input = c[2]
  BY DEF Init
<1>2. /\ opt.nargs \in Nat \ {0} /\ opt.nline \in Nat \ {0}
      /\ input \in Seq(STRING)
  BY <1>1, XargsAssumption
<1>3. /\ rest = input /\ p = 0 /\ argp = 0 /\ args = << >> /\ runs = << >>
      /\ pc = "read"
  BY DEF Init
<1>4. input \in Seq(Char)
  <2>1. \A i \in DOMAIN input : input[i] \in ToSet(input)
    BY DEF ToSet
  <2>2. ToSet(input) \subseteq Char
    BY <1>1 DEF Char, Inputs
  <2>3. DOMAIN input = 1..Len(input) /\ Len(input) \in Nat
        /\ input = [ i \in 1..Len(input) |-> input[i] ]
    BY <1>2
  <2>4. QED
    BY <2>1, <2>2, <2>3
<1>5. buf \in [0..opt.nline -> Byte]
  BY DEF Init, Byte
<1>6. ParserTypes
  BY <1>2, <1>3, <1>4 DEF ParserTypes
<1>7. BufferHolds
  BY <1>2, <1>3, <1>5, NoneIsPlaced DEF BufferHolds, Ebp
<1>8. NulFree
  BY <1>1, <1>3 DEF NulFree, Clean, TextsWithoutNul
<1>9. RunsWithin /\ RunsCrowded
  BY <1>3 DEF RunsWithin, RunsCrowded
<1>10. QED
  BY <1>6, <1>7, <1>8, <1>9 DEF FitInv

(* Wherever the input is cut, the buffer holds whole arguments and the     *)
(* beginning of one, and every run was as long as the next one allows.     *)
THEOREM FitInvariant ==
    ASSUME TextsWithoutNul
    PROVE  Spec => []FitInv
<1>1. Init => FitInv
  BY InitFit
<1>2. FitInv /\ [Next]_vars => FitInv'
  BY CharKeepsFit, EOFKeepsFit, PoolKeepsFit DEF Next, Xargs
<1>3. QED
  BY <1>1, <1>2, PTL DEF Spec

(* No run has more arguments or bytes than -n and -s allow, and none is    *)
(* shorter than it needs to be.                                            *)
THEOREM RunsFitAlways ==
    ASSUME TextsWithoutNul
    PROVE  Spec => []RunsFit
BY FitInvariant, FitTells, PTL

-----------------------------------------------------------------------------
(* The words of an input                                                   *)

LEMMA PlaceIs ==
    ASSUME NEW x \in Places
    PROVE  /\ x.zero \in BOOLEAN /\ x.left \in Seq(Char) /\ x.word \in Seq(Char)
           /\ x.open \in Quotes \cup {None} /\ x.begun \in BOOLEAN
           /\ Len(x.left) \in Nat
BY DEF Places

(* A place with other fields, one after the other.                         *)
LEMMA PlaceBegins ==
    ASSUME NEW x \in Places, NEW left, NEW word, NEW begun
    PROVE  [x EXCEPT !.left = left, !.word = word, !.begun = begun]
              = [zero |-> x.zero, left |-> left, word |-> word, open |-> x.open,
                 begun |-> begun]
<1>. DEFINE y == [x EXCEPT !.left = left]
            z == [y EXCEPT !.word = word]
<1>1. x = [zero |-> x.zero, left |-> x.left, word |-> x.word, open |-> x.open,
           begun |-> x.begun]
  BY DEF Places
<1>2. y = [zero |-> x.zero, left |-> left, word |-> x.word, open |-> x.open,
           begun |-> x.begun]
  BY <1>1
<1>. HIDE DEF y
<1>3. z = [zero |-> x.zero, left |-> left, word |-> word, open |-> x.open,
           begun |-> x.begun]
  BY <1>2
<1>. HIDE DEF z
<1>4. [z EXCEPT !.begun = begun]
         = [zero |-> x.zero, left |-> left, word |-> word, open |-> x.open,
            begun |-> begun]
  BY <1>3
<1>5. QED
  BY <1>4 DEF y, z

LEMMA PlaceOpens ==
    ASSUME NEW x \in Places, NEW left, NEW open, NEW begun
    PROVE  [x EXCEPT !.left = left, !.open = open, !.begun = begun]
              = [zero |-> x.zero, left |-> left, word |-> x.word, open |-> open,
                 begun |-> begun]
<1>. DEFINE y == [x EXCEPT !.left = left]
            z == [y EXCEPT !.open = open]
<1>1. x = [zero |-> x.zero, left |-> x.left, word |-> x.word, open |-> x.open,
           begun |-> x.begun]
  BY DEF Places
<1>2. y = [zero |-> x.zero, left |-> left, word |-> x.word, open |-> x.open,
           begun |-> x.begun]
  BY <1>1
<1>. HIDE DEF y
<1>3. z = [zero |-> x.zero, left |-> left, word |-> x.word, open |-> open,
           begun |-> x.begun]
  BY <1>2
<1>. HIDE DEF z
<1>4. [z EXCEPT !.begun = begun]
         = [zero |-> x.zero, left |-> left, word |-> x.word, open |-> open,
            begun |-> begun]
  BY <1>3
<1>5. QED
  BY <1>4 DEF y, z

LEMMA AddsIs ==
    ASSUME NEW x \in Places, NEW c \in Char, NEW left \in Seq(Char)
    PROVE  Adds(x, c, left) \in Places /\ Adds(x, c, left).left = left
<1>1. Append(x.word, c) \in Seq(Char)
  BY PlaceIs
<1>2. QED
  BY <1>1 DEF Adds, Places

LEMMA OnwardIs ==
    ASSUME NEW x \in Places, x.left # << >>, ~ Wrong(x)
    PROVE  /\ Onward(x) \in Places
           /\ Len(Onward(x).left) < Len(x.left)
<1>. DEFINE c == Head(x.left)
            t == Tail(x.left)
<1>1. /\ c \in Char /\ t \in Seq(Char) /\ Len(t) = Len(x.left) - 1 /\ Len(x.left) \in Nat
      /\ x.open \in Quotes \cup {None}
  BY PlaceIs
<1>2. CASE Separates(x)
  <2>1. Onward(x) = [x EXCEPT !.left = t, !.word = << >>, !.begun = FALSE]
    BY <1>2 DEF Onward
  <2>2. << >> \in Seq(Char)
    OBVIOUS
  <2>. HIDE DEF t
  <2>3. Onward(x) \in Places /\ Onward(x).left = t
    BY <1>1, <2>1, <2>2 DEF Places
  <2>4. QED
    BY <1>1, <2>3
<1>3. CASE ~ Separates(x) /\ x.zero
  <2>1. Onward(x) = Adds(x, c, t)
    BY <1>3 DEF Onward
  <2>. HIDE DEF t, c
  <2>2. Onward(x) \in Places /\ Onward(x).left = t
    BY <1>1, <2>1, AddsIs
  <2>3. QED
    BY <1>1, <2>2
<1>4. CASE ~ Separates(x) /\ ~ x.zero /\ x.open = None
  <2>1. Onward(x) = Unquoted(x)
    BY <1>4 DEF Onward
  <2>2. CASE c \in Quotes
    <3>1. Onward(x) = [x EXCEPT !.left = t, !.open = c, !.begun = TRUE]
      BY <2>1, <2>2 DEF Unquoted
    <3>. HIDE DEF t, c
    <3>2. Onward(x) \in Places /\ Onward(x).left = t
      BY <1>1, <2>2, <3>1 DEF Places
    <3>3. QED
      BY <1>1, <3>2
  <2>3. CASE c = Backslash
    <3>1. c \notin Quotes
      BY <2>3 DEF Backslash, Quotes
    <3>2. Onward(x) = Adds(x, Head(t), Tail(t))
      BY <2>1, <2>3, <3>1 DEF Unquoted
    <3>3. t # << >>
      BY <1>4, <2>3 DEF Wrong
    <3>4. Head(t) \in Char /\ Tail(t) \in Seq(Char) /\ Len(Tail(t)) = Len(t) - 1
      BY <1>1, <3>3
    <3>. HIDE DEF t
    <3>5. Onward(x) \in Places /\ Onward(x).left = Tail(t)
      BY <3>2, <3>4, AddsIs
    <3>6. QED
      BY <1>1, <3>4, <3>5
  <2>4. CASE c \notin Quotes /\ c # Backslash
    <3>1. Onward(x) = Adds(x, c, t)
      BY <2>1, <2>4 DEF Unquoted
    <3>. HIDE DEF t, c
    <3>2. Onward(x) \in Places /\ Onward(x).left = t
      BY <1>1, <3>1, AddsIs
    <3>3. QED
      BY <1>1, <3>2
  <2>5. QED
    BY <2>2, <2>3, <2>4
<1>5. CASE ~ Separates(x) /\ ~ x.zero /\ x.open # None
  <2>1. Onward(x) = Quoted(x)
    BY <1>5 DEF Onward
  <2>2. CASE c = x.open
    <3>1. Onward(x) = [x EXCEPT !.left = t, !.open = None, !.begun = TRUE]
      BY <2>1, <2>2 DEF Quoted
    <3>. HIDE DEF t, c
    <3>2. Onward(x) \in Places /\ Onward(x).left = t
      BY <1>1, <3>1 DEF Places
    <3>3. QED
      BY <1>1, <3>2
  <2>3. CASE c # x.open
    <3>1. Onward(x) = Adds(x, c, t)
      BY <2>1, <2>3 DEF Quoted
    <3>. HIDE DEF t, c
    <3>2. Onward(x) \in Places /\ Onward(x).left = t
      BY <1>1, <3>1, AddsIs
    <3>3. QED
      BY <1>1, <3>2
  <2>4. QED
    BY <2>2, <2>3
<1>6. QED
  BY <1>2, <1>3, <1>4, <1>5

Short(n) == { x \in Places : Len(x.left) <= n }

Says(f, x) ==
    IF x.left = << >> THEN Ended(x)
    ELSE IF Wrong(x) THEN << >>
    ELSE IF Separates(x) THEN Ended(x) \o f[Onward(x)]
    ELSE f[Onward(x)]

SomeWords == Seq(Seq(Char))

(* A function that gives the words of all inputs up to a length.           *)
Right(f, n) ==
    /\ f \in [Short(n) -> SomeWords]
    /\ \A x \in Short(n) : f[x] = Says(f, x)

LEMMA EndedIs ==
    ASSUME NEW x \in Places
    PROVE  Ended(x) \in SomeWords
BY DEF Places, Ended, SomeWords

LEMMA SaysIs ==
    ASSUME NEW x \in Places, NEW f,
           x.left # << >> /\ ~ Wrong(x) => f[Onward(x)] \in SomeWords
    PROVE  /\ Says(f, x) \in SomeWords
           /\ \A g : (x.left # << >> /\ ~ Wrong(x) => g[Onward(x)] = f[Onward(x)])
                        => Says(g, x) = Says(f, x)
<1>1. << >> \in SomeWords
  BY DEF SomeWords
<1>2. f[Onward(x)] \in SomeWords => Ended(x) \o f[Onward(x)] \in SomeWords
  <2>1. Ended(x) \in SomeWords
    BY EndedIs
  <2>2. QED
    BY <2>1 DEF SomeWords
<1>3. QED
  BY <1>1, <1>2, EndedIs DEF Says

LEMMA RightsAgree ==
    ASSUME NEW n \in Nat, NEW m \in Nat, NEW f, NEW g, Right(f, n), Right(g, m),
           NEW x \in Short(n), x \in Short(m)
    PROVE  f[x] = g[x]
<1>. DEFINE Bad == { y \in Short(n) \cap Short(m) : f[y] # g[y] }
            T == { Len(y.left) : y \in Bad }
<1>1. SUFFICES ASSUME Bad # {} PROVE FALSE
  OBVIOUS
<1>2. T \subseteq Nat /\ T # {}
  BY <1>1, PlaceIs DEF Short
<1>3. PICK k \in T : \A l \in T : k <= l
  BY <1>2, LeastNat
<1>4. PICK y \in Bad : k = Len(y.left)
  BY <1>3
<1>5. y \in Places /\ Len(y.left) \in Nat /\ y \in Short(n) /\ y \in Short(m) /\ f[y] # g[y]
  BY <1>4, PlaceIs DEF Short
<1>6. y.left # << >> /\ ~ Wrong(y) =>
         /\ Onward(y) \in Short(n) /\ Onward(y) \in Short(m)
         /\ g[Onward(y)] = f[Onward(y)]
  <2>1. SUFFICES ASSUME y.left # << >>, ~ Wrong(y)
                 PROVE  /\ Onward(y) \in Short(n) /\ Onward(y) \in Short(m)
                        /\ g[Onward(y)] = f[Onward(y)]
    OBVIOUS
  <2>2. Onward(y) \in Places /\ Len(Onward(y).left) < Len(y.left)
        /\ Len(Onward(y).left) \in Nat
    BY <1>5, <2>1, OnwardIs, PlaceIs
  <2>3. Onward(y) \in Short(n) /\ Onward(y) \in Short(m)
    BY <1>5, <2>2 DEF Short
  <2>4. ~ (k <= Len(Onward(y).left))
    BY <1>4, <1>5, <2>2
  <2>5. Len(Onward(y).left) \notin T
    BY <1>3, <2>4
  <2>6. QED
    BY <2>3, <2>5
<1>7. y.left # << >> /\ ~ Wrong(y) => f[Onward(y)] \in SomeWords
  BY <1>6 DEF Right
<1>8. Says(g, y) = Says(f, y)
  BY <1>5, <1>6, <1>7, SaysIs
<1>9. QED
  BY <1>5, <1>8 DEF Right

LEMMA RightExists ==
    ASSUME NEW n \in Nat
    PROVE  \E f : Right(f, n)
<1>. DEFINE Bad == { k \in Nat : ~ \E f : Right(f, k) }
<1>1. SUFFICES ASSUME Bad # {} PROVE FALSE
  OBVIOUS
<1>2. Bad \subseteq Nat
  OBVIOUS
<1>3. PICK k \in Bad : \A l \in Bad : k <= l
  BY <1>1, <1>2, LeastNat
<1>4. k \in Nat /\ ~ \E f : Right(f, k)
  BY <1>3
<1>5. \A l \in Nat : l < k => \E f : Right(f, l)
  BY <1>3, <1>4
<1>6. \E g : \A x \in Short(k) : x.left # << >> /\ ~ Wrong(x) =>
         Onward(x) \in Short(k - 1) /\ (k > 0 => Right(g, k - 1))
  <2>1. ASSUME NEW x \in Short(k), x.left # << >>, ~ Wrong(x)
        PROVE  Onward(x) \in Short(k - 1)
    <3>1. x \in Places /\ Len(x.left) <= k /\ Len(x.left) \in Nat
      BY PlaceIs DEF Short
    <3>2. /\ Onward(x) \in Places /\ Len(Onward(x).left) < Len(x.left)
          /\ Len(Onward(x).left) \in Nat
      BY <2>1, <3>1, OnwardIs, PlaceIs
    <3>3. QED
      BY <1>4, <3>1, <3>2 DEF Short
  <2>2. k > 0 => \E g : Right(g, k - 1)
    BY <1>4, <1>5
  <2>3. QED
    BY <2>1, <2>2
<1>7. PICK g : \A x \in Short(k) : x.left # << >> /\ ~ Wrong(x) =>
         Onward(x) \in Short(k - 1) /\ (k > 0 => Right(g, k - 1))
  BY <1>6
<1>8. ASSUME NEW x \in Short(k), x.left # << >>, ~ Wrong(x)
      PROVE  Onward(x) \in Short(k - 1) /\ Right(g, k - 1)
  <2>1. x \in Places /\ Len(x.left) <= k /\ Len(x.left) \in Nat
    BY PlaceIs DEF Short
  <2>2. Len(x.left) > 0
    BY <1>8, <2>1, PlaceIs
  <2>3. k > 0
    BY <1>4, <2>1, <2>2
  <2>4. QED
    BY <1>7, <1>8, <2>3
<1>9. \A x \in Short(k) : x.left # << >> /\ ~ Wrong(x) => g[Onward(x)] \in SomeWords
  BY <1>8 DEF Right
<1>. DEFINE h == [ x \in Short(k) |-> Says(g, x) ]
<1>10. \A x \in Short(k) : Says(g, x) \in SomeWords
  BY <1>9, SaysIs DEF Short
<1>11. ASSUME NEW x \in Short(k), x.left # << >>, ~ Wrong(x)
       PROVE  h[Onward(x)] = g[Onward(x)]
  <2>1. Onward(x) \in Short(k - 1) /\ Right(g, k - 1)
    BY <1>8, <1>11
  <2>2. Onward(x) \in Short(k)
    BY <1>4, <2>1, PlaceIs DEF Short
  <2>3. g[Onward(x)] = Says(g, Onward(x))
    BY <2>1 DEF Right
  <2>4. QED
    BY <2>2, <2>3
<1>12. \A x \in Short(k) : h[x] = Says(h, x)
  <2>1. TAKE x \in Short(k)
  <2>2. x \in Places /\ h[x] = Says(g, x)
    BY DEF Short
  <2>. HIDE DEF h
  <2>3. Says(h, x) = Says(g, x)
    BY <1>9, <1>11, <2>2, SaysIs
  <2>4. QED
    BY <2>2, <2>3
<1>13. h \in [Short(k) -> SomeWords]
  BY <1>10
<1>14. Right(h, k)
  BY <1>12, <1>13 DEF Right
<1>15. QED
  BY <1>4, <1>14

LEMMA WordsFromIs ==
    ASSUME NEW x \in Places
    PROVE  /\ WordsFrom[x] = Says(WordsFrom, x)
           /\ WordsFrom[x] \in SomeWords
<1>. DEFINE F(n) == CHOOSE f : Right(f, n)
            all == [ y \in Places |-> F(Len(y.left))[y] ]
<1>1. \A n \in Nat : Right(F(n), n)
  BY RightExists
<1>. HIDE DEF F
<1>2. ASSUME NEW n \in Nat, NEW y \in Short(n)
      PROVE  all[y] = F(n)[y]
  <2>1. y \in Places /\ Len(y.left) \in Nat /\ y \in Short(Len(y.left))
    BY <1>2, PlaceIs DEF Short
  <2>2. all[y] = F(Len(y.left))[y]
    BY <2>1
  <2>3. QED
    BY <1>1, <2>1, <2>2, RightsAgree
<1>. HIDE DEF all
<1>3. ASSUME NEW y \in Places
      PROVE  all[y] = Says(all, y) /\ all[y] \in SomeWords
  <2>. DEFINE n == Len(y.left)
  <2>1. n \in Nat /\ y \in Short(n)
    BY PlaceIs DEF Short
  <2>2. Right(F(n), n) /\ all[y] = F(n)[y]
    BY <1>1, <1>2, <2>1
  <2>3. y.left # << >> /\ ~ Wrong(y) => Onward(y) \in Short(n)
    BY <2>1, OnwardIs, PlaceIs DEF Short
  <2>4. y.left # << >> /\ ~ Wrong(y) =>
          F(n)[Onward(y)] \in SomeWords /\ all[Onward(y)] = F(n)[Onward(y)]
    BY <1>2, <2>1, <2>2, <2>3 DEF Right
  <2>5. Says(all, y) = Says(F(n), y)
    BY <2>4, SaysIs
  <2>6. QED
    BY <2>1, <2>2, <2>5 DEF Right
<1>4. all = [ y \in Places |-> Says(all, y) ]
  <2>1. all = [ y \in Places |-> all[y] ]
    BY DEF all
  <2>2. QED
    BY <1>3, <2>1
<1>5. WordsFrom = CHOOSE f : f = [ y \in Places |-> Says(f, y) ]
  BY DEF WordsFrom, Says
<1>6. WordsFrom = [ y \in Places |-> Says(WordsFrom, y) ]
  BY <1>4, <1>5
<1>. DEFINE Bad == { y \in Places : WordsFrom[y] # all[y] }
            T == { Len(y.left) : y \in Bad }
<1>7. Bad = {}
  <2>1. SUFFICES ASSUME Bad # {} PROVE FALSE
    OBVIOUS
  <2>2. T \subseteq Nat /\ T # {}
    BY <2>1, PlaceIs
  <2>3. PICK k \in T : \A l \in T : k <= l
    BY <2>2, LeastNat
  <2>4. PICK y \in Bad : k = Len(y.left)
    BY <2>3
  <2>5. y \in Places /\ Len(y.left) \in Nat /\ WordsFrom[y] # all[y]
    BY <2>4, PlaceIs
  <2>6. y.left # << >> /\ ~ Wrong(y) =>
          all[Onward(y)] \in SomeWords /\ WordsFrom[Onward(y)] = all[Onward(y)]
    <3>1. SUFFICES ASSUME y.left # << >>, ~ Wrong(y)
                   PROVE  /\ all[Onward(y)] \in SomeWords
                          /\ WordsFrom[Onward(y)] = all[Onward(y)]
      OBVIOUS
    <3>2. /\ Onward(y) \in Places /\ Len(Onward(y).left) < Len(y.left)
          /\ Len(Onward(y).left) \in Nat
      BY <2>5, <3>1, OnwardIs, PlaceIs
    <3>3. ~ (k <= Len(Onward(y).left))
      BY <2>4, <2>5, <3>2
    <3>4. Len(Onward(y).left) \notin T
      BY <2>3, <3>3
    <3>5. QED
      BY <1>3, <3>2, <3>4
  <2>7. Says(WordsFrom, y) = Says(all, y)
    BY <2>5, <2>6, SaysIs
  <2>8. WordsFrom[y] = Says(WordsFrom, y)
    BY <1>6, <2>5
  <2>9. QED
    BY <1>3, <2>5, <2>7, <2>8
<1>8. WordsFrom[x] = all[x] /\ WordsFrom[x] = Says(WordsFrom, x)
  BY <1>6, <1>7
<1>9. QED
  BY <1>3, <1>8

-----------------------------------------------------------------------------
(* The arguments of all runs                                               *)

FlatTo(seqs, f, n) ==
    \A i \in 1..n : f[i] = IF i = 1 THEN seqs[i] ELSE f[i - 1] \o seqs[i]

Agree(s, t, first, last) == \A i \in first..last : s[i] = t[i]

LEMMA FlatsAgree ==
    ASSUME NEW n \in Nat, NEW m \in Nat, n <= m, NEW s, NEW t, Agree(s, t, 1, n),
           NEW f, NEW g, FlatTo(s, f, n), FlatTo(t, g, m)
    PROVE  Agree(f, g, 1, n)
<1>. DEFINE T == { i \in 1..n : f[i] # g[i] }
<1>1. SUFFICES ASSUME T # {} PROVE FALSE
  BY DEF Agree
<1>2. T \subseteq Nat
  OBVIOUS
<1>3. PICK k \in T : \A l \in T : k <= l
  BY <1>1, <1>2, LeastNat
<1>4. k \in 1..n /\ k \in 1..m /\ f[k] # g[k] /\ s[k] = t[k]
  BY <1>3 DEF Agree
<1>5. CASE k = 1
  BY <1>4, <1>5 DEF FlatTo
<1>6. CASE k # 1
  <2>1. k - 1 \in 1..n /\ ~ (k <= k - 1)
    BY <1>4, <1>6
  <2>2. f[k - 1] = g[k - 1]
    BY <1>3, <2>1
  <2>3. f[k] = f[k - 1] \o s[k] /\ g[k] = g[k - 1] \o t[k]
    BY <1>4, <1>6 DEF FlatTo
  <2>4. QED
    BY <1>4, <2>2, <2>3
<1>7. QED
  BY <1>5, <1>6

LEMMA FlatExists ==
    ASSUME NEW S, NEW seqs \in Seq(Seq(S))
    PROVE  \E f \in [1..Len(seqs) -> Seq(S)] : FlatTo(seqs, f, Len(seqs))
<1>. DEFINE n == Len(seqs)
            Bad == { k \in 0..n : ~ \E f \in [1..k -> Seq(S)] : FlatTo(seqs, f, k) }
<1>1. n \in Nat /\ \A i \in 1..n : seqs[i] \in Seq(S)
  OBVIOUS
<1>2. \E f \in [1..0 -> Seq(S)] : FlatTo(seqs, f, 0)
  <2>1. [ i \in 1..0 |-> << >> ] \in [1..0 -> Seq(S)]
    OBVIOUS
  <2>2. FlatTo(seqs, [ i \in 1..0 |-> << >> ], 0)
    BY DEF FlatTo
  <2>3. QED
    BY <2>1, <2>2
<1>3. Bad = {}
  <2>1. SUFFICES ASSUME Bad # {} PROVE FALSE
    OBVIOUS
  <2>2. Bad \subseteq Nat
    BY <1>1
  <2>. HIDE DEF n
  <2>3. PICK k \in Bad : \A l \in Bad : k <= l
    BY <2>1, <2>2, LeastNat
  <2>4. k \in 0..n /\ ~ \E f \in [1..k -> Seq(S)] : FlatTo(seqs, f, k)
    BY <2>3
  <2>5. k # 0
    BY <1>2, <2>4
  <2>6. k - 1 \in 0..n /\ ~ (k <= k - 1) /\ k \in 1..n /\ k \in Nat
    BY <1>1, <2>4, <2>5
  <2>7. PICK f \in [1..(k - 1) -> Seq(S)] : FlatTo(seqs, f, k - 1)
    BY <2>3, <2>6
  <2>. DEFINE last == IF k = 1 THEN seqs[k] ELSE f[k - 1] \o seqs[k]
              g == [ i \in 1..k |-> IF i = k THEN last ELSE f[i] ]
  <2>8. last \in Seq(S)
    <3>1. CASE k = 1
      BY <1>1, <2>6, <3>1
    <3>2. CASE k # 1
      <4>1. k - 1 \in 1..(k - 1)
        BY <2>6, <3>2
      <4>2. f[k - 1] \in Seq(S) /\ seqs[k] \in Seq(S)
        BY <1>1, <2>6, <2>7, <4>1
      <4>3. QED
        BY <3>2, <4>2
    <3>3. QED
      BY <3>1, <3>2
  <2>9. \A i \in 1..k : i # k => i \in 1..(k - 1)
    BY <2>6
  <2>. HIDE DEF last
  <2>10. g \in [1..k -> Seq(S)]
    BY <2>7, <2>8, <2>9
  <2>11. FlatTo(seqs, g, k)
    <3>1. SUFFICES ASSUME NEW i \in 1..k
                   PROVE  g[i] = IF i = 1 THEN seqs[i] ELSE g[i - 1] \o seqs[i]
      BY DEF FlatTo
    <3>2. i # 1 => i - 1 \in 1..k /\ i - 1 # k /\ i - 1 \in 1..(k - 1)
      BY <2>6
    <3>3. i # 1 => g[i - 1] = f[i - 1]
      BY <3>2
    <3>4. CASE i = k
      BY <3>3, <3>4 DEF last
    <3>5. CASE i # k
      BY <2>7, <2>9, <3>3, <3>5 DEF FlatTo
    <3>6. QED
      BY <3>4, <3>5
  <2>12. QED
    BY <2>4, <2>10, <2>11
<1>4. QED
  BY <1>1, <1>3

LEMMA FlattenIs ==
    ASSUME NEW S, NEW seqs \in Seq(Seq(S)), seqs # << >>
    PROVE  \E f \in [1..Len(seqs) -> Seq(S)] :
               FlatTo(seqs, f, Len(seqs)) /\ FlattenSeq(seqs) = f[Len(seqs)]
<1>. DEFINE n == Len(seqs)
            IsFlat(f) == f = [ i \in 1..n |-> IF i = 1 THEN seqs[i] ELSE f[i - 1] \o seqs[i] ]
            g == CHOOSE f : IsFlat(f)
<1>1. n \in Nat \ {0}
  OBVIOUS
<1>2. PICK f \in [1..n -> Seq(S)] : FlatTo(seqs, f, n)
  BY FlatExists
<1>3. IsFlat(f)
  BY <1>2 DEF FlatTo
<1>4. IsFlat(g)
  BY <1>3
<1>5. FlattenSeq(seqs) = g[n]
  BY <1>1 DEF FlattenSeq
<1>. HIDE DEF g
<1>6. FlatTo(seqs, g, n)
  BY <1>4 DEF FlatTo
<1>10. FlatTo(seqs, f, n) /\ Agree(seqs, seqs, 1, n) /\ n \in Nat /\ n <= n
  BY <1>1, <1>2 DEF Agree
<1>. HIDE DEF n
<1>7. Agree(f, g, 1, n)
  BY <1>6, <1>10, FlatsAgree
<1>8. n \in 1..n
  BY <1>1
<1>9. QED
  BY <1>2, <1>5, <1>7, <1>8 DEF n, Agree

LEMMA FlattenAppend ==
    ASSUME NEW S, NEW seqs \in Seq(Seq(S)), NEW r \in Seq(S)
    PROVE  /\ FlattenSeq(seqs) \in Seq(S)
           /\ FlattenSeq(Append(seqs, r)) = FlattenSeq(seqs) \o r
<1>. DEFINE k == Len(seqs)
            more == Append(seqs, r)
<1>1. /\ k \in Nat /\ more \in Seq(Seq(S)) /\ Len(more) = k + 1 /\ more # << >>
      /\ (\A i \in 1..k : seqs[i] = more[i]) /\ more[k + 1] = r
      /\ k + 1 \in Nat /\ k + 1 \in 1..(k + 1) /\ k <= k + 1
  <2>1. k \in Nat /\ more \in Seq(Seq(S)) /\ Len(more) = k + 1
    OBVIOUS
  <2>2. (\A i \in 1..k : seqs[i] = more[i]) /\ more[k + 1] = r
    OBVIOUS
  <2>. HIDE DEF k, more
  <2>3. more # << >>
    BY <2>1
  <2>4. QED
    BY <2>1, <2>2, <2>3
<1>. HIDE DEF more, k
<1>2. PICK g \in [1..(k + 1) -> Seq(S)] :
         FlatTo(more, g, k + 1) /\ FlattenSeq(more) = g[k + 1]
  BY <1>1, FlattenIs
<1>3. g[k + 1] = IF k + 1 = 1 THEN r ELSE g[(k + 1) - 1] \o r
  BY <1>1, <1>2 DEF FlatTo
<1>4. CASE seqs = << >>
  <2>1. k = 0 /\ FlattenSeq(seqs) = << >>
    BY <1>4 DEF FlattenSeq, k
  <2>2. << >> \o r = r
    OBVIOUS
  <2>3. QED
    BY <1>2, <1>3, <2>1, <2>2 DEF more
<1>5. CASE seqs # << >>
  <2>1. PICK f \in [1..k -> Seq(S)] : FlatTo(seqs, f, k) /\ FlattenSeq(seqs) = f[k]
    BY <1>5, FlattenIs DEF k
  <2>2. k # 0
    BY <1>5 DEF k
  <2>3. k \in 1..k /\ (k + 1) - 1 = k /\ k + 1 # 1
    BY <1>1, <2>2
  <2>6. FlatTo(more, g, k + 1) /\ Agree(seqs, more, 1, k)
    BY <1>1, <1>2 DEF Agree
  <2>8. k \in Nat /\ k + 1 \in Nat /\ k <= k + 1 /\ FlatTo(seqs, f, k)
    BY <1>1, <2>1
  <2>7. Agree(f, g, 1, k)
    BY <2>6, <2>8, FlatsAgree
  <2>4. FlattenSeq(seqs) \in Seq(S)
    BY <2>1, <2>3
  <2>5. QED
    BY <1>2, <1>3, <2>1, <2>3, <2>4, <2>7 DEF more, Agree
<1>6. QED
  BY <1>4, <1>5

-----------------------------------------------------------------------------
(* The arguments in the buffer                                             *)

LEMMA CutSame ==
    ASSUME NEW b, NEW c, NEW from \in Nat, NEW to \in Nat, Agree(c, b, from, to - 2)
    PROVE  Cut(c, from, to) = Cut(b, from, to)
<1>1. \A i \in 1..(to - from - 1) : from + i - 1 \in from..(to - 2)
  OBVIOUS
<1>2. \A i \in 1..(to - from - 1) : c[from + i - 1] = b[from + i - 1]
  BY <1>1 DEF Agree
<1>3. QED
  BY <1>2 DEF Cut

LEMMA ArgvSame ==
    ASSUME NEW b, NEW where \in Seq(Nat), NEW end \in Nat,
           opt.nline \in Nat, end <= opt.nline,
           b \in [0..opt.nline -> Byte], Placed(b, where, end),
           NEW c \in [0..opt.nline -> Byte], Agree(c, b, 0, end - 1)
    PROVE  Argv(c, where) = Argv(b, where)
<1>1. Placed(c, where, end)
  BY PlacedSame DEF Agree
<1>2. /\ Argv(b, where) = [ i \in 1..Len(where) |->
                               Cut(b, Place(where, end, i), Place(where, end, i + 1)) ]
      /\ Argv(c, where) = [ i \in 1..Len(where) |->
                               Cut(c, Place(where, end, i), Place(where, end, i + 1)) ]
  BY <1>1, RunIs
<1>3. ASSUME NEW i \in 1..Len(where)
      PROVE  Cut(c, Place(where, end, i), Place(where, end, i + 1))
                = Cut(b, Place(where, end, i), Place(where, end, i + 1))
  <2>. DEFINE lo == Place(where, end, i)
              hi == Place(where, end, i + 1)
  <2>0. lo \in Nat /\ hi \in Nat
    BY DEF Place
  <2>1. lo \in Nat /\ hi \in Nat /\ hi <= end
    BY <2>0 DEF Placed
  <2>. HIDE DEF lo, hi
  <2>2. Agree(c, b, lo, hi - 2)
    <3>1. \A j \in lo..(hi - 2) : j \in 0..(end - 1)
      BY <2>1
    <3>2. QED
      BY <3>1 DEF Agree
  <2>3. Cut(c, lo, hi) = Cut(b, lo, hi)
    BY <2>1, <2>2, CutSame
  <2>4. QED
    BY <2>3 DEF lo, hi
<1>4. QED
  BY <1>2, <1>3

(* A word is one character longer here than it is there.                   *)
Grows(b, n, from, next, c, at, end, char) ==
    /\ n \in Nat /\ b \in [0..n -> Byte] /\ char \in Byte
    /\ from \in Nat /\ next \in Nat /\ from < next /\ next <= n + 1
    /\ at \in Nat /\ end \in Nat /\ end - at = next - from + 1
    /\ \A i \in 0..(next - from - 2) : c[at + i] = b[from + i]
    /\ c[end - 2] = char

LEMMA CutMore ==
    ASSUME NEW b, NEW n, NEW from, NEW next, NEW c, NEW at, NEW end, NEW char,
           Grows(b, n, from, next, c, at, end, char)
    PROVE  Cut(c, at, end) = Append(Cut(b, from, next), char)
<1>. DEFINE len == next - from - 1
            s == Cut(b, from, next)
            t == Cut(c, at, end)
<1>1. /\ n \in Nat /\ b \in [0..n -> Byte] /\ char \in Byte
      /\ from \in Nat /\ next \in Nat /\ from < next /\ next <= n + 1
      /\ at \in Nat /\ end \in Nat /\ end - at = next - from + 1
  BY DEF Grows
<1>2. len \in Nat /\ end - at - 1 = len + 1 /\ end - 2 = at + len /\ len + 1 \in Nat
  BY <1>1
<1>3. s \in Seq(Byte) /\ Len(s) = len
  BY <1>1, CutIs
<1>4. \A i \in 1..len : s[i] = b[from + i - 1]
  BY <1>2 DEF Cut
<1>5. t = [ i \in 1..(len + 1) |-> c[at + i - 1] ]
  BY <1>2 DEF Cut
<1>6. \A i \in 1..len : c[at + i - 1] = s[i]
  <2>1. TAKE i \in 1..len
  <2>2. i - 1 \in 0..(next - from - 2) /\ at + (i - 1) = at + i - 1
        /\ from + (i - 1) = from + i - 1
    BY <1>1, <1>2
  <2>3. c[at + (i - 1)] = b[from + (i - 1)]
    BY <2>2 DEF Grows
  <2>4. QED
    BY <1>4, <2>2, <2>3
<1>7. c[at + len] = char
  BY <1>2 DEF Grows
<1>8. /\ Append(s, char) \in Seq(Byte) /\ Len(Append(s, char)) = len + 1
      /\ \A i \in 1..len : Append(s, char)[i] = s[i]
      /\ Append(s, char)[len + 1] = char
  BY <1>1, <1>2, <1>3
<1>9. \A i \in 1..(len + 1) : c[at + i - 1] = Append(s, char)[i]
  <2>1. TAKE i \in 1..(len + 1)
  <2>2. i \in 1..len \/ i = len + 1
    BY <1>2
  <2>3. i = len + 1 => at + i - 1 = at + len
    BY <1>1, <1>2
  <2>. HIDE DEF len, s
  <2>4. QED
    BY <1>6, <1>7, <1>8, <2>2, <2>3
<1>10. \A i \in 1..(len + 1) : Append(s, char)[i] \in Byte
  BY <1>8
<1>. HIDE DEF len, s
<1>11. \A i \in 1..(len + 1) : c[at + i - 1] \in Byte
  BY <1>9, <1>10
<1>. DEFINE f == [ i \in 1..(len + 1) |-> c[at + i - 1] ]
<1>12. f \in Seq(Byte) /\ Len(f) = len + 1
  BY <1>2, <1>11
<1>13. \A i \in 1..(len + 1) : f[i] = Append(s, char)[i]
  BY <1>9
<1>14. t = f
  BY <1>5
<1>. HIDE DEF f, t
<1>15. f = Append(s, char)
  BY <1>8, <1>12, <1>13, SeqEqual
<1>16. QED
  BY <1>14, <1>15 DEF s, t

-----------------------------------------------------------------------------
(* The inductive invariant of the words                                    *)

ByteWords == Seq(Seq(Byte))

Begun == Cut(buf, argp, p + 1)
Held == Argv(buf, args)

(* The place in the input: it is what is not read, and what is read of a   *)
(* word.                                                                   *)
Here == [zero |-> opt.zero, left |-> rest, word |-> Begun, open |-> quote,
         begun |-> argp # p \/ wasquoted]

IsEnd(s) ==
    /\ Len(s) <= Len(input)
    /\ \A i \in 1..Len(s) : s[i] = input[Len(input) - Len(s) + i]

(* With a word begun that has no character yet, a quote was read last.     *)
QuoteWasLast ==
    argp = p /\ wasquoted =>
        Len(rest) < Len(input) /\ input[Len(input) - Len(rest)] \in Quotes

Finished ==
    \/ Used = Words
    \/ Used = Front(Words) /\ Last(Words) = << >> /\ Last(input) \in Quotes

WordTypes ==
    /\ opt.zero \in BOOLEAN /\ input \in Seq(Char) /\ Words \in SomeWords

(* What the runs got, what the buffer holds and what is still to be read   *)
(* are the words of the input.                                             *)
WordsAreKept ==
    Collects =>
        /\ quote \in Quotes \cup {None} /\ wasquoted \in BOOLEAN
        /\ IsEnd(rest) /\ QuoteWasLast
        /\ Words = Used \o (Held \o WordsFrom[Here])

WordsAreUsed ==
    /\ \E more \in ByteWords : Words = Used \o more
    /\ (pc = "drain" \/ ExitsWell) /\ opt.eof = << >> => Finished

WordInv == WordTypes /\ WordsAreKept /\ WordsAreUsed

-----------------------------------------------------------------------------

LEMMA Joined ==
    ASSUME NEW a \in ByteWords, NEW b \in ByteWords
    PROVE  /\ a \o b \in ByteWords /\ << >> \in ByteWords
           /\ a \o << >> = a /\ << >> \o a = a
BY ConcatProperties, ConcatEmptySeq DEF ByteWords

LEMMA Assoc ==
    ASSUME NEW a \in ByteWords, NEW b \in ByteWords, NEW c \in ByteWords
    PROVE  (a \o b) \o c = a \o (b \o c)
BY ConcatAssociative DEF ByteWords

LEMMA SomeAreByteWords == SomeWords \subseteq ByteWords
<1>1. Seq(Char) \subseteq Seq(Byte)
  <2>1. Char \subseteq Byte
    BY DEF Byte
  <2>2. QED
    BY <2>1, SeqMonotonic
<1>2. QED
  BY <1>1, SeqMonotonic DEF SomeWords, ByteWords

LEMMA UsedIs ==
    ASSUME FitInv
    PROVE  /\ Used \in ByteWords
           /\ runs' = runs => Used' = Used
           /\ \A r \in ByteWords : runs' = Append(runs, r) => Used' = Used \o r
<1>1. runs \in Seq(ByteWords)
  BY DEF FitInv, ParserTypes, ByteWords
<1>2. \A r \in ByteWords : /\ FlattenSeq(runs) \in ByteWords
                           /\ FlattenSeq(Append(runs, r)) = FlattenSeq(runs) \o r
  BY <1>1, FlattenAppend DEF ByteWords
<1>3. << >> \in ByteWords
  BY DEF ByteWords
<1>4. QED
  BY <1>2, <1>3 DEF Used

LEMMA WordsStay ==
    ASSUME UNCHANGED << opt, input >>
    PROVE  Words' = Words
BY DEF Words

LEMMA IsEndGoes ==
    ASSUME NEW s \in Seq(Char), s # << >>, input \in Seq(Char), IsEnd(s)
    PROVE  IsEnd(Tail(s)) /\ Len(Tail(s)) < Len(input)
           /\ input[Len(input) - Len(Tail(s))] = Head(s)
<1>. DEFINE t == Tail(s)
            n == Len(s)
            N == Len(input)
<1>1. /\ n \in Nat \ {0} /\ N \in Nat /\ n <= N /\ Len(t) = n - 1
      /\ \A i \in 1..(n - 1) : t[i] = s[i + 1]
  BY DEF IsEnd
<1>2. Head(s) = s[1]
  OBVIOUS
<1>3. \A i \in 1..n : s[i] = input[N - n + i]
  BY DEF IsEnd
<1>. HIDE DEF t, n, N
<1>4. \A i \in 1..(n - 1) : t[i] = input[N - (n - 1) + i]
  <2>1. TAKE i \in 1..(n - 1)
  <2>2. i + 1 \in 1..n /\ N - n + (i + 1) = N - (n - 1) + i
    BY <1>1
  <2>3. QED
    BY <1>1, <1>3, <2>2
<1>5. 1 \in 1..n /\ N - n + 1 = N - (n - 1) /\ n - 1 <= N /\ n - 1 < N
  BY <1>1
<1>6. s[1] = input[N - (n - 1)]
  BY <1>3, <1>5
<1>7. QED
  BY <1>1, <1>2, <1>4, <1>5, <1>6 DEF IsEnd, t, n, N

LEMMA HereIs ==
    ASSUME FitInv, WordInv, pc = "read"
    PROVE  /\ Here \in Places /\ Begun \in Seq(Char) /\ Len(Begun) = p - argp
           /\ Held \in ByteWords /\ Used \in ByteWords
           /\ WordsFrom[Here] \in ByteWords
<1>1. /\ opt.nline \in Nat \ {0} /\ rest \in Seq(Char)
      /\ buf \in [0..opt.nline -> Byte]
      /\ p \in Nat /\ argp \in Nat /\ argp <= p /\ p <= Ebp
      /\ args \in Seq(Nat) /\ Placed(buf, args, argp)
      /\ \A i \in argp..(p - 1) : buf[i] \in Char \ {Nul}
  BY DEF FitInv, ParserTypes, BufferHolds, Collects
<1>2. argp <= opt.nline /\ (p + 1) - argp - 1 = p - argp /\ p - argp \in Nat
      /\ opt.nline \in Nat
  BY <1>1 DEF Ebp
<1>3. Begun \in Seq(Char) /\ Len(Begun) = p - argp
  <2>1. Begun = [ i \in 1..(p - argp) |-> buf[argp + i - 1] ]
    BY <1>2 DEF Begun, Cut
  <2>2. \A i \in 1..(p - argp) : argp + i - 1 \in argp..(p - 1)
    BY <1>1
  <2>3. \A i \in 1..(p - argp) : buf[argp + i - 1] \in Char
    BY <1>1, <2>2
  <2>4. QED
    BY <1>2, <2>1, <2>3
<1>4. Held \in ByteWords
  BY <1>1, <1>2, RunIs DEF Held, ByteWords
<1>5. Here \in Places
  BY <1>1, <1>3 DEF Here, Places, WordInv, WordTypes, WordsAreKept, Collects
<1>6. WordsFrom[Here] \in ByteWords
  BY <1>5, WordsFromIs, SomeAreByteWords
<1>7. QED
  BY <1>3, <1>4, <1>5, <1>6, UsedIs

(* The runs get so much of the words that nothing more is expected.        *)
LEMMA OverKeeps ==
    ASSUME WordInv, UNCHANGED << opt, input >>, ~ Collects',
           NEW more \in ByteWords, Words = Used' \o more,
           (pc' = "drain" \/ ExitsWell') /\ opt.eof = << >> => Finished'
    PROVE  WordInv'
<1>1. WordTypes'
  BY WordsStay DEF WordInv, WordTypes
<1>2. WordsAreKept'
  BY DEF WordsAreKept
<1>3. Words' = Used' \o more
  BY WordsStay
<1>4. WordsAreUsed'
  BY <1>3 DEF WordsAreUsed
<1>5. QED
  BY <1>1, <1>2, <1>4 DEF WordInv

(* The words go on at the place that is reached.                           *)
LEMMA GoesOn ==
    ASSUME WordInv, UNCHANGED << opt, input >>, pc' \in {"read", "wait", "exited"},
           pc' = "exited" => code' = 1,
           NEW x \in Places, Here' = x, wasquoted' \in BOOLEAN,
           IsEnd(x.left), QuoteWasLast',
           Used' \in ByteWords, Held' \in ByteWords,
           Words = Used' \o (Held' \o WordsFrom[x])
    PROVE  WordInv'
<1>1. WordTypes'
  BY WordsStay DEF WordInv, WordTypes
<1>2. WordsFrom[x] \in ByteWords
  BY WordsFromIs, SomeAreByteWords
<1>3. Held' \o WordsFrom[x] \in ByteWords
  BY <1>2, Joined
<1>4. quote' \in Quotes \cup {None} /\ rest' = x.left
  BY PlaceIs DEF Here
<1>5. Words' = Words
  BY WordsStay
<1>6. Words' = Used' \o (Held' \o WordsFrom[Here'])
  BY <1>5
<1>7. IsEnd(rest)'
  BY <1>4 DEF IsEnd
<1>8. WordsAreKept'
  BY <1>4, <1>6, <1>7 DEF WordsAreKept
<1>9. ~ (pc' = "drain" \/ ExitsWell')
  BY DEF ExitsWell
<1>10. WordsAreUsed'
  BY <1>3, <1>5, <1>9 DEF WordsAreUsed
<1>11. QED
  BY <1>1, <1>8, <1>10 DEF WordInv

LEMMA HereAdds ==
    ASSUME Here \in Places, NEW c, NEW left, rest' = left, UNCHANGED << opt, quote >>,
           argp' # p', Begun' = Append(Begun, c)
    PROVE  Here' = Adds(Here, c, left)
<1>. DEFINE y == [zero |-> opt.zero, left |-> left, word |-> Append(Begun, c),
                  open |-> quote, begun |-> TRUE]
<1>1. (argp # p \/ wasquoted)' = TRUE
  OBVIOUS
<1>. HIDE DEF Begun
<1>2. Here' = y
  BY <1>1 DEF Here
<1>3. Adds(Here, c, left) = y
  <2>1. /\ Here.zero = opt.zero /\ Here.word = Begun /\ Here.open = quote
    BY DEF Here
  <2>. HIDE DEF Here
  <2>2. Adds(Here, c, left) = [zero |-> Here.zero, left |-> left, open |-> Here.open,
                               word |-> Append(Here.word, c), begun |-> TRUE]
    BY PlaceBegins DEF Adds
  <2>3. QED
    BY <2>1, <2>2
<1>4. QED
  BY <1>2, <1>3

LEMMA FailKeepsWords ==
    ASSUME FitInv, WordInv, UNCHANGED << opt, input >>, Fail
    PROVE  WordInv'
<1>1. pc' = "exited" /\ code' = 1 /\ runs' = runs
  BY DEF Fail, Exit
<1>2. ~ Collects' /\ ~ (pc' = "drain" \/ ExitsWell')
  BY <1>1 DEF Collects, ExitsWell
<1>3. PICK more \in ByteWords : Words = Used \o more
  BY DEF WordInv, WordsAreUsed
<1>4. Words = Used' \o more
  BY <1>1, <1>3, UsedIs
<1>5. QED
  BY <1>2, <1>4, OverKeeps

(* A character that fits is one more of the word.                          *)
LEMMA FitsKeepsWords ==
    ASSUME FitInv, WordInv, pc = "read", UNCHANGED << opt, input >>,
           NEW c \in Char \ {Nul}, NEW left \in Seq(Char), IsEnd(left),
           rest' = left, Fits(c),
           WordsFrom[Here] = WordsFrom[Adds(Here, c, left)]
    PROVE  WordInv'
<1>1. /\ opt.nline \in Nat \ {0}
      /\ buf \in [0..opt.nline -> Byte]
      /\ p \in Nat /\ argp \in Nat /\ argp <= p /\ p <= Ebp
      /\ args \in Seq(Nat) /\ Placed(buf, args, argp)
  BY DEF FitInv, ParserTypes, BufferHolds, Collects
<1>2. /\ p < Ebp /\ buf' = [buf EXCEPT ![p] = c] /\ p' = p + 1
      /\ UNCHANGED << argp, args, quote, wasquoted, runs, pc >>
  BY DEF Fits
<1>3. /\ argp <= opt.nline /\ p \in 0..opt.nline /\ p <= opt.nline
      /\ opt.nline \in Nat /\ c \in Byte
  BY <1>1 DEF Ebp, Byte
<1>4. buf' \in [0..opt.nline -> Byte] /\ buf'[p] = c
      /\ \A j \in 0..(p - 1) : buf'[j] = buf[j]
  BY <1>1, <1>2, <1>3
<1>5. Held' = Held
  <2>1. Agree(buf', buf, 0, argp - 1)
    BY <1>1, <1>4 DEF Agree
  <2>2. Argv(buf', args) = Argv(buf, args)
    BY <1>1, <1>3, <1>4, <2>1, ArgvSame
  <2>3. Held' = Argv(buf', args)
    BY <1>2 DEF Held, Argv, CString
  <2>4. QED
    BY <2>2, <2>3 DEF Held
<1>6. Begun' = Append(Begun, c)
  <2>1. \A i \in 0..((p + 1) - argp - 2) : buf'[argp + i] = buf[argp + i]
    <3>1. \A i \in 0..((p + 1) - argp - 2) : argp + i \in 0..(p - 1)
      BY <1>1
    <3>2. QED
      BY <1>4, <3>1
  <2>2. /\ argp < p + 1 /\ p + 1 <= opt.nline + 1 /\ p + 1 \in Nat /\ p' + 1 \in Nat
        /\ (p' + 1) - argp = (p + 1) - argp + 1 /\ (p' + 1) - 2 = p
    BY <1>1, <1>2, <1>3
  <2>3. Grows(buf, opt.nline, argp, p + 1, buf', argp, p' + 1, c)
    BY <1>1, <1>3, <1>4, <2>1, <2>2 DEF Grows
  <2>4. Cut(buf', argp, p' + 1) = Append(Cut(buf, argp, p + 1), c)
    BY <2>3, CutMore
  <2>5. QED
    BY <1>2, <2>4 DEF Begun, Cut
<1>7. Here' = Adds(Here, c, left) /\ Adds(Here, c, left) \in Places
      /\ Adds(Here, c, left).left = left
  <2>1. argp' # p'
    BY <1>1, <1>2
  <2>2. Here' = Adds(Here, c, left)
    BY <1>2, <1>6, <2>1, HereAdds, HereIs
  <2>3. QED
    BY <2>2, HereIs, AddsIs
<1>8. QuoteWasLast' /\ wasquoted' \in BOOLEAN
  BY <1>1, <1>2 DEF QuoteWasLast, WordInv, WordsAreKept, Collects
<1>9. Used' = Used /\ Used \in ByteWords /\ Held \in ByteWords
  BY <1>2, UsedIs, HereIs
<1>10. Words = Used' \o (Held' \o WordsFrom[Adds(Here, c, left)])
  BY <1>5, <1>9 DEF WordInv, WordsAreKept, Collects
<1>11. pc' = "read"
  BY <1>2
<1>12. QED
  BY <1>5, <1>7, <1>8, <1>9, <1>10, <1>11, GoesOn

LEMMA ArgsNotAtStart ==
    ASSUME FitInv, pc = "read", args # << >>
    PROVE  argp > 0
<1>1. args \in Seq(Nat) /\ argp \in Nat /\ Placed(buf, args, argp)
  BY DEF FitInv, BufferHolds, Collects
<1>2. 1 \in 1..Len(args) /\ Place(args, argp, 1) = 0 /\ Place(args, argp, 2) \in Nat
  BY <1>1 DEF Placed, Place
<1>3. 0 < Place(args, argp, 2) /\ Place(args, argp, 2) <= argp
  BY <1>1, <1>2 DEF Placed
<1>4. QED
  BY <1>1, <1>2, <1>3

(* One that does not goes with the word to the start of the buffer; the    *)
(* words before it are used.                                               *)
LEMMA OverflowsKeepsWords ==
    ASSUME FitInv, WordInv, pc = "read", UNCHANGED << opt, input >>,
           NEW c \in Char \ {Nul}, NEW left \in Seq(Char), IsEnd(left),
           rest' = left, Overflows(c),
           WordsFrom[Here] = WordsFrom[Adds(Here, c, left)]
    PROVE  WordInv'
<1>1. /\ opt.nline \in Nat \ {0}
      /\ buf \in [0..opt.nline -> Byte]
      /\ p \in Nat /\ argp \in Nat /\ argp <= p /\ p <= Ebp
  BY DEF FitInv, ParserTypes, BufferHolds, Collects
<1>. DEFINE cnt == Ebp - argp
<1>2. /\ p >= Ebp /\ args # << >>
      /\ Run(buf, args, FALSE)
      /\ buf' = [ i \in 0..opt.nline |->
                     IF i < cnt THEN buf[argp + i] ELSE IF i = cnt THEN c ELSE buf[i] ]
      /\ p' = cnt + 1 /\ argp' = 0 /\ args' = << >>
      /\ UNCHANGED << quote, wasquoted >>
  BY DEF Overflows
<1>20. Ebp = opt.nline - 1 /\ c \in Byte
  BY DEF Ebp, Byte
<1>21. p = Ebp
  <2>1. Ebp \in Int
    BY <1>1, <1>20
  <2>2. QED
    BY <1>1, <1>2, <2>1
<1>3. /\ p = Ebp /\ Ebp = opt.nline - 1 /\ cnt = p - argp
      /\ cnt \in Nat /\ cnt <= opt.nline
      /\ opt.nline \in Nat /\ c \in Byte /\ p <= opt.nline
  BY <1>1, <1>20, <1>21
<1>4. /\ runs' = Append(runs, Held) /\ pc' \in {"read", "wait", "exited"}
      /\ pc' = "exited" => code' = 1
  BY <1>2 DEF Run, Exit, Held
<1>5. Begun' = Append(Begun, c)
  <2>1. cnt \in Nat /\ cnt = p - argp /\ p' = cnt + 1
    BY <1>2, <1>3
  <2>2. \A i \in 0..((p + 1) - argp - 2) : buf'[0 + i] = buf[argp + i]
    <3>1. TAKE i \in 0..((p + 1) - argp - 2)
    <3>. HIDE DEF cnt
    <3>2. i \in Nat /\ i <= p - argp - 1
      BY <1>1
    <3>3. cnt = p - argp /\ argp \in Nat /\ p \in Nat /\ p <= opt.nline /\ opt.nline \in Nat
      BY <1>1, <1>3
    <3>4. i < cnt
      BY <3>2, <3>3
    <3>5. i <= opt.nline
      BY <3>2, <3>3
    <3>6. i \in 0..opt.nline /\ i < cnt /\ 0 + i = i
      BY <3>2, <3>3, <3>4, <3>5
    <3>7. QED
      BY <1>2, <3>6
  <2>3. buf'[cnt] = c
    <3>1. cnt \in 0..opt.nline /\ ~ (cnt < cnt)
      BY <1>3
    <3>. HIDE DEF cnt
    <3>2. QED
      BY <1>2, <3>1
  <2>. HIDE DEF cnt
  <2>4. /\ argp < p + 1 /\ p + 1 <= opt.nline + 1 /\ p + 1 \in Nat /\ p' + 1 \in Nat
        /\ (p' + 1) - 0 = (p + 1) - argp + 1 /\ (p' + 1) - 2 = cnt /\ 0 \in Nat
    BY <1>1, <1>3, <2>1
  <2>5. Grows(buf, opt.nline, argp, p + 1, buf', 0, p' + 1, c)
    BY <1>1, <1>3, <2>2, <2>3, <2>4 DEF Grows
  <2>6. Cut(buf', 0, p' + 1) = Append(Cut(buf, argp, p + 1), c)
    BY <2>5, CutMore
  <2>7. QED
    BY <1>2, <2>6 DEF Begun, Cut
<1>6. Here' = Adds(Here, c, left) /\ Adds(Here, c, left) \in Places
      /\ Adds(Here, c, left).left = left
  <2>1. argp' # p'
    BY <1>2, <1>3
  <2>2. Here' = Adds(Here, c, left)
    BY <1>2, <1>5, <2>1, HereAdds, HereIs
  <2>3. QED
    BY <2>2, HereIs, AddsIs
<1>7. QuoteWasLast' /\ wasquoted' \in BOOLEAN
  BY <1>2, <1>3 DEF QuoteWasLast, WordInv, WordsAreKept, Collects
<1>8. Used' = Used \o Held /\ Used \in ByteWords /\ Held \in ByteWords
  BY <1>4, UsedIs, HereIs
<1>9. Held' = << >>
  BY <1>2 DEF Held, Argv
<1>10. Used' \in ByteWords /\ Held' \in ByteWords
       /\ Words = Used' \o (Held' \o WordsFrom[Adds(Here, c, left)])
  <2>1. WordsFrom[Here] \in ByteWords
    BY HereIs
  <2>2. Words = Used \o (Held \o WordsFrom[Here])
    BY DEF WordInv, WordsAreKept, Collects
  <2>3. (Used \o Held) \o WordsFrom[Here] = Used \o (Held \o WordsFrom[Here])
    <3>1. Used \in ByteWords /\ Held \in ByteWords /\ WordsFrom[Here] \in ByteWords
      BY <1>8, <2>1
    <3>2. QED
      BY <3>1, Assoc
  <2>4. << >> \o WordsFrom[Here] = WordsFrom[Here] /\ << >> \in ByteWords
    BY <2>1, Joined
  <2>5. Used \o Held \in ByteWords
    BY <1>8, Joined
  <2>6. QED
    BY <1>8, <1>9, <2>2, <2>3, <2>4, <2>5
<1>11. QED
  BY <1>4, <1>6, <1>7, <1>10, GoesOn

-----------------------------------------------------------------------------
(* What the code makes of a character is what xargs.1 makes of it          *)

LEMMA WordsGoOn ==
    ASSUME NEW x \in Places, x.left # << >>, ~ Wrong(x)
    PROVE  WordsFrom[x] = IF Separates(x) THEN Ended(x) \o WordsFrom[Onward(x)]
                          ELSE WordsFrom[Onward(x)]
BY WordsFromIs DEF Says

LEMMA EofIsNoChar == EOF \notin Char
BY XargsAssumption DEF Char, Inputs

(* A character for itself.                                                 *)
LEMMA ItselfAdds ==
    ASSUME NEW x \in Places, x.left # << >>, NEW c, c = Head(x.left),
           \/ x.zero /\ c # Nul
           \/ ~ x.zero /\ x.open # None /\ c # x.open /\ c # Newline
           \/ ~ x.zero /\ x.open = None /\ c \notin Quotes \cup {Blank, Newline, Backslash}
    PROVE  WordsFrom[x] = WordsFrom[Adds(x, c, Tail(x.left))]
<1>1. ~ Wrong(x) /\ ~ Separates(x)
  BY DEF Wrong, Separates
<1>2. Onward(x) = Adds(x, c, Tail(x.left))
  BY <1>1 DEF Onward, Quoted, Unquoted
<1>3. QED
  BY <1>1, <1>2, WordsGoOn

(* One after a backslash.                                                  *)
LEMMA EscapedAdds ==
    ASSUME NEW x \in Places, x.left # << >>, ~ x.zero, x.open = None,
           Head(x.left) = Backslash, NEW t, t = Tail(x.left), t # << >>
    PROVE  WordsFrom[x] = WordsFrom[Adds(x, Head(t), Tail(t))]
<1>0. Backslash \notin Quotes \cup {Blank, Newline}
  BY DEF Backslash, Quotes, Blank, Newline
<1>1. ~ Wrong(x) /\ ~ Separates(x)
  BY <1>0 DEF Wrong, Separates
<1>2. Onward(x) = Adds(x, Head(t), Tail(t))
  BY <1>0, <1>1 DEF Onward, Unquoted
<1>3. QED
  BY <1>1, <1>2, WordsGoOn

(* A quote that opens or closes.                                           *)
LEMMA QuoteOpens ==
    ASSUME NEW x \in Places, x.left # << >>, ~ x.zero, NEW c \in Quotes,
           c = Head(x.left), x.open \in {None, c},
           NEW y, y = [zero |-> x.zero, left |-> Tail(x.left), word |-> x.word,
                       open |-> IF x.open = None THEN c ELSE None, begun |-> TRUE]
    PROVE  WordsFrom[x] = WordsFrom[y]
<1>0. c # Newline /\ c # Blank /\ c # Backslash /\ c # None
  BY DEF Backslash, Quotes, Blank, Newline, None
<1>1. ~ Wrong(x) /\ ~ Separates(x)
  BY <1>0 DEF Wrong, Separates
<1>2. x = [zero |-> x.zero, left |-> x.left, word |-> x.word, open |-> x.open,
           begun |-> x.begun]
  BY DEF Places
<1>3. CASE x.open = None
  <2>1. Onward(x) = [x EXCEPT !.left = Tail(x.left), !.open = c, !.begun = TRUE]
    BY <1>1, <1>3 DEF Onward, Unquoted
  <2>2. Onward(x) = y
    BY <1>2, <1>3, <2>1
  <2>3. QED
    BY <1>1, <2>2, WordsGoOn
<1>4. CASE x.open = c
  <2>1. Onward(x) = [x EXCEPT !.left = Tail(x.left), !.open = None, !.begun = TRUE]
    BY <1>0, <1>1, <1>4 DEF Onward, Quoted
  <2>2. Onward(x) = y
    BY <1>0, <1>2, <1>4, <2>1
  <2>3. QED
    BY <1>1, <2>2, WordsGoOn
<1>5. QED
  BY <1>3, <1>4

(* A character that is added, one that ends a word, or a quote.            *)
AddsChar(c, left) ==
    /\ c \in Char \ {Nul} /\ left \in Seq(Char) /\ IsEnd(left)
    /\ WordsFrom[Here] = WordsFrom[Adds(Here, c, left)]

EndsWord ==
    WordsFrom[Here] = Ended(Here) \o
        WordsFrom[[Here EXCEPT !.left = Tail(rest), !.word = << >>, !.begun = FALSE]]

TurnsQuote ==
    /\ Head(rest) \in Quotes /\ quote' \in Quotes \cup {None}
    /\ wasquoted' = TRUE /\ rest' = Tail(rest)
    /\ UNCHANGED << buf, p, argp, args, runs, pc, code >>
    /\ WordsFrom[Here] =
          WordsFrom[[Here EXCEPT !.left = Tail(rest), !.open = quote', !.begun = TRUE]]

CharSaid ==
    \/ Fail
    \/ \E c, left, hasblank : AddCh(c, left, hasblank) /\ AddsChar(c, left)
    \/ (\E c, lines, hasblank : c # EOF /\ EndArg(c, lines, hasblank)) /\ EndsWord
    \/ TurnsQuote

LEMMA AddsItself ==
    ASSUME FitInv, WordInv, pc = "read", rest # << >>, NEW c, c = Head(rest),
           \/ opt.zero
           \/ quote # None /\ c # quote /\ c # Newline
           \/ quote = None /\ c \notin Quotes \cup {Blank, Newline, Backslash},
           c # Nul
    PROVE  AddsChar(c, Left)
<1>1. rest \in Seq(Char) /\ IsEnd(rest) /\ input \in Seq(Char) /\ opt.zero \in BOOLEAN
  BY DEF FitInv, ParserTypes, WordInv, WordTypes, WordsAreKept, Collects
<1>2. c \in Char /\ Left \in Seq(Char) /\ IsEnd(Left)
  <2>1. Head(rest) \in Char /\ Tail(rest) \in Seq(Char)
    BY <1>1
  <2>2. IsEnd(Tail(rest))
    BY <1>1, IsEndGoes
  <2>3. QED
    BY <2>1, <2>2 DEF Left
<1>3. Here \in Places /\ Here.left = rest /\ Here.zero = opt.zero /\ Here.open = quote
  BY HereIs DEF Here
<1>4. WordsFrom[Here] = WordsFrom[Adds(Here, c, Tail(Here.left))]
  BY <1>1, <1>3, ItselfAdds
<1>5. QED
  BY <1>2, <1>3, <1>4 DEF AddsChar, Left

LEMMA AddsEscaped ==
    ASSUME FitInv, WordInv, pc = "read", rest # << >>, ~ opt.zero, quote = None,
           Head(rest) = Backslash, Left # << >>
    PROVE  AddsChar(Head(Left), Tail(Left))
<1>1. rest \in Seq(Char) /\ IsEnd(rest) /\ input \in Seq(Char) /\ Clean(rest)
  BY DEF FitInv, ParserTypes, WordInv, WordTypes, WordsAreKept, Collects, NulFree
<1>2. Left \in Seq(Char) /\ Clean(Left) /\ IsEnd(Left)
  BY <1>1, CleanGoes, IsEndGoes DEF Left
<1>3. Head(Left) \in Char \ {Nul} /\ Tail(Left) \in Seq(Char) /\ IsEnd(Tail(Left))
  BY <1>1, <1>2, CleanGoes, IsEndGoes
<1>4. Here \in Places /\ Here.left = rest /\ Here.zero = opt.zero /\ Here.open = quote
  BY HereIs DEF Here
<1>5. WordsFrom[Here] = WordsFrom[Adds(Here, Head(Left), Tail(Left))]
  BY <1>4, EscapedAdds DEF Left
<1>6. QED
  BY <1>3, <1>5 DEF AddsChar

LEMMA WordEnds ==
    ASSUME FitInv, WordInv, pc = "read", rest # << >>,
           \/ opt.zero /\ Head(rest) = Nul
           \/ ~ opt.zero /\ quote = None /\ Head(rest) \in {Blank, Newline}
    PROVE  EndsWord
<1>1. Here \in Places /\ Here.left = rest /\ Here.zero = opt.zero /\ Here.open = quote
  BY HereIs DEF Here
<1>2. Separates(Here)
  BY <1>1 DEF Separates
<1>3. ~ Wrong(Here)
  BY <1>1 DEF Wrong, Blank, Newline, Backslash
<1>4. Onward(Here) = [Here EXCEPT !.left = Tail(rest), !.word = << >>, !.begun = FALSE]
  BY <1>1, <1>2 DEF Onward
<1>5. QED
  BY <1>1, <1>2, <1>3, <1>4, WordsGoOn DEF EndsWord

LEMMA QuoteTurns ==
    ASSUME FitInv, WordInv, pc = "read", rest # << >>, ~ opt.zero,
           NEW c, c = Head(rest), c \in Quotes, quote \in {None, c},
           quote' = IF quote = None THEN c ELSE None,
           wasquoted' = TRUE, rest' = Tail(rest),
           UNCHANGED << buf, p, argp, args, runs, pc, code >>
    PROVE  TurnsQuote
<1>1. Here \in Places /\ Here.left = rest /\ Here.zero = opt.zero /\ Here.open = quote
  BY HereIs DEF Here
<1>. DEFINE y == [zero |-> Here.zero, left |-> Tail(Here.left), word |-> Here.word,
                  open |-> IF Here.open = None THEN c ELSE None, begun |-> TRUE]
<1>2. WordsFrom[Here] = WordsFrom[y]
  BY <1>1, QuoteOpens
<1>3. [Here EXCEPT !.left = Tail(rest), !.open = quote', !.begun = TRUE] = y
  <2>. DEFINE left == Tail(rest)
              open == quote'
  <2>0. Here \in Places
    BY <1>1
  <2>1. left = Tail(Here.left) /\ open = IF Here.open = None THEN c ELSE None
    BY <1>1
  <2>. HIDE DEF left, open
  <2>2. [Here EXCEPT !.left = left, !.open = open, !.begun = TRUE]
          = [zero |-> Here.zero, left |-> left, word |-> Here.word, open |-> open,
             begun |-> TRUE]
    BY <2>0, PlaceOpens
  <2>3. QED
    BY <2>1, <2>2 DEF left, open
<1>4. quote' \in Quotes \cup {None}
  OBVIOUS
<1>5. QED
  BY <1>2, <1>3, <1>4 DEF TurnsQuote

LEMMA CharSays ==
    ASSUME FitInv, WordInv,
           \/ ReadBlank \/ ReadNewline \/ ReadNul \/ ReadQuote
           \/ ReadBackslash \/ ReadLetter
    PROVE  pc = "read" /\ UNCHANGED << opt, input >> /\ rest # << >> /\ CharSaid
<1>1. pc = "read" /\ rest # << >>
  BY CharDoes
<1>2. UNCHANGED << opt, input >>
  BY DEF ReadBlank, ReadNewline, ReadNul, ReadQuote, ReadBackslash, ReadLetter, Reading
<1>3. Next1 = Head(rest) /\ quote \in Quotes \cup {None}
      /\ (opt.zero \/ Next1 # Nul)
  BY <1>1, CleanGoes DEF Next1, FitInv, ParserTypes, NulFree, WordInv, WordsAreKept,
     Collects
<1>4. CASE ReadBlank
  <2>0. Next1 = Blank /\ Blank \notin Quotes /\ Blank # Newline /\ Blank # Nul
        /\ Blank # EOF /\ Blank # Backslash
    BY <1>4 DEF ReadBlank, Blank, Quotes, Newline, Nul, EOF, Backslash
  <2>1. CASE quote # None
    <3>1. AddCh(Blank, Left, FALSE)
      BY <1>4, <2>1 DEF ReadBlank
    <3>2. AddsChar(Blank, Left)
      BY <1>1, <1>3, <2>0, <2>1, AddsItself
    <3>3. QED
      BY <1>1, <1>2, <3>1, <3>2 DEF CharSaid
  <2>2. CASE quote = None /\ opt.zero
    <3>1. AddCh(Blank, Left, TRUE)
      BY <1>4, <2>2 DEF ReadBlank
    <3>2. AddsChar(Blank, Left)
      BY <1>1, <1>3, <2>0, <2>2, AddsItself
    <3>3. QED
      BY <1>1, <1>2, <3>1, <3>2 DEF CharSaid
  <2>3. CASE quote = None /\ ~ opt.zero
    <3>1. EndArg(Blank, count, TRUE)
      BY <1>4, <2>3 DEF ReadBlank
    <3>2. EndsWord
      BY <1>1, <1>3, <2>0, <2>3, WordEnds
    <3>3. QED
      BY <1>1, <1>2, <2>0, <3>1, <3>2 DEF CharSaid
  <2>4. QED
    BY <2>1, <2>2, <2>3
<1>5. CASE ReadNewline
  <2>0. Next1 = Newline /\ Newline # Nul /\ Newline # EOF
    BY <1>5 DEF ReadNewline, Newline, Nul, EOF
  <2>1. CASE opt.zero
    <3>1. AddCh(Newline, Left, FALSE)
      BY <1>5, <2>1 DEF ReadNewline
    <3>2. AddsChar(Newline, Left)
      BY <1>1, <1>3, <2>0, <2>1, AddsItself
    <3>3. QED
      BY <1>1, <1>2, <3>1, <3>2 DEF CharSaid
  <2>2. CASE ~ opt.zero /\ quote # None
    BY <1>1, <1>2, <1>5, <2>2 DEF ReadNewline, CharSaid
  <2>3. CASE ~ opt.zero /\ quote = None
    <3>1. EndArg(Newline, IF hadblank THEN count ELSE count + 1, TRUE)
      BY <1>5, <2>3 DEF ReadNewline
    <3>2. EndsWord
      BY <1>1, <1>3, <2>0, <2>3, WordEnds
    <3>3. QED
      BY <1>1, <1>2, <2>0, <3>1, <3>2 DEF CharSaid
  <2>4. QED
    BY <2>1, <2>2, <2>3
<1>6. CASE ReadNul
  <2>0. Next1 = Nul /\ Nul # EOF
    BY <1>6 DEF ReadNul, Nul, EOF
  <2>1. EndArg(Nul, count + 1, FALSE) /\ opt.zero
    BY <1>3, <1>6, <2>0 DEF ReadNul
  <2>2. EndsWord
    BY <1>1, <1>3, <2>0, <2>1, WordEnds
  <2>3. QED
    BY <1>1, <1>2, <2>0, <2>1, <2>2 DEF CharSaid
<1>7. CASE ReadQuote
  <2>0. Next1 \in Quotes /\ Next1 # Newline /\ Next1 # Nul /\ Next1 # None
    BY <1>7 DEF ReadQuote, Quotes, Newline, Nul, None
  <2>1. CASE opt.zero \/ quote \notin {None, Next1}
    <3>1. AddCh(Next1, Left, FALSE)
      BY <1>7, <2>1 DEF ReadQuote
    <3>2. AddsChar(Next1, Left)
      BY <1>1, <1>3, <2>0, <2>1, AddsItself
    <3>3. QED
      BY <1>1, <1>2, <3>1, <3>2 DEF CharSaid
  <2>2. CASE ~ (opt.zero \/ quote \notin {None, Next1})
    <3>1. /\ quote' = IF quote = None THEN Next1 ELSE None
          /\ wasquoted' = TRUE /\ rest' = Tail(rest)
          /\ UNCHANGED << buf, p, argp, args, runs, pc, code >>
      BY <1>7, <2>2 DEF ReadQuote, Left
    <3>2. TurnsQuote
      BY <1>1, <1>3, <2>0, <2>2, <3>1, QuoteTurns
    <3>3. QED
      BY <1>1, <1>2, <3>2 DEF CharSaid
  <2>3. QED
    BY <2>1, <2>2
<1>8. CASE ReadBackslash
  <2>0. Next1 = Backslash /\ Backslash \notin Quotes /\ Backslash # Newline
        /\ Backslash # Nul
    BY <1>8 DEF ReadBackslash, Backslash, Quotes, Newline, Nul
  <2>1. CASE opt.zero \/ quote # None
    <3>1. AddCh(Backslash, Left, FALSE)
      BY <1>8, <2>1 DEF ReadBackslash
    <3>2. AddsChar(Backslash, Left)
      BY <1>1, <1>3, <2>0, <2>1, AddsItself
    <3>3. QED
      BY <1>1, <1>2, <3>1, <3>2 DEF CharSaid
  <2>2. CASE ~ opt.zero /\ quote = None /\ Left = << >>
    BY <1>1, <1>2, <1>8, <2>2 DEF ReadBackslash, CharSaid
  <2>3. CASE ~ opt.zero /\ quote = None /\ Left # << >>
    <3>1. AddCh(Head(Left), Tail(Left), FALSE)
      BY <1>8, <2>3 DEF ReadBackslash
    <3>2. AddsChar(Head(Left), Tail(Left))
      BY <1>1, <1>3, <2>0, <2>3, AddsEscaped
    <3>3. QED
      BY <1>1, <1>2, <3>1, <3>2 DEF CharSaid
  <2>4. QED
    BY <2>1, <2>2, <2>3
<1>9. CASE ReadLetter
  <2>0. Next1 \notin Quotes \cup {Blank, Newline, Nul, Backslash, EOF}
        /\ AddCh(Next1, Left, FALSE)
    BY <1>9 DEF ReadLetter
  <2>1. AddsChar(Next1, Left)
    <3>1. quote # None => quote \in Quotes
      BY <1>3
    <3>2. QED
      BY <1>1, <1>3, <2>0, <3>1, AddsItself
  <2>2. QED
    BY <1>1, <1>2, <2>0, <2>1 DEF CharSaid
<1>10. QED
  BY <1>4, <1>5, <1>6, <1>7, <1>8, <1>9

-----------------------------------------------------------------------------
(* The end of an argument                                                  *)

LEMMA ArgvAppend ==
    ASSUME NEW b, NEW where \in Seq(Nat), NEW from \in Nat, NEW run \in ByteWords,
           run = Argv(b, where), NEW arg \in Seq(Byte), CString(b, from) = arg
    PROVE  Argv(b, Append(where, from)) = Append(run, arg)
<1>. DEFINE n == Len(where)
            more == Append(where, from)
<1>1. /\ n \in Nat /\ more \in Seq(Nat) /\ Len(more) = n + 1
      /\ DOMAIN where = 1..n /\ DOMAIN more = 1..(n + 1)
      /\ \A i \in 1..n : more[i] = where[i]
      /\ more[n + 1] = from
  OBVIOUS
<1>2. run = [ i \in 1..n |-> CString(b, where[i]) ] /\ Len(run) = n
  BY <1>1 DEF Argv, ByteWords
<1>3. Argv(b, more) = [ i \in 1..(n + 1) |-> CString(b, more[i]) ]
  BY <1>1 DEF Argv
<1>4. /\ Append(run, arg) \in ByteWords /\ Len(Append(run, arg)) = n + 1
      /\ \A i \in 1..n : Append(run, arg)[i] = run[i]
      /\ Append(run, arg)[n + 1] = arg
  BY <1>1, <1>2 DEF ByteWords
<1>. HIDE DEF more, n
<1>5. \A i \in 1..(n + 1) : CString(b, more[i]) = Append(run, arg)[i]
  <2>1. TAKE i \in 1..(n + 1)
  <2>2. CASE i \in 1..n
    BY <1>1, <1>2, <1>4, <2>2
  <2>3. CASE i = n + 1
    BY <1>1, <1>4, <2>3
  <2>4. i \in 1..n \/ i = n + 1
    BY <1>1
  <2>5. QED
    BY <2>2, <2>3, <2>4
<1>6. \A i \in 1..(n + 1) : Append(run, arg)[i] \in Seq(Byte)
  BY <1>4 DEF ByteWords
<1>7. Argv(b, more) \in ByteWords /\ Len(Argv(b, more)) = n + 1
      /\ \A i \in 1..(n + 1) : Argv(b, more)[i] = Append(run, arg)[i]
  <2>1. \A i \in 1..(n + 1) : CString(b, more[i]) \in Seq(Byte)
    BY <1>5, <1>6
  <2>2. n + 1 \in Nat
    BY <1>1
  <2>. DEFINE f == [ i \in 1..(n + 1) |-> CString(b, more[i]) ]
  <2>3. f \in Seq(Seq(Byte)) /\ Len(f) = n + 1
    BY <2>1, <2>2
  <2>4. \A i \in 1..(n + 1) : f[i] = Append(run, arg)[i]
    BY <1>5
  <2>. HIDE DEF f
  <2>5. Argv(b, more) = f
    BY <1>3 DEF f
  <2>6. QED
    BY <2>3, <2>4, <2>5 DEF ByteWords
<1>8. QED
  BY <1>4, <1>7, SeqEqual DEF ByteWords, more

(* The arguments at the end of one are those before it and the word.       *)
LEMMA EndedArgs ==
    ASSUME FitInv, WordInv, pc = "read"
    PROVE  /\ FoundEof => Argv(Terminated, Wheres) = Held
           /\ ~ FoundEof => Argv(Terminated, Wheres) = Held \o Ended(Here)
<1>1. /\ opt.nline \in Nat \ {0}
      /\ buf \in [0..opt.nline -> Byte]
      /\ p \in Nat /\ argp \in Nat /\ argp <= p /\ p <= Ebp
      /\ args \in Seq(Nat) /\ Placed(buf, args, argp)
      /\ \A i \in argp..(p - 1) : buf[i] \in Char \ {Nul}
  BY DEF FitInv, ParserTypes, BufferHolds, Collects
<1>2. /\ p \in 0..opt.nline /\ argp <= opt.nline /\ opt.nline \in Nat
      /\ p + 1 <= opt.nline /\ Nul \in Byte
  BY <1>1 DEF Ebp, Byte
<1>3. Held \in ByteWords /\ Begun \in Seq(Char) /\ Seq(Char) \subseteq Seq(Byte)
  <2>1. Char \subseteq Byte
    BY DEF Byte
  <2>2. QED
    BY <2>1, HereIs, SeqMonotonic
<1>4. Here.begun = (argp # p \/ wasquoted) /\ Here.word = Begun
  BY DEF Here
<1>5. CASE ~ IsArg
  <2>1. Argv(Terminated, Wheres) = Held
    BY <1>5 DEF Terminated, Wheres, Held
  <2>2. ~ FoundEof => Ended(Here) = << >>
    BY <1>4, <1>5 DEF IsArg, Ended
  <2>3. Held \o << >> = Held
    BY <1>3, Joined
  <2>4. QED
    BY <2>1, <2>2, <2>3
<1>6. CASE IsArg
  <2>1. ~ FoundEof /\ Ended(Here) = << Begun >>
    BY <1>4, <1>6 DEF IsArg, Ended
  <2>2. Terminated = [buf EXCEPT ![p] = Nul] /\ Wheres = Append(args, argp)
    BY <1>6 DEF Terminated, Wheres
  <2>3. /\ Terminated \in [0..opt.nline -> Byte] /\ Terminated[p] = Nul
        /\ \A j \in 0..(p - 1) : Terminated[j] = buf[j]
    BY <1>1, <1>2, <2>2
  <2>4. Argv(Terminated, args) = Held
    <3>1. Agree(Terminated, buf, 0, argp - 1)
      BY <1>1, <2>3 DEF Agree
    <3>2. Argv(Terminated, args) = Argv(buf, args)
      BY <1>1, <1>2, <2>3, <3>1, ArgvSame
    <3>3. QED
      BY <3>2 DEF Held
  <2>5. CString(Terminated, argp) = Begun
    <3>. DEFINE to == p + 1
    <3>1. to \in Nat /\ argp < to /\ to - 1 = p /\ to - 2 = p - 1 /\ to <= opt.nline
      BY <1>1, <1>2
    <3>2. \A j \in argp..(p - 1) : j \in 0..(p - 1)
      BY <1>1
    <3>3. \A j \in argp..(to - 2) : Terminated[j] # Nul
      BY <1>1, <2>3, <3>1, <3>2
    <3>4. Agree(Terminated, buf, argp, to - 2)
      BY <2>3, <3>1, <3>2 DEF Agree
    <3>5. Terminated[to - 1] = Nul
      BY <2>3, <3>1
    <3>. HIDE DEF to
    <3>6. CString(Terminated, argp) = Cut(Terminated, argp, to)
      BY <1>1, <1>2, <3>1, <3>3, <3>5, CStringIs
    <3>7. Cut(Terminated, argp, to) = Cut(buf, argp, to)
      BY <1>1, <3>1, <3>4, CutSame
    <3>8. QED
      BY <3>6, <3>7 DEF to, Begun
  <2>6. Argv(Terminated, Append(args, argp)) = Append(Held, Begun)
    BY <1>1, <1>3, <2>4, <2>5, ArgvAppend
  <2>7. Append(Held, Begun) = Held \o << Begun >>
    BY <1>3, AppendIsConcat DEF ByteWords
  <2>8. QED
    BY <2>1, <2>2, <2>6, <2>7
<1>7. QED
  BY <1>5, <1>6

(* Between two words nothing is held of the next one.                      *)
LEMMA CutNone ==
    ASSUME NEW b, NEW n \in Nat
    PROVE  Cut(b, n, n + 1) = << >>
<1>1. (n + 1) - n - 1 = 0
  OBVIOUS
<1>2. QED
  BY <1>1 DEF Cut

LEMMA NothingHere ==
    ASSUME Here \in Places, UNCHANGED << opt, quote >>, argp' = p', p' \in Nat, wasquoted' = FALSE,
           rest' = Tail(rest)
    PROVE  Here' = [Here EXCEPT !.left = Tail(rest), !.word = << >>, !.begun = FALSE]
<1>1. Begun' = << >>
  <2>1. Begun' = Cut(buf', p', p' + 1)
    BY DEF Begun, Cut
  <2>2. QED
    BY <2>1, CutNone
<1>2. (argp # p \/ wasquoted)' = FALSE
  OBVIOUS
<1>. HIDE DEF Begun
<1>3. Here' = [zero |-> opt.zero, left |-> Tail(rest), word |-> << >>, open |-> quote,
               begun |-> FALSE]
  BY <1>1, <1>2 DEF Here
<1>4. Here.zero = opt.zero /\ Here.open = quote
  BY DEF Here
<1>. DEFINE left == Tail(rest)
<1>. HIDE DEF Here, left
<1>5. [Here EXCEPT !.left = left, !.word = << >>, !.begun = FALSE]
        = [zero |-> Here.zero, left |-> left, word |-> << >>, open |-> Here.open,
           begun |-> FALSE]
  BY PlaceBegins
<1>6. QED
  BY <1>3, <1>4, <1>5 DEF left

(* The end of a word: the runs and the buffer have it, or it is that of -E. *)
LEMMA EndArgKeepsWords ==
    ASSUME FitInv, WordInv, pc = "read", UNCHANGED << opt, input >>, rest # << >>,
           NEW c, c # EOF, NEW lines, NEW hasblank, EndArg(c, lines, hasblank),
           EndsWord
    PROVE  WordInv'
<1>. DEFINE x == [Here EXCEPT !.left = Tail(rest), !.word = << >>, !.begun = FALSE]
            new == Held \o Ended(Here)
<1>1. /\ rest \in Seq(Char) /\ IsEnd(rest) /\ input \in Seq(Char)
      /\ p \in Nat /\ argp \in Nat
      /\ Words = Used \o (Held \o WordsFrom[Here])
  BY DEF FitInv, ParserTypes, BufferHolds, WordInv, WordTypes, WordsAreKept, Collects
<1>2. Here \in Places /\ Held \in ByteWords /\ Used \in ByteWords
      /\ WordsFrom[Here] \in ByteWords
  BY HereIs
<1>3. /\ Tail(rest) \in Seq(Char) /\ IsEnd(Tail(rest))
      /\ x \in Places /\ x.left = Tail(rest)
  <2>1. Tail(rest) \in Seq(Char) /\ << >> \in Seq(Char)
    BY <1>1
  <2>2. x \in Places /\ x.left = Tail(rest)
    BY <1>2, <2>1 DEF Places
  <2>3. QED
    BY <1>1, <2>1, <2>2, IsEndGoes
<1>4. Ended(Here) \in ByteWords /\ WordsFrom[x] \in ByteWords
  BY <1>2, <1>3, EndedIs, WordsFromIs, SomeAreByteWords
<1>5. WordsFrom[Here] = Ended(Here) \o WordsFrom[x]
  BY DEF EndsWord
<1>6. new \in ByteWords /\ << >> \in ByteWords
  BY <1>2, <1>4, Joined
<1>7. Words = Used \o (new \o WordsFrom[x])
  <2>1. (Held \o Ended(Here)) \o WordsFrom[x] = Held \o (Ended(Here) \o WordsFrom[x])
    <3>1. Held \in ByteWords /\ Ended(Here) \in ByteWords /\ WordsFrom[x] \in ByteWords
      BY <1>2, <1>4
    <3>. HIDE DEF x
    <3>2. QED
      BY <3>1, Assoc
  <2>2. QED
    BY <1>1, <1>5, <2>1
<1>. HIDE DEF x, new
<1>8. CASE Fail
  BY <1>8, FailKeepsWords
<1>9. CASE /\ Run(Terminated, Wheres, c = EOF \/ FoundEof)
           /\ p' = 0 /\ argp' = 0 /\ args' = << >>
           /\ wasquoted' = FALSE /\ UNCHANGED quote /\ rest' = Tail(rest)
  <2>1. runs' = Append(runs, Argv(Terminated, Wheres))
    BY <1>9, RunGoesOn
  <2>2. CASE FoundEof
    <3>1. Used' = Used \o Held
      BY <1>2, <2>1, <2>2, EndedArgs, UsedIs
    <3>2. Words = Used' \o WordsFrom[Here]
      <4>1. (Used \o Held) \o WordsFrom[Here] = Used \o (Held \o WordsFrom[Here])
        BY <1>2, Assoc
      <4>2. QED
        BY <1>1, <3>1, <4>1
    <3>3. pc' \in {"drain", "exited"}
      BY <1>9, <2>2, RunGoesOn
    <3>4. opt'.eof # << >>
      BY <2>2 DEF FoundEof
    <3>5. QED
      BY <1>2, <3>2, <3>3, <3>4, OverKeeps DEF Collects
  <2>3. CASE ~ FoundEof
    <3>1. Used' = Used \o new
      BY <1>6, <2>1, <2>3, EndedArgs, UsedIs DEF new
    <3>2. Held' = << >>
      BY <1>9 DEF Held, Argv
    <3>3. Here' = x
      <4>1. argp' = p' /\ p' \in Nat
        BY <1>9
      <4>2. Here \in Places /\ wasquoted' = FALSE /\ rest' = Tail(rest)
            /\ UNCHANGED << opt, quote >>
        BY <1>2, <1>9
      <4>3. QED
        BY <4>1, <4>2, NothingHere DEF x
    <3>4. pc' \in {"read", "wait", "exited"} /\ (pc' = "exited" => code' = 1)
      BY <1>9, <2>3 DEF Run, Exit
    <3>5. Used' \in ByteWords /\ Words = Used' \o (Held' \o WordsFrom[x])
      <4>1. (Used \o new) \o WordsFrom[x] = Used \o (new \o WordsFrom[x])
        <5>1. Used \in ByteWords /\ new \in ByteWords /\ WordsFrom[x] \in ByteWords
          BY <1>2, <1>4, <1>6
        <5>2. QED
          BY <5>1, Assoc
      <4>2. << >> \o WordsFrom[x] = WordsFrom[x]
        BY <1>4, Joined
      <4>3. Used \o new \in ByteWords
        BY <1>2, <1>6, Joined
      <4>4. QED
        BY <1>7, <3>1, <3>2, <4>1, <4>2, <4>3
    <3>6. QuoteWasLast' /\ wasquoted' \in BOOLEAN
      BY <1>9 DEF QuoteWasLast
    <3>7. IsEnd(x.left) /\ Held' \in ByteWords
      BY <1>3, <1>6, <3>2
    <3>8. QED
      BY <1>3, <3>3, <3>4, <3>5, <3>6, <3>7, GoesOn
  <2>4. QED
    BY <2>2, <2>3
<1>10. CASE /\ ~ Full(c, lines)
            /\ p' = Filled /\ argp' = Filled /\ args' = Wheres /\ buf' = Terminated
            /\ wasquoted' = FALSE /\ rest' = Tail(rest)
            /\ UNCHANGED << quote, runs, pool, pc, code >>
  <2>1. ~ FoundEof
    BY <1>10 DEF Full, IsFull
  <2>2. Held' = new
    <3>1. Held' = Argv(Terminated, Wheres)
      BY <1>10 DEF Held, Argv, CString
    <3>2. QED
      BY <2>1, <3>1, EndedArgs DEF new
  <2>3. Here' = x
    <3>1. p' \in Nat /\ argp' = p'
      BY <1>1, <1>10 DEF Filled
    <3>2. QED
      BY <1>2, <1>10, <3>1, NothingHere DEF x
  <2>4. Used' = Used
    BY <1>10, UsedIs
  <2>5. QuoteWasLast' /\ wasquoted' \in BOOLEAN
    BY <1>10 DEF QuoteWasLast
  <2>6. IsEnd(x.left) /\ Held' \in ByteWords /\ Used' \in ByteWords /\ pc' = "read"
    BY <1>2, <1>3, <1>6, <1>10, <2>2, <2>4
  <2>7. Words = Used' \o (Held' \o WordsFrom[x])
    BY <1>7, <2>2, <2>4
  <2>8. QED
    BY <1>3, <2>3, <2>5, <2>6, <2>7, GoesOn
<1>11. QED
  BY <1>8, <1>9, <1>10, EndArgDoes

LEMMA QuoteKeepsWords ==
    ASSUME FitInv, WordInv, pc = "read", UNCHANGED << opt, input >>, rest # << >>,
           TurnsQuote
    PROVE  WordInv'
<1>. DEFINE x == [Here EXCEPT !.left = Tail(rest), !.open = quote', !.begun = TRUE]
<1>1. /\ rest \in Seq(Char) /\ IsEnd(rest) /\ input \in Seq(Char)
      /\ Words = Used \o (Held \o WordsFrom[Here])
  BY DEF FitInv, ParserTypes, WordInv, WordTypes, WordsAreKept, Collects
<1>2. /\ Head(rest) \in Quotes /\ quote' \in Quotes \cup {None}
      /\ wasquoted' = TRUE /\ rest' = Tail(rest)
      /\ UNCHANGED << buf, p, argp, args, runs, pc, code >>
      /\ WordsFrom[Here] = WordsFrom[x]
  BY DEF TurnsQuote
<1>3. Here \in Places /\ Held \in ByteWords /\ Used \in ByteWords
  BY HereIs
<1>4. Tail(rest) \in Seq(Char) /\ IsEnd(Tail(rest)) /\ Len(Tail(rest)) < Len(input)
      /\ input[Len(input) - Len(Tail(rest))] \in Quotes
  BY <1>1, <1>2, IsEndGoes
<1>5. x \in Places /\ x.left = Tail(rest)
  BY <1>2, <1>3, <1>4 DEF Places
<1>6. Here' = x
  <2>1. Begun' = Begun
    BY <1>2 DEF Begun, Cut
  <2>2. (argp # p \/ wasquoted)' = TRUE
    BY <1>2
  <2>. HIDE DEF Begun
  <2>. DEFINE left == Tail(rest)
              open == quote'
  <2>3. Here' = [zero |-> opt.zero, left |-> left, word |-> Begun, open |-> open,
                 begun |-> TRUE]
    BY <1>2, <2>1, <2>2 DEF Here
  <2>4. Here.zero = opt.zero /\ Here.word = Begun
    BY DEF Here
  <2>5. Here \in Places
    BY <1>3
  <2>. HIDE DEF left, open
  <2>6. [Here EXCEPT !.left = left, !.open = open, !.begun = TRUE]
          = [zero |-> Here.zero, left |-> left, word |-> Here.word, open |-> open,
             begun |-> TRUE]
    BY <2>5, PlaceOpens
  <2>7. QED
    BY <2>3, <2>4, <2>6 DEF left, open
<1>7. QuoteWasLast'
  BY <1>2, <1>4 DEF QuoteWasLast
<1>8. Held' = Held /\ Used' = Used
  BY <1>2, UsedIs DEF Held, Argv, CString
<1>9. wasquoted' \in BOOLEAN /\ pc' = "read"
  BY <1>2
<1>. HIDE DEF x
<1>10. Words = Used' \o (Held' \o WordsFrom[x])
  BY <1>1, <1>2, <1>8
<1>11. Held' \in ByteWords /\ Used' \in ByteWords /\ IsEnd(x.left)
  BY <1>3, <1>4, <1>5, <1>8
<1>12. QED
  BY <1>5, <1>6, <1>7, <1>9, <1>10, <1>11, GoesOn

LEMMA CharKeepsWords ==
    ASSUME FitInv, WordInv,
           \/ ReadBlank \/ ReadNewline \/ ReadNul \/ ReadQuote
           \/ ReadBackslash \/ ReadLetter
    PROVE  WordInv'
<1>1. pc = "read" /\ UNCHANGED << opt, input >> /\ rest # << >> /\ CharSaid
  BY CharSays
<1>2. CASE Fail
  BY <1>1, <1>2, FailKeepsWords
<1>3. ASSUME NEW c, NEW left, NEW hasblank, AddCh(c, left, hasblank), AddsChar(c, left)
      PROVE  WordInv'
  <2>1. /\ c \in Char \ {Nul} /\ left \in Seq(Char) /\ IsEnd(left)
        /\ WordsFrom[Here] = WordsFrom[Adds(Here, c, left)]
    BY <1>3 DEF AddsChar
  <2>2. \/ Fits(c) /\ rest' = left
        \/ Overflows(c) /\ rest' = left
        \/ Fail
    BY <1>3 DEF AddCh
  <2>3. QED
    BY <1>1, <2>1, <2>2, FitsKeepsWords, OverflowsKeepsWords, FailKeepsWords
<1>4. ASSUME NEW c, NEW lines, NEW hasblank, c # EOF, EndArg(c, lines, hasblank),
             EndsWord
      PROVE  WordInv'
  BY <1>1, <1>4, EndArgKeepsWords
<1>5. CASE TurnsQuote
  BY <1>1, <1>5, QuoteKeepsWords
<1>6. QED
  BY <1>1, <1>2, <1>3, <1>4, <1>5 DEF CharSaid

-----------------------------------------------------------------------------
(* The end of the input                                                    *)

LEMMA FrontLast ==
    ASSUME NEW s \in ByteWords, NEW w \in Seq(Byte), NEW t, t = s \o << w >>
    PROVE  Front(t) = s /\ Last(t) = w
<1>. DEFINE n == Len(s)
<1>1. t = Append(s, w)
  BY AppendIsConcat DEF ByteWords
<1>2. /\ n \in Nat /\ t \in Seq(Seq(Byte)) /\ Len(t) = n + 1 /\ t[n + 1] = w
      /\ \A i \in 1..n : t[i] = s[i]
  BY <1>1 DEF ByteWords
<1>3. Last(t) = w
  BY <1>2 DEF Last
<1>4. Front(t) = SubSeq(t, 1, n)
  <2>1. (n + 1) - 1 = n
    BY <1>2
  <2>. HIDE DEF n
  <2>2. QED
    BY <1>2, <2>1 DEF Front
<1>5. /\ SubSeq(t, 1, n) \in Seq(Seq(Byte)) /\ Len(SubSeq(t, 1, n)) = n
      /\ \A i \in 1..n : SubSeq(t, 1, n)[i] = t[i]
  <2>1. 1 \in Int /\ n \in Int /\ n <= Len(t) /\ 1 \in Nat \ {0}
    BY <1>2
  <2>. HIDE DEF n
  <2>2. \A i \in 1..n : i \in 1..(n - 1 + 1) /\ 1 + i - 1 = i
    BY <1>2
  <2>3. /\ SubSeq(t, 1, n) \in Seq(Seq(Byte))
        /\ Len(SubSeq(t, 1, n)) = IF 1 <= n THEN n - 1 + 1 ELSE 0
        /\ \A i \in 1..(n - 1 + 1) : SubSeq(t, 1, n)[i] = t[1 + i - 1]
    <3>1. \A i \in 1..n : i \in 1..Len(t)
      BY <1>2
    <3>2. QED
      BY <1>2, <2>1, <3>1, SubSeqProperties
  <2>4. (IF 1 <= n THEN n - 1 + 1 ELSE 0) = n
    BY <1>2
  <2>5. QED
    BY <2>2, <2>3, <2>4
<1>6. SubSeq(t, 1, n) = s
  BY <1>2, <1>5, SeqEqual DEF ByteWords
<1>7. QED
  BY <1>3, <1>4, <1>6

LEMMA EOFKeepsWords ==
    ASSUME FitInv, WordInv, ReadEOF
    PROVE  WordInv'
<1>1. pc = "read" /\ UNCHANGED << opt, input >>
  BY DEF ReadEOF, Reading
<1>2. /\ rest \in Seq(Char) /\ IsEnd(rest) /\ input \in Seq(Char) /\ QuoteWasLast
      /\ p \in Nat /\ argp \in Nat /\ argp <= p /\ args \in Seq(Nat)
      /\ Words = Used \o (Held \o WordsFrom[Here])
  BY <1>1 DEF FitInv, ParserTypes, BufferHolds, WordInv, WordTypes, WordsAreKept, Collects
<1>3. Here \in Places /\ Held \in ByteWords /\ Used \in ByteWords
      /\ WordsFrom[Here] \in ByteWords /\ Len(Begun) = p - argp /\ Begun \in Seq(Char)
  BY <1>1, HereIs
<1>4. rest = << >>
  <2>1. SUFFICES ASSUME rest # << >>
                 PROVE  FALSE
    OBVIOUS
  <2>2. Head(rest) \in Char /\ Head(rest) = EOF
    BY <1>2, <2>1 DEF ReadEOF, Next1
  <2>3. QED
    BY <2>2, EofIsNoChar
<1>5. WordsFrom[Here] = Ended(Here)
  <2>1. Here.left = << >>
    BY <1>4 DEF Here
  <2>2. QED
    BY <1>3, <2>1, WordsFromIs DEF Says
<1>6. Words' = Words
  BY <1>1, WordsStay
<1>7. << >> \in ByteWords
  BY <1>3, Joined
<1>8. CASE Fail
  BY <1>1, <1>8, FailKeepsWords
<1>9. CASE p # 0 /\ EndArg(EOF, count, FALSE)
  <2>1. CASE Fail
    BY <1>1, <2>1, FailKeepsWords
  <2>2. CASE Run(Terminated, Wheres, EOF = EOF \/ FoundEof)
    <3>1. runs' = Append(runs, Argv(Terminated, Wheres)) /\ pc' \in {"drain", "exited"}
      BY <2>2, RunGoesOn
    <3>2. CASE FoundEof
      <4>1. Used' = Used \o Held
        BY <1>1, <1>3, <3>1, <3>2, EndedArgs, UsedIs
      <4>2. Words = Used' \o WordsFrom[Here]
        <5>1. Used \in ByteWords /\ Held \in ByteWords /\ WordsFrom[Here] \in ByteWords
          BY <1>3
        <5>2. (Used \o Held) \o WordsFrom[Here] = Used \o (Held \o WordsFrom[Here])
          BY <5>1, Assoc
        <5>3. QED
          BY <1>2, <4>1, <5>2
      <4>3. opt'.eof # << >>
        BY <1>1, <3>2 DEF FoundEof
      <4>4. QED
        BY <1>1, <1>3, <3>1, <4>2, <4>3, OverKeeps DEF Collects
    <3>3. CASE ~ FoundEof
      <4>1. Argv(Terminated, Wheres) = Held \o Ended(Here)
            /\ Held \o Ended(Here) \in ByteWords
        BY <1>1, <1>3, <1>5, <3>3, EndedArgs, Joined
      <4>2. Used' = Used \o (Held \o Ended(Here))
        BY <3>1, <4>1, UsedIs
      <4>3. Used' = Words /\ Words \in ByteWords
        BY <1>2, <1>3, <1>5, <4>1, <4>2, Joined
      <4>4. Words = Used' \o << >>
        BY <4>3, Joined, <1>7
      <4>5. Finished'
        BY <1>6, <4>3 DEF Finished
      <4>6. QED
        BY <1>1, <1>7, <3>1, <4>4, <4>5, OverKeeps DEF Collects
    <3>4. QED
      BY <3>2, <3>3
  <2>3. Full(EOF, count)
    BY DEF Full, IsFull
  <2>4. QED
    BY <1>9, <2>1, <2>2, <2>3, EndArgDoes
<1>10. CASE /\ p = 0
            /\ \/ Run(buf, args, TRUE) /\ runs = << >>
               \/ pc' = "drain" /\ UNCHANGED runs
  <2>1. argp = 0 /\ args = << >>
    BY <1>1, <1>2, <1>10, ArgsNotAtStart
  <2>2. Held = << >>
    BY <2>1 DEF Held, Argv
  <2>3. Used' = Used /\ pc' \in {"drain", "exited"}
    <3>1. CASE Run(buf, args, TRUE)
      <4>1. runs' = Append(runs, << >>) /\ pc' \in {"drain", "exited"}
        BY <2>2, <3>1, RunGoesOn DEF Held
      <4>2. Used' = Used \o << >>
        BY <1>7, <4>1, UsedIs
      <4>3. QED
        BY <1>3, <1>7, <4>1, <4>2, Joined
    <3>2. CASE pc' = "drain" /\ UNCHANGED runs
      BY <3>2, UsedIs
    <3>3. QED
      BY <1>10, <3>1, <3>2
  <2>4. Ended(Here) \in ByteWords
    BY <1>3, <1>5
  <2>5. Words = Used' \o Ended(Here)
    BY <1>2, <1>5, <2>2, <2>3, <2>4, Joined
  <2>6. Finished'
    <3>1. CASE ~ wasquoted
      <4>1. Ended(Here) = << >>
        BY <1>10, <2>1, <3>1 DEF Ended, Here
      <4>2. Words = Used'
        BY <1>3, <2>3, <2>5, <4>1, Joined
      <4>3. QED
        BY <1>6, <4>2 DEF Finished
    <3>2. CASE wasquoted
      <4>1. Begun = << >>
        <5>1. Len(Begun) = 0
          BY <1>3, <1>10, <2>1
        <5>2. QED
          BY <1>3, <5>1
      <4>2. Ended(Here) = << << >> >>
        BY <3>2, <4>1 DEF Ended, Here
      <4>3. Front(Words) = Used' /\ Last(Words) = << >>
        <5>1. << >> \in Seq(Byte) /\ Used' \in ByteWords
          BY <1>3, <2>3
        <5>2. Words = Used' \o << << >> >>
          BY <2>5, <4>2
        <5>3. QED
          BY <5>1, <5>2, FrontLast
      <4>4. Last(input) \in Quotes
        <5>1. Len(rest) = 0 /\ Len(input) \in Nat /\ Len(input) - 0 = Len(input)
          BY <1>2, <1>4
        <5>2. input[Len(input) - Len(rest)] \in Quotes
          BY <1>2, <1>10, <2>1, <3>2 DEF QuoteWasLast
        <5>3. QED
          BY <5>1, <5>2 DEF Last
      <4>5. QED
        BY <1>1, <1>6, <4>3, <4>4 DEF Finished
    <3>3. QED
      BY <3>1, <3>2
  <2>7. QED
    BY <1>1, <2>3, <2>4, <2>5, <2>6, OverKeeps DEF Collects
<1>11. QED
  BY <1>8, <1>9, <1>10 DEF ReadEOF

-----------------------------------------------------------------------------
(* The pool                                                                *)

LEMMA PoolKeepsWords ==
    ASSUME WordInv, Waitchildren \/ Utility \/ UNCHANGED vars
    PROVE  WordInv'
<1>1. UNCHANGED << opt, input, parser, runs >>
  BY DEF Waitchildren, NoMore, Reap, Utility, ChildEnds, vars
<1>2. UNCHANGED << opt, input, rest, buf, p, argp, args, quote, wasquoted, runs >>
  BY <1>1 DEF parser
<1>3. Words' = Words /\ Used' = Used
  BY <1>2, WordsStay DEF Used
<1>4. Collects' => Collects
  BY DEF Waitchildren, NoMore, Reap, Utility, ChildEnds, vars, Exit, Collects
<1>5. pc' = "drain" \/ ExitsWell' => pc = "drain" \/ ExitsWell
  <2>1. CASE NoMore \/ Utility \/ UNCHANGED vars
    BY <2>1 DEF NoMore, Utility, ChildEnds, vars, Exit, ExitsWell
  <2>2. ASSUME NEW i \in DOMAIN child, Reap(i)
        PROVE  pc' = "drain" \/ ExitsWell' => pc = "drain" \/ ExitsWell
    <3>1. CASE child[i] \in DOMAIN Statuses
      <4>1. pc' = "exited" /\ code' = Statuses[child[i]]
        BY <2>2, <3>1 DEF Reap, Exit
      <4>2. \A s \in DOMAIN Statuses : Statuses[s] \in 124..127
        BY DEF Statuses
      <4>3. code' \in 124..127
        BY <3>1, <4>1, <4>2
      <4>4. QED
        BY <4>1, <4>3 DEF ExitsWell
    <3>2. CASE child[i] \notin DOMAIN Statuses
      BY <2>2, <3>2 DEF Reap, ExitsWell
    <3>3. QED
      BY <3>1, <3>2
  <2>3. QED
    BY <2>1, <2>2 DEF Waitchildren
<1>6. WordTypes'
  BY <1>2, <1>3 DEF WordInv, WordTypes
<1>7. Held' = Held /\ Here' = Here
  BY <1>2 DEF Held, Argv, CString, Here, Begun, Cut
<1>8. WordsAreKept'
  BY <1>2, <1>3, <1>4, <1>7 DEF WordInv, WordsAreKept, IsEnd, QuoteWasLast
<1>9. WordsAreUsed'
  BY <1>2, <1>3, <1>5 DEF WordInv, WordsAreUsed, Finished
<1>10. QED
  BY <1>6, <1>8, <1>9 DEF WordInv

LEMMA InitWords ==
    ASSUME TextsWithoutNul, Init
    PROVE  WordInv
<1>1. PICK c \in Cases : opt = c[1] /\ input = c[2]
  BY DEF Init
<1>2. /\ rest = input /\ p = 0 /\ argp = 0 /\ args = << >> /\ runs = << >>
      /\ pc = "read" /\ quote = None /\ wasquoted = FALSE
  BY DEF Init
<1>3. input \in Inputs /\ opt.zero \in BOOLEAN
  BY <1>1, XargsAssumption DEF Inputs
<1>4. input \in Seq(Char)
  BY <1>2, InitFit DEF FitInv, ParserTypes
<1>5. Here = Start(input, opt.zero)
  <2>1. Begun = << >>
    BY <1>2 DEF Begun, Cut
  <2>2. (argp # p \/ wasquoted) = FALSE
    BY <1>2
  <2>. HIDE DEF Begun
  <2>3. QED
    BY <1>2, <2>1, <2>2 DEF Here, Start
<1>6. Here \in Places
  BY <1>3, <1>4, <1>5 DEF Start, Places
<1>7. Words = WordsFrom[Here]
  BY <1>3, <1>5 DEF Words, WordsOf
<1>8. Words \in SomeWords /\ Words \in ByteWords
  BY <1>6, <1>7, WordsFromIs, SomeAreByteWords
<1>9. Held = << >> /\ Used = << >>
  BY <1>2 DEF Held, Argv, Used, FlattenSeq
<1>10. << >> \o Words = Words
  BY <1>8, Joined
<1>11. IsEnd(rest) /\ QuoteWasLast
  <2>1. Len(input) \in Nat
    BY <1>4
  <2>2. QED
    BY <1>2, <2>1 DEF IsEnd, QuoteWasLast
<1>12. WordTypes
  BY <1>3, <1>4, <1>8 DEF WordTypes
<1>13. WordsAreKept
  BY <1>2, <1>7, <1>9, <1>10, <1>11 DEF WordsAreKept
<1>14. WordsAreUsed
  BY <1>2, <1>8, <1>9, <1>10 DEF WordsAreUsed, ExitsWell
<1>15. QED
  BY <1>12, <1>13, <1>14 DEF WordInv

LEMMA PrefixIs ==
    ASSUME NEW s \in ByteWords, NEW more \in ByteWords, NEW t, t = s \o more
    PROVE  IsPrefix(s, t)
<1>1. t \in Seq(Seq(Byte)) /\ s \in Seq(Seq(Byte)) /\ more \in Seq(Seq(Byte))
  BY DEF ByteWords
<1>2. Len(s) \in Nat /\ Len(s) <= Len(t)
  BY <1>1
<1>3. SubSeq(t, 1, Len(s)) = SubSeq(s, 1, Len(s))
  <2>1. SubSeq(s \o more, 1, Len(s)) = SubSeq(s, 1, Len(s))
    BY <1>1, <1>2, SubSeqOfConcat1
  <2>2. QED
    BY <2>1
<1>4. QED
  BY <1>2, <1>3 DEF IsPrefix

LEMMA WordInvTells ==
    ASSUME FitInv, WordInv
    PROVE  WordsInOrder
<1>1. PICK more \in ByteWords : Words = Used \o more
  BY DEF WordInv, WordsAreUsed
<1>2. IsPrefix(Used, Words)
  BY <1>1, PrefixIs, UsedIs
<1>3. ExitsWell /\ opt.eof = << >> => Finished
  BY DEF WordInv, WordsAreUsed
<1>4. QED
  BY <1>2, <1>3 DEF WordsInOrder, Finished

(* Wherever the input is cut: what the runs got, what the buffer holds and *)
(* what is still to be read are the words of the input, in order.          *)
THEOREM WordsInvariant ==
    ASSUME TextsWithoutNul
    PROVE  Spec => []WordInv
<1>1. Init => WordInv
  BY InitWords
<1>2. FitInv /\ WordInv /\ [Next]_vars => WordInv'
  BY CharKeepsWords, EOFKeepsWords, PoolKeepsWords DEF Next, Xargs
<1>3. QED
  BY <1>1, <1>2, FitInvariant, PTL DEF Spec

(* The runs together get the words of the input, each once and whole, and  *)
(* all of them when xargs ends well, but an empty one that quotes end.     *)
THEOREM WordsInOrderAlways ==
    ASSUME TextsWithoutNul
    PROVE  Spec => []WordsInOrder
BY WordsInvariant, FitInvariant, WordInvTells, PTL

=============================================================================
