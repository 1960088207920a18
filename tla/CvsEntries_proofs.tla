------------------------- MODULE CvsEntries_proofs -------------------------
(***************************************************************************)
(* Proofs about CvsEntries, for any names and lines, any number of changes *)
(* in the log and a command that may be killed before the last unlink().   *)
(***************************************************************************)
EXTENDS CvsEntries, FiniteSetTheorems, SequenceTheorems,
        WellFoundedInduction, TLAPS

-----------------------------------------------------------------------------
(* Induction: a set of numbers has a least one, so that a claim that fails *)
(* for some number fails first for one.                                    *)

LEMMA LeastNat ==
    ASSUME NEW T, T \subseteq Nat, T # {}
    PROVE  \E n \in T : \A m \in T : n <= m
<1>. DEFINE R == OpToRel(<, Nat)
<1>1. IsWellFoundedOn(R, Nat)
  BY NatLessThanWellFounded
<1>2. \A x, y \in Nat : y < x => << y, x >> \in R
  BY DEF OpToRel
<1>. HIDE DEF R
<1>3. PICK n \in T : \A m \in T : ~ (<< m, n >> \in R)
  BY <1>1, WFMin
<1>4. ASSUME NEW m \in T
      PROVE  n <= m
  <2>1. ~ (m < n)
    BY <1>2, <1>3
  <2>2. QED
    BY <2>1
<1>5. QED
  BY <1>4

-----------------------------------------------------------------------------
(* Lists of entries                                                        *)

NoDup(lines) ==
    \A i, j \in DOMAIN lines : lines[i].name = lines[j].name => i = j

Absent(lines, n) == \A i \in DOMAIN lines : lines[i].name # n

LEMMA FoundIs ==
    ASSUME NEW lines \in Seq(Entry), NEW n
    PROVE  \/ Found(lines, n) = 0 /\ Absent(lines, n)
           \/ Found(lines, n) \in DOMAIN lines /\ lines[Found(lines, n)].name = n
<1>. DEFINE at == { i \in DOMAIN lines : lines[i].name = n }
<1>1. Found(lines, n) = IF at = {} THEN 0 ELSE CHOOSE i \in at : \A j \in at : i <= j
  BY DEF Found
<1>2. at \subseteq Nat
  OBVIOUS
<1>3. CASE at = {}
  BY <1>1, <1>3 DEF Absent
<1>4. CASE at # {}
  <2>. HIDE DEF at
  <2>1. \E i \in at : \A j \in at : i <= j
    BY <1>2, <1>4, LeastNat
  <2>2. Found(lines, n) \in at
    BY <1>1, <1>4, <2>1
  <2>3. QED
    BY <2>2 DEF at
<1>5. QED
  BY <1>3, <1>4

LEMMA WithoutIs ==
    ASSUME NEW lines \in Seq(Entry), NEW n, NEW k, k = Found(lines, n), k # 0,
           NEW w, w = Without(lines, n)
    PROVE  /\ w \in Seq(Entry) /\ Len(w) = Len(lines) - 1
           /\ k \in 1..Len(lines) /\ lines[k].name = n
           /\ \A i \in 1..Len(w) :
                w[i] = IF i < k THEN lines[i] ELSE lines[i + 1]
<1>1. k \in 1..Len(lines) /\ lines[k].name = n
  BY FoundIs
<1>. DEFINE n1 == k - 1   n2 == Len(lines) - k
            a == SubSeq(lines, 1, n1)   b == SubSeq(lines, k + 1, Len(lines))
<1>2. /\ n1 \in Nat /\ n2 \in Nat /\ Len(lines) \in Nat
      /\ k = n1 + 1 /\ Len(lines) = n1 + 1 + n2
  <2>1. Len(lines) \in Nat
    BY LenProperties
  <2>2. k \in Nat /\ 1 <= k /\ k <= Len(lines)
    BY <1>1, <2>1
  <2>3. QED
    BY <2>1, <2>2
<1>3. /\ a \in Seq(Entry) /\ Len(a) = n1
      /\ \A i \in 1..n1 : a[i] = lines[i]
  <2>1. \A i \in 1..n1 : lines[i] \in Entry
    BY <1>1
  <2>2. 1 \in Int /\ n1 \in Int
    BY <1>2
  <2>3. /\ a \in Seq(Entry)
        /\ Len(a) = IF 1 <= n1 THEN n1 - 1 + 1 ELSE 0
        /\ \A i \in 1..(n1 - 1 + 1) : a[i] = lines[1 + i - 1]
    BY <2>1, <2>2, SubSeqProperties
  <2>. HIDE DEF a, n1
  <2>4. QED
    BY <1>2, <2>3
<1>4. /\ b \in Seq(Entry) /\ Len(b) = n2
      /\ \A i \in 1..n2 : b[i] = lines[k + i]
  <2>1. \A i \in (k + 1)..Len(lines) : lines[i] \in Entry
    BY <1>1
  <2>2. k + 1 \in Int /\ Len(lines) \in Int
    BY <1>1
  <2>3. /\ b \in Seq(Entry)
        /\ Len(b) = IF k + 1 <= Len(lines) THEN Len(lines) - (k + 1) + 1 ELSE 0
        /\ \A i \in 1..(Len(lines) - (k + 1) + 1) : b[i] = lines[(k + 1) + i - 1]
    BY <2>1, <2>2, SubSeqProperties
  <2>. HIDE DEF b, n1, n2
  <2>4. Len(lines) - (k + 1) + 1 = n2 /\ \A i \in 1..n2 : (k + 1) + i - 1 = k + i
    BY <1>2
  <2>5. QED
    BY <1>2, <2>3, <2>4
<1>5. w = a \o b
  BY DEF Without
<1>. HIDE DEF a, b, n1, n2
<1>6. /\ w \in Seq(Entry) /\ Len(w) = n1 + n2
      /\ \A i \in 1..(n1 + n2) : w[i] = IF i <= n1 THEN a[i] ELSE b[i - n1]
  BY <1>3, <1>4, <1>5, ConcatProperties
<1>7. ASSUME NEW i \in 1..(n1 + n2)
      PROVE  w[i] = IF i < k THEN lines[i] ELSE lines[i + 1]
  <2>1. CASE i <= n1
    BY <1>2, <1>3, <1>6, <2>1
  <2>2. CASE i > n1
    <3>1. i - n1 \in 1..n2 /\ k + (i - n1) = i + 1
      BY <1>2, <2>2
    <3>2. QED
      BY <1>2, <1>4, <1>6, <2>2, <3>1
  <2>3. QED
    BY <1>2, <2>1, <2>2
<1>8. QED
  BY <1>1, <1>2, <1>6, <1>7

LEMMA DoneType ==
    ASSUME NEW lines \in Seq(Entry), NEW c \in Change
    PROVE  Done(lines, c) \in Seq(Entry)
<1>1. c.line \in Entry
  BY DEF Change
<1>2. Without(lines, c.line.name) \in Seq(Entry)
  <2>1. CASE Found(lines, c.line.name) = 0
    BY <2>1 DEF Without
  <2>2. CASE Found(lines, c.line.name) # 0
    BY <2>2, WithoutIs
  <2>3. QED
    BY <2>1, <2>2
<1>3. QED
  BY <1>1, <1>2 DEF Done

-----------------------------------------------------------------------------
(* Replay: the lists that the changes lead through, one after the other    *)

IsTrace(s, lines, changes) ==
    /\ s \in [0..Len(changes) -> Seq(Entry)]
    /\ s[0] = lines
    /\ \A i \in 1..Len(changes) : s[i] = Done(s[i - 1], changes[i])

Upto(s, n, lines, changes) ==
    /\ s \in [0..n -> Seq(Entry)]
    /\ s[0] = lines
    /\ \A i \in 1..n : s[i] = Done(s[i - 1], changes[i])

LEMMA TraceExists ==
    ASSUME NEW lines \in Seq(Entry), NEW changes \in Seq(Change)
    PROVE  \E s : IsTrace(s, lines, changes)
<1>. DEFINE T == { n \in 0..Len(changes) : ~ \E s : Upto(s, n, lines, changes) }
<1>1. T = {}
  <2>1. SUFFICES ASSUME T # {} PROVE FALSE
    OBVIOUS
  <2>2. PICK n \in T : \A m \in T : n <= m
    <3>1. T \subseteq Nat
      OBVIOUS
    <3>. HIDE DEF T
    <3>2. QED
      BY <2>1, <3>1, LeastNat
  <2>3. n \in 0..Len(changes) /\ ~ \E s : Upto(s, n, lines, changes)
    BY <2>2
  <2>4. n # 0
    <3>1. Upto([i \in 0..0 |-> lines], 0, lines, changes)
      BY DEF Upto
    <3>2. QED
      BY <2>3, <3>1
  <2>5. n - 1 \in 0..Len(changes) /\ n - 1 \notin T
    BY <2>2, <2>3, <2>4
  <2>6. PICK s : Upto(s, n - 1, lines, changes)
    BY <2>5
  <2>. HIDE DEF T
  <2>7. changes[n] \in Change
    BY <2>3, <2>4
  <2>8. s[n - 1] \in Seq(Entry)
    BY <2>5, <2>6 DEF Upto
  <2>9. PICK d \in Seq(Entry) : d = Done(s[n - 1], changes[n])
    BY <2>7, <2>8, DoneType
  <2>10. Upto([i \in 0..n |-> IF i = n THEN d ELSE s[i]], n, lines, changes)
    BY <2>3, <2>4, <2>6, <2>9 DEF Upto
  <2>11. QED
    BY <2>3, <2>10
<1>2. Len(changes) \in 0..Len(changes)
  OBVIOUS
<1>3. \E s : Upto(s, Len(changes), lines, changes)
  BY <1>1, <1>2
<1>4. QED
  BY <1>3 DEF Upto, IsTrace

LEMMA TraceUnique ==
    ASSUME NEW lines \in Seq(Entry), NEW changes \in Seq(Change),
           NEW s, NEW t, IsTrace(s, lines, changes), IsTrace(t, lines, changes)
    PROVE  s = t
<1>. DEFINE T == { n \in 0..Len(changes) : s[n] # t[n] }
<1>1. T = {}
  <2>1. SUFFICES ASSUME T # {} PROVE FALSE
    OBVIOUS
  <2>2. PICK n \in T : \A m \in T : n <= m
    <3>1. T \subseteq Nat
      OBVIOUS
    <3>. HIDE DEF T
    <3>2. QED
      BY <2>1, <3>1, LeastNat
  <2>3. n # 0 /\ n \in 0..Len(changes) /\ s[n] # t[n]
    BY <2>2 DEF IsTrace
  <2>4. n - 1 \in 0..Len(changes) /\ n - 1 \notin T
    BY <2>2, <2>3
  <2>5. s[n - 1] = t[n - 1]
    BY <2>4
  <2>6. QED
    BY <2>3, <2>5 DEF IsTrace
<1>2. \A n \in 0..Len(changes) : s[n] = t[n]
  BY <1>1
<1>3. QED
  BY <1>2 DEF IsTrace

EndOf(lines, changes) ==
    (CHOOSE s : IsTrace(s, lines, changes))[Len(changes)]

LEMMA EndIs ==
    ASSUME NEW lines \in Seq(Entry), NEW changes \in Seq(Change),
           NEW s, IsTrace(s, lines, changes)
    PROVE  EndOf(lines, changes) = s[Len(changes)]
<1>1. PICK t : t = CHOOSE u : IsTrace(u, lines, changes)
  OBVIOUS
<1>2. IsTrace(t, lines, changes)
  BY <1>1
<1>3. s = t
  BY <1>2, TraceUnique
<1>4. QED
  BY <1>1, <1>3 DEF EndOf

LEMMA EndType ==
    ASSUME NEW lines \in Seq(Entry), NEW changes \in Seq(Change)
    PROVE  EndOf(lines, changes) \in Seq(Entry)
<1>1. PICK s : IsTrace(s, lines, changes)
  BY TraceExists
<1>2. QED
  BY <1>1, EndIs DEF IsTrace

LEMMA EndOfNone ==
    ASSUME NEW lines \in Seq(Entry)
    PROVE  EndOf(lines, << >>) = lines
<1>1. << >> \in Seq(Change) /\ Len(<< >>) = 0
  OBVIOUS
<1>2. PICK s : IsTrace(s, lines, << >>)
  BY <1>1, TraceExists
<1>3. QED
  BY <1>1, <1>2, EndIs DEF IsTrace

LEMMA EndOfFirst ==
    ASSUME NEW lines \in Seq(Entry), NEW changes \in Seq(Change), changes # << >>
    PROVE  EndOf(lines, changes) = EndOf(Done(lines, Head(changes)), Tail(changes))
<1>1. PICK s : IsTrace(s, lines, changes)
  BY TraceExists
<1>2. PICK rest \in Seq(Change) : rest = Tail(changes)
  BY HeadTailProperties
<1>3. /\ Len(rest) = Len(changes) - 1 /\ Len(changes) \in Nat \ {0}
      /\ Head(changes) = changes[1] /\ Head(changes) \in Change
      /\ \A i \in 1..Len(rest) : rest[i] = changes[i + 1]
  BY <1>2, HeadTailProperties, EmptySeq
<1>4. PICK d \in Seq(Entry) : d = Done(lines, Head(changes))
  BY <1>3, DoneType
<1>5. IsTrace([i \in 0..Len(rest) |-> s[i + 1]], d, rest)
  <2>1. s[1] = d
    BY <1>1, <1>3, <1>4 DEF IsTrace
  <2>2. \A i \in 0..Len(rest) : s[i + 1] \in Seq(Entry)
    <3>1. TAKE i \in 0..Len(rest)
    <3>2. i + 1 \in 0..Len(changes)
      BY <1>3
    <3>3. QED
      BY <1>1, <3>2 DEF IsTrace
  <2>3. \A i \in 1..Len(rest) : s[i + 1] = Done(s[(i - 1) + 1], rest[i])
    <3>1. TAKE i \in 1..Len(rest)
    <3>2. i + 1 \in 1..Len(changes) /\ (i + 1) - 1 = (i - 1) + 1
      BY <1>3
    <3>3. s[i + 1] = Done(s[(i + 1) - 1], changes[i + 1])
      BY <1>1, <3>2 DEF IsTrace
    <3>4. QED
      BY <1>3, <3>2, <3>3
  <2>4. QED
    BY <1>3, <2>1, <2>2, <2>3 DEF IsTrace
<1>6. EndOf(d, rest) = s[Len(rest) + 1]
  BY <1>3, <1>5, EndIs
<1>7. EndOf(lines, changes) = s[Len(changes)]
  BY <1>1, EndIs
<1>8. QED
  BY <1>2, <1>3, <1>4, <1>6, <1>7

LEMMA EndOfLast ==
    ASSUME NEW lines \in Seq(Entry), NEW changes \in Seq(Change), NEW c \in Change
    PROVE  EndOf(lines, Append(changes, c)) = Done(EndOf(lines, changes), c)
<1>1. PICK s : IsTrace(s, lines, changes)
  BY TraceExists
<1>2. PICK more \in Seq(Change) : more = Append(changes, c)
  BY AppendProperties
<1>3. PICK n \in Nat : n = Len(changes)
  OBVIOUS
<1>4. /\ Len(more) = n + 1 /\ more[n + 1] = c
      /\ \A i \in 1..n : more[i] = changes[i]
  BY <1>2, <1>3, AppendProperties
<1>5. EndOf(lines, changes) = s[n] /\ s[n] \in Seq(Entry)
  <2>1. EndOf(lines, changes) = s[Len(changes)]
    BY <1>1, EndIs
  <2>2. s \in [0..Len(changes) -> Seq(Entry)]
    BY <1>1 DEF IsTrace
  <2>3. n \in 0..Len(changes)
    BY <1>3
  <2>4. QED
    BY <1>3, <2>1, <2>2, <2>3
<1>6. PICK d \in Seq(Entry) : d = Done(s[n], c)
  BY <1>5, DoneType
<1>7. PICK t : t = [i \in 0..(n + 1) |-> IF i = n + 1 THEN d ELSE s[i]]
  OBVIOUS
<1>8. IsTrace(t, lines, more)
  <2>1. t \in [0..Len(more) -> Seq(Entry)] /\ t[0] = lines
    BY <1>1, <1>3, <1>4, <1>7 DEF IsTrace
  <2>2. \A i \in 1..n : t[i] = Done(t[i - 1], more[i])
    BY <1>1, <1>3, <1>4, <1>7 DEF IsTrace
  <2>3. t[n + 1] = Done(t[(n + 1) - 1], more[n + 1])
    BY <1>4, <1>6, <1>7
  <2>4. \A i \in 1..Len(more) : i \in 1..n \/ i = n + 1
    BY <1>4
  <2>5. QED
    BY <2>1, <2>2, <2>3, <2>4 DEF IsTrace
<1>9. EndOf(lines, more) = t[n + 1]
  BY <1>4, <1>8, EndIs
<1>10. QED
  BY <1>2, <1>5, <1>6, <1>7, <1>9

(* There is a function that its equation asks for, so that Replay is one.  *)
LEMMA ReplayStep ==
    ASSUME NEW lines \in Seq(Entry), NEW changes \in Seq(Change)
    PROVE  Replay[<< lines, changes >>] =
             IF changes = << >> THEN lines
             ELSE Replay[<< Done(lines, Head(changes)), Tail(changes) >>]
<1>. DEFINE P == Seq(Entry) \X Seq(Change)
            F(r) == [x \in P |->
                       IF x[2] = << >> THEN x[1]
                       ELSE r[<< Done(x[1], Head(x[2])), Tail(x[2]) >>]]
            W == [x \in P |-> EndOf(x[1], x[2])]
<1>1. W = F(W)
  <2>1. ASSUME NEW l \in Seq(Entry), NEW c \in Seq(Change)
        PROVE  EndOf(l, c) =
                 IF c = << >> THEN l ELSE W[<< Done(l, Head(c)), Tail(c) >>]
    <3>1. CASE c = << >>
      BY <3>1, EndOfNone
    <3>2. CASE c # << >>
      <4>1. Head(c) \in Change /\ Tail(c) \in Seq(Change)
        BY <3>2, HeadTailProperties
      <4>2. Done(l, Head(c)) \in Seq(Entry)
        BY <4>1, DoneType
      <4>3. W[<< Done(l, Head(c)), Tail(c) >>] = EndOf(Done(l, Head(c)), Tail(c))
        BY <4>1, <4>2
      <4>4. QED
        BY <3>2, <4>3, EndOfFirst
    <3>3. QED
      BY <3>1, <3>2
  <2>. HIDE DEF W
  <2>2. \A x \in P : x[1] \in Seq(Entry) /\ x[2] \in Seq(Change)
    OBVIOUS
  <2>3. \A x \in P : EndOf(x[1], x[2]) =
            IF x[2] = << >> THEN x[1] ELSE W[<< Done(x[1], Head(x[2])), Tail(x[2]) >>]
    BY <2>1, <2>2
  <2>4. QED
    BY <2>3 DEF W
<1>2. Replay = CHOOSE r : r = F(r)
  BY DEF Replay
<1>. HIDE DEF W
<1>3. Replay = F(Replay)
  BY <1>1, <1>2
<1>4. << lines, changes >> \in P
  OBVIOUS
<1>5. QED
  BY <1>3, <1>4

LEMMA ReplayIsEnd ==
    ASSUME NEW lines \in Seq(Entry), NEW changes \in Seq(Change)
    PROVE  Replay[<< lines, changes >>] = EndOf(lines, changes)
<1>. DEFINE T == { n \in Nat : \E l \in Seq(Entry), c \in Seq(Change) :
                      Len(c) = n /\ Replay[<< l, c >>] # EndOf(l, c) }
<1>1. T = {}
  <2>1. SUFFICES ASSUME T # {} PROVE FALSE
    OBVIOUS
  <2>2. PICK n \in T : \A m \in T : n <= m
    <3>1. T \subseteq Nat
      OBVIOUS
    <3>. HIDE DEF T
    <3>2. QED
      BY <2>1, <3>1, LeastNat
  <2>3. PICK l \in Seq(Entry), c \in Seq(Change) :
          Len(c) = n /\ Replay[<< l, c >>] # EndOf(l, c)
    OBVIOUS
  <2>4. c # << >>
    BY <2>3, ReplayStep, EndOfNone
  <2>5. /\ Head(c) \in Change /\ Tail(c) \in Seq(Change)
        /\ Len(Tail(c)) = n - 1 /\ n - 1 \in Nat
    BY <2>3, <2>4, HeadTailProperties, EmptySeq
  <2>6. PICK d \in Seq(Entry) : d = Done(l, Head(c))
    BY <2>5, DoneType
  <2>7. n - 1 \notin T
    <3>1. ~ (n <= n - 1)
      BY <2>5
    <3>. HIDE DEF T
    <3>2. QED
      BY <2>2, <3>1
  <2>8. Replay[<< d, Tail(c) >>] = EndOf(d, Tail(c))
    BY <2>5, <2>7
  <2>. HIDE DEF T
  <2>9. QED
    BY <2>3, <2>4, <2>6, <2>8, ReplayStep, EndOfFirst
<1>2. Len(changes) \in Nat
  OBVIOUS
<1>3. QED
  BY <1>1, <1>2

(* What the proofs use: one more change in the log is one more change of   *)
(* the list.                                                               *)
LEMMA ReplayType ==
    ASSUME NEW lines \in Seq(Entry), NEW changes \in Seq(Change)
    PROVE  Replay[<< lines, changes >>] \in Seq(Entry)
BY ReplayIsEnd, EndType

LEMMA ReplayNone ==
    ASSUME NEW lines \in Seq(Entry)
    PROVE  Replay[<< lines, << >> >>] = lines
<1>1. << >> \in Seq(Change)
  OBVIOUS
<1>2. QED
  BY <1>1, ReplayIsEnd, EndOfNone

LEMMA ReplayLast ==
    ASSUME NEW lines \in Seq(Entry), NEW changes \in Seq(Change), NEW c \in Change
    PROVE  Replay[<< lines, Append(changes, c) >>]
             = Done(Replay[<< lines, changes >>], c)
<1>1. Append(changes, c) \in Seq(Change)
  BY AppendProperties
<1>2. QED
  BY <1>1, ReplayIsEnd, EndOfLast

-----------------------------------------------------------------------------
(* Lists without a name that comes twice                                   *)

LEMMA NoDupCounted ==
    ASSUME NEW lines \in Seq(Entry), NoDup(lines)
    PROVE  Cardinality(Listed(lines)) = Len(lines)
<1>. DEFINE f == [i \in 1..Len(lines) |-> lines[i].name]
            L == Listed(lines)
<1>1. Len(lines) \in Nat /\ DOMAIN lines = 1..Len(lines)
  BY LenProperties
<1>2. L = { lines[i].name : i \in 1..Len(lines) }
  BY <1>1 DEF Listed
<1>3. f \in Bijection(1..Len(lines), L)
  <2>1. f \in [1..Len(lines) -> L]
    BY <1>2
  <2>2. \A i, j \in 1..Len(lines) : f[i] = f[j] => i = j
    BY <1>1 DEF NoDup
  <2>3. \A n \in L : \E i \in 1..Len(lines) : f[i] = n
    BY <1>2
  <2>. HIDE DEF f, L
  <2>4. QED
    BY <2>1, <2>2, <2>3 DEF Bijection, Injection, Surjection, IsInjective
<1>4. ExistsBijection(1..Len(lines), L)
  BY <1>3 DEF ExistsBijection
<1>5. QED
  BY <1>1, <1>4, FS_CountingElements

LEMMA NoDupAppend ==
    ASSUME NEW lines \in Seq(Entry), NEW e \in Entry, NoDup(lines),
           Absent(lines, e.name), NEW more, more = Append(lines, e)
    PROVE  NoDup(more)
<1>1. PICK n \in Nat : n = Len(lines) /\ DOMAIN lines = 1..n
  BY LenProperties
<1>2. /\ more \in Seq(Entry) /\ Len(more) = n + 1 /\ more[n + 1] = e
      /\ \A i \in 1..n : more[i] = lines[i]
  BY <1>1, AppendProperties
<1>3. DOMAIN more = 1..(n + 1)
  BY <1>2, LenProperties
<1>4. \A i \in 1..n : more[i].name # e.name
  BY <1>1, <1>2 DEF Absent
<1>5. \A i \in 1..(n + 1) : i \in 1..n \/ i = n + 1
  BY <1>1
<1>6. \A i, j \in 1..n : more[i].name = more[j].name => i = j
  BY <1>1, <1>2 DEF NoDup
<1>7. QED
  BY <1>2, <1>3, <1>4, <1>5, <1>6 DEF NoDup

LEMMA NoDupWithout ==
    ASSUME NEW lines \in Seq(Entry), NEW n, NoDup(lines), Found(lines, n) # 0,
           NEW w, w = Without(lines, n)
    PROVE  NoDup(w) /\ Absent(w, n)
<1>1. PICK k : k = Found(lines, n)
  OBVIOUS
<1>2. /\ w \in Seq(Entry) /\ Len(w) = Len(lines) - 1
      /\ k \in 1..Len(lines) /\ lines[k].name = n
      /\ \A i \in 1..Len(w) : w[i] = IF i < k THEN lines[i] ELSE lines[i + 1]
  BY <1>1, WithoutIs
<1>3. PICK m \in Nat : m = Len(w) /\ DOMAIN w = 1..m
  BY <1>2, LenProperties
<1>4. DOMAIN lines = 1..(m + 1) /\ Len(lines) = m + 1
  BY <1>2, <1>3, LenProperties
<1>. DEFINE At(i) == IF i < k THEN i ELSE i + 1
<1>5. \A i \in 1..m : w[i] = lines[At(i)] /\ At(i) \in 1..(m + 1) /\ At(i) # k
  BY <1>2, <1>3, <1>4
<1>6. \A i, j \in 1..m : At(i) = At(j) => i = j
  BY <1>2, <1>4
<1>. HIDE DEF At
<1>7. \A i \in 1..m : w[i].name # n
  <2>1. TAKE i \in 1..m
  <2>2. PICK j \in 1..(m + 1) : j = At(i) /\ w[i] = lines[j] /\ j # k
    BY <1>5
  <2>3. lines[j].name # lines[k].name
    BY <1>2, <1>4, <2>2 DEF NoDup
  <2>4. QED
    BY <1>2, <2>2, <2>3
<1>8. \A i, j \in 1..m : w[i].name = w[j].name => i = j
  BY <1>4, <1>5, <1>6 DEF NoDup
<1>9. QED
  BY <1>3, <1>7, <1>8 DEF NoDup, Absent

-----------------------------------------------------------------------------
(* The map that a list stands for                                          *)

LEMMA LookedAbsent ==
    ASSUME NEW lines \in Seq(Entry), NEW n \in Names, Absent(lines, n)
    PROVE  Looked(lines)[n] = NoLine
<1>1. Found(lines, n) = 0
  BY FoundIs DEF Absent
<1>2. QED
  BY <1>1 DEF Looked

LEMMA LookedAt ==
    ASSUME NEW lines \in Seq(Entry), NoDup(lines), NEW i \in DOMAIN lines
    PROVE  Looked(lines)[lines[i].name] = lines[i].text
<1>1. PICK n \in Names : n = lines[i].name
  <2>1. lines[i] \in Entry
    BY LenProperties
  <2>2. QED
    BY <2>1 DEF Entry
<1>2. Found(lines, n) = i
  BY <1>1, FoundIs DEF NoDup, Absent
<1>3. i # 0
  OBVIOUS
<1>4. QED
  BY <1>1, <1>2, <1>3 DEF Looked

LEMMA LookedAppend ==
    ASSUME NEW lines \in Seq(Entry), NEW e \in Entry, NoDup(lines),
           Absent(lines, e.name), NEW more, more = Append(lines, e)
    PROVE  Looked(more) = [Looked(lines) EXCEPT ![e.name] = e.text]
<1>1. PICK n \in Nat : n = Len(lines) /\ DOMAIN lines = 1..n
  BY LenProperties
<1>2. /\ more \in Seq(Entry) /\ Len(more) = n + 1 /\ more[n + 1] = e
      /\ \A i \in 1..n : more[i] = lines[i]
  BY <1>1, AppendProperties
<1>3. DOMAIN more = 1..(n + 1) /\ n + 1 \in 1..(n + 1)
  BY <1>1, <1>2, LenProperties
<1>4. NoDup(more)
  BY NoDupAppend
<1>5. Looked(more)[e.name] = e.text
  <2>1. PICK i \in DOMAIN more : more[i] = e
    BY <1>2, <1>3
  <2>2. Looked(more)[more[i].name] = more[i].text
    BY <1>2, <1>4, LookedAt
  <2>3. QED
    BY <2>1, <2>2
<1>6. ASSUME NEW m \in Names, m # e.name
      PROVE  Looked(more)[m] = Looked(lines)[m]
  <2>1. CASE Absent(lines, m)
    <3>1. \A i \in 1..(n + 1) : i \in 1..n \/ i = n + 1
      BY <1>1
    <3>2. Absent(more, m)
      BY <1>1, <1>2, <1>3, <1>6, <2>1, <3>1 DEF Absent
    <3>3. QED
      BY <1>2, <2>1, <3>2, LookedAbsent
  <2>2. CASE ~Absent(lines, m)
    <3>1. PICK i \in 1..n : lines[i].name = m
      BY <1>1, <2>2 DEF Absent
    <3>2. i \in DOMAIN lines /\ i \in DOMAIN more /\ more[i] = lines[i]
      BY <1>1, <1>2, <1>3
    <3>3. Looked(lines)[m] = lines[i].text
      BY <3>1, <3>2, LookedAt
    <3>4. Looked(more)[m] = more[i].text
      BY <1>2, <1>4, <3>1, <3>2, LookedAt
    <3>5. QED
      BY <3>2, <3>3, <3>4
  <2>3. QED
    BY <2>1, <2>2
<1>7. e.name \in Names
  BY DEF Entry
<1>8. QED
  BY <1>5, <1>6, <1>7 DEF Looked

LEMMA LookedWithout ==
    ASSUME NEW lines \in Seq(Entry), NEW n \in Names, NoDup(lines),
           Found(lines, n) # 0, NEW w, w = Without(lines, n)
    PROVE  Looked(w) = [Looked(lines) EXCEPT ![n] = NoLine]
<1>1. PICK k : k = Found(lines, n)
  OBVIOUS
<1>2. /\ w \in Seq(Entry) /\ Len(w) = Len(lines) - 1
      /\ k \in 1..Len(lines) /\ lines[k].name = n
      /\ \A i \in 1..Len(w) : w[i] = IF i < k THEN lines[i] ELSE lines[i + 1]
  BY <1>1, WithoutIs
<1>3. NoDup(w) /\ Absent(w, n)
  BY NoDupWithout
<1>4. Looked(w)[n] = NoLine
  BY <1>2, <1>3, LookedAbsent
<1>5. PICK m \in Nat : m = Len(w) /\ DOMAIN w = 1..m
  BY <1>2, LenProperties
<1>6. DOMAIN lines = 1..(m + 1) /\ Len(lines) = m + 1
  BY <1>2, <1>5, LenProperties
<1>7. ASSUME NEW x \in Names, x # n
      PROVE  Looked(w)[x] = Looked(lines)[x]
  <2>1. CASE Absent(lines, x)
    <3>1. \A i \in 1..m : i \in 1..(m + 1) /\ i + 1 \in 1..(m + 1)
      BY <1>5
    <3>2. Absent(w, x)
      BY <1>2, <1>5, <1>6, <2>1, <3>1 DEF Absent
    <3>3. QED
      BY <1>2, <2>1, <3>2, LookedAbsent
  <2>2. CASE ~Absent(lines, x)
    <3>1. PICK i \in 1..(m + 1) : lines[i].name = x
      BY <1>6, <2>2 DEF Absent
    <3>2. i # k
      BY <1>2, <1>7, <3>1
    <3>3. PICK j \in 1..m : w[j] = lines[i]
      <4>1. CASE i < k
        <5>1. i \in 1..m
          BY <1>2, <1>5, <1>6, <4>1
        <5>2. QED
          BY <1>2, <1>5, <4>1, <5>1
      <4>2. CASE i > k
        <5>1. i - 1 \in 1..m /\ ~(i - 1 < k) /\ (i - 1) + 1 = i
          BY <1>2, <1>5, <1>6, <4>2
        <5>2. QED
          BY <1>2, <1>5, <5>1
      <4>3. QED
        BY <1>2, <1>6, <3>2, <4>1, <4>2
    <3>4. Looked(lines)[x] = lines[i].text
      BY <1>6, <3>1, LookedAt
    <3>5. Looked(w)[x] = w[j].text
      BY <1>2, <1>3, <1>5, <3>1, <3>3, LookedAt
    <3>6. QED
      BY <3>3, <3>4, <3>5
  <2>3. QED
    BY <2>1, <2>2
<1>8. QED
  BY <1>4, <1>7 DEF Looked

-----------------------------------------------------------------------------
(* The inductive invariant                                                 *)

EntriesTypes ==
    /\ entries \in Seq(Entry) /\ backup \in Seq(Entry) /\ list \in Seq(Entry)
    /\ log \in Seq(Change)
    /\ pc \in {"closed", "open", "add", "rename", "unlink"}

(* What is on disk lists no file twice; it is what the command has in its  *)
(* list, and then what it has written to Entries.Backup.                   *)
EntriesInv ==
    /\ EntriesTypes
    /\ NoDup(OnDisk)
    /\ pc \in {"open", "add"} => OnDisk = list
    /\ pc \notin {"open", "add"} => list = << >>
    /\ pc = "rename" => OnDisk = backup
    /\ pc = "add" => adding \in Entry /\ Absent(list, adding.name)

LEMMA OnDiskIs ==
    ASSUME EntriesTypes
    PROVE  /\ OnDisk \in Seq(Entry)
           /\ pc = "unlink" => OnDisk = entries
           /\ pc # "unlink" => OnDisk = Replay[<< entries, log >>]
BY ReplayType DEF EntriesTypes, OnDisk

LEMMA LinesAndNone ==
    ASSUME NEW n \in Names, NEW l \in Lines
    PROVE  Line(n, l) \in Entry /\ Line(n, l).name = n /\ Line(n, l).text = l
BY DEF Line, Entry

(* A step that changes neither Entries nor its log nor whether the log     *)
(* counts.                                                                 *)
LEMMA OnDiskStays ==
    ASSUME EntriesTypes, UNCHANGED << entries, log >>, pc # "unlink", pc' # "unlink"
    PROVE  OnDisk' = OnDisk
BY DEF OnDisk

LEMMA TakenOut ==
    ASSUME EntriesInv, pc = "open", NEW n \in Names, TakeOut(n),
           UNCHANGED << entries, backup >>, pc' \in {"open", "add"}
    PROVE  /\ EntriesTypes' /\ OnDisk' = list' /\ NoDup(list') /\ Absent(list', n)
           /\ Looked(OnDisk') = [Looked(OnDisk) EXCEPT ![n] = NoLine]
           /\ Looked(OnDisk)[n] # NoLine
<1>1. /\ list \in Seq(Entry) /\ log \in Seq(Change) /\ entries \in Seq(Entry)
      /\ OnDisk = list /\ NoDup(list) /\ OnDisk = Replay[<< entries, log >>]
  BY OnDiskIs DEF EntriesInv, EntriesTypes
<1>2. PICK k : k = Found(list, n) /\ k # 0
  BY DEF TakeOut
<1>3. PICK w : w = Without(list, n)
  OBVIOUS
<1>4. /\ w \in Seq(Entry) /\ k \in 1..Len(list) /\ list[k].name = n
      /\ list[k] \in Entry
  <2>1. PICK lines \in Seq(Entry) : lines = list
    BY <1>1
  <2>2. k = Found(lines, n) /\ k # 0 /\ w = Without(lines, n)
    BY <1>2, <1>3, <2>1
  <2>3. w \in Seq(Entry) /\ k \in 1..Len(lines) /\ lines[k].name = n
    BY <2>2, WithoutIs
  <2>4. lines[k] \in Entry
    BY <2>3, ElementOfSeq
  <2>5. QED
    BY <2>1, <2>3, <2>4
<1>5. PICK c \in Change : c = [op |-> "R", line |-> list[k]]
  BY <1>4 DEF Change
<1>6. log' = Append(log, c) /\ list' = w
  BY <1>2, <1>3, <1>5 DEF TakeOut, Logged
<1>7. Done(list, c) = w
  BY <1>3, <1>4, <1>5 DEF Done
<1>8. Replay[<< entries, Append(log, c) >>] = w
  BY <1>1, <1>7, ReplayLast
<1>9. OnDisk' = w
  BY <1>6, <1>8 DEF OnDisk
<1>10. Append(log, c) \in Seq(Change)
  BY <1>1, AppendProperties
<1>11. EntriesTypes'
  BY <1>4, <1>6, <1>10 DEF EntriesInv, EntriesTypes
<1>12. NoDup(w) /\ Absent(w, n)
  BY <1>1, <1>2, <1>3, NoDupWithout
<1>13. Looked(w) = [Looked(list) EXCEPT ![n] = NoLine]
  BY <1>1, <1>2, <1>3, LookedWithout
<1>14. Looked(list)[n] # NoLine
  <2>1. k \in DOMAIN list /\ list[k] \in Entry
    BY <1>1, <1>4, LenProperties, ElementOfSeq
  <2>2. Looked(list)[n] = list[k].text /\ list[k].text \in Lines
    BY <1>1, <1>4, <2>1, LookedAt DEF Entry
  <2>3. QED
    BY <2>2, EntriesAssumption
<1>15. QED
  BY <1>1, <1>6, <1>9, <1>11, <1>12, <1>13, <1>14

LEMMA PutInto ==
    ASSUME EntriesInv, pc \in {"open", "add"}, NEW e \in Entry, Absent(list, e.name),
           PutIn(e), UNCHANGED << entries, backup >>, pc' = "open"
    PROVE  /\ EntriesInv'
           /\ Looked(OnDisk') = [Looked(OnDisk) EXCEPT ![e.name] = e.text]
           /\ Looked(OnDisk)[e.name] = NoLine
<1>1. /\ list \in Seq(Entry) /\ log \in Seq(Change) /\ entries \in Seq(Entry)
      /\ OnDisk = list /\ NoDup(list) /\ OnDisk = Replay[<< entries, log >>]
  BY OnDiskIs DEF EntriesInv, EntriesTypes
<1>2. PICK more \in Seq(Entry) : more = Append(list, e)
  BY <1>1, AppendProperties
<1>3. PICK c \in Change : c = [op |-> "A", line |-> e]
  BY DEF Change
<1>4. log' = Append(log, c) /\ list' = more
  BY <1>2, <1>3 DEF PutIn, Logged
<1>5. Done(list, c) = more
  BY <1>2, <1>3 DEF Done
<1>6. Replay[<< entries, Append(log, c) >>] = more
  <2>1. PICK lines \in Seq(Entry), changes \in Seq(Change) :
          lines = entries /\ changes = log
    BY <1>1
  <2>2. Replay[<< lines, Append(changes, c) >>]
          = Done(Replay[<< lines, changes >>], c)
    BY ReplayLast
  <2>3. QED
    BY <1>1, <1>5, <2>1, <2>2
<1>7. OnDisk' = more
  BY <1>4, <1>6 DEF OnDisk
<1>8. Append(log, c) \in Seq(Change)
  BY <1>1, AppendProperties
<1>9. EntriesTypes'
  BY <1>2, <1>4, <1>8 DEF EntriesInv, EntriesTypes
<1>10. NoDup(more)
  BY <1>1, <1>2, NoDupAppend
<1>11. EntriesInv'
  BY <1>4, <1>7, <1>9, <1>10 DEF EntriesInv
<1>12. Looked(more) = [Looked(list) EXCEPT ![e.name] = e.text]
  BY <1>1, <1>2, LookedAppend
<1>13. Looked(list)[e.name] = NoLine
  <2>1. e.name \in Names
    BY DEF Entry
  <2>2. QED
    BY <1>1, <2>1, LookedAbsent
<1>14. QED
  BY <1>1, <1>7, <1>11, <1>12, <1>13

-----------------------------------------------------------------------------
(* The steps                                                               *)

MapStays == Looked(OnDisk') = Looked(OnDisk)
MapForgets(n) ==
    /\ Looked(OnDisk)[n] # NoLine
    /\ Looked(OnDisk') = [Looked(OnDisk) EXCEPT ![n] = NoLine]
MapEnters(n, l) ==
    /\ Looked(OnDisk)[n] = NoLine
    /\ Looked(OnDisk') = [Looked(OnDisk) EXCEPT ![n] = l]
MapSteps ==
    \/ MapStays
    \/ \E n \in Names : MapForgets(n) \/ \E l \in Lines : MapEnters(n, l)

LEMMA OpenKeeps ==
    ASSUME EntriesInv, Open
    PROVE  EntriesInv' /\ MapSteps
<1>1. OnDisk' = OnDisk /\ OnDisk = list' /\ OnDisk \in Seq(Entry)
  BY OnDiskIs DEF EntriesInv, Open, OnDisk
<1>2. QED
  BY <1>1 DEF EntriesInv, EntriesTypes, Open, MapSteps, MapStays

LEMMA DeleteKeeps ==
    ASSUME EntriesInv, NEW n \in Names, Delete(n)
    PROVE  EntriesInv' /\ MapSteps
<1>1. pc = "open" /\ pc' = "open" /\ TakeOut(n) /\ UNCHANGED << entries, backup >>
  BY DEF Delete
<1>2. /\ EntriesTypes' /\ OnDisk' = list' /\ NoDup(list')
      /\ MapForgets(n)
  BY <1>1, TakenOut DEF MapForgets
<1>3. QED
  BY <1>1, <1>2 DEF EntriesInv, MapSteps

LEMMA ReplaceKeeps ==
    ASSUME EntriesInv, NEW n \in Names, NEW l \in Lines, Replace(n, l)
    PROVE  EntriesInv' /\ MapSteps
<1>1. /\ pc = "open" /\ pc' = "add" /\ TakeOut(n) /\ adding' = Line(n, l)
      /\ UNCHANGED << entries, backup >>
  BY DEF Replace
<1>2. /\ EntriesTypes' /\ OnDisk' = list' /\ NoDup(list') /\ Absent(list', n)
      /\ MapForgets(n)
  BY <1>1, TakenOut DEF MapForgets
<1>3. adding' \in Entry /\ adding'.name = n
  BY <1>1, LinesAndNone
<1>4. QED
  BY <1>1, <1>2, <1>3 DEF EntriesInv, MapSteps

LEMMA AddKeeps ==
    ASSUME EntriesInv, NEW n \in Names, NEW l \in Lines, Add(n, l)
    PROVE  EntriesInv' /\ MapSteps
<1>1. /\ pc = "open" /\ pc' = "open" /\ Found(list, n) = 0 /\ PutIn(Line(n, l))
      /\ UNCHANGED << entries, backup >>
  BY DEF Add
<1>2. PICK e \in Entry : e = Line(n, l) /\ e.name = n /\ e.text = l
  BY LinesAndNone
<1>3. Absent(list, n)
  BY <1>1, FoundIs DEF EntriesInv, EntriesTypes
<1>4. EntriesInv' /\ MapEnters(n, l)
  BY <1>1, <1>2, <1>3, PutInto DEF MapEnters
<1>5. QED
  BY <1>4 DEF MapSteps

LEMMA ReplacedKeeps ==
    ASSUME EntriesInv, Replaced
    PROVE  EntriesInv' /\ MapSteps
<1>1. /\ pc = "add" /\ pc' = "open" /\ PutIn(adding)
      /\ UNCHANGED << entries, backup >>
  BY DEF Replaced
<1>2. PICK e \in Entry : e = adding /\ Absent(list, e.name)
  BY <1>1 DEF EntriesInv
<1>3. e.name \in Names /\ e.text \in Lines
  BY DEF Entry
<1>4. EntriesInv' /\ MapEnters(e.name, e.text)
  BY <1>1, <1>2, PutInto DEF MapEnters
<1>5. QED
  BY <1>3, <1>4 DEF MapSteps

LEMMA CloseKeeps ==
    ASSUME EntriesInv, BackupFails \/ WriteBackup
    PROVE  EntriesInv' /\ MapSteps
<1>1. /\ pc = "open" /\ pc' \in {"closed", "rename"} /\ list' = << >>
      /\ backup' \in {backup, list}
      /\ pc' = "rename" => backup' = list
      /\ UNCHANGED << entries, log >>
  BY DEF BackupFails, WriteBackup
<1>2. OnDisk' = OnDisk
  BY <1>1, OnDiskStays DEF EntriesInv
<1>3. EntriesTypes'
  BY <1>1 DEF EntriesInv, EntriesTypes
<1>4. QED
  BY <1>1, <1>2, <1>3 DEF EntriesInv, MapSteps, MapStays

LEMMA RenameKeeps ==
    ASSUME ~MayFail, EntriesInv, Rename
    PROVE  EntriesInv' /\ MapSteps
<1>. PICK fails \in {FALSE, MayFail} :
       /\ entries' = IF fails THEN entries ELSE backup
       /\ pc' = IF fails THEN "rename" ELSE "unlink"
  BY DEF Rename
<1>0. fails = FALSE
  BY EntriesAssumption
<1>1. /\ pc = "rename" /\ pc' = "unlink" /\ entries' = backup /\ backup' = << >>
      /\ UNCHANGED << log, list >>
  BY <1>0 DEF Rename
<1>2. OnDisk' = OnDisk
  BY <1>1 DEF EntriesInv, OnDisk
<1>3. QED
  BY <1>1, <1>2 DEF EntriesInv, EntriesTypes, MapSteps, MapStays

LEMMA UnlinkKeeps ==
    ASSUME EntriesInv, UnlinkLog
    PROVE  EntriesInv' /\ MapSteps
<1>1. /\ pc = "unlink" /\ pc' = "closed" /\ log' = << >>
      /\ UNCHANGED << entries, backup, list >>
  BY DEF UnlinkLog
<1>2. OnDisk' = OnDisk
  BY <1>1, ReplayNone DEF EntriesInv, EntriesTypes, OnDisk
<1>3. QED
  BY <1>1, <1>2 DEF EntriesInv, EntriesTypes, MapSteps, MapStays

LEMMA CrashKeeps ==
    ASSUME ~MayTear, EntriesInv, Crash
    PROVE  EntriesInv' /\ MapSteps
<1>1. /\ pc # "unlink" /\ pc' = "closed" /\ list' = << >>
      /\ UNCHANGED << entries, log, backup >>
  BY DEF Crash
<1>2. OnDisk' = OnDisk
  BY <1>1, OnDiskStays DEF EntriesInv
<1>3. QED
  BY <1>1, <1>2 DEF EntriesInv, EntriesTypes, MapSteps, MapStays

LEMMA StepKeeps ==
    ASSUME ~MayTear, ~MayFail, EntriesInv, [Next]_vars
    PROVE  EntriesInv' /\ MapSteps
<1>1. CASE UNCHANGED vars
  <2>1. UNCHANGED << entries, log, backup, list, adding, pc >>
    BY <1>1 DEF vars
  <2>2. OnDisk' = OnDisk
    BY <2>1 DEF OnDisk
  <2>3. QED
    BY <2>1, <2>2 DEF EntriesInv, EntriesTypes, MapSteps, MapStays
<1>2. CASE \E n \in Names : Delete(n) \/ \E l \in Lines : Replace(n, l) \/ Add(n, l)
  BY <1>2, DeleteKeeps, ReplaceKeeps, AddKeeps
<1>3. CASE BackupFails \/ WriteBackup
  BY <1>3, CloseKeeps
<1>4. QED
  BY <1>1, <1>2, <1>3, OpenKeeps, ReplacedKeeps, RenameKeeps, UnlinkKeeps,
     CrashKeeps DEF Next

LEMMA InitEntries ==
    ASSUME Init
    PROVE  EntriesInv
<1>1. << >> \in Seq(Entry) /\ << >> \in Seq(Change) /\ DOMAIN << >> = {}
  BY EmptySeq
<1>2. OnDisk = << >>
  BY <1>1, ReplayNone DEF Init, OnDisk
<1>3. NoDup(<< >>)
  BY DEF NoDup
<1>4. QED
  BY <1>1, <1>2, <1>3 DEF Init, EntriesInv, EntriesTypes

-----------------------------------------------------------------------------
(* Theorems                                                                *)

(* Entries with the changes of Entries.Log is the list of the command that *)
(* runs, whatever commands were killed before it, unless one was between   *)
(* the rename of Entries.Backup and the unlink of the log, or its rename   *)
(* failed.                                                                 *)
THEOREM EntriesInvariant ==
    ASSUME ~MayTear, ~MayFail
    PROVE  Spec => []EntriesInv
<1>1. Init => EntriesInv
  BY InitEntries
<1>2. EntriesInv /\ [Next]_vars => EntriesInv'
  BY StepKeeps
<1>3. QED
  BY <1>1, <1>2, PTL DEF Spec

(* The next command reads from the files what this one has in memory, and  *)
(* no file is listed twice: ent_open() and ent_close() of cvs/entries.c.   *)
THEOREM ListIsOnDiskAlways ==
    ASSUME ~MayTear, ~MayFail
    PROVE  Spec => []ListIsOnDisk
<1>1. ASSUME EntriesInv
      PROVE  ListIsOnDisk
  <2>1. NoDup(list)
    BY <1>1 DEF EntriesInv, NoDup
  <2>2. Cardinality(Listed(list)) = Len(list)
    BY <1>1, <2>1, NoDupCounted DEF EntriesInv, EntriesTypes
  <2>3. QED
    BY <1>1, <2>2, OnDiskIs DEF EntriesInv, ListIsOnDisk
<1>2. QED
  BY <1>1, EntriesInvariant, PTL

(* The files are one map, and a step of a command changes one name of it   *)
(* or nothing, whether it ends or is killed.                               *)
THEOREM EntriesImplementMap ==
    ASSUME ~MayTear, ~MayFail
    PROVE  Spec => ImplementsEntriesMap
<1>1. ASSUME Init
      PROVE  Abstract!Init
  <2>1. EntriesInv /\ OnDisk \in Seq(Entry)
    BY <1>1, InitEntries, OnDiskIs DEF EntriesInv
  <2>2. ASSUME NEW n \in Names
        PROVE  Looked(OnDisk)[n] \in Lines \cup {NoLine}
    <3>1. CASE Absent(OnDisk, n)
      BY <2>1, <3>1, LookedAbsent
    <3>2. CASE ~Absent(OnDisk, n)
      <4>1. PICK i \in DOMAIN OnDisk : OnDisk[i].name = n
        BY <3>2 DEF Absent
      <4>2. OnDisk[i] \in Entry
        BY <2>1, LenProperties
      <4>3. QED
        BY <2>1, <4>1, <4>2, LookedAt DEF EntriesInv, Entry
    <3>3. QED
      BY <3>1, <3>2
  <2>3. Looked(OnDisk) = [n \in Names |-> Looked(OnDisk)[n]]
    BY DEF Looked
  <2>4. QED
    BY <2>2, <2>3 DEF Abstract!Init
<1>2. ASSUME EntriesInv, [Next]_vars
      PROVE  [Abstract!Next]_(Looked(OnDisk))
  BY <1>2, StepKeeps DEF MapSteps, MapStays, MapForgets, MapEnters,
     Abstract!Next, Abstract!Forget, Abstract!Enter
<1>3. QED
  BY <1>1, <1>2, EntriesInvariant, PTL DEF Spec, ImplementsEntriesMap, Abstract!Spec

=============================================================================
