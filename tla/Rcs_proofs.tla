----------------------------- MODULE Rcs_proofs -----------------------------
(***************************************************************************)
(* Proofs about Rcs, for any users, texts and numbers, and a file of any   *)
(* length.                                                                 *)
(***************************************************************************)
EXTENDS Rcs, SequenceTheorems, WellFoundedInduction, TLAPS

-----------------------------------------------------------------------------
(* Induction: a set of numbers has a least one, so that a claim that fails *)
(* for some number fails first for one.                                    *)

LEMMA LeastNat ==
    ASSUME NEW T, T \subseteq Nat, T # {}
    PROVE  \E n \in T : \A m \in T : n <= m
<1>. DEFINE R == OpToRel(<, Nat)
<1>1. IsWellFoundedOn(R, Nat)
  BY NatLessThanWellFounded
<1>2. \A x, y \in Nat : y < x => << y, x >> \in R
  BY DEF OpToRel
<1>. HIDE DEF R
<1>3. PICK n \in T : \A m \in T : ~ (<< m, n >> \in R)
  BY <1>1, WFMin
<1>4. ASSUME NEW m \in T
      PROVE  n <= m
  <2>1. ~ (m < n)
    BY <1>2, <1>3
  <2>2. QED
    BY <2>1
<1>5. QED
  BY <1>4

-----------------------------------------------------------------------------
(* A file that is sound: the head, the order of the revisions and the      *)
(* links between them say the same.                                        *)

Delts == [num : Numbers, next : Revs, text : [from : Contents, to : Contents]]
Locks == [user : Users, num : Revs]
Files == [head : Revs, deltas : Seq(Delts), locks : Seq(Locks), strict : BOOLEAN]

Headed(f) == f.head = IF f.deltas = << >> THEN NoRev ELSE f.deltas[1].num

Ordered(f) ==
    \A i, j \in DOMAIN f.deltas :
        i < j => Above(f.deltas[i].num, f.deltas[j].num)

Linked(f) ==
    \A i \in DOMAIN f.deltas :
        f.deltas[i].next = IF i = Len(f.deltas) THEN NoRev ELSE f.deltas[i + 1].num

Sound(f) == f \in Files /\ Headed(f) /\ Ordered(f) /\ Linked(f)

LEMMA DeltasAre ==
    ASSUME NEW f, Sound(f)
    PROVE  /\ Len(f.deltas) \in Nat /\ DOMAIN f.deltas = 1..Len(f.deltas)
           /\ \A i \in DOMAIN f.deltas :
                /\ f.deltas[i] \in Delts /\ f.deltas[i].num \in Numbers
                /\ f.deltas[i].text.from \in Contents
                /\ f.deltas[i].text.to \in Contents
                /\ f.deltas[i].num \in Listed(f)
           /\ \A i, j \in DOMAIN f.deltas :
                f.deltas[i].num = f.deltas[j].num => i = j
<1>1. f.deltas \in Seq(Delts)
  BY DEF Sound, Files
<1>2. Len(f.deltas) \in Nat /\ DOMAIN f.deltas = 1..Len(f.deltas)
  BY <1>1, LenProperties
<1>3. ASSUME NEW i \in DOMAIN f.deltas
      PROVE  /\ f.deltas[i] \in Delts /\ f.deltas[i].num \in Numbers
             /\ f.deltas[i].text.from \in Contents
             /\ f.deltas[i].text.to \in Contents
             /\ f.deltas[i].num \in Listed(f)
  <2>1. f.deltas[i] \in Delts
    BY <1>1, <1>2, ElementOfSeq
  <2>2. f.deltas[i] \in Range(f.deltas)
    BY DEF Range
  <2>3. QED
    BY <2>1, <2>2 DEF Delts, Listed
<1>4. ASSUME NEW i \in DOMAIN f.deltas, NEW j \in DOMAIN f.deltas, i < j
      PROVE  f.deltas[i].num # f.deltas[j].num
  <2>1. Above(f.deltas[i].num, f.deltas[j].num)
    BY <1>4 DEF Sound, Ordered
  <2>2. \A a \in Numbers : ~Above(a, a)
    BY RcsAssumption DEF Numbers, Above
  <2>3. QED
    BY <1>3, <2>1, <2>2
<1>5. QED
  BY <1>2, <1>3, <1>4

LEMMA AtIs ==
    ASSUME NEW f, Sound(f)
    PROVE  /\ \A r \in Listed(f) :
                At(f, r) \in DOMAIN f.deltas /\ f.deltas[At(f, r)].num = r
           /\ \A i \in DOMAIN f.deltas : At(f, f.deltas[i].num) = i
           /\ Listed(f) \subseteq Numbers /\ NoRev \notin Listed(f)
<1>1. ASSUME NEW r \in Listed(f)
      PROVE  At(f, r) \in DOMAIN f.deltas /\ f.deltas[At(f, r)].num = r /\ r \in Numbers
  <2>1. PICK i \in DOMAIN f.deltas : f.deltas[i].num = r
    BY DEF Listed, Range
  <2>2. At(f, r) \in DOMAIN f.deltas /\ f.deltas[At(f, r)].num = r
    BY <2>1 DEF At
  <2>3. QED
    BY <2>1, <2>2, DeltasAre
<1>2. ASSUME NEW i \in DOMAIN f.deltas
      PROVE  At(f, f.deltas[i].num) = i
  <2>1. f.deltas[i].num \in Listed(f)
    BY DeltasAre
  <2>2. QED
    BY <1>1, <2>1, DeltasAre
<1>3. NoRev \notin Numbers
  BY RcsAssumption DEF Numbers, NoRev
<1>4. QED
  BY <1>1, <1>2, <1>3

LEMMA PatchedType ==
    ASSUME NEW t \in Contents, NEW p \in [from : Contents, to : Contents]
    PROVE  Patched(t, p) \in Contents
  BY DEF Patched, Contents

-----------------------------------------------------------------------------
(* The walk of rcs_getrev(): whether it ends at a place, with what, and     *)
(* the place after it; and the function it is.                             *)

Ends(f, r, x) == x[1] = r \/ f.deltas[At(f, x[1])].next \notin Listed(f)

Comes(r, x) == IF x[1] = r THEN x[2] ELSE NoText

Onto(f, x) ==
    LET next == f.deltas[At(f, x[1])].next
    IN  << next, Patched(x[2], f.deltas[At(f, next)].text) >>

Walk(f, r) ==
    CHOOSE g : g = [x \in Listed(f) \X Contents |->
                      IF Ends(f, r, x) THEN Comes(r, x) ELSE g[Onto(f, x)]]

LEMMA GetRevIs ==
    ASSUME NEW f, NEW r
    PROVE  GetRev(f, r) =
             LET first == f.deltas[At(f, f.head)].text.to
             IN  IF f.head = NoRev \/ Beyond(f, r) THEN NoText
                 ELSE IF first = Empty THEN Empty
                 ELSE Walk(f, r)[<< f.head, first >>]
<1>1. Walk(f, r) =
        CHOOSE g : g = [x \in Listed(f) \X Contents |->
            IF x[1] = r THEN x[2]
            ELSE IF f.deltas[At(f, x[1])].next \notin Listed(f) THEN NoText
            ELSE g[<< f.deltas[At(f, x[1])].next,
                      Patched(x[2], f.deltas[At(f, f.deltas[At(f, x[1])].next)].text) >>]]
  BY DEF Walk, Ends, Comes, Onto
<1>2. QED
  BY <1>1 DEF GetRev

LEMMA OntoIs ==
    ASSUME NEW f, Sound(f), NEW r, NEW i \in DOMAIN f.deltas, NEW t \in Contents
    PROVE  /\ Comes(r, << f.deltas[i].num, t >>) \in Contents
           /\ Ends(f, r, << f.deltas[i].num, t >>) <=> f.deltas[i].num = r \/ i = Len(f.deltas)
           /\ i # Len(f.deltas) =>
                /\ i + 1 \in DOMAIN f.deltas
                /\ Onto(f, << f.deltas[i].num, t >>)
                     = << f.deltas[i + 1].num, Patched(t, f.deltas[i + 1].text) >>
                /\ Patched(t, f.deltas[i + 1].text) \in Contents
<1>1. At(f, f.deltas[i].num) = i
  BY AtIs
<1>2. f.deltas[i].next = IF i = Len(f.deltas) THEN NoRev ELSE f.deltas[i + 1].num
  BY DEF Sound, Linked
<1>3. Comes(r, << f.deltas[i].num, t >>) \in Contents
  BY DEF Comes, Contents
<1>4. CASE i = Len(f.deltas)
  <2>1. f.deltas[i].next \notin Listed(f)
    BY <1>2, <1>4, AtIs
  <2>2. QED
    BY <1>1, <1>3, <1>4, <2>1 DEF Ends
<1>5. CASE i # Len(f.deltas)
  <2>1. i + 1 \in DOMAIN f.deltas
    BY <1>5, DeltasAre
  <2>2. f.deltas[i + 1].num \in Listed(f) /\ At(f, f.deltas[i + 1].num) = i + 1
    BY <2>1, AtIs, DeltasAre
  <2>3. f.deltas[i + 1].text \in [from : Contents, to : Contents]
    BY <2>1, DeltasAre DEF Delts
  <2>4. QED
    BY <1>1, <1>2, <1>3, <1>5, <2>1, <2>2, <2>3, PatchedType DEF Ends, Onto
<1>6. QED
  BY <1>4, <1>5

(* There is such a function: built from the last revision on.              *)
Late(f, k) == { f.deltas[i].num : i \in { j \in DOMAIN f.deltas : j > Len(f.deltas) - k } }

BuiltFor(f, r, k) ==
    \E g \in [Late(f, k) \X Contents -> Contents] :
        \A x \in Late(f, k) \X Contents :
            g[x] = IF Ends(f, r, x) THEN Comes(r, x) ELSE g[Onto(f, x)]

LEMMA BuiltForOneMore ==
    ASSUME NEW f, Sound(f), NEW r, NEW k \in 1..Len(f.deltas), BuiltFor(f, r, k - 1)
    PROVE  BuiltFor(f, r, k)
<1>. DEFINE n == Len(f.deltas)
            i == n - k + 1
            q == f.deltas[i].num
<1>1. n \in Nat /\ DOMAIN f.deltas = 1..n
  BY DeltasAre
<1>2. /\ i \in DOMAIN f.deltas /\ q \in Listed(f)
      /\ Late(f, k) = Late(f, k - 1) \cup {q}
      /\ q \notin Late(f, k - 1)
  <2>1. i \in DOMAIN f.deltas /\ i \in Int
    BY <1>1
  <2>2. q \notin Late(f, k - 1)
    BY <1>1, <2>1, DeltasAre DEF Late
  <2>3. \A j \in DOMAIN f.deltas : j > n - k <=> j > n - (k - 1) \/ j = i
    BY <1>1
  <2>4. Late(f, k) = Late(f, k - 1) \cup {q}
    BY <2>1, <2>3 DEF Late
  <2>5. QED
    BY <2>1, <2>2, <2>4, DeltasAre
<1>3. PICK g \in [Late(f, k - 1) \X Contents -> Contents] :
        \A x \in Late(f, k - 1) \X Contents :
            g[x] = IF Ends(f, r, x) THEN Comes(r, x) ELSE g[Onto(f, x)]
  BY DEF BuiltFor
<1>4. ASSUME NEW j \in DOMAIN f.deltas, j > n - k, NEW t \in Contents
      PROVE  /\ Comes(r, << f.deltas[j].num, t >>) \in Contents
             /\ ~Ends(f, r, << f.deltas[j].num, t >>) =>
                  Onto(f, << f.deltas[j].num, t >>) \in Late(f, k - 1) \X Contents
  <2>1. Comes(r, << f.deltas[j].num, t >>) \in Contents
    BY OntoIs
  <2>2. ASSUME ~Ends(f, r, << f.deltas[j].num, t >>)
        PROVE  Onto(f, << f.deltas[j].num, t >>) \in Late(f, k - 1) \X Contents
    <3>1. j # n
      BY <2>2, OntoIs
    <3>2. /\ j + 1 \in DOMAIN f.deltas
          /\ Onto(f, << f.deltas[j].num, t >>)
                = << f.deltas[j + 1].num, Patched(t, f.deltas[j + 1].text) >>
          /\ Patched(t, f.deltas[j + 1].text) \in Contents
      BY <3>1, OntoIs
    <3>3. j + 1 > n - (k - 1)
      BY <1>1, <1>4
    <3>4. f.deltas[j + 1].num \in Late(f, k - 1)
      BY <3>2, <3>3 DEF Late
    <3>5. QED
      BY <3>2, <3>4
  <2>3. QED
    BY <2>1, <2>2
<1>5. ASSUME NEW x \in Late(f, k) \X Contents
      PROVE  /\ Comes(r, x) \in Contents
             /\ ~Ends(f, r, x) => Onto(f, x) \in Late(f, k - 1) \X Contents
  <2>1. x[1] \in Late(f, k) /\ x[2] \in Contents /\ x = << x[1], x[2] >>
    OBVIOUS
  <2>2. PICK j \in DOMAIN f.deltas : j > n - k /\ x[1] = f.deltas[j].num
    BY <2>1 DEF Late
  <2>3. PICK t \in Contents : x = << f.deltas[j].num, t >>
    BY <2>1, <2>2
  <2>4. QED
    BY <1>4, <2>2, <2>3
<1>. DEFINE h == [x \in Late(f, k) \X Contents |->
                    IF Ends(f, r, x) THEN Comes(r, x) ELSE g[Onto(f, x)]]
<1>6. ASSUME NEW x \in Late(f, k - 1) \X Contents
      PROVE  h[x] = g[x] /\ g[x] \in Contents
  <2>1. x \in Late(f, k) \X Contents
    BY <1>2
  <2>2. QED
    BY <1>3, <2>1
<1>7. ASSUME NEW x \in Late(f, k) \X Contents
      PROVE  /\ h[x] = IF Ends(f, r, x) THEN Comes(r, x) ELSE h[Onto(f, x)]
             /\ h[x] \in Contents
  <2>1. h[x] = IF Ends(f, r, x) THEN Comes(r, x) ELSE g[Onto(f, x)]
    OBVIOUS
  <2>. HIDE DEF h
  <2>2. QED
    BY <1>5, <1>6, <2>1
<1>8. h \in [Late(f, k) \X Contents -> Contents]
  BY <1>7
<1>. HIDE DEF h
<1>9. QED
  BY <1>7, <1>8 DEF BuiltFor

LEMMA WalkIs ==
    ASSUME NEW f, Sound(f), NEW r
    PROVE  \A x \in Listed(f) \X Contents :
             Walk(f, r)[x] = IF Ends(f, r, x) THEN Comes(r, x) ELSE Walk(f, r)[Onto(f, x)]
<1>. DEFINE n == Len(f.deltas)
            Bad == { k \in 0..n : ~BuiltFor(f, r, k) }
<1>1. n \in Nat /\ DOMAIN f.deltas = 1..n
  BY DeltasAre
<1>2. BuiltFor(f, r, 0)
  <2>1. Late(f, 0) = {}
    BY <1>1 DEF Late
  <2>2. [x \in Late(f, 0) \X Contents |-> NoText] \in [Late(f, 0) \X Contents -> Contents]
    BY <2>1
  <2>3. QED
    BY <2>1, <2>2 DEF BuiltFor
<1>3. Bad = {}
  <2>1. SUFFICES ASSUME Bad # {} PROVE FALSE
    OBVIOUS
  <2>2. Bad \subseteq Nat
    BY <1>1
  <2>. HIDE DEF Bad, n
  <2>3. PICK k \in Bad : \A m \in Bad : k <= m
    BY <2>1, <2>2, LeastNat
  <2>4. k \in 0..n /\ ~BuiltFor(f, r, k)
    BY <2>3 DEF Bad
  <2>5. k \in 1..n /\ k - 1 \in 0..n /\ ~(k <= k - 1)
    BY <1>1, <1>2, <2>4
  <2>6. BuiltFor(f, r, k - 1)
    BY <2>3, <2>5 DEF Bad
  <2>7. QED
    BY <2>4, <2>5, <2>6, BuiltForOneMore DEF n
<1>4. BuiltFor(f, r, n)
  BY <1>1, <1>3
<1>5. Late(f, n) = Listed(f)
  <2>1. { j \in DOMAIN f.deltas : j > Len(f.deltas) - n } = DOMAIN f.deltas
    BY <1>1
  <2>2. Late(f, n) = { f.deltas[i].num : i \in DOMAIN f.deltas }
    BY <2>1 DEF Late
  <2>3. QED
    BY <2>2 DEF Listed, Range
<1>6. PICK g \in [Listed(f) \X Contents -> Contents] :
        \A x \in Listed(f) \X Contents :
            g[x] = IF Ends(f, r, x) THEN Comes(r, x) ELSE g[Onto(f, x)]
  BY <1>4, <1>5 DEF BuiltFor
<1>7. g = [x \in Listed(f) \X Contents |->
             IF Ends(f, r, x) THEN Comes(r, x) ELSE g[Onto(f, x)]]
  BY <1>6
<1>8. Walk(f, r) = [x \in Listed(f) \X Contents |->
             IF Ends(f, r, x) THEN Comes(r, x) ELSE Walk(f, r)[Onto(f, x)]]
  BY <1>7 DEF Walk
<1>9. QED
  BY <1>8

(* The walk from the i-th revision on, with the text t.                    *)
Goes(f, r, i, t) == Walk(f, r)[<< f.deltas[i].num, t >>]

LEMMA GoesOn ==
    ASSUME NEW f, Sound(f), NEW r, NEW i \in DOMAIN f.deltas, NEW t \in Contents
    PROVE  Goes(f, r, i, t) =
             IF f.deltas[i].num = r THEN t
             ELSE IF i = Len(f.deltas) THEN NoText
             ELSE Goes(f, r, i + 1, Patched(t, f.deltas[i + 1].text))
<1>. DEFINE x == << f.deltas[i].num, t >>
<1>1. x \in Listed(f) \X Contents
  BY DeltasAre
<1>2. Walk(f, r)[x] = IF Ends(f, r, x) THEN Comes(r, x) ELSE Walk(f, r)[Onto(f, x)]
  BY <1>1, WalkIs
<1>3. Comes(r, x) = IF f.deltas[i].num = r THEN t ELSE NoText
  BY DEF Comes
<1>4. QED
  BY <1>2, <1>3, OntoIs DEF Goes

LEMMA GoesType ==
    ASSUME NEW f, Sound(f), NEW r
    PROVE  \A i \in DOMAIN f.deltas, t \in Contents : Goes(f, r, i, t) \in Contents
<1>. DEFINE n == Len(f.deltas)
            Bad == { k \in 0..(n - 1) : ~ \A t \in Contents : Goes(f, r, n - k, t) \in Contents }
<1>1. n \in Nat /\ DOMAIN f.deltas = 1..n
  BY DeltasAre
<1>2. ASSUME NEW i \in DOMAIN f.deltas, NEW t \in Contents,
             i # n => \A s \in Contents : Goes(f, r, i + 1, s) \in Contents
      PROVE  Goes(f, r, i, t) \in Contents
  <2>1. NoText \in Contents
    BY DEF Contents
  <2>2. i # n => Patched(t, f.deltas[i + 1].text) \in Contents
    BY OntoIs
  <2>3. QED
    BY <1>2, <2>1, <2>2, GoesOn
<1>3. Bad = {}
  <2>1. SUFFICES ASSUME Bad # {} PROVE FALSE
    OBVIOUS
  <2>2. Bad \subseteq Nat
    BY <1>1
  <2>. HIDE DEF Bad, n
  <2>3. PICK k \in Bad : \A m \in Bad : k <= m
    BY <2>1, <2>2, LeastNat
  <2>4. PICK t \in Contents : Goes(f, r, n - k, t) \notin Contents
    BY <2>3 DEF Bad
  <2>5. k \in 0..(n - 1)
    BY <2>3 DEF Bad
  <2>6. n - k \in DOMAIN f.deltas
    BY <1>1, <2>5
  <2>7. /\ n - k # n
        /\ ~ \A s \in Contents : Goes(f, r, (n - k) + 1, s) \in Contents
    BY <1>2, <2>4, <2>6
  <2>8. k - 1 \in 0..(n - 1) /\ (n - k) + 1 = n - (k - 1) /\ ~(k <= k - 1)
    BY <1>1, <2>5, <2>7
  <2>9. k - 1 \in Bad
    BY <2>7, <2>8 DEF Bad
  <2>10. QED
    BY <2>3, <2>8, <2>9
<1>4. ASSUME NEW i \in DOMAIN f.deltas, NEW t \in Contents
      PROVE  Goes(f, r, i, t) \in Contents
  <2>1. n - i \in 0..(n - 1) /\ n - (n - i) = i
    BY <1>1
  <2>. HIDE DEF n
  <2>2. QED
    BY <1>3, <2>1
<1>5. QED
  BY <1>4

-----------------------------------------------------------------------------
(* What rcs_getrev() returns.                                              *)

LEMMA HeadIs ==
    ASSUME NEW f, Sound(f)
    PROVE  /\ f.deltas = << >> => f.head = NoRev /\ Listed(f) = {}
           /\ f.deltas # << >> =>
                /\ 1 \in DOMAIN f.deltas /\ f.head = f.deltas[1].num
                /\ At(f, f.head) = 1 /\ f.head \in Listed(f) /\ f.head \in Numbers
                /\ f.head # NoRev /\ ~Beyond(f, f.head)
<1>1. CASE f.deltas = << >>
  BY <1>1 DEF Sound, Headed, Listed, Range
<1>2. CASE f.deltas # << >>
  <2>1. f.deltas \in Seq(Delts)
    BY DEF Sound, Files
  <2>2. 1 \in DOMAIN f.deltas
    BY <1>2, <2>1, DeltasAre, EmptySeq
  <2>3. f.head = f.deltas[1].num
    BY <1>2 DEF Sound, Headed
  <2>4. f.head \in Numbers /\ f.head \in Listed(f) /\ At(f, f.head) = 1
    BY <2>2, <2>3, DeltasAre, AtIs
  <2>5. f.head # NoRev
    BY <2>4, AtIs
  <2>6. ~Beyond(f, f.head)
    BY <2>4, RcsAssumption DEF Numbers, Beyond
  <2>7. QED
    BY <1>2, <2>2, <2>3, <2>4, <2>5, <2>6
<1>3. QED
  BY <1>1, <1>2

LEMMA GetRevFirst ==
    ASSUME NEW f, Sound(f), NEW r, f.deltas # << >>, ~Beyond(f, r)
    PROVE  GetRev(f, r) = IF f.deltas[1].text.to = Empty THEN Empty
                          ELSE Goes(f, r, 1, f.deltas[1].text.to)
  BY HeadIs, GetRevIs DEF Goes

LEMMA GetRevType ==
    ASSUME NEW f, Sound(f), NEW r
    PROVE  GetRev(f, r) \in Contents
<1>1. NoText \in Contents /\ Empty \in Contents
  BY DEF Contents
<1>2. CASE f.deltas = << >> \/ Beyond(f, r)
  BY <1>1, <1>2, HeadIs, GetRevIs
<1>3. CASE f.deltas # << >> /\ ~Beyond(f, r)
  <2>1. 1 \in DOMAIN f.deltas /\ f.deltas[1].text.to \in Contents
    BY <1>3, HeadIs, DeltasAre
  <2>2. Goes(f, r, 1, f.deltas[1].text.to) \in Contents
    BY <2>1, GoesType
  <2>3. QED
    BY <1>1, <1>3, <2>2, GetRevFirst
<1>4. QED
  BY <1>2, <1>3

(* The head is whole.                                                      *)
LEMMA GetRevHead ==
    ASSUME NEW f, Sound(f), f.deltas # << >>
    PROVE  GetRev(f, f.head) = f.deltas[1].text.to
<1>1. 1 \in DOMAIN f.deltas /\ f.deltas[1].num = f.head /\ ~Beyond(f, f.head)
  BY HeadIs
<1>2. f.deltas[1].text.to \in Contents
  BY <1>1, DeltasAre
<1>3. Goes(f, f.head, 1, f.deltas[1].text.to) = f.deltas[1].text.to
  BY <1>1, <1>2, GoesOn
<1>4. QED
  BY <1>1, <1>3, GetRevFirst

(* The texts that were checked in, and the patches that lead from each to  *)
(* the one before it.                                                      *)
History(f, T) ==
    /\ T \in [DOMAIN f.deltas -> Texts \ {Empty}]
    /\ \A i \in DOMAIN f.deltas :
        T[i] = IF i = 1 THEN f.deltas[1].text.to ELSE Patched(T[i - 1], f.deltas[i].text)

LEMMA GetRevGets ==
    ASSUME NEW f, Sound(f), NEW T, History(f, T),
           NEW k \in DOMAIN f.deltas, ~Beyond(f, f.deltas[k].num)
    PROVE  GetRev(f, f.deltas[k].num) = T[k]
<1>. DEFINE n == Len(f.deltas)
            r == f.deltas[k].num
            Gets(i) == Goes(f, r, i, T[i]) = T[k]
            Bad == { j \in 0..(k - 1) : ~ Gets(k - j) }
<1>1. n \in Nat /\ DOMAIN f.deltas = 1..n
  BY DeltasAre
<1>2. \A i \in DOMAIN f.deltas : T[i] \in Contents /\ T[i] # Empty
  BY DEF History, Contents
<1>3. Gets(k)
  BY <1>2, GoesOn
<1>4. ASSUME NEW i \in DOMAIN f.deltas, i < k, Gets(i + 1)
      PROVE  Gets(i)
  <2>1. i + 1 \in DOMAIN f.deltas /\ i + 1 # 1 /\ (i + 1) - 1 = i /\ i # n /\ i # k
    BY <1>1, <1>4
  <2>2. T[i + 1] = Patched(T[i], f.deltas[i + 1].text)
    BY <2>1 DEF History
  <2>3. f.deltas[i].num # r
    BY <2>1, DeltasAre
  <2>4. Goes(f, r, i, T[i]) = Goes(f, r, i + 1, Patched(T[i], f.deltas[i + 1].text))
    BY <1>2, <2>1, <2>3, GoesOn
  <2>5. QED
    BY <1>4, <2>2, <2>4
<1>5. Bad = {}
  <2>1. SUFFICES ASSUME Bad # {} PROVE FALSE
    OBVIOUS
  <2>2. Bad \subseteq Nat
    BY <1>1
  <2>. HIDE DEF Bad, n, Gets
  <2>3. PICK j \in Bad : \A m \in Bad : j <= m
    BY <2>1, <2>2, LeastNat
  <2>4. j \in 0..(k - 1) /\ ~ Gets(k - j)
    BY <2>3 DEF Bad
  <2>5. j # 0
    BY <1>1, <1>3, <2>4
  <2>6. /\ j - 1 \in 0..(k - 1) /\ k - (j - 1) = (k - j) + 1 /\ ~(j <= j - 1)
        /\ k - j \in DOMAIN f.deltas /\ k - j < k
    BY <1>1, <2>4, <2>5
  <2>7. Gets((k - j) + 1)
    BY <2>3, <2>6 DEF Bad
  <2>8. QED
    BY <1>4, <2>4, <2>6, <2>7
<1>6. Gets(1)
  <2>. HIDE DEF Gets
  <2>1. k \in 1..n
    BY <1>1
  <2>. HIDE DEF n, r
  <2>2. k - 1 \in 0..(k - 1) /\ k - (k - 1) = 1
    <3>1. k \in Int /\ 1 <= k
      BY <1>1, <2>1
    <3>2. \A m \in Int : 1 <= m => m - 1 \in 0..(m - 1) /\ m - (m - 1) = 1
      OBVIOUS
    <3>3. QED
      BY <3>1, <3>2
  <2>3. QED
    BY <1>5, <2>2
<1>7. 1 \in DOMAIN f.deltas /\ f.deltas # << >>
  BY <1>1
<1>8. T[1] = f.deltas[1].text.to /\ T[1] # Empty
  BY <1>2, <1>7 DEF History
<1>9. QED
  BY <1>6, <1>7, <1>8, GetRevFirst

(* Only the head and the revisions matter to it.                           *)
FoundIn(d, r) == CHOOSE i \in DOMAIN d : d[i].num = r

NumsOf(d) == { x.num : x \in Range(d) }

GetFrom(h, d, r) ==
    LET text(q) == d[FoundIn(d, q)].text
        walk[x \in NumsOf(d) \X Contents] ==
            LET next == d[FoundIn(d, x[1])].next
            IN  IF x[1] = r THEN x[2]
                ELSE IF next \notin NumsOf(d) THEN NoText
                ELSE walk[<< next, Patched(x[2], text(next)) >>]
    IN  IF h = NoRev \/ h[1] < r[1] \/ h[2] < r[2] THEN NoText
        ELSE IF text(h).to = Empty THEN Empty
        ELSE walk[<< h, text(h).to >>]

LEMMA SameDeltas ==
    ASSUME NEW f, NEW g, g.head = f.head, g.deltas = f.deltas
    PROVE  /\ \A r : GetRev(g, r) = GetRev(f, r)
           /\ \A r : Beyond(g, r) <=> Beyond(f, r)
           /\ Listed(g) = Listed(f)
<1>1. \A e, r : GetRev(e, r) = GetFrom(e.head, e.deltas, r)
  BY DEF GetRev, GetFrom, At, FoundIn, Listed, NumsOf, Beyond
<1>2. \A r : GetRev(g, r) = GetRev(f, r)
  BY <1>1
<1>3. QED
  BY <1>2 DEF Beyond, Listed

-----------------------------------------------------------------------------
(* Locks                                                                   *)

LEMMA RemoveAtIs ==
    ASSUME NEW S, NEW s \in Seq(S), NEW k \in 1..Len(s), NEW w, w = RemoveAt(s, k)
    PROVE  /\ w \in Seq(S) /\ Len(w) = Len(s) - 1 /\ Len(s) \in Nat
           /\ DOMAIN w = 1..(Len(s) - 1)
           /\ \A i \in DOMAIN w : w[i] = IF i < k THEN s[i] ELSE s[i + 1]
<1>. DEFINE n1 == k - 1   n2 == Len(s) - k
            a == SubSeq(s, 1, n1)   b == SubSeq(s, k + 1, Len(s))
<1>1. /\ n1 \in Nat /\ n2 \in Nat /\ Len(s) \in Nat
      /\ k = n1 + 1 /\ Len(s) = n1 + 1 + n2
  <2>1. Len(s) \in Nat
    BY LenProperties
  <2>2. k \in Nat /\ 1 <= k /\ k <= Len(s)
    BY <2>1
  <2>3. QED
    BY <2>1, <2>2
<1>2. \A i \in 1..Len(s) : s[i] \in S
  BY ElementOfSeq
<1>3. /\ a \in Seq(S) /\ Len(a) = n1
      /\ \A i \in 1..n1 : a[i] = s[i]
  <2>1. \A i \in 1..n1 : s[i] \in S
    BY <1>1, <1>2
  <2>2. 1 \in Int /\ n1 \in Int
    BY <1>1
  <2>3. /\ a \in Seq(S)
        /\ Len(a) = IF 1 <= n1 THEN n1 - 1 + 1 ELSE 0
        /\ \A i \in 1..(n1 - 1 + 1) : a[i] = s[1 + i - 1]
    BY <2>1, <2>2, SubSeqProperties
  <2>. HIDE DEF a, n1
  <2>4. QED
    BY <1>1, <2>3
<1>4. /\ b \in Seq(S) /\ Len(b) = n2
      /\ \A i \in 1..n2 : b[i] = s[k + i]
  <2>1. \A i \in (k + 1)..Len(s) : s[i] \in S
    BY <1>1, <1>2
  <2>2. k + 1 \in Int /\ Len(s) \in Int
    BY <1>1
  <2>3. /\ b \in Seq(S)
        /\ Len(b) = IF k + 1 <= Len(s) THEN Len(s) - (k + 1) + 1 ELSE 0
        /\ \A i \in 1..(Len(s) - (k + 1) + 1) : b[i] = s[(k + 1) + i - 1]
    BY <2>1, <2>2, SubSeqProperties
  <2>. HIDE DEF b, n1, n2
  <2>4. Len(s) - (k + 1) + 1 = n2 /\ \A i \in 1..n2 : (k + 1) + i - 1 = k + i
    BY <1>1
  <2>5. QED
    BY <1>1, <2>3, <2>4
<1>5. w = a \o b
  BY DEF RemoveAt
<1>. HIDE DEF a, b, n1, n2
<1>6. /\ w \in Seq(S) /\ Len(w) = n1 + n2
      /\ \A i \in 1..(n1 + n2) : w[i] = IF i <= n1 THEN a[i] ELSE b[i - n1]
  <2>1. /\ a \o b \in Seq(S)
        /\ Len(a \o b) = Len(a) + Len(b)
        /\ \A i \in 1..(Len(a) + Len(b)) :
             (a \o b)[i] = IF i <= Len(a) THEN a[i] ELSE b[i - Len(a)]
    BY <1>3, <1>4, ConcatProperties
  <2>2. QED
    BY <1>3, <1>4, <1>5, <2>1
<1>7. ASSUME NEW i \in 1..(n1 + n2)
      PROVE  w[i] = IF i < k THEN s[i] ELSE s[i + 1]
  <2>1. CASE i <= n1
    BY <1>1, <1>3, <1>6, <2>1
  <2>2. CASE i > n1
    <3>1. i - n1 \in 1..n2 /\ k + (i - n1) = i + 1
      BY <1>1, <2>2
    <3>2. QED
      BY <1>1, <1>4, <1>6, <2>2, <3>1
  <2>3. QED
    BY <1>1, <2>1, <2>2
<1>8. DOMAIN w = 1..(n1 + n2)
  BY <1>6, LenProperties
<1>9. n1 + n2 = Len(s) - 1
  BY <1>1
<1>10. QED
  BY <1>1, <1>6, <1>7, <1>8, <1>9

LEMMA LockAddIs ==
    ASSUME NEW f, Sound(f), IsInjective(f.locks), NEW u \in Users, NEW r \in Revs,
           NEW g, g = LockAdd(f, u, r)
    PROVE  /\ Sound(g) /\ IsInjective(g.locks)
           /\ g.head = f.head /\ g.deltas = f.deltas /\ g.strict = f.strict
           /\ Range(g.locks) = Range(f.locks) \cup {Lock(u, r)}
<1>. DEFINE l == Lock(u, r)
<1>1. f \in Files /\ f.locks \in Seq(Locks) /\ l \in Locks
  BY DEF Sound, Files, Lock, Locks
<1>2. CASE l \in Range(f.locks)
  BY <1>2 DEF LockAdd
<1>3. CASE l \notin Range(f.locks)
  <2>. DEFINE w == Append(f.locks, l)
  <2>1. g = [f EXCEPT !.locks = w]
    BY <1>3 DEF LockAdd
  <2>. HIDE DEF l
  <2>2. /\ w \in Seq(Locks) /\ Len(w) = Len(f.locks) + 1 /\ Len(f.locks) \in Nat
        /\ \A i \in 1..Len(f.locks) : w[i] = f.locks[i]
        /\ w[Len(f.locks) + 1] = l
    BY <1>1, AppendProperties, LenProperties
  <2>3. DOMAIN w = 1..(Len(f.locks) + 1) /\ DOMAIN f.locks = 1..Len(f.locks)
    BY <1>1, <2>2, LenProperties
  <2>. HIDE DEF w
  <2>4. g \in Files /\ g.locks = w /\ g.head = f.head /\ g.deltas = f.deltas /\ g.strict = f.strict
    BY <1>1, <2>1, <2>2 DEF Files
  <2>5. Range(w) = Range(f.locks) \cup {l}
    BY <2>2, <2>3 DEF Range
  <2>6. \A i \in DOMAIN f.locks : f.locks[i] # l
    BY <1>3 DEF Range
  <2>7. IsInjective(w)
    BY <2>2, <2>3, <2>6 DEF IsInjective
  <2>8. Sound(g)
    BY <2>4 DEF Sound, Headed, Ordered, Linked
  <2>9. QED
    BY <2>4, <2>5, <2>7, <2>8 DEF l
<1>4. QED
  BY <1>2, <1>3

LEMMA LockRemoveIs ==
    ASSUME NEW f, Sound(f), IsInjective(f.locks), NEW u, NEW r,
           NEW g, g = LockRemove(f, u, r)
    PROVE  /\ Sound(g) /\ IsInjective(g.locks)
           /\ g.head = f.head /\ g.deltas = f.deltas /\ g.strict = f.strict
           /\ Range(g.locks) \subseteq Range(f.locks)
<1>. DEFINE l == Lock(u, r)
            at == { i \in 1..Len(f.locks) : f.locks[i] = l }
<1>1. f \in Files /\ f.locks \in Seq(Locks)
  BY DEF Sound, Files
<1>2. g = [f EXCEPT !.locks = RemoveFirst(f.locks, l)]
  BY DEF LockRemove
<1>3. CASE at = {}
  <2>1. RemoveFirst(f.locks, l) = f.locks
    BY <1>3 DEF RemoveFirst
  <2>2. g = f
    BY <1>1, <1>2, <2>1 DEF Files
  <2>3. QED
    BY <2>2
<1>4. CASE at # {}
  <2>. DEFINE k == CHOOSE x \in at : \A y \in at : x =< y
              w == RemoveAt(f.locks, k)
  <2>1. RemoveFirst(f.locks, l) = w
    BY <1>4 DEF RemoveFirst, SelectInSeq, Min
  <2>2. k \in 1..Len(f.locks)
    <3>1. at \subseteq Nat
      OBVIOUS
    <3>2. at \subseteq 1..Len(f.locks)
      OBVIOUS
    <3>. HIDE DEF at
    <3>3. \E x \in at : \A y \in at : x =< y
      BY <1>4, <3>1, LeastNat
    <3>4. QED
      BY <3>2, <3>3
  <2>. HIDE DEF at, l, k
  <2>3. /\ w \in Seq(Locks) /\ Len(f.locks) \in Nat
        /\ DOMAIN w = 1..(Len(f.locks) - 1)
        /\ \A i \in DOMAIN w : w[i] = IF i < k THEN f.locks[i] ELSE f.locks[i + 1]
    BY <1>1, <2>2, RemoveAtIs
  <2>4. DOMAIN f.locks = 1..Len(f.locks)
    BY <1>1, LenProperties
  <2>. HIDE DEF w
  <2>5. \A i \in DOMAIN w : i \in DOMAIN f.locks /\ i + 1 \in DOMAIN f.locks
    BY <2>3, <2>4
  <2>6. Range(w) \subseteq Range(f.locks)
    BY <2>3, <2>5 DEF Range
  <2>7. IsInjective(w)
    <3>1. ASSUME NEW i \in DOMAIN w, NEW j \in DOMAIN w, w[i] = w[j]
          PROVE  i = j
      <4>1. i \in Int /\ j \in Int /\ k \in Int
        BY <2>2, <2>3
      <4>2. QED
        BY <2>3, <2>5, <3>1, <4>1 DEF IsInjective
    <3>2. QED
      BY <3>1 DEF IsInjective
  <2>8. g \in Files /\ g.locks = w /\ g.head = f.head /\ g.deltas = f.deltas /\ g.strict = f.strict
    BY <1>1, <1>2, <2>1, <2>3 DEF Files
  <2>9. Sound(g)
    BY <2>8 DEF Sound, Headed, Ordered, Linked
  <2>10. QED
    BY <2>6, <2>7, <2>8, <2>9
<1>5. QED
  BY <1>3, <1>4

-----------------------------------------------------------------------------
(* Revisions                                                               *)

Scripts == [from : Contents, to : Contents]

LEMMA SetAtIs ==
    ASSUME NEW S, NEW s \in Seq(S), NEW k \in 1..Len(s), NEW x \in S
    PROVE  /\ [s EXCEPT ![k] = x] \in Seq(S)
           /\ Len([s EXCEPT ![k] = x]) = Len(s)
           /\ DOMAIN [s EXCEPT ![k] = x] = 1..Len(s)
  BY LenProperties

LEMMA TextSetIs ==
    ASSUME NEW f, Sound(f), NEW i \in DOMAIN f.deltas, NEW text \in Scripts,
           NEW g, g = TextSet(f, f.deltas[i].num, text)
    PROVE  /\ Sound(g) /\ Listed(g) = Listed(f)
           /\ g.head = f.head /\ g.locks = f.locks /\ g.strict = f.strict
           /\ g.deltas \in Seq(Delts) /\ Len(g.deltas) = Len(f.deltas)
           /\ DOMAIN g.deltas = DOMAIN f.deltas
           /\ \A j \in DOMAIN f.deltas :
                /\ g.deltas[j].num = f.deltas[j].num /\ g.deltas[j].next = f.deltas[j].next
                /\ g.deltas[j].text = IF j = i THEN text ELSE f.deltas[j].text
<1>. DEFINE d == [f.deltas[i] EXCEPT !.text = text]
            D == [f.deltas EXCEPT ![i] = d]
<1>1. f \in Files /\ f.deltas \in Seq(Delts)
  BY DEF Sound, Files
<1>2. At(f, f.deltas[i].num) = i
  BY AtIs
<1>3. g = [f EXCEPT !.deltas = D]
  BY <1>2 DEF TextSet
<1>4. f.deltas[i] \in Delts
  BY DeltasAre
<1>5. d \in Delts /\ d.num = f.deltas[i].num /\ d.next = f.deltas[i].next /\ d.text = text
  BY <1>4 DEF Delts, Scripts
<1>. HIDE DEF d
<1>6. D \in Seq(Delts) /\ Len(D) = Len(f.deltas) /\ DOMAIN D = DOMAIN f.deltas
  BY <1>1, <1>5
<1>7. \A j \in DOMAIN f.deltas : D[j] = IF j = i THEN d ELSE f.deltas[j]
  OBVIOUS
<1>. HIDE DEF D
<1>8. /\ g \in Files /\ g.head = f.head /\ g.deltas = D
      /\ g.locks = f.locks /\ g.strict = f.strict
  BY <1>1, <1>3, <1>6 DEF Files
<1>9. \A j \in DOMAIN f.deltas :
        /\ D[j].num = f.deltas[j].num /\ D[j].next = f.deltas[j].next
        /\ D[j].text = IF j = i THEN text ELSE f.deltas[j].text
  BY <1>5, <1>7
<1>10. Listed(g) = Listed(f)
  BY <1>6, <1>8, <1>9 DEF Listed, Range
<1>11. Headed(g)
  <2>1. 1 \in DOMAIN f.deltas /\ f.deltas # << >> /\ D # << >>
    BY <1>6, DeltasAre
  <2>2. QED
    BY <1>8, <1>9, <2>1 DEF Sound, Headed
<1>12. Ordered(g)
  BY <1>6, <1>8, <1>9 DEF Sound, Ordered
<1>13. Linked(g)
  <2>1. \A j \in DOMAIN f.deltas : j # Len(f.deltas) => j + 1 \in DOMAIN f.deltas
    BY DeltasAre
  <2>2. QED
    BY <1>6, <1>8, <1>9, <2>1 DEF Sound, Linked
<1>14. Sound(g)
  BY <1>8, <1>11, <1>12, <1>13 DEF Sound
<1>15. QED
  BY <1>6, <1>8, <1>9, <1>10, <1>14

LEMMA AboveTrans ==
    ASSUME NEW a \in Numbers, NEW b \in Numbers, NEW c \in Numbers, Above(a, b), Above(b, c)
    PROVE  Above(a, c)
  BY RcsAssumption DEF Numbers, Above

LEMMA RevAddIs ==
    ASSUME NEW f, Sound(f), NEW r \in Numbers, NEW text \in Scripts,
           f.deltas # << >> => Above(r, f.head),
           NEW g, g = RevAdd(f, r, text)
    PROVE  /\ Sound(g) /\ Listed(g) = Listed(f) \cup {r} /\ r \notin Listed(f)
           /\ g.head = r /\ g.locks = f.locks /\ g.strict = f.strict
           /\ g.deltas # << >> /\ Len(g.deltas) = Len(f.deltas) + 1
           /\ DOMAIN g.deltas = 1..(Len(f.deltas) + 1)
           /\ g.deltas[1].num = r /\ g.deltas[1].text = text
           /\ \A i \in DOMAIN f.deltas : g.deltas[i + 1] = f.deltas[i]
<1>. DEFINE n == Len(f.deltas)
            next == IF f.deltas = << >> THEN NoRev ELSE f.deltas[1].num
            d == Delta(r, next, text)
            D == << d >> \o f.deltas
<1>1. f \in Files /\ f.deltas \in Seq(Delts) /\ n \in Nat /\ DOMAIN f.deltas = 1..n
  BY DeltasAre DEF Sound, Files
<1>2. r \in Revs /\ NoRev \in Revs
  BY RcsAssumption DEF Numbers, Revs, NoRev
<1>3. next = f.head /\ next \in Revs
  BY <1>1 DEF Sound, Headed, Files
<1>4. g = [f EXCEPT !.head = r, !.deltas = D]
  BY DEF RevAdd
<1>. HIDE DEF next
<1>5. d \in Delts /\ d.num = r /\ d.next = next /\ d.text = text
  BY <1>3 DEF Delta, Delts, Scripts
<1>. HIDE DEF d
<1>6. << d >> \in Seq(Delts) /\ Len(<< d >>) = 1 /\ << d >>[1] = d
  BY <1>5
<1>7. /\ D \in Seq(Delts) /\ Len(D) = 1 + n
      /\ \A i \in 1..(1 + n) : D[i] = IF i <= 1 THEN << d >>[i] ELSE f.deltas[i - 1]
  <2>1. /\ D \in Seq(Delts) /\ Len(D) = Len(<< d >>) + Len(f.deltas)
        /\ \A i \in 1..(Len(<< d >>) + Len(f.deltas)) :
             D[i] = IF i <= Len(<< d >>) THEN << d >>[i] ELSE f.deltas[i - Len(<< d >>)]
    BY <1>1, <1>6, ConcatProperties
  <2>2. QED
    BY <1>6, <2>1
<1>8. DOMAIN D = 1..(n + 1) /\ D # << >>
  BY <1>1, <1>7, LenProperties, EmptySeq
<1>. HIDE DEF D
<1>9. D[1] = d /\ \A i \in 1..n : D[i + 1] = f.deltas[i]
  BY <1>1, <1>6, <1>7
<1>10. /\ g \in Files /\ g.head = r /\ g.deltas = D
       /\ g.locks = f.locks /\ g.strict = f.strict
  BY <1>1, <1>2, <1>4, <1>7 DEF Files
<1>11. \A i \in DOMAIN f.deltas : Above(r, f.deltas[i].num)
  <2>1. ASSUME NEW i \in DOMAIN f.deltas
        PROVE  Above(r, f.deltas[i].num)
    <3>1. f.deltas # << >> /\ 1 \in DOMAIN f.deltas
      BY <1>1
    <3>2. Above(r, f.deltas[1].num)
      BY <3>1, HeadIs
    <3>3. CASE i = 1
      BY <3>2, <3>3
    <3>4. CASE i # 1
      <4>1. Above(f.deltas[1].num, f.deltas[i].num)
        BY <1>1, <3>1, <3>4 DEF Sound, Ordered
      <4>2. QED
        BY <3>1, <3>2, <4>1, AboveTrans, DeltasAre
    <3>5. QED
      BY <3>3, <3>4
  <2>2. QED
    BY <2>1
<1>12. Headed(g)
  BY <1>5, <1>8, <1>9, <1>10 DEF Headed
<1>13. Ordered(g)
  <2>1. ASSUME NEW i \in 1..(n + 1), NEW j \in 1..(n + 1), i < j
        PROVE  Above(D[i].num, D[j].num)
    <3>1. j - 1 \in 1..n /\ D[j] = f.deltas[j - 1]
      BY <1>1, <1>9, <2>1
    <3>2. CASE i = 1
      BY <1>1, <1>5, <1>9, <1>11, <3>1, <3>2
    <3>3. CASE i # 1
      <4>1. i - 1 \in 1..n /\ i - 1 < j - 1 /\ D[i] = f.deltas[i - 1]
        BY <1>1, <1>9, <2>1, <3>3
      <4>2. QED
        BY <1>1, <3>1, <4>1 DEF Sound, Ordered
    <3>4. QED
      BY <3>2, <3>3
  <2>2. QED
    BY <1>8, <1>10, <2>1 DEF Ordered
<1>14. Linked(g)
  <2>1. ASSUME NEW i \in 1..(n + 1)
        PROVE  D[i].next = IF i = n + 1 THEN NoRev ELSE D[i + 1].num
    <3>1. CASE i = 1 /\ n = 0
      <4>1. f.deltas = << >>
        BY <1>1, <3>1, EmptySeq
      <4>2. QED
        BY <1>5, <1>9, <3>1, <4>1 DEF next
    <3>2. CASE i = 1 /\ n # 0
      <4>1. f.deltas # << >> /\ 1 \in 1..n
        BY <1>1, <3>2
      <4>2. D[1 + 1] = f.deltas[1]
        BY <1>9, <4>1
      <4>3. QED
        BY <1>1, <1>5, <1>9, <3>2, <4>1, <4>2 DEF next
    <3>3. CASE i # 1
      <4>1. i - 1 \in 1..n /\ (i - 1) + 1 = i
        BY <1>1, <3>3
      <4>2. D[i] = f.deltas[i - 1]
        BY <1>9, <4>1
      <4>3. f.deltas[i - 1].next = IF i - 1 = n THEN NoRev ELSE f.deltas[i].num
        BY <1>1, <4>1 DEF Sound, Linked
      <4>4. CASE i - 1 = n
        <5>1. i = n + 1
          BY <1>1, <4>1, <4>4
        <5>2. QED
          BY <4>2, <4>3, <4>4, <5>1
      <4>5. CASE i - 1 # n
        <5>1. i \in 1..n /\ i # n + 1
          BY <1>1, <4>1, <4>5
        <5>2. D[i + 1] = f.deltas[i]
          BY <1>9, <5>1
        <5>3. QED
          BY <4>2, <4>3, <4>5, <5>1, <5>2
      <4>6. QED
        BY <4>4, <4>5
    <3>4. QED
      BY <1>1, <3>1, <3>2, <3>3
  <2>2. QED
    BY <1>7, <1>8, <1>10, <2>1 DEF Linked
<1>15. Listed(g) = Listed(f) \cup {r}
  <2>1. \A i \in 1..(n + 1) : i = 1 \/ (i - 1 \in 1..n /\ D[i] = f.deltas[i - 1])
    BY <1>1, <1>9
  <2>2. \A i \in 1..n : i + 1 \in 1..(n + 1)
    BY <1>1
  <2>3. 1 \in 1..(n + 1)
    BY <1>1
  <2>4. Listed(g) = { D[i].num : i \in 1..(n + 1) }
    BY <1>8, <1>10 DEF Listed, Range
  <2>5. Listed(f) = { f.deltas[i].num : i \in 1..n }
    BY <1>1 DEF Listed, Range
  <2>6. \A i \in 1..(n + 1) : D[i].num = r \/ D[i].num \in Listed(f)
    BY <1>5, <1>9, <2>1, <2>5
  <2>7. r \in Listed(g)
    BY <1>5, <1>9, <2>3, <2>4
  <2>8. \A i \in 1..n : f.deltas[i].num \in Listed(g)
    BY <1>9, <2>2, <2>4
  <2>9. QED
    BY <2>4, <2>5, <2>6, <2>7, <2>8
<1>16. r \notin Listed(f)
  <2>1. \A a \in Numbers : ~Above(a, a)
    BY RcsAssumption DEF Numbers, Above
  <2>2. QED
    BY <1>11, <2>1, AtIs
<1>17. QED
  BY <1>1, <1>5, <1>7, <1>8, <1>9, <1>10, <1>12, <1>13, <1>14, <1>15, <1>16 DEF Sound

(* What rcs_rev_remove() leaves: the patch of the revision after the one   *)
(* that goes is made anew.                                                 *)
MadeAnew(f, i) ==
    IF i = 1 THEN Whole(GetRev(f, f.deltas[i + 1].num))
    ELSE Diff(GetRev(f, f.deltas[i - 1].num), GetRev(f, f.deltas[i + 1].num))

LEMMA RevRemoveIs ==
    ASSUME NEW f, Sound(f), NEW i \in DOMAIN f.deltas,
           NEW g, g = RevRemove(f, f.deltas[i].num)
    PROVE  /\ Sound(g) /\ Listed(g) = Listed(f) \ {f.deltas[i].num}
           /\ g.locks = f.locks /\ g.strict = f.strict
           /\ Len(g.deltas) = Len(f.deltas) - 1
           /\ DOMAIN g.deltas = 1..(Len(f.deltas) - 1)
           /\ \A j \in DOMAIN g.deltas :
                /\ g.deltas[j].num = IF j < i THEN f.deltas[j].num ELSE f.deltas[j + 1].num
                /\ g.deltas[j].text =
                     IF j < i THEN f.deltas[j].text
                     ELSE IF j = i THEN MadeAnew(f, i) ELSE f.deltas[j + 1].text
<1>. DEFINE n == Len(f.deltas)
            old == IF i = n THEN NoRev ELSE f.deltas[i + 1].num
            text == IF i = 1 THEN Whole(GetRev(f, old))
                    ELSE Diff(GetRev(f, f.deltas[i - 1].num), GetRev(f, old))
            kept == IF i = n THEN f ELSE TextSet(f, old, text)
            link == IF i = 1 THEN [kept EXCEPT !.head = old]
                    ELSE [kept EXCEPT !.deltas[i - 1].next = old]
<1>1. /\ f \in Files /\ f.deltas \in Seq(Delts) /\ n \in Nat /\ DOMAIN f.deltas = 1..n
      /\ i \in 1..n /\ i \in Int /\ 1 <= i /\ i <= n
  BY DeltasAre DEF Sound, Files
<1>2. At(f, f.deltas[i].num) = i
  BY AtIs
<1>3. g = [link EXCEPT !.deltas = RemoveAt(link.deltas, i)]
  BY <1>2 DEF RevRemove
<1>4. text \in Scripts
  <2>1. \A r : GetRev(f, r) \in Contents
    BY GetRevType
  <2>2. NoText \in Contents
    BY DEF Contents
  <2>3. QED
    BY <2>1, <2>2 DEF Scripts, Whole, Diff
<1>5. i # n => text = MadeAnew(f, i)
  BY DEF MadeAnew
<1>6. old \in Revs /\ (i # n => i + 1 \in DOMAIN f.deltas /\ old = f.deltas[i + 1].num)
  <2>1. i # n => i + 1 \in DOMAIN f.deltas
    BY <1>1
  <2>2. \A a \in Numbers : a \in Revs
    BY RcsAssumption DEF Numbers, Revs
  <2>3. NoRev \in Revs
    BY DEF NoRev, Revs
  <2>4. QED
    BY <2>1, <2>2, <2>3, DeltasAre
<1>. HIDE DEF text
<1>7. /\ kept \in Files /\ kept.locks = f.locks /\ kept.strict = f.strict /\ kept.head = f.head
      /\ kept.deltas \in Seq(Delts) /\ Len(kept.deltas) = n /\ DOMAIN kept.deltas = 1..n
      /\ \A j \in 1..n :
           /\ kept.deltas[j].num = f.deltas[j].num
           /\ kept.deltas[j].next = f.deltas[j].next
           /\ kept.deltas[j].text = IF i # n /\ j = i + 1 THEN text ELSE f.deltas[j].text
  <2>1. CASE i = n
    BY <1>1, <2>1
  <2>2. CASE i # n
    <3>1. kept = TextSet(f, f.deltas[i + 1].num, text)
      BY <2>2
    <3>. HIDE DEF kept
    <3>2. i + 1 \in DOMAIN f.deltas
      BY <1>6, <2>2
    <3>3. /\ Sound(kept)
          /\ kept.head = f.head /\ kept.locks = f.locks /\ kept.strict = f.strict
          /\ kept.deltas \in Seq(Delts) /\ Len(kept.deltas) = Len(f.deltas)
          /\ DOMAIN kept.deltas = DOMAIN f.deltas
          /\ \A j \in DOMAIN f.deltas :
               /\ kept.deltas[j].num = f.deltas[j].num
               /\ kept.deltas[j].next = f.deltas[j].next
               /\ kept.deltas[j].text = IF j = i + 1 THEN text ELSE f.deltas[j].text
      BY <1>4, <3>1, <3>2, TextSetIs
    <3>4. QED
      BY <1>1, <2>2, <3>3 DEF Sound
  <2>3. QED
    BY <2>1, <2>2
<1>. HIDE DEF kept, old
<1>8. /\ link \in Files /\ link.locks = f.locks /\ link.strict = f.strict
      /\ link.head = IF i = 1 THEN old ELSE f.head
      /\ link.deltas \in Seq(Delts) /\ Len(link.deltas) = n /\ DOMAIN link.deltas = 1..n
      /\ \A j \in 1..n :
           /\ link.deltas[j].num = f.deltas[j].num
           /\ link.deltas[j].next = IF j = i - 1 THEN old ELSE f.deltas[j].next
           /\ link.deltas[j].text = IF i # n /\ j = i + 1 THEN text ELSE f.deltas[j].text
  <2>1. CASE i = 1
    <3>1. link = [kept EXCEPT !.head = old]
      BY <2>1
    <3>2. \A j \in 1..n : j # i - 1
      BY <1>1, <2>1
    <3>. HIDE DEF link
    <3>3. /\ link \in Files /\ link.locks = kept.locks /\ link.strict = kept.strict
          /\ link.head = old /\ link.deltas = kept.deltas
      BY <1>6, <1>7, <3>1 DEF Files
    <3>4. QED
      BY <1>7, <2>1, <3>2, <3>3
  <2>2. CASE i # 1
    <3>. DEFINE d == [kept.deltas[i - 1] EXCEPT !.next = old]
                D == [kept.deltas EXCEPT ![i - 1] = d]
    <3>1. i - 1 \in 1..n
      BY <1>1, <2>2
    <3>2. kept.deltas[i - 1] \in Delts
      BY <1>7, <3>1, ElementOfSeq
    <3>3. /\ d \in Delts /\ d.num = kept.deltas[i - 1].num /\ d.next = old
          /\ d.text = kept.deltas[i - 1].text
      BY <1>6, <3>2 DEF Delts
    <3>4. link = [kept EXCEPT !.deltas = D]
      BY <2>2
    <3>. HIDE DEF link, d
    <3>5. D \in Seq(Delts) /\ Len(D) = n /\ DOMAIN D = 1..n
      <4>. DEFINE k == i - 1   s == kept.deltas
      <4>1. k \in 1..Len(s) /\ s \in Seq(Delts) /\ Len(s) = n /\ d \in Delts
        BY <1>7, <3>1, <3>3
      <4>. HIDE DEF k, s
      <4>2. /\ [s EXCEPT ![k] = d] \in Seq(Delts)
            /\ Len([s EXCEPT ![k] = d]) = Len(s)
            /\ DOMAIN [s EXCEPT ![k] = d] = 1..Len(s)
        BY <4>1, SetAtIs
      <4>3. QED
        BY <4>1, <4>2 DEF k, s
    <3>6. \A j \in 1..n : D[j] = IF j = i - 1 THEN d ELSE kept.deltas[j]
      BY <1>7
    <3>. HIDE DEF D
    <3>7. /\ link \in Files /\ link.locks = kept.locks /\ link.strict = kept.strict
          /\ link.head = kept.head /\ link.deltas = D
      BY <1>7, <3>4, <3>5 DEF Files
    <3>8. \A j \in 1..n :
            /\ D[j].num = kept.deltas[j].num /\ D[j].text = kept.deltas[j].text
            /\ D[j].next = IF j = i - 1 THEN old ELSE kept.deltas[j].next
      BY <3>3, <3>6
    <3>9. QED
      BY <1>7, <2>2, <3>5, <3>7, <3>8
  <2>3. QED
    BY <2>1, <2>2
<1>. HIDE DEF link
<1>. DEFINE E == RemoveAt(link.deltas, i)
<1>9. /\ E \in Seq(Delts) /\ Len(E) = n - 1 /\ DOMAIN E = 1..(n - 1)
      /\ \A j \in 1..(n - 1) : E[j] = IF j < i THEN link.deltas[j] ELSE link.deltas[j + 1]
  <2>1. i \in 1..Len(link.deltas)
    BY <1>1, <1>8
  <2>2. /\ E \in Seq(Delts) /\ Len(E) = Len(link.deltas) - 1
        /\ DOMAIN E = 1..(Len(link.deltas) - 1)
        /\ \A j \in DOMAIN E : E[j] = IF j < i THEN link.deltas[j] ELSE link.deltas[j + 1]
    <3>. DEFINE s == link.deltas
    <3>1. s \in Seq(Delts) /\ i \in 1..Len(s) /\ E = RemoveAt(s, i)
      BY <1>8, <2>1
    <3>. HIDE DEF s, E
    <3>2. /\ E \in Seq(Delts) /\ Len(E) = Len(s) - 1
          /\ DOMAIN E = 1..(Len(s) - 1)
          /\ \A j \in DOMAIN E : E[j] = IF j < i THEN s[j] ELSE s[j + 1]
      BY <3>1, RemoveAtIs
    <3>3. QED
      BY <3>2 DEF s
  <2>. HIDE DEF E
  <2>3. QED
    BY <1>8, <2>2
<1>. HIDE DEF E
<1>10. /\ g \in Files /\ g.deltas = E /\ g.head = link.head
       /\ g.locks = f.locks /\ g.strict = f.strict
  BY <1>3, <1>8, <1>9 DEF Files, E
<1>11. \A j \in 1..(n - 1) : j \in 1..n /\ j + 1 \in 1..n /\ j \in Int
  BY <1>1
<1>12. \A j \in 1..(n - 1) :
         /\ E[j].num = IF j < i THEN f.deltas[j].num ELSE f.deltas[j + 1].num
         /\ E[j].next = IF j = i - 1 THEN old
                        ELSE IF j < i THEN f.deltas[j].next ELSE f.deltas[j + 1].next
         /\ E[j].text = IF j < i THEN f.deltas[j].text
                        ELSE IF j = i THEN text ELSE f.deltas[j + 1].text
  <2>1. ASSUME NEW j \in 1..(n - 1), j < i
        PROVE  /\ E[j].num = f.deltas[j].num /\ E[j].text = f.deltas[j].text
               /\ E[j].next = IF j = i - 1 THEN old ELSE f.deltas[j].next
    <3>1. j # i + 1
      BY <1>1, <1>11, <2>1
    <3>2. QED
      BY <1>8, <1>9, <1>11, <2>1, <3>1
  <2>2. ASSUME NEW j \in 1..(n - 1), ~(j < i)
        PROVE  /\ j # i - 1
               /\ E[j].num = f.deltas[j + 1].num /\ E[j].next = f.deltas[j + 1].next
               /\ E[j].text = IF j = i THEN text ELSE f.deltas[j + 1].text
    <3>1. j + 1 # i - 1 /\ j # i - 1 /\ i # n /\ (j + 1 = i + 1 <=> j = i)
      BY <1>1, <1>11, <2>2
    <3>2. QED
      BY <1>8, <1>9, <1>11, <2>2, <3>1
  <2>3. QED
    BY <2>1, <2>2
<1>13. Listed(g) = Listed(f) \ {f.deltas[i].num}
  <2>1. Listed(g) = { E[j].num : j \in 1..(n - 1) }
    BY <1>9, <1>10 DEF Listed, Range
  <2>2. Listed(f) = { f.deltas[j].num : j \in 1..n }
    BY <1>1 DEF Listed, Range
  <2>3. ASSUME NEW j \in 1..(n - 1)
        PROVE  E[j].num \in Listed(f) /\ E[j].num # f.deltas[i].num
    <3>. DEFINE k == IF j < i THEN j ELSE j + 1
    <3>1. k \in 1..n /\ k # i
      BY <1>1, <1>11
    <3>2. E[j].num = f.deltas[k].num
      BY <1>12
    <3>. HIDE DEF k
    <3>3. QED
      BY <1>1, <2>2, <3>1, <3>2, DeltasAre
  <2>4. ASSUME NEW k \in 1..n, k # i
        PROVE  f.deltas[k].num \in Listed(g)
    <3>1. CASE k < i
      <4>1. k \in 1..(n - 1)
        BY <1>1, <3>1
      <4>2. QED
        BY <1>12, <2>1, <3>1, <4>1
    <3>2. CASE ~(k < i)
      <4>1. k - 1 \in 1..(n - 1) /\ ~(k - 1 < i) /\ (k - 1) + 1 = k
        BY <1>1, <2>4, <3>2
      <4>2. E[k - 1].num = f.deltas[k].num
        BY <1>12, <4>1
      <4>3. QED
        BY <2>1, <4>1, <4>2
    <3>3. QED
      BY <3>1, <3>2
  <2>5. QED
    BY <2>1, <2>2, <2>3, <2>4
<1>14. Headed(g)
  <2>1. CASE n = 1
    <3>1. E = << >> /\ i = 1 /\ old = NoRev
      BY <1>1, <1>9, <2>1, EmptySeq DEF old
    <3>2. QED
      BY <1>8, <1>10, <3>1 DEF Headed
  <2>2. CASE n # 1
    <3>1. 1 \in 1..(n - 1) /\ E # << >>
      <4>1. n - 1 \in Nat /\ n - 1 # 0 /\ 1 <= n - 1
        <5>1. n \in Int /\ 1 <= n /\ n # 1
          BY <1>1, <2>2
        <5>. HIDE DEF n
        <5>2. QED
          BY <5>1
      <4>2. E # << >>
        BY <1>9, <4>1, EmptySeq
      <4>3. QED
        BY <4>1, <4>2
    <3>2. CASE i = 1
      <4>1. old = f.deltas[1 + 1].num /\ E[1].num = f.deltas[1 + 1].num
        BY <1>6, <1>12, <2>2, <3>1, <3>2
      <4>2. QED
        BY <1>8, <1>10, <3>1, <3>2, <4>1 DEF Headed
    <3>3. CASE i # 1
      <4>1. 1 < i /\ f.deltas # << >>
        BY <1>1, <3>3
      <4>2. E[1].num = f.deltas[1].num
        BY <1>12, <3>1, <4>1
      <4>3. f.head = f.deltas[1].num
        BY <4>1 DEF Sound, Headed
      <4>4. QED
        BY <1>8, <1>10, <3>1, <3>3, <4>2, <4>3 DEF Headed
    <3>4. QED
      BY <3>2, <3>3
  <2>3. QED
    BY <2>1, <2>2
<1>15. Ordered(g)
  <2>1. ASSUME NEW j \in 1..(n - 1), NEW k \in 1..(n - 1), j < k
        PROVE  Above(E[j].num, E[k].num)
    <3>. DEFINE a == IF j < i THEN j ELSE j + 1
                b == IF k < i THEN k ELSE k + 1
    <3>1. a \in 1..n /\ b \in 1..n /\ a < b
      BY <1>1, <1>11, <2>1
    <3>2. E[j].num = f.deltas[a].num /\ E[k].num = f.deltas[b].num
      BY <1>12
    <3>. HIDE DEF a, b
    <3>3. QED
      BY <1>1, <3>1, <3>2 DEF Sound, Ordered
  <2>2. QED
    BY <1>9, <1>10, <2>1 DEF Ordered
<1>16. Linked(g)
  <2>1. \A j \in 1..n : f.deltas[j].next = IF j = n THEN NoRev ELSE f.deltas[j + 1].num
    BY <1>1 DEF Sound, Linked
  <2>2. ASSUME NEW j \in 1..(n - 1)
        PROVE  E[j].next = IF j = n - 1 THEN NoRev ELSE E[j + 1].num
    <3>1. j # n - 1 => j + 1 \in 1..(n - 1)
      BY <1>1, <1>11
    <3>2. CASE j = i - 1
      <4>1. E[j].next = old /\ j + 1 = i /\ (j = n - 1 <=> i = n)
        BY <1>1, <1>11, <1>12, <3>2
      <4>2. i = n => old = NoRev
        BY DEF old
      <4>3. i # n => E[j + 1].num = f.deltas[i + 1].num
        BY <1>1, <1>12, <3>1, <4>1
      <4>4. QED
        BY <1>6, <4>1, <4>2, <4>3
    <3>3. CASE j < i - 1
      <4>1. j < i /\ j # i - 1 /\ j + 1 < i /\ j # n - 1 /\ j # n
        BY <1>1, <1>11, <3>3
      <4>2. E[j].next = f.deltas[j].next /\ E[j + 1].num = f.deltas[j + 1].num
        BY <1>12, <3>1, <4>1
      <4>3. QED
        BY <1>11, <2>1, <4>1, <4>2
    <3>4. CASE j > i - 1
      <4>1. ~(j < i) /\ j # i - 1 /\ ~(j + 1 < i) /\ (j = n - 1 <=> j + 1 = n)
        BY <1>1, <1>11, <3>4
      <4>2. E[j].next = f.deltas[j + 1].next
        BY <1>12, <4>1
      <4>3. j # n - 1 => E[j + 1].num = f.deltas[(j + 1) + 1].num
        BY <1>12, <3>1, <4>1
      <4>4. QED
        BY <1>11, <2>1, <4>1, <4>2, <4>3
    <3>5. QED
      BY <1>1, <1>11, <3>2, <3>3, <3>4
  <2>3. QED
    BY <1>9, <1>10, <2>2 DEF Linked
<1>17. Sound(g)
  BY <1>10, <1>14, <1>15, <1>16 DEF Sound
<1>18. ASSUME NEW j \in 1..(n - 1), ~(j < i), j = i
       PROVE  text = MadeAnew(f, i)
  BY <1>1, <1>5, <1>11, <1>18
<1>19. QED
  BY <1>9, <1>10, <1>12, <1>13, <1>17, <1>18

-----------------------------------------------------------------------------
(* A file from which every revision can be got: the numbers grow in both   *)
(* components, so that no revision seems to be above the head, and every   *)
(* patch was made for the neighbours it has.                               *)

Flat(f) ==
    \A i, j \in DOMAIN f.deltas :
        i < j => /\ f.deltas[j].num[1] <= f.deltas[i].num[1]
                 /\ f.deltas[j].num[2] <= f.deltas[i].num[2]

Intact(f) == Sound(f) /\ Flat(f) /\ \E T : History(f, T)

LEMMA IntactGets ==
    ASSUME NEW f, Sound(f), Flat(f), NEW T, History(f, T)
    PROVE  \A k \in DOMAIN f.deltas :
             /\ GetRev(f, f.deltas[k].num) = T[k]
             /\ T[k] \in Texts /\ T[k] # Empty
<1>1. ASSUME NEW k \in DOMAIN f.deltas
      PROVE  ~Beyond(f, f.deltas[k].num)
  <2>1. 1 \in DOMAIN f.deltas /\ f.deltas # << >> /\ f.head = f.deltas[1].num
    <3>1. 1 \in DOMAIN f.deltas
      BY DeltasAre
    <3>2. f.deltas # << >>
      BY <3>1
    <3>3. QED
      BY <3>1, <3>2, HeadIs
  <2>2. f.deltas[k].num \in Numbers /\ f.deltas[1].num \in Numbers
    BY <2>1, DeltasAre
  <2>3. CASE k = 1
    BY <2>1, <2>2, <2>3, HeadIs
  <2>4. CASE k # 1
    <3>1. 1 < k
      BY <2>4, DeltasAre
    <3>2. /\ f.deltas[k].num[1] <= f.deltas[1].num[1]
          /\ f.deltas[k].num[2] <= f.deltas[1].num[2]
      BY <2>1, <3>1 DEF Flat
    <3>3. QED
      BY <2>1, <2>2, <3>2, RcsAssumption DEF Beyond, Numbers
  <2>5. QED
    BY <2>3, <2>4
<1>2. QED
  BY <1>1, GetRevGets DEF History

LEMMA RevRemoveKeeps ==
    ASSUME NEW f, Intact(f), NEW i \in DOMAIN f.deltas,
           NEW g, g = RevRemove(f, f.deltas[i].num)
    PROVE  /\ Intact(g)
           /\ \A r \in Listed(g) : GetRev(g, r) = GetRev(f, r)
<1>. DEFINE n == Len(f.deltas)
<1>1. Sound(f) /\ Flat(f)
  BY DEF Intact
<1>2. PICK T : History(f, T)
  BY DEF Intact
<1>3. /\ n \in Nat /\ DOMAIN f.deltas = 1..n
      /\ i \in 1..n /\ i \in Int /\ 1 <= i /\ i <= n
  BY <1>1, DeltasAre
<1>4. /\ Sound(g) /\ Len(g.deltas) = n - 1 /\ DOMAIN g.deltas = 1..(n - 1)
      /\ \A j \in 1..(n - 1) :
           /\ g.deltas[j].num = IF j < i THEN f.deltas[j].num ELSE f.deltas[j + 1].num
           /\ g.deltas[j].text =
                IF j < i THEN f.deltas[j].text
                ELSE IF j = i THEN MadeAnew(f, i) ELSE f.deltas[j + 1].text
  <2>1. /\ Sound(g) /\ Len(g.deltas) = Len(f.deltas) - 1
        /\ DOMAIN g.deltas = 1..(Len(f.deltas) - 1)
        /\ \A j \in DOMAIN g.deltas :
             /\ g.deltas[j].num = IF j < i THEN f.deltas[j].num ELSE f.deltas[j + 1].num
             /\ g.deltas[j].text =
                  IF j < i THEN f.deltas[j].text
                  ELSE IF j = i THEN MadeAnew(f, i) ELSE f.deltas[j + 1].text
    BY <1>1, RevRemoveIs
  <2>2. QED
    BY <2>1
<1>5. \A j \in 1..(n - 1) : j \in 1..n /\ j + 1 \in 1..n /\ j \in Int
  BY <1>3
<1>6. \A k \in 1..n : GetRev(f, f.deltas[k].num) = T[k] /\ T[k] \in Texts /\ T[k] # Empty
  BY <1>1, <1>2, <1>3, IntactGets
<1>7. \A k \in 1..n : T[k] = IF k = 1 THEN f.deltas[1].text.to
                             ELSE Patched(T[k - 1], f.deltas[k].text)
  BY <1>2, <1>3 DEF History
<1>. DEFINE U == [j \in 1..(n - 1) |-> IF j < i THEN T[j] ELSE T[j + 1]]
<1>. HIDE DEF n
<1>8. U \in [DOMAIN g.deltas -> Texts \ {Empty}]
  BY <1>4, <1>5, <1>6
<1>9. \A j \in 1..(n - 1) : U[j] = IF j < i THEN T[j] ELSE T[j + 1]
  OBVIOUS
<1>. HIDE DEF U
<1>10. i + 1 \in 1..n =>
         MadeAnew(f, i) = IF i = 1 THEN Whole(T[i + 1]) ELSE Diff(T[i - 1], T[i + 1])
  <2>1. i # 1 => i - 1 \in 1..n
    BY <1>3
  <2>2. QED
    BY <1>6, <2>1 DEF MadeAnew
<1>11. ASSUME NEW j \in 1..(n - 1)
       PROVE  U[j] = IF j = 1 THEN g.deltas[1].text.to ELSE Patched(U[j - 1], g.deltas[j].text)
  <2>1. j # 1 => j - 1 \in 1..(n - 1)
    BY <1>3, <1>5
  <2>2. CASE j < i
    <3>1. g.deltas[j].text = f.deltas[j].text /\ U[j] = T[j]
      BY <1>4, <1>9, <2>2
    <3>2. j # 1 => U[j - 1] = T[j - 1]
      <4>1. j # 1 => j - 1 < i
        BY <1>3, <1>5, <2>2
      <4>2. QED
        BY <1>9, <2>1, <4>1
    <3>3. QED
      BY <1>5, <1>7, <3>1, <3>2
  <2>3. CASE j = i /\ i = 1
    <3>1. g.deltas[1].text = Whole(T[1 + 1]) /\ U[1] = T[1 + 1]
      BY <1>3, <1>4, <1>5, <1>9, <1>10, <2>3
    <3>2. QED
      BY <2>3, <3>1 DEF Whole
  <2>4. CASE j = i /\ i # 1
    <3>1. ~(j < i) /\ j - 1 < i /\ j # 1
      BY <1>3, <2>4
    <3>2. g.deltas[j].text = Diff(T[i - 1], T[i + 1]) /\ U[j] = T[i + 1]
      BY <1>4, <1>5, <1>9, <1>10, <2>4, <3>1
    <3>3. U[j - 1] = T[i - 1]
      BY <1>9, <2>1, <2>4, <3>1
    <3>4. Patched(T[i - 1], Diff(T[i - 1], T[i + 1])) = T[i + 1]
      BY DEF Patched, Diff
    <3>5. QED
      BY <3>1, <3>2, <3>3, <3>4
  <2>5. CASE j > i
    <3>1. /\ ~(j < i) /\ j # i /\ j # 1 /\ ~(j - 1 < i) /\ (j - 1) + 1 = j
          /\ j + 1 # 1 /\ (j + 1) - 1 = j
      BY <1>3, <1>5, <2>5
    <3>2. g.deltas[j].text = f.deltas[j + 1].text /\ U[j] = T[j + 1]
      BY <1>4, <1>9, <3>1
    <3>3. U[j - 1] = T[j]
      BY <1>9, <2>1, <3>1
    <3>4. T[j + 1] = Patched(T[j], f.deltas[j + 1].text)
      BY <1>5, <1>7, <3>1
    <3>5. QED
      BY <3>1, <3>2, <3>3, <3>4
  <2>6. QED
    BY <1>3, <1>5, <2>2, <2>3, <2>4, <2>5
<1>12. History(g, U)
  BY <1>4, <1>8, <1>11 DEF History
<1>13. Flat(g)
  <2>1. ASSUME NEW j \in 1..(n - 1), NEW k \in 1..(n - 1), j < k
        PROVE  /\ g.deltas[k].num[1] <= g.deltas[j].num[1]
               /\ g.deltas[k].num[2] <= g.deltas[j].num[2]
    <3>. DEFINE a == IF j < i THEN j ELSE j + 1
                b == IF k < i THEN k ELSE k + 1
    <3>1. a \in 1..n /\ b \in 1..n /\ a < b
      BY <1>3, <1>5, <2>1
    <3>2. g.deltas[j].num = f.deltas[a].num /\ g.deltas[k].num = f.deltas[b].num
      BY <1>4
    <3>. HIDE DEF a, b
    <3>3. QED
      BY <1>1, <1>3, <3>1, <3>2 DEF Flat
  <2>2. QED
    BY <1>4, <2>1 DEF Flat
<1>14. ASSUME NEW r \in Listed(g)
       PROVE  GetRev(g, r) = GetRev(f, r)
  <2>1. PICK j \in 1..(n - 1) : g.deltas[j].num = r
    BY <1>4 DEF Listed, Range
  <2>. DEFINE a == IF j < i THEN j ELSE j + 1
  <2>2. a \in 1..n /\ r = f.deltas[a].num /\ U[j] = T[a]
    BY <1>4, <1>5, <1>9, <2>1
  <2>3. GetRev(g, g.deltas[j].num) = U[j]
    BY <1>4, <1>12, <1>13, IntactGets
  <2>. HIDE DEF a
  <2>4. QED
    BY <1>6, <2>1, <2>2, <2>3
<1>15. QED
  BY <1>4, <1>12, <1>13, <1>14 DEF Intact

(* A check-in: the revisions there keep their texts when the patch of the  *)
(* old head leads from the new text to the old one.                        *)
Leads(f, T, w) ==
    /\ T \in [DOMAIN f.deltas -> Texts \ {Empty}]
    /\ \A i \in DOMAIN f.deltas :
        T[i] = Patched(IF i = 1 THEN w ELSE T[i - 1], f.deltas[i].text)

LEMMA RevAddKeeps ==
    ASSUME NEW f, Sound(f), Flat(f), NEW w \in Texts \ {Empty}, NEW T, Leads(f, T, w),
           NEW r \in Numbers, f.deltas # << >> => Above(r, f.head),
           \A q \in Listed(f) : q[1] <= r[1] /\ q[2] <= r[2],
           NEW g, g = RevAdd(f, r, Whole(w))
    PROVE  /\ Intact(g)
           /\ GetRev(g, r) = w
           /\ \A i \in DOMAIN f.deltas : GetRev(g, f.deltas[i].num) = T[i]
<1>. DEFINE n == Len(f.deltas)
<1>1. n \in Nat /\ DOMAIN f.deltas = 1..n
  BY DeltasAre
<1>2. Whole(w) \in Scripts
  BY DEF Whole, Scripts, Contents
<1>3. /\ Sound(g) /\ Len(g.deltas) = n + 1 /\ DOMAIN g.deltas = 1..(n + 1)
      /\ g.deltas[1].num = r /\ g.deltas[1].text = Whole(w)
      /\ \A i \in 1..n : g.deltas[i + 1] = f.deltas[i]
  BY <1>1, <1>2, RevAddIs
<1>. DEFINE U == [j \in 1..(n + 1) |-> IF j = 1 THEN w ELSE T[j - 1]]
<1>. HIDE DEF n
<1>4. \A j \in 1..(n + 1) : j \in Int /\ (j # 1 => j - 1 \in 1..n /\ (j - 1) + 1 = j)
  BY <1>1
<1>5. U \in [DOMAIN g.deltas -> Texts \ {Empty}]
  BY <1>1, <1>3, <1>4 DEF Leads
<1>6. \A j \in 1..(n + 1) : U[j] = IF j = 1 THEN w ELSE T[j - 1]
  OBVIOUS
<1>. HIDE DEF U
<1>7. ASSUME NEW j \in 1..(n + 1)
      PROVE  U[j] = IF j = 1 THEN g.deltas[1].text.to ELSE Patched(U[j - 1], g.deltas[j].text)
  <2>1. CASE j = 1
    BY <1>3, <1>6, <2>1 DEF Whole
  <2>2. CASE j # 1
    <3>1. j - 1 \in 1..n /\ g.deltas[j] = f.deltas[j - 1]
      BY <1>3, <1>4, <2>2
    <3>2. j - 1 \in 1..(n + 1)
      BY <1>1, <3>1
    <3>3. U[j - 1] = IF j - 1 = 1 THEN w ELSE T[(j - 1) - 1]
      BY <1>6, <3>2
    <3>4. T[j - 1] = Patched(IF j - 1 = 1 THEN w ELSE T[(j - 1) - 1], f.deltas[j - 1].text)
      BY <1>1, <3>1 DEF Leads
    <3>5. QED
      BY <1>6, <2>2, <3>1, <3>3, <3>4
  <2>3. QED
    BY <2>1, <2>2
<1>8. History(g, U)
  BY <1>3, <1>5, <1>7 DEF History
<1>9. Flat(g)
  <2>1. ASSUME NEW i \in 1..(n + 1), NEW j \in 1..(n + 1), i < j
        PROVE  /\ g.deltas[j].num[1] <= g.deltas[i].num[1]
               /\ g.deltas[j].num[2] <= g.deltas[i].num[2]
    <3>1. j # 1 /\ j - 1 \in 1..n /\ g.deltas[j] = f.deltas[j - 1]
      BY <1>1, <1>3, <1>4, <2>1
    <3>2. CASE i = 1
      <4>1. f.deltas[j - 1].num \in Listed(f)
        BY <1>1, <3>1, DeltasAre
      <4>2. QED
        BY <1>3, <3>1, <3>2, <4>1
    <3>3. CASE i # 1
      <4>1. i - 1 \in 1..n /\ g.deltas[i] = f.deltas[i - 1] /\ i - 1 < j - 1
        BY <1>3, <1>4, <2>1, <3>3
      <4>2. QED
        BY <1>1, <3>1, <4>1 DEF Flat
    <3>4. QED
      BY <3>2, <3>3
  <2>2. QED
    BY <1>3, <2>1 DEF Flat
<1>10. \A k \in 1..(n + 1) : GetRev(g, g.deltas[k].num) = U[k]
  BY <1>3, <1>8, <1>9, IntactGets
<1>11. GetRev(g, r) = w
  <2>1. 1 \in 1..(n + 1)
    BY <1>1
  <2>2. QED
    BY <1>3, <1>6, <1>10, <2>1
<1>12. ASSUME NEW i \in 1..n
       PROVE  GetRev(g, f.deltas[i].num) = T[i]
  <2>1. i + 1 \in 1..(n + 1) /\ i + 1 # 1 /\ (i + 1) - 1 = i
    BY <1>1
  <2>2. QED
    BY <1>3, <1>6, <1>10, <2>1
<1>13. QED
  BY <1>1, <1>3, <1>8, <1>9, <1>11, <1>12 DEF Intact

-----------------------------------------------------------------------------
(* The loop of rcs -o                                                      *)

NextLeft(f, gone, before, n) ==
    IF f.deltas[n].num \in gone THEN RevRemove(before, f.deltas[n].num) ELSE before

LeftOf(f, gone) ==
    CHOOSE left : left = [n \in 0..Len(f.deltas) |->
                            IF n = 0 THEN f ELSE NextLeft(f, gone, left[n - 1], n)]

LEMMA LeftIsLeftOf == \A gone : Left(gone) = LeftOf(rcs, gone)
  BY DEF Left, LeftOf, NextLeft

LeftFor(f, gone, k) ==
    \E g : g = [n \in 0..k |-> IF n = 0 THEN f ELSE NextLeft(f, gone, g[n - 1], n)]

LEMMA LeftForOneMore ==
    ASSUME NEW f, NEW gone, NEW k \in Nat \ {0}, LeftFor(f, gone, k - 1)
    PROVE  LeftFor(f, gone, k)
<1>1. PICK g : g = [n \in 0..(k - 1) |->
                      IF n = 0 THEN f ELSE NextLeft(f, gone, g[n - 1], n)]
  BY DEF LeftFor
<1>. DEFINE h == [n \in 0..k |-> IF n = 0 THEN f ELSE NextLeft(f, gone, g[n - 1], n)]
<1>2. \A n \in 0..(k - 1) : g[n] = IF n = 0 THEN f ELSE NextLeft(f, gone, g[n - 1], n)
  BY <1>1
<1>3. \A n \in 0..(k - 1) : h[n] = g[n]
  BY <1>2
<1>4. \A n \in 0..k : n # 0 => n - 1 \in 0..(k - 1)
  OBVIOUS
<1>5. \A n \in 0..k : h[n] = IF n = 0 THEN f ELSE NextLeft(f, gone, g[n - 1], n)
  OBVIOUS
<1>. DEFINE e == [n \in 0..k |-> IF n = 0 THEN f ELSE NextLeft(f, gone, h[n - 1], n)]
<1>6. \A n \in 0..k : e[n] = h[n]
  <2>1. \A n \in 0..k : e[n] = IF n = 0 THEN f ELSE NextLeft(f, gone, h[n - 1], n)
    OBVIOUS
  <2>. HIDE DEF h, e
  <2>2. QED
    BY <1>3, <1>4, <1>5, <2>1
<1>7. h = [n \in 0..k |-> h[n]] /\ e = [n \in 0..k |-> e[n]]
  OBVIOUS
<1>8. h = e
  <2>. HIDE DEF h, e
  <2>1. QED
    BY <1>6, <1>7
<1>. HIDE DEF h
<1>9. QED
  BY <1>8 DEF LeftFor

LEMMA LeftOfIs ==
    ASSUME NEW f, Sound(f), NEW gone
    PROVE  /\ LeftOf(f, gone)[0] = f
           /\ \A n \in DOMAIN f.deltas :
                LeftOf(f, gone)[n] = NextLeft(f, gone, LeftOf(f, gone)[n - 1], n)
<1>. DEFINE m == Len(f.deltas)
            Bad == { k \in 0..m : ~LeftFor(f, gone, k) }
<1>1. m \in Nat /\ DOMAIN f.deltas = 1..m
  BY DeltasAre
<1>2. LeftFor(f, gone, 0)
  <2>. DEFINE g == [n \in 0..0 |-> f]
  <2>1. g = [n \in 0..0 |-> IF n = 0 THEN f ELSE NextLeft(f, gone, g[n - 1], n)]
    OBVIOUS
  <2>2. QED
    BY <2>1 DEF LeftFor
<1>3. Bad = {}
  <2>1. SUFFICES ASSUME Bad # {} PROVE FALSE
    OBVIOUS
  <2>2. Bad \subseteq Nat
    BY <1>1
  <2>. HIDE DEF Bad, m
  <2>3. PICK k \in Bad : \A j \in Bad : k <= j
    BY <2>1, <2>2, LeastNat
  <2>4. k \in 0..m /\ ~LeftFor(f, gone, k)
    BY <2>3 DEF Bad
  <2>5. k \in Nat \ {0} /\ k - 1 \in 0..m /\ ~(k <= k - 1)
    BY <1>1, <1>2, <2>4
  <2>6. LeftFor(f, gone, k - 1)
    BY <2>3, <2>5 DEF Bad
  <2>7. QED
    BY <2>4, <2>5, <2>6, LeftForOneMore
<1>4. LeftFor(f, gone, m)
  BY <1>1, <1>3
<1>5. LeftOf(f, gone) = [n \in 0..m |->
        IF n = 0 THEN f ELSE NextLeft(f, gone, LeftOf(f, gone)[n - 1], n)]
  BY <1>4 DEF LeftFor, LeftOf
<1>. HIDE DEF m
<1>6. \A n \in 0..m : LeftOf(f, gone)[n] =
        IF n = 0 THEN f ELSE NextLeft(f, gone, LeftOf(f, gone)[n - 1], n)
  BY <1>5
<1>7. 0 \in 0..m /\ \A n \in 1..m : n \in 0..m /\ n # 0
  BY <1>1
<1>8. QED
  BY <1>1, <1>6, <1>7

(* The revisions that the loop has passed are gone; nothing else changes.  *)
Passed(f, gone, n) == { f.deltas[j].num : j \in { k \in 1..n : f.deltas[k].num \in gone } }

SoundLeft(f, gone, n) ==
    LET g == LeftOf(f, gone)[n]
    IN  /\ Sound(g) /\ g.locks = f.locks /\ g.strict = f.strict
        /\ Listed(g) = Listed(f) \ Passed(f, gone, n)

LEMMA SoundLeftOneMore ==
    ASSUME NEW f, Sound(f), NEW gone, NEW n \in DOMAIN f.deltas, SoundLeft(f, gone, n - 1)
    PROVE  /\ SoundLeft(f, gone, n)
           /\ f.deltas[n].num \in Listed(LeftOf(f, gone)[n - 1])
<1>. DEFINE r == f.deltas[n].num
            g == LeftOf(f, gone)[n - 1]
            h == LeftOf(f, gone)[n]
<1>1. n \in Int /\ 1 <= n /\ \A j \in 1..n : j \in DOMAIN f.deltas
  BY DeltasAre
<1>2. h = NextLeft(f, gone, g, n)
  BY LeftOfIs
<1>3. r \in Listed(f)
  BY DeltasAre
<1>4. r \notin Passed(f, gone, n - 1)
  BY <1>1, DeltasAre DEF Passed
<1>5. Passed(f, gone, n) = Passed(f, gone, n - 1) \cup (IF r \in gone THEN {r} ELSE {})
  <2>. DEFINE A(k) == { j \in 1..k : f.deltas[j].num \in gone }
  <2>1. \A j : j \in 1..n <=> j \in 1..(n - 1) \/ j = n
    BY <1>1
  <2>2. \A j : j \in A(n) <=> j \in A(n - 1) \/ (j = n /\ r \in gone)
    BY <2>1
  <2>3. \A k : Passed(f, gone, k) = { f.deltas[j].num : j \in A(k) }
    BY DEF Passed
  <2>. HIDE DEF A
  <2>4. CASE r \in gone
    <3>1. A(n) = A(n - 1) \cup {n}
      BY <2>2, <2>4
    <3>2. QED
      BY <2>3, <2>4, <3>1
  <2>5. CASE r \notin gone
    <3>1. A(n) = A(n - 1)
      BY <2>2, <2>5
    <3>2. QED
      BY <2>3, <2>5, <3>1
  <2>6. QED
    BY <2>4, <2>5
<1>6. /\ Sound(g) /\ g.locks = f.locks /\ g.strict = f.strict
      /\ Listed(g) = Listed(f) \ Passed(f, gone, n - 1)
  BY DEF SoundLeft
<1>. HIDE DEF r, g, h
<1>7. r \in Listed(g)
  BY <1>3, <1>4, <1>6
<1>8. CASE r \in gone
  <2>1. PICK i \in DOMAIN g.deltas : g.deltas[i].num = r
    BY <1>7 DEF Listed, Range
  <2>2. h = RevRemove(g, g.deltas[i].num)
    BY <1>2, <1>8, <2>1 DEF NextLeft, r
  <2>3. /\ Sound(h) /\ Listed(h) = Listed(g) \ {g.deltas[i].num}
        /\ h.locks = g.locks /\ h.strict = g.strict
    BY <1>6, <2>2, RevRemoveIs
  <2>4. QED
    BY <1>5, <1>6, <1>7, <1>8, <2>1, <2>3 DEF SoundLeft, r, g, h
<1>9. CASE r \notin gone
  <2>1. h = g
    BY <1>2, <1>9 DEF NextLeft, r
  <2>2. QED
    BY <1>5, <1>6, <1>7, <1>9, <2>1 DEF SoundLeft, r, g, h
<1>10. QED
  BY <1>8, <1>9

LEMMA LeftIsSound ==
    ASSUME NEW f, Sound(f), NEW gone
    PROVE  \A n \in 0..Len(f.deltas) : SoundLeft(f, gone, n)
<1>. DEFINE m == Len(f.deltas)
            Bad == { k \in 0..m : ~SoundLeft(f, gone, k) }
<1>1. m \in Nat /\ DOMAIN f.deltas = 1..m
  BY DeltasAre
<1>2. SoundLeft(f, gone, 0)
  <2>1. Passed(f, gone, 0) = {}
    BY DEF Passed
  <2>2. QED
    BY <2>1, LeftOfIs DEF SoundLeft
<1>3. Bad = {}
  <2>1. SUFFICES ASSUME Bad # {} PROVE FALSE
    OBVIOUS
  <2>2. Bad \subseteq Nat
    BY <1>1
  <2>. HIDE DEF Bad, m
  <2>3. PICK k \in Bad : \A j \in Bad : k <= j
    BY <2>1, <2>2, LeastNat
  <2>4. k \in 0..m /\ ~SoundLeft(f, gone, k)
    BY <2>3 DEF Bad
  <2>5. k \in 1..m /\ k - 1 \in 0..m /\ ~(k <= k - 1)
    BY <1>1, <1>2, <2>4
  <2>6. SoundLeft(f, gone, k - 1)
    BY <2>3, <2>5 DEF Bad
  <2>7. QED
    BY <1>1, <2>4, <2>5, <2>6, SoundLeftOneMore
<1>4. QED
  BY <1>3

(* ... and what is left keeps its texts.                                   *)
IntactLeft(f, gone, n) ==
    LET g == LeftOf(f, gone)[n]
    IN  Intact(g) /\ \A r \in Listed(g) : GetRev(g, r) = GetRev(f, r)

LEMMA IntactLeftOneMore ==
    ASSUME NEW f, Intact(f), NEW gone, NEW n \in DOMAIN f.deltas, IntactLeft(f, gone, n - 1)
    PROVE  IntactLeft(f, gone, n)
<1>. DEFINE r == f.deltas[n].num
            g == LeftOf(f, gone)[n - 1]
            h == LeftOf(f, gone)[n]
<1>1. Sound(f) /\ n \in 0..Len(f.deltas) /\ n - 1 \in 0..Len(f.deltas)
  <2>1. Sound(f)
    BY DEF Intact
  <2>2. QED
    BY <2>1, DeltasAre
<1>2. h = NextLeft(f, gone, g, n)
  BY <1>1, LeftOfIs
<1>3. r \in Listed(g)
  <2>1. SoundLeft(f, gone, n - 1)
    BY <1>1, LeftIsSound
  <2>2. QED
    BY <1>1, <2>1, SoundLeftOneMore
<1>4. Intact(g) /\ \A q \in Listed(g) : GetRev(g, q) = GetRev(f, q)
  BY DEF IntactLeft
<1>. HIDE DEF r, g, h
<1>5. CASE r \in gone
  <2>1. PICK i \in DOMAIN g.deltas : g.deltas[i].num = r
    BY <1>3 DEF Listed, Range
  <2>2. h = RevRemove(g, g.deltas[i].num)
    BY <1>2, <1>5, <2>1 DEF NextLeft, r
  <2>3. Intact(h) /\ \A q \in Listed(h) : GetRev(h, q) = GetRev(g, q)
    BY <1>4, <2>2, RevRemoveKeeps
  <2>4. Listed(h) \subseteq Listed(g)
    BY <1>4, <2>2, RevRemoveIs DEF Intact
  <2>5. QED
    BY <1>4, <2>3, <2>4 DEF IntactLeft, g, h
<1>6. CASE r \notin gone
  <2>1. h = g
    BY <1>2, <1>6 DEF NextLeft, r
  <2>2. QED
    BY <1>4, <2>1 DEF IntactLeft, g, h
<1>7. QED
  BY <1>5, <1>6

LEMMA LeftIsIntact ==
    ASSUME NEW f, Intact(f), NEW gone
    PROVE  \A n \in 0..Len(f.deltas) : IntactLeft(f, gone, n)
<1>. DEFINE m == Len(f.deltas)
            Bad == { k \in 0..m : ~IntactLeft(f, gone, k) }
<1>1. m \in Nat /\ DOMAIN f.deltas = 1..m /\ Sound(f)
  <2>1. Sound(f)
    BY DEF Intact
  <2>2. QED
    BY <2>1, DeltasAre
<1>2. IntactLeft(f, gone, 0)
  BY <1>1, LeftOfIs DEF IntactLeft
<1>3. Bad = {}
  <2>1. SUFFICES ASSUME Bad # {} PROVE FALSE
    OBVIOUS
  <2>2. Bad \subseteq Nat
    BY <1>1
  <2>. HIDE DEF Bad, m
  <2>3. PICK k \in Bad : \A j \in Bad : k <= j
    BY <2>1, <2>2, LeastNat
  <2>4. k \in 0..m /\ ~IntactLeft(f, gone, k)
    BY <2>3 DEF Bad
  <2>5. k \in 1..m /\ k - 1 \in 0..m /\ ~(k <= k - 1)
    BY <1>1, <1>2, <2>4
  <2>6. IntactLeft(f, gone, k - 1)
    BY <2>3, <2>5 DEF Bad
  <2>7. QED
    BY <1>1, <2>4, <2>5, <2>6, IntactLeftOneMore
<1>4. QED
  BY <1>3

-----------------------------------------------------------------------------
(* What a command does to the file, the working files and what users have  *)
(* seen: the inductive invariant, and the kinds of step.                   *)

RcsInv ==
    /\ Sound(rcs) /\ IsInjective(rcs.locks)
    /\ work \in [Users -> Contents]
    /\ seen \in [Users -> SUBSET Listed(rcs)]
    /\ stopped \in BOOLEAN

Same(f) ==
    /\ rcs'.head = f.head /\ rcs'.deltas = f.deltas
    /\ Sound(rcs') /\ IsInjective(rcs'.locks)

(* u's command ends with the revisions of f and has shown u one of them.   *)
Finished(f, u) ==
    /\ Same(f) /\ rcs'.strict = f.strict
    /\ \E q \in Listed(f) :
        /\ Range(rcs'.locks) \subseteq Range(f.locks) \cup {Lock(u, q)}
        /\ seen' = [seen EXCEPT ![u] = @ \cup {q}]
    /\ work' \in [Users -> Contents]
    /\ \A v \in Users : work'[v] = NoText /\ work[v] # NoText =>
                            v = u /\ GetRev(f, f.head) = work[u]
    /\ stopped' \in BOOLEAN

(* u has put r, and no other revision, on top.                             *)
NewHead(f, u, r) ==
    /\ Sound(f) /\ IsInjective(f.locks)
    /\ f.strict = rcs.strict /\ Range(f.locks) \subseteq Range(rcs.locks)
    /\ Listed(f) = Listed(rcs) \cup {r} /\ r \notin Listed(rcs) /\ f.head = r
    /\ GetRev(f, r) = work[u]
    /\ rcs.deltas # << >> => CheckLock(u)

KeepsTexts(f) == Intact(f) /\ \A q \in Listed(rcs) \cap Listed(f) : GetRev(f, q) = GetRev(rcs, q)

AddsTo(f, r) ==
    MayMishap \cap {"empty", "number"} = {} /\ Intact(rcs) =>
        /\ KeepsTexts(f) /\ GetRev(f, r) \in Texts
        /\ \A q \in Listed(rcs) : Above(r, q)

Tended(u) == Finished(rcs, u)

CheckedIn(u) ==
    \E r \in Numbers : \E f : NewHead(f, u, r) /\ AddsTo(f, r) /\ Finished(f, u)

Worked(u) ==
    /\ \E t \in Contents \ {NoText} : work' = [work EXCEPT ![u] = t]
    /\ stopped' \in BOOLEAN /\ UNCHANGED << rcs, seen >>

(* u's working file is gone, and the file was not written.                 *)
Spoilt(u) ==
    /\ work' = [work EXCEPT ![u] = NoText]
    /\ stopped' = TRUE /\ UNCHANGED << rcs, seen >>

(* The file was removed when it had to be copied.                          *)
Vanished ==
    /\ "copy" \in MayMishap /\ rcs' = NoFile
    /\ seen' = [v \in Users |-> {}]
    /\ work' \in [Users -> Contents] /\ stopped' \in BOOLEAN

Relocks ==
    /\ Same(rcs) /\ UNCHANGED << work, seen >> /\ stopped' \in BOOLEAN
    /\ \A l \in Range(rcs'.locks) :
        \/ l \in Range(rcs.locks)
        \/ /\ l.user \in Users /\ l.num \in Listed(rcs)
           /\ l.num \notin seen[l.user] => "unseen" \in MayMishap

Outdated ==
    \E gone \in SUBSET Listed(rcs) :
        /\ Sound(rcs') /\ IsInjective(rcs'.locks) /\ rcs'.locks = rcs.locks
        /\ Listed(rcs') = Listed(rcs) \ gone
        /\ "locked" \notin MayMishap => \A l \in Range(rcs.locks) : l.num \notin gone
        /\ Intact(rcs) => KeepsTexts(rcs')
        /\ seen' = [u \in Users |-> seen[u] \ gone] /\ UNCHANGED work
        /\ stopped' \in BOOLEAN

LEMMA OutcomesAre ==
    ASSUME NEW disk, NEW f, NEW g, NEW x \in Outcomes(disk, f, g)
    PROVE  /\ x.ok \in BOOLEAN
           /\ \/ x.file = disk /\ (x.ok => f = g)
              \/ x.file = g /\ f # g
              \/ x.file = NoFile /\ "copy" \in MayMishap
<1>1. CASE f = g
  <2>1. x = Outcome(disk, TRUE)
    BY <1>1 DEF Outcomes
  <2>2. x.file = disk /\ x.ok = TRUE
    BY <2>1 DEF Outcome
  <2>3. QED
    BY <1>1, <2>2
<1>2. CASE f # g
  <2>1. \/ x = Outcome(g, TRUE) \/ x = Outcome(disk, FALSE) \/ x = Outcome(g, FALSE)
        \/ "copy" \in MayMishap /\ (x = Outcome(NoFile, TRUE) \/ x = Outcome(NoFile, FALSE))
    BY <1>2 DEF Outcomes
  <2>2. \A file : \A ok \in BOOLEAN :
          x = Outcome(file, ok) => x.file = file /\ (x.ok <=> ok) /\ x.ok \in BOOLEAN
    BY DEF Outcome
  <2>3. CASE x = Outcome(g, TRUE) \/ x = Outcome(g, FALSE)
    BY <1>2, <2>2, <2>3
  <2>4. CASE x = Outcome(disk, FALSE)
    BY <2>2, <2>4
  <2>5. CASE "copy" \in MayMishap /\ (x = Outcome(NoFile, TRUE) \/ x = Outcome(NoFile, FALSE))
    BY <2>2, <2>5
  <2>6. QED
    BY <2>1, <2>3, <2>4, <2>5
<1>3. QED
  BY <1>1, <1>2

LEMMA WrittenIs ==
    ASSUME NEW disk, NEW f, NEW g, Written(disk, f, g)
    PROVE  /\ stopped' \in BOOLEAN
           /\ \/ rcs' = disk /\ (stopped' \/ f = g)
              \/ rcs' = g
              \/ rcs' = NoFile /\ "copy" \in MayMishap
<1>1. PICK x \in Outcomes(disk, f, g) : rcs' = x.file /\ stopped' = ~x.ok
  BY DEF Written
<1>2. x.ok \in BOOLEAN
  BY OutcomesAre
<1>3. stopped' \in BOOLEAN /\ (stopped' \/ x.ok)
  BY <1>1, <1>2
<1>4. QED
  BY <1>1, <1>3, OutcomesAre

LEMMA NothingListed == Listed(NoFile) = {}
  BY DEF Listed, NoFile, Range

LEMMA VanishedIs ==
    ASSUME NEW had, Remembered(had), rcs' = NoFile, "copy" \in MayMishap,
           work' \in [Users -> Contents], stopped' \in BOOLEAN
    PROVE  Vanished
<1>1. seen' = [v \in Users |-> had[v] \cap Listed(rcs')]
  BY DEF Remembered
<1>2. seen' = [v \in Users |-> {}]
  BY <1>1, NothingListed
<1>3. QED
  BY <1>2 DEF Vanished

LEMMA RememberedAll ==
    ASSUME RcsInv, Remembered(seen), Listed(rcs') = Listed(rcs)
    PROVE  seen' = seen
<1>1. seen' = [v \in Users |-> seen[v] \cap Listed(rcs)]
  BY DEF Remembered
<1>2. QED
  BY <1>1 DEF RcsInv

LEMMA RememberedToo ==
    ASSUME RcsInv, NEW u \in Users, NEW r, Remembered(SeenToo(u, r)),
           Listed(rcs) \subseteq Listed(rcs')
    PROVE  /\ r \in Listed(rcs') => seen' = [seen EXCEPT ![u] = @ \cup {r}]
           /\ r \notin Listed(rcs') => seen' = seen
<1>. DEFINE had == [seen EXCEPT ![u] = seen[u] \cup {r}]
<1>1. seen' = [v \in Users |-> had[v] \cap Listed(rcs')]
  BY DEF Remembered, SeenToo
<1>2. seen \in [Users -> SUBSET Listed(rcs')]
  BY DEF RcsInv
<1>3. CASE r \in Listed(rcs')
  <2>1. had \in [Users -> SUBSET Listed(rcs')]
    BY <1>2, <1>3
  <2>. HIDE DEF had
  <2>2. seen' = had
    BY <1>1, <2>1
  <2>3. QED
    BY <1>3, <2>2 DEF had
<1>4. CASE r \notin Listed(rcs')
  <2>1. \A v \in Users : had[v] \cap Listed(rcs') = seen[v]
    BY <1>2, <1>4
  <2>. HIDE DEF had
  <2>2. QED
    BY <1>1, <1>2, <1>4, <2>1
<1>5. QED
  BY <1>3, <1>4

LEMMA SameAsIs ==
    ASSUME RcsInv
    PROVE  /\ rcs' = rcs => Same(rcs)
           /\ Same(rcs) => Listed(rcs') = Listed(rcs)
  BY DEF RcsInv, Same, Listed

LEMMA NoFileIs == Sound(NoFile) /\ IsInjective(NoFile.locks) /\ NoFile.locks = << >>
<1>1. << >> \in Seq(Delts) /\ << >> \in Seq(Locks) /\ DOMAIN << >> = {}
  OBVIOUS
<1>2. NoRev \in Revs
  BY DEF NoRev, Revs
<1>3. /\ NoFile.deltas = << >> /\ NoFile.locks = << >> /\ NoFile.head = NoRev
      /\ NoFile \in Files
  BY <1>1, <1>2 DEF Files, NoFile
<1>4. Sound(NoFile)
  BY <1>1, <1>3 DEF Sound, Headed, Ordered, Linked
<1>5. QED
  BY <1>1, <1>3, <1>4 DEF IsInjective

LEMMA ChangedLocks ==
    ASSUME NEW f, Sound(f), NEW g, g \in Files, g.head = f.head, g.deltas = f.deltas
    PROVE  Sound(g)
  BY DEF Sound, Headed, Ordered, Linked

LEMMA FetchedIs ==
    ASSUME RcsInv, NEW f, Sound(f), IsInjective(f.locks), Listed(rcs) \subseteq Listed(f),
           NEW disk, disk = f \/ (disk = NoFile /\ "copy" \in MayMishap),
           NEW u \in Users, NEW r, NEW latest, ~Refused(f, u, r, latest),
           NEW lock, Fetched(disk, f, u, r, lock)
    PROVE  Finished(f, u) \/ Vanished
<1>. DEFINE q == Target(f, r)
            g == Relocked(f, u, r, lock)
<1>1. q \in Listed(f) /\ GetRev(f, q) # NoText
  BY DEF Refused
<1>2. q \in Revs
  <2>1. q \in Numbers
    BY <1>1, AtIs
  <2>2. QED
    BY <2>1, RcsAssumption DEF Numbers, Revs
<1>. HIDE DEF q
<1>3. g = CASE lock = "lock" -> LockAdd(f, u, q)
            [] lock = "unlock" -> LockRemove(f, u, q)
            [] OTHER -> f
  BY DEF Relocked, q
<1>. HIDE DEF g
<1>4. /\ Sound(g) /\ IsInjective(g.locks) /\ g.head = f.head /\ g.deltas = f.deltas
      /\ g.strict = f.strict
      /\ Range(g.locks) \subseteq Range(f.locks) \cup {Lock(u, q)}
  <2>1. CASE lock = "lock"
    <3>1. g = LockAdd(f, u, q)
      BY <1>3, <2>1
    <3>2. QED
      BY <1>2, <3>1, LockAddIs
  <2>2. CASE lock = "unlock"
    <3>1. g = LockRemove(f, u, q)
      BY <1>3, <2>2
    <3>2. QED
      BY <3>1, LockRemoveIs
  <2>3. CASE lock \notin {"lock", "unlock"}
    BY <1>3, <2>3
  <2>4. QED
    BY <2>1, <2>2, <2>3
<1>5. /\ Written(disk, f, g) /\ Remembered(SeenToo(u, q))
      /\ work' = [work EXCEPT ![u] = GetRev(f, q)]
  BY DEF Fetched, q, g
<1>6. work' \in [Users -> Contents]
  BY <1>5, GetRevType DEF RcsInv
<1>7. /\ stopped' \in BOOLEAN
      /\ rcs' = f \/ rcs' = g \/ (rcs' = NoFile /\ "copy" \in MayMishap)
  BY <1>5, WrittenIs
<1>8. ASSUME rcs' = f \/ rcs' = g
      PROVE  Finished(f, u)
  <2>1. /\ Same(f) /\ rcs'.strict = f.strict
        /\ Range(rcs'.locks) \subseteq Range(f.locks) \cup {Lock(u, q)}
    BY <1>4, <1>8 DEF Same
  <2>2. Listed(rcs') = Listed(f)
    BY <2>1 DEF Same, Listed
  <2>3. seen' = [seen EXCEPT ![u] = @ \cup {q}]
    BY <1>1, <1>5, <2>2, RememberedToo
  <2>4. \A v \in Users : work'[v] = NoText /\ work[v] # NoText =>
          v = u /\ GetRev(f, f.head) = work[u]
    BY <1>1, <1>5 DEF RcsInv
  <2>5. QED
    BY <1>1, <1>6, <1>7, <2>1, <2>3, <2>4 DEF Finished
<1>9. ASSUME rcs' = NoFile, "copy" \in MayMishap
      PROVE  Vanished
  BY <1>5, <1>6, <1>7, <1>9, VanishedIs
<1>10. QED
  BY <1>7, <1>8, <1>9

LEMMA GivenUpIs ==
    ASSUME RcsInv, NEW f, Sound(f), IsInjective(f.locks), Listed(rcs) \subseteq Listed(f),
           NEW u \in Users, NEW r \in Listed(f), NEW latest, NEW lock,
           f # rcs => r \notin Listed(rcs),
           GetRev(f, f.head) = work[u], GivenUp(f, u, r, latest, lock)
    PROVE  Finished(f, u) \/ Spoilt(u) \/ Vanished
<1>1. PICK x \in Outcomes(rcs, rcs, f) :
        IF x.ok /\ lock # "none" /\ ~Refused(f, u, r, latest)
        THEN Fetched(x.file, f, u, r, lock)
        ELSE /\ rcs' = x.file /\ stopped' = ~x.ok
             /\ work' = [work EXCEPT ![u] = NoText]
             /\ Remembered(SeenToo(u, r))
  BY DEF GivenUp
<1>2. /\ x.ok \in BOOLEAN
      /\ \/ x.file = rcs /\ (x.ok => f = rcs)
         \/ x.file = f /\ f # rcs
         \/ x.file = NoFile /\ "copy" \in MayMishap
  BY OutcomesAre
<1>3. CASE x.ok /\ lock # "none" /\ ~Refused(f, u, r, latest)
  <2>1. Fetched(x.file, f, u, r, lock)
    BY <1>1, <1>3
  <2>2. x.file = f \/ (x.file = NoFile /\ "copy" \in MayMishap)
    BY <1>2, <1>3
  <2>3. QED
    BY <1>3, <2>1, <2>2, FetchedIs
<1>4. CASE ~(x.ok /\ lock # "none" /\ ~Refused(f, u, r, latest))
  <2>1. /\ rcs' = x.file /\ stopped' = ~x.ok
        /\ work' = [work EXCEPT ![u] = NoText]
        /\ Remembered(SeenToo(u, r))
    BY <1>1, <1>4
  <2>2. work' \in [Users -> Contents] /\ stopped' \in BOOLEAN
    BY <1>2, <2>1 DEF RcsInv, Contents
  <2>3. \A v \in Users : work'[v] = NoText /\ work[v] # NoText => v = u
    BY <2>1 DEF RcsInv
  <2>4. CASE rcs' = f
    <3>1. seen' = [seen EXCEPT ![u] = @ \cup {r}]
      BY <2>1, <2>4, RememberedToo
    <3>2. Same(f) /\ rcs'.strict = f.strict
      BY <2>4 DEF Same
    <3>3. QED
      BY <2>2, <2>3, <2>4, <3>1, <3>2 DEF Finished
  <2>5. CASE rcs' = rcs /\ ~x.ok /\ f # rcs
    <3>1. seen' = seen
      BY <2>1, <2>5, RememberedToo
    <3>2. stopped' = TRUE
      BY <2>1, <2>5
    <3>3. QED
      BY <2>1, <2>5, <3>1, <3>2 DEF Spoilt
  <2>6. CASE rcs' = NoFile /\ "copy" \in MayMishap
    BY <2>1, <2>2, <2>6, VanishedIs
  <2>7. QED
    BY <1>2, <2>1, <2>4, <2>5, <2>6
<1>5. QED
  BY <1>3, <1>4

LEMMA ClosedIs ==
    ASSUME RcsInv, NEW f, Sound(f), IsInjective(f.locks), Listed(rcs) \subseteq Listed(f),
           NEW u \in Users, NEW r \in Listed(f), r \notin Listed(rcs), Closed(f, u, r)
    PROVE  Finished(f, u) \/ Relocks \/ Vanished
<1>1. /\ Written(rcs, rcs, f) /\ Remembered(SeenToo(u, r)) /\ UNCHANGED work
  BY DEF Closed
<1>2. /\ stopped' \in BOOLEAN
      /\ rcs' = rcs \/ rcs' = f \/ (rcs' = NoFile /\ "copy" \in MayMishap)
  BY <1>1, WrittenIs
<1>3. work' \in [Users -> Contents]
  BY <1>1 DEF RcsInv
<1>4. CASE rcs' = f
  <2>1. seen' = [seen EXCEPT ![u] = @ \cup {r}]
    BY <1>1, <1>4, RememberedToo
  <2>2. Same(f) /\ rcs'.strict = f.strict
    BY <1>4 DEF Same
  <2>3. QED
    BY <1>1, <1>2, <1>3, <1>4, <2>1, <2>2 DEF Finished
<1>5. CASE rcs' = rcs
  <2>1. seen' = seen
    BY <1>1, <1>5, RememberedToo
  <2>2. QED
    BY <1>1, <1>2, <1>5, <2>1, SameAsIs DEF Relocks
<1>6. CASE rcs' = NoFile /\ "copy" \in MayMishap
  BY <1>1, <1>2, <1>3, <1>6, VanishedIs
<1>7. QED
  BY <1>2, <1>4, <1>5, <1>6

(* The locks are written, or the strictness, and nothing else has changed. *)
LEMMA RewrittenIs ==
    ASSUME RcsInv, NEW g, Sound(g), IsInjective(g.locks),
           g.head = rcs.head, g.deltas = rcs.deltas,
           \A l \in Range(g.locks) :
              \/ l \in Range(rcs.locks)
              \/ /\ l.user \in Users /\ l.num \in Listed(rcs)
                 /\ l.num \notin seen[l.user] => "unseen" \in MayMishap,
           Written(rcs, rcs, g), Remembered(seen), UNCHANGED work
    PROVE  Relocks \/ Vanished
<1>1. /\ stopped' \in BOOLEAN
      /\ rcs' = rcs \/ rcs' = g \/ (rcs' = NoFile /\ "copy" \in MayMishap)
  BY WrittenIs
<1>2. CASE rcs' = rcs \/ rcs' = g
  <2>1. Same(rcs)
    BY <1>2 DEF Same, RcsInv
  <2>2. seen' = seen
    BY <2>1, SameAsIs, RememberedAll
  <2>3. QED
    BY <1>1, <1>2, <2>1, <2>2 DEF Relocks
<1>3. CASE rcs' = NoFile /\ "copy" \in MayMishap
  <2>1. work' \in [Users -> Contents]
    BY DEF RcsInv
  <2>2. QED
    BY <1>1, <1>3, <2>1, VanishedIs
<1>4. QED
  BY <1>1, <1>2, <1>3

(* A check-in, up to the point where its new file is made.                 *)
LEMMA CheckInFirstIs ==
    ASSUME RcsInv, NEW u \in Users, NEW given, MayCheckIn(u, given), rcs.deltas = << >>,
           NEW f, f = RevAdd(rcs, NewRev(given), Whole(work[u]))
    PROVE  NewHead(f, u, NewRev(given)) /\ AddsTo(f, NewRev(given))
<1>. DEFINE r == NewRev(given)
            w == work[u]
<1>1. r \in Numbers /\ w # NoText /\ w \in Contents
  BY DEF MayCheckIn, RcsInv
<1>2. Whole(w) \in Scripts
  BY <1>1 DEF Whole, Scripts, Contents
<1>3. Sound(rcs) /\ IsInjective(rcs.locks) /\ Listed(rcs) = {}
  BY HeadIs DEF RcsInv
<1>. HIDE DEF r, w
<1>4. f = RevAdd(rcs, r, Whole(w))
  BY DEF r, w
<1>5. /\ Sound(f) /\ Listed(f) = Listed(rcs) \cup {r} /\ r \notin Listed(rcs)
      /\ f.head = r /\ f.locks = rcs.locks /\ f.strict = rcs.strict
      /\ f.deltas # << >> /\ f.deltas[1].text = Whole(w)
  BY <1>1, <1>2, <1>3, <1>4, RevAddIs
<1>6. GetRev(f, r) = w
  BY <1>5, GetRevHead DEF Whole
<1>7. NewHead(f, u, r)
  BY <1>3, <1>5, <1>6 DEF NewHead, w
<1>8. ASSUME MayMishap \cap {"empty", "number"} = {}
      PROVE  Intact(f) /\ w \in Texts
  <2>1. w \in Texts \ {Empty}
    BY <1>1, <1>8 DEF MayCheckIn, Contents, w
  <2>2. DOMAIN rcs.deltas = {}
    OBVIOUS
  <2>. DEFINE T == [i \in {} |-> w]
  <2>3. T \in [DOMAIN rcs.deltas -> Texts \ {Empty}]
    BY <2>2
  <2>. HIDE DEF T
  <2>4. Flat(rcs)
    BY <2>2 DEF Flat
  <2>5. Leads(rcs, T, w)
    BY <2>2, <2>3 DEF Leads
  <2>6. /\ rcs.deltas # << >> => Above(r, rcs.head)
        /\ \A q \in Listed(rcs) : q[1] <= r[1] /\ q[2] <= r[2]
    BY <1>3
  <2>7. Sound(rcs)
    BY <1>3
  <2>8. Intact(f)
    BY <1>1, <1>4, <2>1, <2>4, <2>5, <2>6, <2>7, RevAddKeeps
  <2>9. QED
    BY <2>1, <2>8
<1>9. AddsTo(f, r)
  BY <1>3, <1>6, <1>8 DEF AddsTo, KeepsTexts
<1>10. QED
  BY <1>7, <1>9 DEF r

LEMMA CheckInUpdateIs ==
    ASSUME RcsInv, NEW u \in Users, NEW given, MayUpdate(u, given),
           NEW f, f = RevAdd(TextSet(LockRemove(rcs, u, rcs.head), rcs.head,
                                     Diff(work[u], GetRev(rcs, rcs.head))),
                             NewRev(given), Whole(work[u]))
    PROVE  NewHead(f, u, NewRev(given)) /\ AddsTo(f, NewRev(given))
<1>. DEFINE r == NewRev(given)
            w == work[u]
            h == rcs.head
            t == GetRev(rcs, h)
            e == LockRemove(rcs, u, h)
            g == TextSet(e, h, Diff(w, t))
<1>1. r \in Numbers /\ w # NoText /\ w \in Contents
  BY DEF MayUpdate, MayCheckIn, RcsInv
<1>2. Whole(w) \in Scripts /\ Diff(w, t) \in Scripts
  BY <1>1, GetRevType DEF Whole, Diff, Scripts, Contents, RcsInv
<1>3. /\ Sound(rcs) /\ IsInjective(rcs.locks) /\ rcs.deltas # << >>
      /\ 1 \in DOMAIN rcs.deltas /\ h = rcs.deltas[1].num /\ h \in Numbers /\ h # NoRev
  BY HeadIs DEF RcsInv, MayUpdate
<1>4. Above(r, h)
  <2>1. CASE given # NoRev
    BY <2>1 DEF MayUpdate, NewRev
  <2>2. CASE given = NoRev
    <3>1. r = Inc(h)
      BY <1>3, <2>2 DEF NewRev
    <3>. HIDE DEF r, h
    <3>2. QED
      BY <1>3, <3>1, RcsAssumption DEF Inc, Above, Numbers
  <2>3. QED
    BY <2>1, <2>2
<1>5. CheckLock(u)
  BY DEF MayUpdate
<1>6. MayMishap \cap {"empty", "number"} = {} =>
        w \in Texts \ {Empty} /\ \A q \in Listed(rcs) : ~(r[1] < q[1] \/ r[2] < q[2])
  BY <1>1 DEF MayUpdate, MayCheckIn, Contents, Beyond
<1>7. f = RevAdd(g, r, Whole(w))
  OBVIOUS
<1>8. /\ Sound(e) /\ IsInjective(e.locks)
      /\ e.head = rcs.head /\ e.deltas = rcs.deltas /\ e.strict = rcs.strict
      /\ Range(e.locks) \subseteq Range(rcs.locks)
  <2>1. e = LockRemove(rcs, u, h)
    OBVIOUS
  <2>. HIDE DEF e
  <2>2. QED
    BY <1>3, <2>1, LockRemoveIs
<1>9. g = TextSet(e, h, Diff(w, t))
  OBVIOUS
<1>. HIDE DEF r, w, t, e, g
<1>10. /\ Sound(g) /\ Listed(g) = Listed(e)
       /\ g.head = e.head /\ g.locks = e.locks /\ g.strict = e.strict
       /\ Len(g.deltas) = Len(e.deltas) /\ DOMAIN g.deltas = DOMAIN e.deltas
       /\ \A j \in DOMAIN e.deltas :
            /\ g.deltas[j].num = e.deltas[j].num
            /\ g.deltas[j].text = IF j = 1 THEN Diff(w, t) ELSE e.deltas[j].text
  <2>1. 1 \in DOMAIN e.deltas /\ g = TextSet(e, e.deltas[1].num, Diff(w, t))
    BY <1>3, <1>8, <1>9
  <2>2. QED
    BY <1>2, <1>8, <2>1, TextSetIs
<1>11. Listed(g) = Listed(rcs)
  BY <1>8, <1>10 DEF Listed
<1>12. Above(r, g.head)
  BY <1>4, <1>8, <1>10
<1>13. /\ Sound(f) /\ Listed(f) = Listed(g) \cup {r} /\ r \notin Listed(g)
       /\ f.head = r /\ f.locks = g.locks /\ f.strict = g.strict
       /\ f.deltas # << >> /\ f.deltas[1].text = Whole(w)
  BY <1>1, <1>2, <1>7, <1>10, <1>12, RevAddIs
<1>14. GetRev(f, r) = w
  BY <1>13, GetRevHead DEF Whole
<1>15. NewHead(f, u, r)
  BY <1>5, <1>8, <1>10, <1>11, <1>13, <1>14 DEF NewHead, w
<1>16. ASSUME MayMishap \cap {"empty", "number"} = {}, Intact(rcs)
       PROVE  KeepsTexts(f) /\ w \in Texts
  <2>1. PICK T : History(rcs, T)
    BY <1>16 DEF Intact
  <2>2. Flat(rcs)
    BY <1>16 DEF Intact
  <2>3. \A k \in DOMAIN rcs.deltas : GetRev(rcs, rcs.deltas[k].num) = T[k]
    BY <1>3, <2>1, <2>2, IntactGets
  <2>4. t = T[1]
    BY <1>3, <2>3 DEF t
  <2>5. Flat(g)
    BY <1>8, <1>10, <2>2 DEF Flat
  <2>6. Leads(g, T, w)
    <3>1. T \in [DOMAIN g.deltas -> Texts \ {Empty}]
      BY <1>8, <1>10, <2>1 DEF History
    <3>2. ASSUME NEW i \in DOMAIN g.deltas
          PROVE  T[i] = Patched(IF i = 1 THEN w ELSE T[i - 1], g.deltas[i].text)
      <4>1. CASE i = 1
        <5>1. Patched(w, Diff(w, t)) = t
          BY DEF Patched, Diff
        <5>2. g.deltas[1].text = Diff(w, t)
          BY <1>3, <1>8, <1>10
        <5>3. QED
          BY <2>4, <4>1, <5>1, <5>2
      <4>2. CASE i # 1
        <5>1. i \in DOMAIN rcs.deltas /\ g.deltas[i].text = rcs.deltas[i].text
          BY <1>8, <1>10, <4>2
        <5>2. T[i] = Patched(T[i - 1], rcs.deltas[i].text)
          BY <2>1, <4>2, <5>1 DEF History
        <5>3. QED
          BY <4>2, <5>1, <5>2
      <4>3. QED
        BY <4>1, <4>2
    <3>3. QED
      BY <3>1, <3>2 DEF Leads
  <2>7. \A q \in Listed(g) : q[1] <= r[1] /\ q[2] <= r[2]
    <3>1. \A q \in Listed(g) : q \in Numbers
      BY <1>10, AtIs
    <3>2. QED
      BY <1>1, <1>6, <1>11, <1>16, <3>1, RcsAssumption DEF Numbers
  <2>8. w \in Texts \ {Empty}
    BY <1>6, <1>16
  <2>9. /\ Intact(f)
        /\ \A i \in DOMAIN g.deltas : GetRev(f, g.deltas[i].num) = T[i]
    BY <1>1, <1>7, <1>10, <1>12, <2>5, <2>6, <2>7, <2>8, RevAddKeeps
  <2>10. ASSUME NEW q \in Listed(rcs)
         PROVE  GetRev(f, q) = GetRev(rcs, q)
    <3>1. PICK i \in DOMAIN rcs.deltas : rcs.deltas[i].num = q
      BY DEF Listed, Range
    <3>2. i \in DOMAIN g.deltas /\ g.deltas[i].num = q
      BY <1>8, <1>10, <3>1
    <3>3. QED
      BY <2>3, <2>9, <3>1, <3>2
  <2>11. QED
    BY <2>8, <2>9, <2>10 DEF KeepsTexts
<1>17. \A q \in Listed(rcs) : Above(r, q)
  <2>1. ASSUME NEW q \in Listed(rcs)
        PROVE  Above(r, q)
    <3>1. PICK i \in DOMAIN rcs.deltas : rcs.deltas[i].num = q
      BY DEF Listed, Range
    <3>2. CASE i = 1
      BY <1>3, <1>4, <3>1, <3>2
    <3>3. CASE i # 1
      <4>1. 1 < i
        BY <1>3, <3>3, DeltasAre
      <4>2. Above(h, q)
        BY <1>3, <3>1, <4>1 DEF Sound, Ordered
      <4>3. q \in Numbers
        BY <1>3, AtIs
      <4>4. QED
        BY <1>1, <1>3, <1>4, <4>2, <4>3, AboveTrans
    <3>4. QED
      BY <3>2, <3>3
  <2>2. QED
    BY <2>1
<1>18. AddsTo(f, r)
  BY <1>14, <1>16, <1>17 DEF AddsTo
<1>19. QED
  BY <1>15, <1>18 DEF r

LEMMA CheckInIs ==
    ASSUME RcsInv, NEW u \in Users, CheckIn(u)
    PROVE  Tended(u) \/ CheckedIn(u) \/ Spoilt(u) \/ Relocks \/ Vanished
<1>1. Sound(rcs) /\ IsInjective(rcs.locks)
  BY DEF RcsInv
<1>2. ASSUME NEW f, NEW r, NEW latest, NEW then,
             NewHead(f, u, r), AddsTo(f, r), r \in Numbers,
             IF then = "symbol" THEN Closed(f, u, r) ELSE GivenUp(f, u, r, latest, then)
      PROVE  CheckedIn(u) \/ Spoilt(u) \/ Relocks \/ Vanished
  <2>1. /\ Sound(f) /\ IsInjective(f.locks) /\ r \in Listed(f)
        /\ Listed(rcs) \subseteq Listed(f) /\ r \notin Listed(rcs)
        /\ GetRev(f, f.head) = work[u]
    BY <1>2 DEF NewHead
  <2>2. Finished(f, u) \/ Spoilt(u) \/ Relocks \/ Vanished
    <3>1. CASE then = "symbol"
      BY <1>2, <2>1, <3>1, ClosedIs
    <3>2. CASE then # "symbol"
      BY <1>2, <2>1, <3>2, GivenUpIs
    <3>3. QED
      BY <3>1, <3>2
  <2>3. Finished(f, u) => CheckedIn(u)
    BY <1>2 DEF CheckedIn
  <2>4. QED
    BY <2>2, <2>3
<1>3. ASSUME NEW given, NEW then, CheckInFirst(u, given, then)
      PROVE  CheckedIn(u) \/ Spoilt(u) \/ Relocks \/ Vanished
  <2>. DEFINE f == RevAdd(rcs, NewRev(given), Whole(work[u]))
              r == NewRev(given)
  <2>1. /\ MayCheckIn(u, given) /\ rcs.deltas = << >>
        /\ IF then = "symbol" THEN Closed(f, u, r)
           ELSE GivenUp(f, u, r, given = NoRev, then)
    BY <1>3 DEF CheckInFirst
  <2>2. r \in Numbers
    BY <2>1 DEF MayCheckIn
  <2>3. NewHead(f, u, r) /\ AddsTo(f, r)
    BY <2>1, CheckInFirstIs
  <2>. HIDE DEF f, r
  <2>4. QED
    BY <1>2, <2>1, <2>2, <2>3
<1>4. ASSUME NEW given, NEW then, CheckInUpdate(u, given, then)
      PROVE  CheckedIn(u) \/ Spoilt(u) \/ Relocks \/ Vanished
  <2>. DEFINE f == RevAdd(TextSet(LockRemove(rcs, u, rcs.head), rcs.head,
                                  Diff(work[u], GetRev(rcs, rcs.head))),
                          NewRev(given), Whole(work[u]))
              r == NewRev(given)
  <2>1. /\ MayUpdate(u, given)
        /\ IF then = "symbol" THEN Closed(f, u, r)
           ELSE GivenUp(f, u, r, given = NoRev, then)
    BY <1>4 DEF CheckInUpdate
  <2>2. r \in Numbers
    BY <2>1 DEF MayUpdate, MayCheckIn
  <2>3. NewHead(f, u, r) /\ AddsTo(f, r)
    BY <2>1, CheckInUpdateIs
  <2>. HIDE DEF f, r
  <2>4. QED
    BY <1>2, <2>1, <2>2, <2>3
<1>5. ASSUME NEW given, NEW then, CheckInRevert(u, given, then)
      PROVE  Tended(u) \/ Spoilt(u) \/ Vanished
  <2>1. /\ rcs.deltas # << >> /\ work[u] = GetRev(rcs, rcs.head)
        /\ GivenUp(rcs, u, rcs.head, TRUE, then)
    BY <1>5 DEF CheckInRevert, MayUpdate, Unchanged
  <2>2. rcs.head \in Listed(rcs)
    BY <1>1, <2>1, HeadIs
  <2>3. Finished(rcs, u) \/ Spoilt(u) \/ Vanished
    BY <1>1, <2>1, <2>2, GivenUpIs
  <2>4. QED
    BY <2>3 DEF Tended
<1>6. QED
  BY <1>3, <1>4, <1>5 DEF CheckIn

LEMMA CheckOutIs ==
    ASSUME RcsInv, NEW u \in Users, NEW r, NEW lock, CheckOut(u, r, lock)
    PROVE  Tended(u) \/ Relocks \/ Vanished
<1>1. Sound(rcs) /\ IsInjective(rcs.locks)
  BY DEF RcsInv
<1>2. ~Refused(rcs, u, r, FALSE)
  BY DEF CheckOut
<1>3. CASE Fetched(rcs, rcs, u, r, lock)
  BY <1>1, <1>2, <1>3, FetchedIs DEF Tended
<1>4. CASE Kept(u, r, lock)
  <2>. DEFINE g == LockRemove(rcs, u, Target(rcs, r))
  <2>1. Written(rcs, rcs, g) /\ Remembered(seen) /\ UNCHANGED work
    BY <1>4 DEF Kept
  <2>2. /\ Sound(g) /\ IsInjective(g.locks)
        /\ g.head = rcs.head /\ g.deltas = rcs.deltas
        /\ Range(g.locks) \subseteq Range(rcs.locks)
    BY <1>1, LockRemoveIs
  <2>. HIDE DEF g
  <2>3. QED
    BY <2>1, <2>2, RewrittenIs
<1>5. QED
  BY <1>3, <1>4 DEF CheckOut

LEMMA RcsLockIs ==
    ASSUME RcsInv, NEW u \in Users, NEW r \in Listed(rcs), RcsLock(u, r) \/ RcsUnlock(u, r)
    PROVE  Relocks \/ Vanished
<1>1. Sound(rcs) /\ IsInjective(rcs.locks)
  BY DEF RcsInv
<1>2. r \in Revs
  <2>1. r \in Numbers
    BY <1>1, AtIs
  <2>2. QED
    BY <2>1, RcsAssumption DEF Numbers, Revs
<1>3. CASE RcsLock(u, r)
  <2>. DEFINE g == LockAdd(rcs, u, r)
  <2>1. /\ Written(rcs, rcs, g) /\ Remembered(seen) /\ UNCHANGED work
        /\ r \notin seen[u] => "unseen" \in MayMishap
    BY <1>3 DEF RcsLock
  <2>2. /\ Sound(g) /\ IsInjective(g.locks)
        /\ g.head = rcs.head /\ g.deltas = rcs.deltas
        /\ Range(g.locks) = Range(rcs.locks) \cup {Lock(u, r)}
    BY <1>1, <1>2, LockAddIs
  <2>3. Lock(u, r).user = u /\ Lock(u, r).num = r
    BY DEF Lock
  <2>. HIDE DEF g
  <2>4. \A l \in Range(g.locks) :
          \/ l \in Range(rcs.locks)
          \/ /\ l.user \in Users /\ l.num \in Listed(rcs)
             /\ l.num \notin seen[l.user] => "unseen" \in MayMishap
    BY <2>1, <2>2, <2>3
  <2>5. QED
    BY <2>1, <2>2, <2>4, RewrittenIs
<1>4. CASE RcsUnlock(u, r)
  <2>. DEFINE g == LockRemove(rcs, u, r)
  <2>1. Written(rcs, rcs, g) /\ Remembered(seen) /\ UNCHANGED work
    BY <1>4 DEF RcsUnlock
  <2>2. /\ Sound(g) /\ IsInjective(g.locks)
        /\ g.head = rcs.head /\ g.deltas = rcs.deltas
        /\ Range(g.locks) \subseteq Range(rcs.locks)
    BY <1>1, LockRemoveIs
  <2>. HIDE DEF g
  <2>3. QED
    BY <2>1, <2>2, RewrittenIs
<1>5. QED
  BY <1>3, <1>4

LEMMA SetModeIs ==
    ASSUME RcsInv, SetMode
    PROVE  Relocks \/ Vanished
<1>. DEFINE g == [rcs EXCEPT !.strict = ~rcs.strict]
<1>1. Sound(rcs) /\ IsInjective(rcs.locks) /\ rcs \in Files
  BY DEF RcsInv, Sound
<1>2. Written(rcs, rcs, g) /\ Remembered(seen) /\ UNCHANGED work
  BY DEF SetMode
<1>3. rcs.strict \in BOOLEAN /\ (~rcs.strict) \in BOOLEAN
  BY <1>1 DEF Files
<1>4. /\ g \in Files /\ g.head = rcs.head /\ g.deltas = rcs.deltas
      /\ g.locks = rcs.locks
  BY <1>1, <1>3 DEF Files
<1>. HIDE DEF g
<1>5. Sound(g)
  BY <1>1, <1>4, ChangedLocks
<1>6. QED
  BY <1>1, <1>2, <1>4, <1>5, RewrittenIs

LEMMA OutdateIs ==
    ASSUME RcsInv, NEW lo, NEW hi, Outdate(lo, hi)
    PROVE  Outdated \/ Relocks \/ Vanished
<1>. DEFINE gone == Selected(lo, hi)
            m == Len(rcs.deltas)
            g == LeftOf(rcs, gone)[m]
<1>1. Sound(rcs) /\ IsInjective(rcs.locks) /\ m \in Nat /\ DOMAIN rcs.deltas = 1..m
  BY DeltasAre DEF RcsInv
<1>2. gone \in SUBSET Listed(rcs)
  BY DEF Selected
<1>3. /\ (\E l \in Range(rcs.locks) : l.num \in gone) => "locked" \in MayMishap
      /\ Remembered(seen) /\ UNCHANGED work
      /\ Written(rcs, rcs, g)
  BY LeftIsLeftOf DEF Outdate
<1>. HIDE DEF gone, m, g
<1>4. m \in 0..m
  BY <1>1
<1>5. /\ Sound(g) /\ g.locks = rcs.locks
      /\ Listed(g) = Listed(rcs) \ Passed(rcs, gone, m)
  <2>1. SoundLeft(rcs, gone, m)
    BY <1>1, <1>4, LeftIsSound DEF m
  <2>2. QED
    BY <2>1 DEF SoundLeft, g
<1>6. Passed(rcs, gone, m) = gone
  <2>1. \A q \in gone : \E i \in 1..m : rcs.deltas[i].num = q
    BY <1>1, <1>2 DEF Listed, Range
  <2>2. gone \subseteq Passed(rcs, gone, m)
    BY <2>1 DEF Passed
  <2>3. Passed(rcs, gone, m) \subseteq gone
    BY DEF Passed
  <2>4. QED
    BY <2>2, <2>3
<1>7. ASSUME Intact(rcs)
      PROVE  KeepsTexts(g)
  <2>1. IntactLeft(rcs, gone, m)
    BY <1>4, <1>7, LeftIsIntact DEF m
  <2>2. Intact(g) /\ \A r \in Listed(g) : GetRev(g, r) = GetRev(rcs, r)
    BY <2>1 DEF IntactLeft, g
  <2>3. QED
    BY <2>2 DEF KeepsTexts
<1>8. /\ stopped' \in BOOLEAN
      /\ rcs' = rcs \/ rcs' = g \/ (rcs' = NoFile /\ "copy" \in MayMishap)
  BY <1>3, WrittenIs
<1>9. CASE rcs' = g
  <2>1. seen' = [u \in Users |-> seen[u] \cap Listed(rcs')]
    BY <1>3 DEF Remembered
  <2>2. Listed(rcs') = Listed(rcs) \ gone
    BY <1>5, <1>6, <1>9
  <2>3. \A u \in Users : seen[u] \cap Listed(rcs') = seen[u] \ gone
    BY <2>2 DEF RcsInv
  <2>4. seen' = [u \in Users |-> seen[u] \ gone]
    BY <2>1, <2>3
  <2>5. Sound(rcs') /\ rcs'.locks = rcs.locks /\ (Intact(rcs) => KeepsTexts(rcs'))
    BY <1>5, <1>7, <1>9
  <2>6. IsInjective(rcs'.locks)
    BY <1>1, <2>5
  <2>7. QED
    BY <1>2, <1>3, <1>8, <2>2, <2>4, <2>5, <2>6 DEF Outdated
<1>10. CASE rcs' = rcs
  <2>1. seen' = seen
    BY <1>3, <1>10, RememberedAll
  <2>2. QED
    BY <1>3, <1>8, <1>10, <2>1, SameAsIs DEF Relocks
<1>11. CASE rcs' = NoFile /\ "copy" \in MayMishap
  <2>1. work' \in [Users -> Contents]
    BY <1>3 DEF RcsInv
  <2>2. QED
    BY <1>3, <1>8, <1>11, <2>1, VanishedIs
<1>12. QED
  BY <1>8, <1>9, <1>10, <1>11

LEMMA StepIs ==
    ASSUME RcsInv, Next
    PROVE  \/ \E u \in Users : Tended(u) \/ CheckedIn(u) \/ Worked(u) \/ Spoilt(u)
           \/ Relocks \/ Outdated \/ Vanished
<1>1. ASSUME NEW u \in Users, NEW t \in Texts, Edit(u, t)
      PROVE  Worked(u)
  BY <1>1, RcsAssumption DEF Edit, Worked, Contents, RcsInv
<1>2. ASSUME NEW u \in Users, CheckIn(u)
      PROVE  Tended(u) \/ CheckedIn(u) \/ Spoilt(u) \/ Relocks \/ Vanished
  BY <1>2, CheckInIs
<1>3. ASSUME NEW u \in Users, NEW r, NEW lock, CheckOut(u, r, lock)
      PROVE  Tended(u) \/ Relocks \/ Vanished
  BY <1>3, CheckOutIs
<1>4. ASSUME NEW u \in Users, CheckOutNothing(u)
      PROVE  Worked(u)
  BY <1>4, RcsAssumption DEF CheckOutNothing, Worked, Contents
<1>5. ASSUME NEW u \in Users, NEW r \in Listed(rcs), RcsLock(u, r) \/ RcsUnlock(u, r)
      PROVE  Relocks \/ Vanished
  BY <1>5, RcsLockIs
<1>6. SetMode => Relocks \/ Vanished
  BY SetModeIs
<1>7. ASSUME NEW lo, NEW hi, Outdate(lo, hi)
      PROVE  Outdated \/ Relocks \/ Vanished
  BY <1>7, OutdateIs
<1>8. QED
  BY <1>1, <1>2, <1>3, <1>4, <1>5, <1>6, <1>7 DEF Next

-----------------------------------------------------------------------------
(* The file is always sound, whatever is numbered, locked, outdated or     *)
(* checked in.                                                             *)

LEMMA RcsInvStep ==
    ASSUME RcsInv, [Next]_vars
    PROVE  RcsInv'
<1>1. ASSUME NEW u \in Users, NEW f, Finished(f, u), Listed(rcs) \subseteq Listed(f)
      PROVE  RcsInv'
  <2>1. Listed(rcs)' = Listed(f)
    BY <1>1 DEF Finished, Same, Listed
  <2>2. PICK q \in Listed(f) : seen' = [seen EXCEPT ![u] = @ \cup {q}]
    BY <1>1 DEF Finished
  <2>3. seen' \in [Users -> SUBSET Listed(f)]
    BY <1>1, <2>2 DEF RcsInv
  <2>4. QED
    BY <1>1, <2>1, <2>3 DEF Finished, Same, RcsInv
<1>2. ASSUME NEW u \in Users, Tended(u)
      PROVE  RcsInv'
  BY <1>1, <1>2 DEF Tended
<1>3. ASSUME NEW u \in Users, CheckedIn(u)
      PROVE  RcsInv'
  <2>1. PICK r \in Numbers : \E f : NewHead(f, u, r) /\ AddsTo(f, r) /\ Finished(f, u)
    BY <1>3 DEF CheckedIn
  <2>2. PICK f : NewHead(f, u, r) /\ AddsTo(f, r) /\ Finished(f, u)
    BY <2>1
  <2>3. QED
    BY <1>1, <2>2 DEF NewHead
<1>4. ASSUME NEW u \in Users, Worked(u)
      PROVE  RcsInv'
  BY <1>4 DEF Worked, RcsInv
<1>5. ASSUME Relocks
      PROVE  RcsInv'
  <2>1. Listed(rcs)' = Listed(rcs)
    BY <1>5 DEF Relocks, Same, Listed
  <2>2. QED
    BY <1>5, <2>1 DEF Relocks, Same, RcsInv
<1>6. ASSUME Outdated
      PROVE  RcsInv'
  <2>1. PICK gone \in SUBSET Listed(rcs) :
          /\ Sound(rcs') /\ IsInjective(rcs'.locks)
          /\ Listed(rcs') = Listed(rcs) \ gone
          /\ seen' = [u \in Users |-> seen[u] \ gone] /\ UNCHANGED work
          /\ stopped' \in BOOLEAN
    BY <1>6 DEF Outdated
  <2>2. seen' \in [Users -> SUBSET Listed(rcs')]
    BY <2>1 DEF RcsInv
  <2>3. QED
    BY <2>1, <2>2 DEF RcsInv
<1>7. CASE UNCHANGED vars
  BY <1>7 DEF vars, RcsInv
<1>8. ASSUME NEW u \in Users, Spoilt(u)
      PROVE  RcsInv'
  BY <1>8 DEF Spoilt, RcsInv, Contents
<1>9. ASSUME Vanished
      PROVE  RcsInv'
  <2>1. Sound(rcs') /\ IsInjective(rcs'.locks)
    BY <1>9, NoFileIs DEF Vanished
  <2>2. seen' \in [Users -> SUBSET Listed(rcs')]
    BY <1>9 DEF Vanished
  <2>3. QED
    BY <1>9, <2>1, <2>2 DEF Vanished, RcsInv
<1>10. QED
  BY <1>2, <1>3, <1>4, <1>5, <1>6, <1>7, <1>8, <1>9, StepIs

LEMMA RcsInvInit == Init => RcsInv
<1>. SUFFICES ASSUME Init PROVE RcsInv
  OBVIOUS
<1>1. /\ rcs = NoFile /\ work = [u \in Users |-> NoText] /\ seen = [u \in Users |-> {}]
      /\ stopped = FALSE
  BY DEF Init
<1>2. QED
  BY <1>1, NoFileIs DEF RcsInv, Contents

(* The head, the order of the revisions and the links say the same after   *)
(* every command, whatever goes wrong.                                     *)
THEOREM RcsInvariant == Spec => []RcsInv
<1>1. Init => RcsInv
  BY RcsInvInit
<1>2. RcsInv /\ [Next]_vars => RcsInv'
  BY RcsInvStep
<1>3. QED
  BY <1>1, <1>2, PTL DEF Spec

-----------------------------------------------------------------------------
(* A check-in that ends well takes a working file away only when its text  *)
(* is that of the head.                                                    *)

LEMMA NothingLostStep ==
    ASSUME "copy" \notin MayMishap, RcsInv, [Next]_vars,
           NEW v \in Users, work[v] # NoText, work'[v] = NoText, ~stopped'
    PROVE  GetRev(rcs', rcs'.head) = work[v]
<1>1. ASSUME NEW u \in Users, NEW f, Finished(f, u)
      PROVE  GetRev(rcs', rcs'.head) = work[v]
  <2>1. v = u /\ GetRev(f, f.head) = work[u] /\ rcs'.head = f.head /\ rcs'.deltas = f.deltas
    BY <1>1 DEF Finished, Same
  <2>2. QED
    BY <2>1, SameDeltas
<1>2. ASSUME NEW u \in Users, Tended(u)
      PROVE  GetRev(rcs', rcs'.head) = work[v]
  BY <1>1, <1>2 DEF Tended
<1>3. ASSUME NEW u \in Users, CheckedIn(u)
      PROVE  GetRev(rcs', rcs'.head) = work[v]
  BY <1>1, <1>3 DEF CheckedIn
<1>4. ASSUME NEW u \in Users, Worked(u)
      PROVE  FALSE
  BY <1>4 DEF Worked, RcsInv
<1>5. UNCHANGED work => FALSE
  OBVIOUS
<1>6. ASSUME NEW u \in Users, Spoilt(u)
      PROVE  FALSE
  BY <1>6 DEF Spoilt
<1>7. QED
  BY <1>2, <1>3, <1>4, <1>5, <1>6, StepIs DEF Relocks, Outdated, Vanished, vars

(* A working file that a check-in takes away can be had again, whatever    *)
(* went wrong with the file before, unless rcs_write() ends this check-in  *)
(* with an error or the new file has to be copied and that fails.          *)
THEOREM NothingLostAlways ==
    ASSUME "copy" \notin MayMishap
    PROVE  Spec => NothingLost
<1>1. RcsInv /\ [Next]_vars =>
        [ \A u \in Users : work[u] # NoText /\ work'[u] = NoText /\ ~stopped'
              => GetRev(rcs, rcs.head)' = work[u] ]_vars
  BY NothingLostStep
<1>2. QED
  BY <1>1, RcsInvariant, PTL DEF Spec, NothingLost

-----------------------------------------------------------------------------
(* Nobody holds a lock on a revision that is not there, unless locked      *)
(* revisions are outdated.                                                 *)

LocksThere == \A l \in Range(rcs.locks) : l.user \in Users /\ l.num \in Listed(rcs)

LEMMA LocksThereStep ==
    ASSUME "locked" \notin MayMishap, RcsInv, LocksThere, [Next]_vars
    PROVE  LocksThere'
<1>1. ASSUME NEW u \in Users, NEW f, Finished(f, u), Listed(rcs) \subseteq Listed(f),
             Range(f.locks) \subseteq Range(rcs.locks)
      PROVE  LocksThere'
  <2>1. Listed(rcs)' = Listed(f)
    BY <1>1 DEF Finished, Same, Listed
  <2>2. PICK q \in Listed(f) : Range(rcs'.locks) \subseteq Range(f.locks) \cup {Lock(u, q)}
    BY <1>1 DEF Finished
  <2>3. Lock(u, q).user = u /\ Lock(u, q).num = q
    BY DEF Lock
  <2>4. QED
    BY <1>1, <2>1, <2>2, <2>3 DEF LocksThere
<1>2. ASSUME NEW u \in Users, Tended(u)
      PROVE  LocksThere'
  BY <1>1, <1>2 DEF Tended
<1>3. ASSUME NEW u \in Users, CheckedIn(u)
      PROVE  LocksThere'
  <2>1. PICK r \in Numbers : \E f : NewHead(f, u, r) /\ AddsTo(f, r) /\ Finished(f, u)
    BY <1>3 DEF CheckedIn
  <2>2. PICK f : NewHead(f, u, r) /\ AddsTo(f, r) /\ Finished(f, u)
    BY <2>1
  <2>3. QED
    BY <1>1, <2>2 DEF NewHead
<1>4. ASSUME NEW u \in Users, Worked(u)
      PROVE  LocksThere'
  BY <1>4 DEF Worked, LocksThere
<1>5. ASSUME Relocks
      PROVE  LocksThere'
  <2>1. Listed(rcs)' = Listed(rcs)
    BY <1>5 DEF Relocks, Same, Listed
  <2>2. QED
    BY <1>5, <2>1 DEF Relocks, LocksThere
<1>6. ASSUME Outdated
      PROVE  LocksThere'
  <2>1. PICK gone \in SUBSET Listed(rcs) :
          /\ rcs'.locks = rcs.locks /\ Listed(rcs') = Listed(rcs) \ gone
          /\ \A l \in Range(rcs.locks) : l.num \notin gone
    BY <1>6 DEF Outdated
  <2>2. QED
    BY <2>1 DEF LocksThere
<1>7. CASE UNCHANGED vars
  BY <1>7 DEF vars, LocksThere
<1>8. ASSUME NEW u \in Users, Spoilt(u)
      PROVE  LocksThere'
  BY <1>8 DEF Spoilt, LocksThere
<1>9. ASSUME Vanished
      PROVE  LocksThere'
  BY <1>9, NoFileIs DEF Vanished, LocksThere, Range
<1>10. QED
  BY <1>2, <1>3, <1>4, <1>5, <1>6, <1>7, <1>8, <1>9, StepIs

LEMMA LocksThereInit == Init => LocksThere
  BY NoFileIs DEF Init, LocksThere, Range

LEMMA TypeOKHolds ==
    ASSUME RcsInv, LocksThere
    PROVE  TypeOK
<1>1. Sound(rcs)
  BY DEF RcsInv
<1>2. rcs.strict \in BOOLEAN
  BY <1>1 DEF Sound, Files
<1>3. rcs.head = IF rcs.deltas = << >> THEN NoRev ELSE Head(rcs.deltas).num
  BY <1>1 DEF Sound, Headed
<1>4. ASSUME NEW i \in DOMAIN rcs.deltas
      PROVE  IF i = Len(rcs.deltas) THEN rcs.deltas[i].next = NoRev
             ELSE /\ rcs.deltas[i].next = rcs.deltas[i + 1].num
                  /\ Above(rcs.deltas[i].num, rcs.deltas[i].next)
  <2>1. i # Len(rcs.deltas) => i + 1 \in DOMAIN rcs.deltas /\ i < i + 1
    BY <1>1, DeltasAre
  <2>2. QED
    BY <1>1, <2>1 DEF Sound, Ordered, Linked
<1>5. QED
  BY <1>2, <1>3, <1>4 DEF TypeOK, RcsInv, LocksThere

(* rcs_open() takes every file that the commands leave.                    *)
THEOREM TypeOKAlways ==
    ASSUME "locked" \notin MayMishap
    PROVE  Spec => []TypeOK
<1>1. Init => LocksThere
  BY LocksThereInit
<1>2. RcsInv /\ LocksThere /\ [Next]_vars => LocksThere'
  BY LocksThereStep
<1>3. RcsInv /\ LocksThere => TypeOK
  BY TypeOKHolds
<1>4. QED
  BY <1>1, <1>2, <1>3, RcsInvariant, PTL DEF Spec

-----------------------------------------------------------------------------
(* Who holds a lock has seen what is locked.                               *)

LocksSeen == \A l \in Range(rcs.locks) : l.user \in Users /\ l.num \in seen[l.user]

LEMMA LocksSeenStep ==
    ASSUME MayMishap \cap {"unseen", "locked"} = {}, RcsInv, LocksSeen, [Next]_vars
    PROVE  LocksSeen'
<1>1. ASSUME NEW u \in Users, NEW f, Finished(f, u), Range(f.locks) \subseteq Range(rcs.locks)
      PROVE  LocksSeen'
  <2>1. PICK q \in Listed(f) :
          /\ Range(rcs'.locks) \subseteq Range(f.locks) \cup {Lock(u, q)}
          /\ seen' = [seen EXCEPT ![u] = @ \cup {q}]
    BY <1>1 DEF Finished
  <2>2. Lock(u, q).user = u /\ Lock(u, q).num = q
    BY DEF Lock
  <2>3. q \in seen'[u] /\ \A x \in Users : seen[x] \subseteq seen'[x]
    BY <2>1 DEF RcsInv
  <2>4. \A l \in Range(rcs'.locks) : l \in Range(rcs.locks) \/ l = Lock(u, q)
    BY <1>1, <2>1
  <2>5. QED
    BY <2>2, <2>3, <2>4 DEF LocksSeen
<1>2. ASSUME NEW u \in Users, Tended(u)
      PROVE  LocksSeen'
  BY <1>1, <1>2 DEF Tended
<1>3. ASSUME NEW u \in Users, CheckedIn(u)
      PROVE  LocksSeen'
  <2>1. PICK r \in Numbers : \E f : NewHead(f, u, r) /\ AddsTo(f, r) /\ Finished(f, u)
    BY <1>3 DEF CheckedIn
  <2>2. PICK f : NewHead(f, u, r) /\ AddsTo(f, r) /\ Finished(f, u)
    BY <2>1
  <2>3. QED
    BY <1>1, <2>2 DEF NewHead
<1>4. ASSUME NEW u \in Users, Worked(u)
      PROVE  LocksSeen'
  BY <1>4 DEF Worked, LocksSeen
<1>5. ASSUME Relocks
      PROVE  LocksSeen'
  BY <1>5 DEF Relocks, LocksSeen
<1>6. ASSUME Outdated
      PROVE  LocksSeen'
  <2>1. PICK gone \in SUBSET Listed(rcs) :
          /\ rcs'.locks = rcs.locks
          /\ \A l \in Range(rcs.locks) : l.num \notin gone
          /\ seen' = [u \in Users |-> seen[u] \ gone]
    BY <1>6 DEF Outdated
  <2>2. QED
    BY <2>1 DEF LocksSeen
<1>7. CASE UNCHANGED vars
  BY <1>7 DEF vars, LocksSeen
<1>8. ASSUME NEW u \in Users, Spoilt(u)
      PROVE  LocksSeen'
  BY <1>8 DEF Spoilt, LocksSeen
<1>9. ASSUME Vanished
      PROVE  LocksSeen'
  BY <1>9, NoFileIs DEF Vanished, LocksSeen, Range
<1>10. QED
  BY <1>2, <1>3, <1>4, <1>5, <1>6, <1>7, <1>8, <1>9, StepIs

LEMMA InformedStep ==
    ASSUME RcsInv, LocksSeen, [Next]_vars, NEW v \in Users,
           rcs.strict, rcs.deltas # << >>,
           rcs'.head \notin Listed(rcs), rcs'.head \in seen'[v]
    PROVE  rcs.head \in seen[v]
<1>1. rcs.head \in Listed(rcs)
  BY HeadIs DEF RcsInv
<1>2. rcs'.head # rcs.head
  BY <1>1
<1>3. ASSUME NEW u \in Users, CheckedIn(u)
      PROVE  rcs.head \in seen[v]
  <2>1. PICK r \in Numbers : \E f : NewHead(f, u, r) /\ AddsTo(f, r) /\ Finished(f, u)
    BY <1>3 DEF CheckedIn
  <2>2. PICK f : NewHead(f, u, r) /\ AddsTo(f, r) /\ Finished(f, u)
    BY <2>1
  <2>3. PICK q \in Listed(f) : seen' = [seen EXCEPT ![u] = @ \cup {q}]
    BY <2>2 DEF Finished
  <2>4. v # u => seen'[v] = seen[v]
    BY <2>3 DEF RcsInv
  <2>5. v = u
    BY <2>4 DEF RcsInv
  <2>6. Lock(u, rcs.head) \in Range(rcs.locks)
    BY <2>2 DEF NewHead, CheckLock
  <2>7. Lock(u, rcs.head).user = u /\ Lock(u, rcs.head).num = rcs.head
    BY DEF Lock
  <2>8. QED
    BY <2>5, <2>6, <2>7 DEF LocksSeen
<1>4. ASSUME NEW u \in Users, Tended(u)
      PROVE  FALSE
  BY <1>2, <1>4 DEF Tended, Finished, Same
<1>5. ASSUME NEW u \in Users, Worked(u)
      PROVE  FALSE
  BY <1>2, <1>5 DEF Worked
<1>6. Relocks => FALSE
  BY <1>2 DEF Relocks, Same
<1>7. Outdated => FALSE
  <2>1. SUFFICES ASSUME Outdated PROVE FALSE
    OBVIOUS
  <2>2. PICK gone \in SUBSET Listed(rcs) :
          /\ Listed(rcs') = Listed(rcs) \ gone
          /\ seen' = [u \in Users |-> seen[u] \ gone]
    BY <2>1 DEF Outdated
  <2>3. seen'[v] \subseteq Listed(rcs)
    BY <2>2 DEF RcsInv
  <2>4. QED
    BY <2>3
<1>8. CASE UNCHANGED vars
  BY <1>2, <1>8 DEF vars
<1>9. ASSUME NEW u \in Users, Spoilt(u)
      PROVE  FALSE
  BY <1>2, <1>9 DEF Spoilt
<1>10. Vanished => FALSE
  BY DEF Vanished
<1>11. QED
  BY <1>3, <1>4, <1>5, <1>6, <1>7, <1>8, <1>9, <1>10, StepIs

(* Nobody puts a revision over a head that they have not had.              *)
THEOREM InformedCheckInAlways ==
    ASSUME MayMishap \cap {"unseen", "locked"} = {}
    PROVE  Spec => InformedCheckIn
<1>1. Init => LocksSeen
  BY NoFileIs DEF Init, LocksSeen, Range
<1>2. RcsInv /\ LocksSeen /\ [Next]_vars => LocksSeen'
  BY LocksSeenStep
<1>3. RcsInv /\ LocksSeen /\ [Next]_vars =>
        [ \A u \in Users :
            rcs.strict /\ rcs.deltas # << >>
                /\ rcs'.head \notin Listed(rcs) /\ rcs'.head \in seen'[u]
            => rcs.head \in seen[u] ]_vars
  BY InformedStep
<1>4. QED
  BY <1>1, <1>2, <1>3, RcsInvariant, PTL DEF Spec, InformedCheckIn

-----------------------------------------------------------------------------
(* The file is an archive, as long as nobody checks in a file without a    *)
(* character or numbers a revision so that an old one cannot be got.       *)

Got(f) == [r \in Listed(f) |-> GetRev(f, r)]

LEMMA NoFileIntact == Intact(NoFile)
<1>1. Sound(NoFile) /\ DOMAIN NoFile.deltas = {}
  BY NoFileIs DEF NoFile
<1>2. History(NoFile, [i \in {} |-> Empty])
  BY <1>1 DEF History
<1>3. Flat(NoFile)
  BY <1>1 DEF Flat
<1>4. QED
  BY <1>1, <1>2, <1>3 DEF Intact

LEMMA IntactInit == Init => Intact(rcs)
  BY NoFileIntact DEF Init

LEMMA SameIntact ==
    ASSUME NEW f, Intact(f), Same(f)
    PROVE  Intact(rcs') /\ Got(rcs') = Got(f)
<1>1. Sound(rcs') /\ rcs'.head = f.head /\ rcs'.deltas = f.deltas
  BY DEF Same
<1>2. Flat(rcs')
  BY <1>1 DEF Intact, Flat
<1>3. PICK T : History(f, T)
  BY DEF Intact
<1>4. History(rcs', T)
  BY <1>1, <1>3 DEF History
<1>5. Got(rcs') = Got(f)
  BY <1>1, SameDeltas DEF Got
<1>6. QED
  BY <1>1, <1>2, <1>4, <1>5 DEF Intact

LEMMA ArchiveStep ==
    ASSUME MayMishap \cap {"empty", "number"} = {},
           RcsInv, Intact(rcs), [Next]_vars
    PROVE  Intact(rcs') /\ (Archive!Next \/ Got(rcs') = Got(rcs))
<1>1. ASSUME NEW u \in Users, Tended(u)
      PROVE  Intact(rcs') /\ Got(rcs') = Got(rcs)
  BY <1>1, SameIntact DEF Tended, Finished
<1>2. ASSUME NEW u \in Users, CheckedIn(u)
      PROVE  Intact(rcs') /\ Archive!Next
  <2>1. PICK r \in Numbers : \E f : NewHead(f, u, r) /\ AddsTo(f, r) /\ Finished(f, u)
    BY <1>2 DEF CheckedIn
  <2>2. PICK f : NewHead(f, u, r) /\ AddsTo(f, r) /\ Finished(f, u)
    BY <2>1
  <2>3. /\ Intact(f) /\ GetRev(f, r) \in Texts
        /\ \A q \in Listed(rcs) : Above(r, q) /\ GetRev(f, q) = GetRev(rcs, q)
        /\ Listed(f) = Listed(rcs) \cup {r}
    BY <2>2 DEF AddsTo, KeepsTexts, NewHead
  <2>4. Intact(rcs') /\ Got(rcs') = Got(f)
    BY <2>2, <2>3, SameIntact DEF Finished
  <2>. DEFINE t == GetRev(f, r)
  <2>5. Got(f) = [q \in DOMAIN Got(rcs) \cup {r} |-> IF q = r THEN t ELSE Got(rcs)[q]]
    BY <2>3 DEF Got
  <2>6. Archive!CheckIn(r, t)
    <3>1. \A q \in DOMAIN Got(rcs) : Archive!Above(r, q)
      BY <2>3 DEF Got, Above, Archive!Above
    <3>2. QED
      BY <2>4, <2>5, <3>1 DEF Archive!CheckIn, Got
  <2>7. r \in DOMAIN Got(rcs') /\ r \in Archive!Revs /\ t \in Texts \cup {Empty}
    BY <2>3, <2>4, RcsAssumption DEF Got, Archive!Revs, Numbers
  <2>8. Archive!Next
    BY <2>6, <2>7 DEF Archive!Next, Got
  <2>9. QED
    BY <2>4, <2>8
<1>3. ASSUME NEW u \in Users, Worked(u)
      PROVE  Intact(rcs') /\ Got(rcs') = Got(rcs)
  BY <1>3 DEF Worked
<1>4. ASSUME Relocks
      PROVE  Intact(rcs') /\ Got(rcs') = Got(rcs)
  BY <1>4, SameIntact DEF Relocks
<1>5. ASSUME Outdated
      PROVE  Intact(rcs') /\ Archive!Next
  <2>1. PICK gone \in SUBSET Listed(rcs) :
          Listed(rcs') = Listed(rcs) \ gone /\ KeepsTexts(rcs')
    BY <1>5 DEF Outdated
  <2>2. /\ Intact(rcs')
        /\ \A q \in Listed(rcs') : q \in Listed(rcs) /\ GetRev(rcs', q) = GetRev(rcs, q)
    BY <2>1 DEF KeepsTexts
  <2>3. /\ DOMAIN Got(rcs') \subseteq DOMAIN Got(rcs)
        /\ \A r \in DOMAIN Got(rcs') : Got(rcs')[r] = Got(rcs)[r]
    BY <2>2 DEF Got
  <2>4. Archive!Outdate
    BY <2>3 DEF Archive!Outdate, Got
  <2>5. QED
    BY <2>2, <2>4 DEF Archive!Next
<1>6. CASE UNCHANGED vars
  BY <1>6 DEF vars
<1>7. ASSUME NEW u \in Users, Spoilt(u)
      PROVE  Intact(rcs') /\ Got(rcs') = Got(rcs)
  BY <1>7 DEF Spoilt
<1>8. ASSUME Vanished
      PROVE  Intact(rcs') /\ Archive!Next
  <2>1. rcs' = NoFile
    BY <1>8 DEF Vanished
  <2>2. Intact(rcs')
    BY <2>1, NoFileIntact
  <2>3. DOMAIN Got(rcs') = {}
    BY <2>1, NothingListed DEF Got
  <2>4. Archive!Outdate
    BY <2>3 DEF Archive!Outdate, Got
  <2>5. QED
    BY <2>2, <2>4 DEF Archive!Next
<1>9. QED
  BY <1>1, <1>2, <1>3, <1>4, <1>5, <1>6, <1>7, <1>8, StepIs

(* Every revision that is still there can be got with the text it was      *)
(* checked in with; a new one comes after all others.                      *)
THEOREM RcsImplementsArchive ==
    ASSUME MayMishap \cap {"empty", "number"} = {}
    PROVE  Spec => ImplementsArchive
<1>. DEFINE IntactNow == Intact(rcs)
<1>1. Init => Archive!Init
  BY NothingListed DEF Init, Archive!Init
<1>2. Init => IntactNow
  BY IntactInit
<1>3. RcsInv /\ IntactNow /\ [Next]_vars => IntactNow'
  BY ArchiveStep
<1>4. RcsInv /\ IntactNow /\ [Next]_vars
        => [Archive!Next]_([r \in Listed(rcs) |-> GetRev(rcs, r)])
  BY ArchiveStep DEF Got
<1>5. QED
  BY <1>1, <1>2, <1>3, <1>4, RcsInvariant, PTL DEF Spec, ImplementsArchive, Archive!Spec

=============================================================================
