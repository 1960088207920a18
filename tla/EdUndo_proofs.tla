---------------------------- MODULE EdUndo_proofs ----------------------------
(***************************************************************************)
(* Proofs about the buffer of ed and its undo stack, for any nodes, any    *)
(* file at the start, any length of the stack, with pushes that fail and   *)
(* SIGINT between any two sections.                                        *)
(***************************************************************************)
EXTENDS EdUndo, FiniteSetTheorems, SequenceTheorems, WellFoundedInduction, TLAPS

-----------------------------------------------------------------------------
(* Induction and recursion                                                 *)

LEMMA LeastNat ==
    ASSUME NEW T, T \subseteq Nat, T # {}
    PROVE  \E n \in T : \A m \in T : n <= m
<1>. DEFINE R == OpToRel(<, Nat)
<1>1. IsWellFoundedOn(R, Nat)
  BY NatLessThanWellFounded
<1>2. \A x, y \in Nat : y < x => << y, x >> \in R
  BY DEF OpToRel
<1>. HIDE DEF R
<1>3. PICK n \in T : \A m \in T : ~ (<< m, n >> \in R)
  BY <1>1, WFMin
<1>4. ASSUME NEW m \in T
      PROVE  n <= m
  <2>1. ~ (m < n)
    BY <1>2, <1>3
  <2>2. QED
    BY <2>1
<1>5. QED
  BY <1>4

LEMMA Inducts ==
    ASSUME NEW T, 0 \in T, \A k \in Nat : k \in T => k + 1 \in T
    PROVE  Nat \subseteq T
<1>. DEFINE Bad == Nat \ T
<1>1. SUFFICES ASSUME Bad # {} PROVE FALSE
  OBVIOUS
<1>2. PICK n \in Bad : \A m \in Bad : n <= m
  BY <1>1, LeastNat
<1>3. n - 1 \in Nat /\ n - 1 \notin Bad
  BY <1>2
<1>4. (n - 1) + 1 \in T
  BY <1>3
<1>5. QED
  BY <1>2, <1>4

(* A function f that starts with x and goes on by g.                       *)
Goes(f, n, S, x, g) ==
    f \in [0..n -> S] /\ f[0] = x /\ \A i \in 1..n : f[i] = g[i][f[i - 1]]

LEMMA GoesOn ==
    ASSUME NEW S, NEW x \in S, NEW g \in [Nat -> [S -> S]], NEW n \in Nat
    PROVE  \E f : Goes(f, n, S, x, g)
<1>. DEFINE T == { k \in Nat : \E f : Goes(f, k, S, x, g) }
<1>1. 0 \in T
  <2>1. Goes([i \in 0..0 |-> x], 0, S, x, g)
    BY DEF Goes
  <2>2. QED
    BY <2>1
<1>2. ASSUME NEW k \in Nat, k \in T
      PROVE  k + 1 \in T
  <2>1. PICK f : Goes(f, k, S, x, g)
    BY <1>2
  <2>. DEFINE h == [i \in 0..(k + 1) |-> IF i <= k THEN f[i] ELSE g[k + 1][f[k]]]
  <2>2. f[k] \in S /\ g[k + 1] \in [S -> S]
    BY <2>1 DEF Goes
  <2>3. h \in [0..(k + 1) -> S]
    BY <2>1, <2>2 DEF Goes
  <2>4. h[0] = x
    BY <2>1 DEF Goes
  <2>5. ASSUME NEW i \in 1..(k + 1)
        PROVE  h[i] = g[i][h[i - 1]]
    <3>1. CASE i <= k
      BY <3>1, <2>1 DEF Goes
    <3>2. CASE i = k + 1
      BY <3>2
    <3>3. QED
      BY <3>1, <3>2
  <2>6. Goes(h, k + 1, S, x, g)
    BY <2>3, <2>4, <2>5 DEF Goes
  <2>7. QED
    BY <2>6
<1>3. QED
  BY <1>1, <1>2, Inducts

LEMMA GoesAlone ==
    ASSUME NEW S, NEW x \in S, NEW g \in [Nat -> [S -> S]], NEW n \in Nat, NEW m \in Nat,
           NEW f, NEW h, Goes(f, n, S, x, g), Goes(h, m, S, x, g)
    PROVE  \A k \in Nat : k <= n /\ k <= m => f[k] = h[k]
<1>. DEFINE T == { k \in Nat : k <= n /\ k <= m => f[k] = h[k] }
<1>1. 0 \in T
  BY DEF Goes
<1>2. ASSUME NEW k \in Nat, k \in T
      PROVE  k + 1 \in T
  <2>1. SUFFICES ASSUME k + 1 <= n, k + 1 <= m
                 PROVE  f[k + 1] = h[k + 1]
    OBVIOUS
  <2>2. k + 1 \in 1..n /\ k + 1 \in 1..m /\ (k + 1) - 1 = k
    BY <2>1
  <2>3. f[k] = h[k]
    BY <1>2, <2>1
  <2>4. f[k + 1] = g[k + 1][f[k]] /\ h[k + 1] = g[k + 1][h[k]]
    BY <2>2 DEF Goes
  <2>5. QED
    BY <2>3, <2>4
<1>3. QED
  BY <1>1, <1>2, Inducts

LEMMA Recursion ==
    ASSUME NEW S, NEW x \in S, NEW g \in [Nat -> [S -> S]]
    PROVE  \E f \in [Nat -> S] :
              f[0] = x /\ \A k \in Nat \ {0} : f[k] = g[k][f[k - 1]]
<1>. DEFINE F(n) == CHOOSE f : Goes(f, n, S, x, g)
            all == [n \in Nat |-> F(n)[n]]
<1>1. \A n \in Nat : Goes(F(n), n, S, x, g)
  BY GoesOn
<1>. HIDE DEF F
<1>2. all \in [Nat -> S]
  BY <1>1 DEF Goes
<1>3. all[0] = x
  BY <1>1 DEF Goes
<1>4. ASSUME NEW k \in Nat \ {0}
      PROVE  all[k] = g[k][all[k - 1]]
  <2>1. k - 1 \in Nat /\ k \in Nat /\ k \in 1..k
    OBVIOUS
  <2>2. F(k)[k] = g[k][F(k)[k - 1]]
    BY <1>1, <2>1 DEF Goes
  <2>3. F(k)[k - 1] = F(k - 1)[k - 1]
    BY <1>1, <2>1, GoesAlone
  <2>4. QED
    BY <2>1, <2>2, <2>3
<1>5. QED
  BY <1>2, <1>3, <1>4

Steps(S) == [Nat -> [S -> S]]

Recurs(f, S, x, g) ==
    f \in [Nat -> S] /\ f[0] = x /\ \A k \in Nat \ {0} : f[k] = g[k][f[k - 1]]

LEMMA Recurring ==
    ASSUME NEW S, NEW x \in S, NEW g \in Steps(S)
    PROVE  \E f : Recurs(f, S, x, g)
<1>1. g \in [Nat -> [S -> S]]
  BY DEF Steps
<1>2. PICK f \in [Nat -> S] :
          f[0] = x /\ \A k \in Nat \ {0} : f[k] = g[k][f[k - 1]]
  BY <1>1, Recursion
<1>3. QED
  BY <1>2 DEF Recurs

-----------------------------------------------------------------------------
(* Rings                                                                   *)

LEMMA AlongIs ==
    ASSUME NEW links \in Links, NEW x \in AnyNode
    PROVE  /\ Along(links, x, 0) = x
           /\ \A k \in Nat : /\ Along(links, x, k) \in AnyNode
                             /\ Along(links, x, k + 1) = links[Along(links, x, k)]
<1>. DEFINE node == CHOOSE f : f = [i \in Nat |-> IF i = 0 THEN x ELSE links[f[i - 1]]]
            g == [k \in Nat |-> links]
<1>1. g \in [Nat -> [AnyNode -> AnyNode]]
  BY DEF Links
<1>2. PICK f \in [Nat -> AnyNode] :
          f[0] = x /\ \A k \in Nat \ {0} : f[k] = g[k][f[k - 1]]
  <2>. HIDE DEF g
  <2>. QED
    BY <1>1, Recursion
<1>3. f = [i \in Nat |-> IF i = 0 THEN x ELSE links[f[i - 1]]]
  BY <1>2
<1>4. node = [i \in Nat |-> IF i = 0 THEN x ELSE links[node[i - 1]]]
  BY <1>3
<1>5. \A k \in Nat : Along(links, x, k) = node[k]
  BY DEF Along
<1>. HIDE DEF node
<1>6. node[0] = x /\ \A k \in Nat : node[k + 1] = links[node[k]]
  <2>1. node[0] = x
    BY <1>4
  <2>2. ASSUME NEW k \in Nat
        PROVE  node[k + 1] = links[node[k]]
    <3>1. k + 1 \in Nat /\ k + 1 # 0 /\ (k + 1) - 1 = k
      OBVIOUS
    <3>2. QED
      BY <1>4, <3>1
  <2>3. QED
    BY <2>1, <2>2
<1>. DEFINE T == { k \in Nat : node[k] \in AnyNode }
<1>7. 0 \in T /\ \A k \in Nat : k \in T => k + 1 \in T
  BY <1>6 DEF Links
<1>8. Nat \subseteq T
  BY <1>7, Inducts
<1>9. QED
  BY <1>5, <1>6, <1>8

(* What is k places after the head: a line, or the head again.             *)
Place(s, k) == IF k \in 1..Len(s) THEN s[k] ELSE BufferHead

OnRing(s) == { Place(s, k) : k \in 0..Len(s) }

Rings == { s \in Seq(Nodes) : Injective(s) }

(* The links of b make a ring of the lines s.                              *)
IsRing(b, s) ==
    /\ s \in Rings
    /\ b.forw \in Links /\ b.back \in Links
    /\ \A k \in 0..Len(s) :
          b.forw[Place(s, k)] = Place(s, k + 1) /\ b.back[Place(s, k + 1)] = Place(s, k)

LEMMA PlaceIs ==
    ASSUME NEW s \in Rings
    PROVE  /\ s \in Seq(Nodes) /\ Len(s) \in Nat /\ DOMAIN s = 1..Len(s)
           /\ Place(s, 0) = BufferHead /\ Place(s, Len(s) + 1) = BufferHead
           /\ \A k \in Int : Place(s, k) \in AnyNode
           /\ \A k \in 1..Len(s) : Place(s, k) = s[k] /\ s[k] \in Nodes /\ s[k] # BufferHead
           /\ \A i, j \in 0..Len(s) : Place(s, i) = Place(s, j) => i = j
           /\ \A i, j \in 1..(Len(s) + 1) : Place(s, i) = Place(s, j) => i = j
           /\ BufferHead \in OnRing(s) /\ OnRing(s) \subseteq AnyNode
           /\ \A k \in 0..(Len(s) + 1) : Place(s, k) \in OnRing(s)
           /\ \A k \in 1..Len(s) : s[k] \in OnRing(s)
           /\ \A x \in OnRing(s) : x # BufferHead => \E k \in 1..Len(s) : x = s[k]
<1>1. s \in Seq(Nodes) /\ Injective(s)
  BY DEF Rings
<1>2. Len(s) \in Nat /\ DOMAIN s = 1..Len(s) /\ \A k \in 1..Len(s) : s[k] \in Nodes
  BY <1>1, LenProperties, ElementOfSeq
<1>3. Place(s, 0) = BufferHead /\ Place(s, Len(s) + 1) = BufferHead
  BY <1>2 DEF Place
<1>4. \A k \in Int : Place(s, k) \in AnyNode
  BY <1>2 DEF Place, AnyNode
<1>5. \A k \in 1..Len(s) : Place(s, k) = s[k] /\ s[k] \in Nodes /\ s[k] # BufferHead
  BY <1>2, BufferAssumption DEF Place
<1>6. ASSUME NEW i \in 0..Len(s), NEW j \in 0..Len(s), Place(s, i) = Place(s, j)
      PROVE  i = j
  <2>1. CASE i = 0
    BY <2>1, <1>2, <1>3, <1>5, <1>6
  <2>2. CASE j = 0
    BY <2>2, <1>2, <1>3, <1>5, <1>6
  <2>3. CASE i # 0 /\ j # 0
    <3>1. i \in 1..Len(s) /\ j \in 1..Len(s)
      BY <2>3, <1>2
    <3>2. s[i] = s[j]
      BY <3>1, <1>5, <1>6
    <3>3. QED
      BY <3>1, <3>2, <1>1, <1>2 DEF Injective
  <2>4. QED
    BY <2>1, <2>2, <2>3
<1>a. ASSUME NEW i \in 1..(Len(s) + 1), NEW j \in 1..(Len(s) + 1),
             Place(s, i) = Place(s, j)
      PROVE  i = j
  <2>1. CASE i = Len(s) + 1
    BY <2>1, <1>2, <1>3, <1>5, <1>a
  <2>2. CASE j = Len(s) + 1
    BY <2>2, <1>2, <1>3, <1>5, <1>a
  <2>3. CASE i # Len(s) + 1 /\ j # Len(s) + 1
    BY <2>3, <1>2, <1>6, <1>a
  <2>4. QED
    BY <2>1, <2>2, <2>3
<1>7. BufferHead \in OnRing(s) /\ OnRing(s) \subseteq AnyNode
  BY <1>2, <1>3, <1>4 DEF OnRing
<1>8. \A k \in 0..(Len(s) + 1) : Place(s, k) \in OnRing(s)
  BY <1>2, <1>3, <1>7 DEF OnRing
<1>9. \A k \in 1..Len(s) : s[k] \in OnRing(s)
  BY <1>2, <1>5, <1>8
<1>10. ASSUME NEW x \in OnRing(s), x # BufferHead
       PROVE  \E k \in 1..Len(s) : x = s[k]
  <2>1. PICK k \in 0..Len(s) : x = Place(s, k)
    BY DEF OnRing
  <2>2. k \in 1..Len(s)
    BY <2>1, <1>2, <1>3, <1>10
  <2>3. QED
    BY <2>1, <2>2, <1>5
<1>11. QED
  BY <1>1, <1>2, <1>3, <1>4, <1>5, <1>6, <1>a, <1>7, <1>8, <1>9, <1>10

LEMMA LinesAre ==
    ASSUME NEW s \in Rings
    PROVE  /\ Len(s) \in Nat /\ s \in Seq(Nodes) /\ DOMAIN s = 1..Len(s)
           /\ \A k \in 1..Len(s) : s[k] \in Nodes
           /\ \A k, l \in 1..Len(s) : s[k] = s[l] => k = l
<1>1. s \in Seq(Nodes) /\ Injective(s)
  BY DEF Rings
<1>2. Len(s) \in Nat /\ DOMAIN s = 1..Len(s) /\ \A k \in 1..Len(s) : s[k] \in Nodes
  BY <1>1, LenProperties, ElementOfSeq
<1>3. QED
  BY <1>1, <1>2 DEF Injective

LEMMA RingAlong ==
    ASSUME NEW b, NEW s, IsRing(b, s), NEW i \in 0..Len(s)
    PROVE  \A k \in Nat : i + k <= Len(s) + 1 =>
              Along(b.forw, Place(s, i), k) = Place(s, i + k)
<1>1. s \in Rings /\ b.forw \in Links
  BY DEF IsRing
<1>2. Len(s) \in Nat /\ Place(s, i) \in AnyNode
  BY <1>1, PlaceIs
<1>. DEFINE T == { k \in Nat : i + k <= Len(s) + 1 =>
                      Along(b.forw, Place(s, i), k) = Place(s, i + k) }
<1>3. 0 \in T
  BY <1>1, <1>2, AlongIs
<1>4. ASSUME NEW k \in Nat, k \in T
      PROVE  k + 1 \in T
  <2>1. SUFFICES ASSUME i + (k + 1) <= Len(s) + 1
                 PROVE  Along(b.forw, Place(s, i), k + 1) = Place(s, i + (k + 1))
    OBVIOUS
  <2>2. i + k \in 0..Len(s) /\ i + k <= Len(s) + 1 /\ (i + k) + 1 = i + (k + 1)
    BY <1>2, <2>1
  <2>3. Along(b.forw, Place(s, i), k) = Place(s, i + k)
    BY <1>4, <2>2
  <2>4. Along(b.forw, Place(s, i), k + 1) = b.forw[Along(b.forw, Place(s, i), k)]
    BY <1>1, <1>2, AlongIs
  <2>5. b.forw[Place(s, i + k)] = Place(s, (i + k) + 1)
    BY <2>2 DEF IsRing
  <2>6. QED
    BY <2>2, <2>3, <2>4, <2>5
<1>5. QED
  BY <1>3, <1>4, Inducts

LEMMA RingBack ==
    ASSUME NEW b, NEW s, IsRing(b, s), NEW i \in 0..(Len(s) + 1)
    PROVE  \A k \in Nat : k <= i =>
              Along(b.back, Place(s, i), k) = Place(s, i - k)
<1>1. s \in Rings /\ b.back \in Links
  BY DEF IsRing
<1>2. Len(s) \in Nat /\ Place(s, i) \in AnyNode
  BY <1>1, PlaceIs
<1>. DEFINE T == { k \in Nat : k <= i =>
                      Along(b.back, Place(s, i), k) = Place(s, i - k) }
<1>3. 0 \in T
  BY <1>1, <1>2, AlongIs
<1>4. ASSUME NEW k \in Nat, k \in T
      PROVE  k + 1 \in T
  <2>1. SUFFICES ASSUME k + 1 <= i
                 PROVE  Along(b.back, Place(s, i), k + 1) = Place(s, i - (k + 1))
    OBVIOUS
  <2>2. i - (k + 1) \in 0..Len(s) /\ k <= i /\ (i - (k + 1)) + 1 = i - k
    BY <1>2, <2>1
  <2>3. Along(b.back, Place(s, i), k) = Place(s, i - k)
    BY <1>4, <2>2
  <2>4. Along(b.back, Place(s, i), k + 1) = b.back[Along(b.back, Place(s, i), k)]
    BY <1>1, <1>2, AlongIs
  <2>5. b.back[Place(s, (i - (k + 1)) + 1)] = Place(s, i - (k + 1))
    BY <2>2 DEF IsRing
  <2>6. QED
    BY <2>2, <2>3, <2>4, <2>5
<1>5. QED
  BY <1>3, <1>4, Inducts

-----------------------------------------------------------------------------
(* A buffer that holds the lines s: a ring, and a position in it           *)

Buffers == [forw : Links, back : Links, lp : AnyNode, on : Nat,
            addr_last : Nat, current_addr : Nat]

Holds(b, s) ==
    /\ b \in Buffers /\ IsRing(b, s)
    /\ b.addr_last = Len(s) /\ b.current_addr \in 0..Len(s)
    /\ b.on \in 0..Len(s) /\ b.lp = Place(s, b.on)

(* An address past the end stands for the last line.                       *)
Upto(s, n) == IF n > Len(s) THEN Len(s) ELSE n

SameLinks(b, c) ==
    /\ c.forw = b.forw /\ c.back = b.back
    /\ c.addr_last = b.addr_last /\ c.current_addr = b.current_addr

LEMMA FoundIs ==
    ASSUME NEW b, NEW s, Holds(b, s), NEW n \in Nat
    PROVE  Found(b, n) = Place(s, Upto(s, n))
<1>1. /\ s \in Rings /\ IsRing(b, s) /\ b.addr_last = Len(s) /\ b.on \in 0..Len(s)
      /\ b.lp = Place(s, b.on)
  BY DEF Holds, IsRing
<1>2. Len(s) \in Nat /\ Place(s, 0) = BufferHead /\ Place(s, Len(s) + 1) = BufferHead
  BY <1>1, PlaceIs
<1>3. b.back[BufferHead] = Place(s, Len(s))
  <2>1. Len(s) \in 0..Len(s)
    BY <1>2
  <2>2. QED
    BY <1>1, <1>2, <2>1 DEF IsRing
<1>4. CASE n > b.on /\ n <= (b.on + b.addr_last) \div 2
  <2>1. n - b.on \in Nat /\ b.on + (n - b.on) = n /\ n <= Len(s)
    BY <1>1, <1>2, <1>4
  <2>2. Along(b.forw, Place(s, b.on), n - b.on) = Place(s, b.on + (n - b.on))
    BY <1>1, <1>2, <2>1, RingAlong
  <2>3. QED
    BY <1>1, <1>4, <2>1, <2>2 DEF Found, Upto
<1>5. CASE n > b.on /\ ~(n <= (b.on + b.addr_last) \div 2) /\ n > b.addr_last
  BY <1>1, <1>2, <1>3, <1>5 DEF Found, Upto
<1>6. CASE n > b.on /\ ~(n <= (b.on + b.addr_last) \div 2) /\ n <= b.addr_last
  <2>1. Len(s) - n \in Nat /\ Len(s) - (Len(s) - n) = n /\ ~(n > Len(s))
    BY <1>1, <1>2, <1>6
  <2>2. Along(b.back, Place(s, Len(s)), Len(s) - n) = Place(s, Len(s) - (Len(s) - n))
    BY <1>1, <1>2, <2>1, RingBack
  <2>3. QED
    BY <1>1, <1>2, <1>3, <1>6, <2>1, <2>2 DEF Found, Upto
<1>7. CASE ~(n > b.on) /\ n >= b.on \div 2
  <2>1. /\ b.on - n \in Nat /\ b.on - (b.on - n) = n /\ ~(n > Len(s)) /\ b.on - n <= b.on
        /\ b.on \in 0..(Len(s) + 1)
    BY <1>1, <1>2, <1>7
  <2>2. Along(b.back, Place(s, b.on), b.on - n) = Place(s, b.on - (b.on - n))
    BY <1>1, <1>2, <2>1, RingBack
  <2>3. QED
    BY <1>1, <1>7, <2>1, <2>2 DEF Found, Upto
<1>8. CASE ~(n > b.on) /\ ~(n >= b.on \div 2)
  <2>1. 0 + n = n /\ ~(n > Len(s)) /\ 0 + n <= Len(s) + 1
    BY <1>1, <1>2, <1>8
  <2>2. Along(b.forw, Place(s, 0), n) = Place(s, 0 + n)
    BY <1>1, <1>2, <2>1, RingAlong
  <2>3. QED
    BY <1>1, <1>2, <1>8, <2>1, <2>2 DEF Found, Upto
<1>9. n > b.addr_last \/ n <= b.addr_last
  BY <1>1, <1>2
<1>10. QED
  BY <1>4, <1>5, <1>6, <1>7, <1>8, <1>9

LEMMA SeekIs ==
    ASSUME NEW b, NEW s, Holds(b, s), NEW n \in Nat
    PROVE  /\ Holds(Seek(b, n), s) /\ SameLinks(b, Seek(b, n))
           /\ Seek(b, n).on = Upto(s, n) /\ Seek(b, n).lp = Place(s, Upto(s, n))
           /\ Node(b, n) = Place(s, Upto(s, n))
<1>1. /\ b \in Buffers /\ b.addr_last = Len(s) /\ s \in Rings /\ IsRing(b, s)
      /\ b.current_addr \in 0..Len(s)
  BY DEF Holds, IsRing
<1>2. Found(b, n) = Place(s, Upto(s, n))
  BY FoundIs
<1>3. Upto(s, n) \in 0..Len(s) /\ Upto(s, n) \in Nat /\ Place(s, Upto(s, n)) \in AnyNode
  BY <1>1, PlaceIs DEF Upto
<1>4. (IF n > b.addr_last THEN b.addr_last ELSE n) = Upto(s, n)
  BY <1>1 DEF Upto
<1>. DEFINE c == [b EXCEPT !.lp = Place(s, Upto(s, n)), !.on = Upto(s, n)]
<1>5. Seek(b, n) = c
  BY <1>2, <1>4 DEF Seek
<1>6. /\ c \in Buffers /\ SameLinks(b, c)
      /\ c.on = Upto(s, n) /\ c.lp = Place(s, Upto(s, n))
  BY <1>1, <1>3 DEF Buffers, SameLinks
<1>7. IsRing(c, s)
  BY <1>1, <1>6 DEF IsRing, SameLinks
<1>8. Holds(c, s)
  BY <1>1, <1>3, <1>6, <1>7 DEF Holds, SameLinks
<1>9. QED
  BY <1>5, <1>6, <1>8 DEF Node

LEMMA SeekAt ==
    ASSUME NEW b, NEW s, Holds(b, s), NEW n \in 0..Len(s)
    PROVE  /\ Holds(Seek(b, n), s) /\ SameLinks(b, Seek(b, n))
           /\ Seek(b, n).on = n /\ Seek(b, n).lp = Place(s, n)
           /\ Node(b, n) = Place(s, n)
<1>1. Len(s) \in Nat
  BY LinesAre DEF Holds, IsRing
<1>2. n \in Nat /\ Upto(s, n) = n
  BY <1>1 DEF Upto
<1>3. QED
  BY <1>2, SeekIs

LEMMA AtIs ==
    ASSUME NEW b, NEW s, Holds(b, s), NEW n \in 0..Len(s)
    PROVE  /\ Holds(At(b, n), s) /\ At(b, n).current_addr = n
           /\ At(b, n).forw = b.forw /\ At(b, n).back = b.back
           /\ At(b, n).addr_last = b.addr_last
           /\ At(b, n).lp = b.lp /\ At(b, n).on = b.on
<1>1. b \in Buffers /\ IsRing(b, s) /\ Len(s) \in Nat
  BY PlaceIs DEF Holds, IsRing
<1>. DEFINE c == [b EXCEPT !.current_addr = n]
<1>2. /\ c \in Buffers /\ c.forw = b.forw /\ c.back = b.back /\ c.current_addr = n
      /\ c.lp = b.lp /\ c.on = b.on /\ c.addr_last = b.addr_last
  BY <1>1 DEF Buffers
<1>3. IsRing(c, s)
  BY <1>1, <1>2 DEF IsRing
<1>4. Holds(c, s)
  BY <1>2, <1>3 DEF Holds
<1>5. QED
  BY <1>2, <1>4 DEF At

LEMMA NextPlace ==
    ASSUME NEW s \in Rings, NEW n \in 0..Len(s)
    PROVE  /\ IncMod(n, Len(s)) \in 0..Len(s)
           /\ Place(s, IncMod(n, Len(s))) = Place(s, n + 1)
           /\ Upto(s, IncMod(n, Len(s))) = IncMod(n, Len(s))
  BY PlaceIs DEF IncMod, Upto

(* The links of c are those of b, but for pred and succ, which are linked. *)
Linked(c, b, pred, succ) ==
    \A x \in AnyNode :
        /\ c.forw[x] = IF x = pred THEN succ ELSE b.forw[x]
        /\ c.back[x] = IF x = succ THEN pred ELSE b.back[x]

SamePlace(c, b) ==
    /\ c.lp = b.lp /\ c.on = b.on
    /\ c.addr_last = b.addr_last /\ c.current_addr = b.current_addr

LEMMA RequeIs ==
    ASSUME NEW b \in Buffers, NEW pred \in AnyNode, NEW succ \in AnyNode
    PROVE  /\ Reque(b, pred, succ) \in Buffers
           /\ Linked(Reque(b, pred, succ), b, pred, succ)
           /\ SamePlace(Reque(b, pred, succ), b)
<1>. PICK c : c = Reque(b, pred, succ)
  OBVIOUS
<1>1. /\ b.forw \in [AnyNode -> AnyNode] /\ b.back \in [AnyNode -> AnyNode]
      /\ b.lp \in AnyNode /\ b.on \in Nat /\ b.addr_last \in Nat /\ b.current_addr \in Nat
  BY DEF Buffers, Links
<1>. DEFINE f == [b.forw EXCEPT ![pred] = succ]
            g == [b.back EXCEPT ![succ] = pred]
<1>2. c = [b EXCEPT !.forw = f, !.back = g]
  BY DEF Reque, Buffers
<1>3. /\ f \in [AnyNode -> AnyNode] /\ g \in [AnyNode -> AnyNode]
      /\ \A x \in AnyNode : /\ f[x] = IF x = pred THEN succ ELSE b.forw[x]
                            /\ g[x] = IF x = succ THEN pred ELSE b.back[x]
  BY <1>1
<1>. HIDE DEF f, g
<1>4. /\ c \in Buffers /\ c.forw = f /\ c.back = g
      /\ c.lp = b.lp /\ c.on = b.on /\ c.addr_last = b.addr_last
      /\ c.current_addr = b.current_addr
  BY <1>2, <1>3 DEF Buffers, Links
<1>5. QED
  BY <1>3, <1>4 DEF Linked, SamePlace

-----------------------------------------------------------------------------
(* Lines put in, cut out, and moved                                        *)

LEMMA RingsAre ==
    ASSUME NEW n \in Nat, NEW s, DOMAIN s = 1..n, s = [k \in 1..n |-> s[k]],
           \A k \in 1..n : s[k] \in Nodes,
           \A i, j \in 1..n : s[i] = s[j] => i = j
    PROVE  s \in Rings /\ Len(s) = n
<1>1. s \in [1..n -> Nodes]
  OBVIOUS
<1>2. s \in Seq(Nodes) /\ Len(s) = n
  BY <1>1, IsASeq
<1>3. QED
  BY <1>2 DEF Rings, Injective

(* The lines s with the line x after the first c of them.                  *)
With(s, c, x) ==
    [k \in 1..(Len(s) + 1) |-> IF k <= c THEN s[k] ELSE IF k = c + 1 THEN x ELSE s[k - 1]]

LEMMA WithIs ==
    ASSUME NEW s \in Rings, NEW c \in 0..Len(s), NEW x \in Nodes, x \notin OnRing(s)
    PROVE  LET w == With(s, c, x) IN
           /\ w \in Rings /\ Len(w) = Len(s) + 1
           /\ \A k \in 0..(Len(s) + 2) :
                Place(w, k) = IF k <= c THEN Place(s, k) ELSE IF k = c + 1 THEN x
                              ELSE Place(s, k - 1)
           /\ OnRing(w) = OnRing(s) \cup {x}
<1>. DEFINE w == With(s, c, x)
            n == Len(s) + 1
<1>1. /\ Len(s) \in Nat /\ n \in Nat
      /\ \A k \in 1..Len(s) : s[k] \in Nodes /\ s[k] # x
      /\ \A i, j \in 1..Len(s) : s[i] = s[j] => i = j
  <2>1. /\ Len(s) \in Nat /\ \A k \in 1..Len(s) : s[k] \in Nodes
        /\ \A i, j \in 1..Len(s) : s[i] = s[j] => i = j
    BY LinesAre
  <2>2. \A k \in 1..Len(s) : s[k] # x
    BY PlaceIs
  <2>3. QED
    BY <2>1, <2>2
<1>2. \A k \in 1..n : w[k] = IF k <= c THEN s[k] ELSE IF k = c + 1 THEN x ELSE s[k - 1]
  BY DEF With
<1>3. DOMAIN w = 1..n /\ w = [k \in 1..n |-> w[k]]
  BY DEF With
<1>. HIDE DEF w
<1>4. \A k \in 1..n : w[k] \in Nodes
  BY <1>1, <1>2
<1>5. ASSUME NEW i \in 1..n, NEW j \in 1..n, w[i] = w[j]
      PROVE  i = j
  BY <1>1, <1>2, <1>5
<1>6. w \in Rings /\ Len(w) = n
  <2>. HIDE DEF n
  <2>. QED
    BY <1>1, <1>3, <1>4, <1>5, RingsAre
<1>7. ASSUME NEW k \in 0..(Len(s) + 2)
      PROVE  Place(w, k) = IF k <= c THEN Place(s, k) ELSE IF k = c + 1 THEN x
                           ELSE Place(s, k - 1)
  <2>1. CASE k \in 1..n
    BY <2>1, <1>1, <1>2, <1>6 DEF Place
  <2>2. CASE k \notin 1..n
    BY <2>2, <1>1, <1>6 DEF Place
  <2>3. QED
    BY <2>1, <2>2
<1>8. ASSUME NEW y \in OnRing(w)
      PROVE  y \in OnRing(s) \cup {x}
  <2>1. PICK k \in 0..n : y = Place(w, k)
    BY <1>6 DEF OnRing
  <2>2. CASE k <= c
    BY <2>1, <2>2, <1>1, <1>7, PlaceIs
  <2>3. CASE k = c + 1
    BY <2>1, <2>3, <1>1, <1>7
  <2>4. CASE k > c + 1
    <3>1. k - 1 \in 0..(Len(s) + 1) /\ y = Place(s, k - 1)
      BY <2>1, <2>4, <1>1, <1>7
    <3>2. QED
      BY <3>1, PlaceIs
  <2>5. QED
    BY <2>2, <2>3, <2>4
<1>9. ASSUME NEW y \in OnRing(s) \cup {x}
      PROVE  y \in OnRing(w)
  <2>1. CASE y = x
    <3>1. c + 1 \in 0..Len(w) /\ Place(w, c + 1) = x
      BY <1>1, <1>6, <1>7
    <3>2. QED
      BY <2>1, <3>1 DEF OnRing
  <2>2. CASE y # x
    <3>1. PICK k \in 0..Len(s) : y = Place(s, k)
      BY <2>2 DEF OnRing
    <3>2. CASE k <= c
      <4>1. k \in 0..Len(w) /\ Place(w, k) = y
        BY <1>1, <1>6, <1>7, <3>1, <3>2
      <4>2. QED
        BY <4>1 DEF OnRing
    <3>3. CASE k > c
      <4>1. k + 1 \in 0..Len(w) /\ (k + 1) - 1 = k /\ Place(w, k + 1) = y
        BY <1>1, <1>6, <1>7, <3>1, <3>3
      <4>2. QED
        BY <4>1 DEF OnRing
    <3>4. QED
      BY <3>2, <3>3, <1>1
  <2>3. QED
    BY <2>1, <2>2
<1>10. OnRing(w) = OnRing(s) \cup {x}
  BY <1>8, <1>9
<1>11. QED
  BY <1>6, <1>7, <1>10 DEF w

(* The lines from i to j, and the lines s without them.                    *)
Lying(s, i, j) == { s[k] : k \in i..j }

Without(s, i, j) ==
    [k \in 1..(Len(s) - (j - i + 1)) |-> IF k < i THEN s[k] ELSE s[k + (j - i + 1)]]

LEMMA WithoutIs ==
    ASSUME NEW s \in Rings, NEW i \in 1..(Len(s) + 1), NEW j \in 0..Len(s), i <= j + 1
    PROVE  LET w == Without(s, i, j) IN
           /\ w \in Rings /\ Len(w) = Len(s) - (j - i + 1)
           /\ \A k \in 0..(Len(w) + 1) :
                Place(w, k) = IF k < i THEN Place(s, k) ELSE Place(s, k + (j - i + 1))
           /\ OnRing(w) = OnRing(s) \ Lying(s, i, j)
<1>. DEFINE w == Without(s, i, j)
            d == j - i + 1
            n == Len(s) - d
<1>1. /\ Len(s) \in Nat /\ n \in Nat /\ d \in Nat
      /\ \A k \in 1..Len(s) : s[k] \in Nodes
      /\ \A k, l \in 1..Len(s) : s[k] = s[l] => k = l
  BY LinesAre
<1>2. \A k \in 1..n : w[k] = IF k < i THEN s[k] ELSE s[k + d]
  BY DEF Without
<1>3. DOMAIN w = 1..n /\ w = [k \in 1..n |-> w[k]]
  BY DEF Without
<1>. HIDE DEF w
<1>4. \A k \in 1..n : w[k] \in Nodes
  BY <1>1, <1>2
<1>. DEFINE at(k) == IF k < i THEN k ELSE k + d
<1>a. \A k \in 1..n : at(k) \in 1..Len(s) /\ w[k] = s[at(k)]
  BY <1>1, <1>2
<1>5. ASSUME NEW k \in 1..n, NEW l \in 1..n, w[k] = w[l]
      PROVE  k = l
  <2>1. at(k) = at(l)
    <3>. HIDE DEF at
    <3>. QED
      BY <1>1, <1>5, <1>a
  <2>2. QED
    BY <2>1, <1>1
<1>6. w \in Rings /\ Len(w) = n
  <2>. HIDE DEF n
  <2>. QED
    BY <1>1, <1>3, <1>4, <1>5, RingsAre
<1>7. ASSUME NEW k \in 0..(n + 1)
      PROVE  Place(w, k) = IF k < i THEN Place(s, k) ELSE Place(s, k + d)
  <2>1. CASE k \in 1..n
    BY <2>1, <1>1, <1>2, <1>6 DEF Place
  <2>2. CASE k \notin 1..n
    BY <2>2, <1>1, <1>6 DEF Place
  <2>3. QED
    BY <2>1, <2>2
<1>8. ASSUME NEW y \in OnRing(w)
      PROVE  y \in OnRing(s) \ Lying(s, i, j)
  <2>1. PICK k \in 0..n : y = Place(w, k)
    BY <1>6 DEF OnRing
  <2>2. PICK m \in 0..Len(s) : y = Place(s, m) /\ m \notin i..j
    <3>1. CASE k < i
      BY <2>1, <3>1, <1>1, <1>7
    <3>2. CASE k >= i
      <4>1. k + d \in 0..Len(s) /\ k + d \notin i..j /\ y = Place(s, k + d)
        BY <2>1, <3>2, <1>1, <1>7
      <4>2. QED
        BY <4>1
    <3>3. QED
      BY <3>1, <3>2, <1>1
  <2>3. y \in OnRing(s)
    BY <2>2 DEF OnRing
  <2>4. ASSUME y \in Lying(s, i, j)
        PROVE  FALSE
    <3>1. PICK l \in i..j : y = s[l]
      BY <2>4 DEF Lying
    <3>2. l \in 1..Len(s) /\ l \in 0..Len(s)
      BY <1>1
    <3>3. Place(s, l) = Place(s, m)
      BY <2>2, <3>1, <3>2, PlaceIs
    <3>4. l = m
      BY <3>2, <3>3, PlaceIs
    <3>5. QED
      BY <2>2, <3>4
  <2>5. QED
    BY <2>3, <2>4
<1>9. ASSUME NEW y \in OnRing(s) \ Lying(s, i, j)
      PROVE  y \in OnRing(w)
  <2>1. PICK m \in 0..Len(s) : y = Place(s, m)
    BY DEF OnRing
  <2>2. m \notin i..j
    <3>1. ASSUME m \in i..j PROVE FALSE
      <4>1. m \in 1..Len(s)
        BY <3>1, <1>1
      <4>2. y = s[m]
        BY <2>1, <4>1, PlaceIs
      <4>3. QED
        BY <3>1, <4>2 DEF Lying
    <3>2. QED
      BY <3>1
  <2>3. CASE m < i
    <3>1. m \in 0..n /\ m \in 0..(n + 1) /\ Place(w, m) = y
      BY <2>1, <2>2, <2>3, <1>1, <1>7
    <3>2. QED
      BY <3>1, <1>6 DEF OnRing
  <2>4. CASE m >= i
    <3>1. m - d \in 0..n /\ m - d >= i /\ (m - d) + d = m
      BY <2>2, <2>4, <1>1
    <3>2. Place(w, m - d) = y
      BY <2>1, <3>1, <1>1, <1>7
    <3>3. QED
      BY <3>1, <3>2, <1>6 DEF OnRing
  <2>5. QED
    BY <2>3, <2>4, <1>1
<1>10. OnRing(w) = OnRing(s) \ Lying(s, i, j)
  BY <1>8, <1>9
<1>11. QED
  BY <1>6, <1>7, <1>10 DEF w, n, d

(* Where the line was that is in place k after the lines from i to j have  *)
(* been moved behind line a; and the lines in their new order.             *)
Origin(i, j, a, k) ==
    LET d == j - i + 1 IN
    IF a < i
    THEN IF k <= a \/ k > j THEN k ELSE IF k <= a + d THEN k - a - 1 + i ELSE k - d
    ELSE IF k < i \/ k > a THEN k ELSE IF k <= a - d THEN k + d ELSE k - a + j

Shifted(s, i, j, a) == [k \in 1..Len(s) |-> s[Origin(i, j, a, k)]]

(* The lines from i to j of n lines can be moved behind line a.            *)
Movable(n, i, j, a) ==
    i \in 1..n /\ j \in i..n /\ a \in 0..n /\ (a < i - 1 \/ a > j)

LEMMA OriginIs ==
    ASSUME NEW n \in Nat, NEW i, NEW j, NEW a, Movable(n, i, j, a)
    PROVE  /\ Origin(i, j, a, 0) = 0 /\ Origin(i, j, a, n + 1) = n + 1
           /\ \A k \in 1..n : Origin(i, j, a, k) \in 1..n
           /\ \A k, l \in 1..n : Origin(i, j, a, k) = Origin(i, j, a, l) => k = l
           /\ \A m \in 1..n : \E k \in 1..n : Origin(i, j, a, k) = m
<1>a. i \in 1..n /\ j \in i..n /\ a \in 0..n /\ (a < i - 1 \/ a > j)
  BY DEF Movable
<1>1. /\ Origin(i, j, a, 0) = 0 /\ Origin(i, j, a, n + 1) = n + 1
      /\ \A k \in 1..n : Origin(i, j, a, k) \in 1..n
  BY <1>a DEF Origin
<1>2. \A k, l \in 1..n : Origin(i, j, a, k) = Origin(i, j, a, l) => k = l
  BY <1>a DEF Origin
<1>3. ASSUME NEW m \in 1..n
      PROVE  \E k \in 1..n : Origin(i, j, a, k) = m
  <2>. DEFINE d == j - i + 1
  <2>1. CASE (m < i /\ m <= a) \/ (m > j /\ m > a)
    <3>1. Origin(i, j, a, m) = m
      BY <1>a, <2>1 DEF Origin
    <3>2. QED
      BY <3>1
  <2>2. CASE a < i /\ m \in i..j
    <3>1. m - i + a + 1 \in 1..n /\ Origin(i, j, a, m - i + a + 1) = m
      BY <1>a, <2>2 DEF Origin
    <3>2. QED
      BY <3>1
  <2>3. CASE a < i /\ a < m /\ m < i
    <3>1. m + d \in 1..n /\ Origin(i, j, a, m + d) = m
      BY <1>a, <2>3 DEF Origin
    <3>2. QED
      BY <3>1
  <2>4. CASE a > j /\ m \in i..j
    <3>1. m - j + a \in 1..n /\ Origin(i, j, a, m - j + a) = m
      BY <1>a, <2>4 DEF Origin
    <3>2. QED
      BY <3>1
  <2>5. CASE a > j /\ j < m /\ m <= a
    <3>1. m - d \in 1..n /\ Origin(i, j, a, m - d) = m
      BY <1>a, <2>5 DEF Origin
    <3>2. QED
      BY <3>1
  <2>6. \/ (m < i /\ m <= a) \/ (m > j /\ m > a)
        \/ a < i /\ m \in i..j
        \/ a < i /\ a < m /\ m < i
        \/ a > j /\ m \in i..j
        \/ a > j /\ j < m /\ m <= a
    BY <1>a
  <2>7. QED
    BY <2>1, <2>2, <2>3, <2>4, <2>5, <2>6
<1>4. QED
  BY <1>1, <1>2, <1>3

(* Which line, by its old place, the one from place m is followed by, and   *)
(* which one it follows.                                                   *)
Following(i, j, a, m) ==
    IF m = i - 1 THEN j + 1 ELSE IF m = a THEN i ELSE IF m = j THEN a + 1 ELSE m + 1

Followed(i, j, a, m) ==
    IF m = j + 1 THEN i - 1 ELSE IF m = a + 1 THEN j ELSE IF m = i THEN a ELSE m - 1

LEMMA OriginSteps ==
    ASSUME NEW n \in Nat, NEW i, NEW j, NEW a, Movable(n, i, j, a), NEW k \in 0..n
    PROVE  /\ Origin(i, j, a, k + 1) = Following(i, j, a, Origin(i, j, a, k))
           /\ Origin(i, j, a, k) = Followed(i, j, a, Origin(i, j, a, k + 1))
<1>1. Origin(i, j, a, k + 1) = Following(i, j, a, Origin(i, j, a, k))
  BY DEF Origin, Following, Movable
<1>2. Origin(i, j, a, k) = Followed(i, j, a, Origin(i, j, a, k + 1))
  BY DEF Origin, Followed, Movable
<1>3. QED
  BY <1>1, <1>2

LEMMA ShiftedIs ==
    ASSUME NEW s \in Rings, NEW i, NEW j, NEW a, Movable(Len(s), i, j, a)
    PROVE  LET w == Shifted(s, i, j, a) IN
           /\ w \in Rings /\ Len(w) = Len(s)
           /\ \A k \in 0..(Len(s) + 1) : Place(w, k) = Place(s, Origin(i, j, a, k))
           /\ OnRing(w) = OnRing(s)
<1>. DEFINE w == Shifted(s, i, j, a)
            o(k) == Origin(i, j, a, k)
            n == Len(s)
<1>1. /\ n \in Nat /\ \A k \in 1..n : s[k] \in Nodes
      /\ \A k, l \in 1..n : s[k] = s[l] => k = l
  BY LinesAre
<1>2. /\ o(0) = 0 /\ o(n + 1) = n + 1
      /\ \A k \in 1..n : o(k) \in 1..n
      /\ \A k, l \in 1..n : o(k) = o(l) => k = l
      /\ \A m \in 1..n : \E k \in 1..n : o(k) = m
  BY <1>1, OriginIs
<1>3. DOMAIN w = 1..n /\ w = [k \in 1..n |-> w[k]] /\ \A k \in 1..n : w[k] = s[o(k)]
  BY DEF Shifted
<1>. HIDE DEF w, o
<1>4. \A k \in 1..n : w[k] \in Nodes
  BY <1>1, <1>2, <1>3
<1>5. ASSUME NEW k \in 1..n, NEW l \in 1..n, w[k] = w[l]
      PROVE  k = l
  <2>1. o(k) \in 1..n /\ o(l) \in 1..n /\ s[o(k)] = s[o(l)]
    BY <1>2, <1>3, <1>5
  <2>2. o(k) = o(l)
    BY <1>1, <2>1
  <2>3. QED
    BY <1>2, <2>2
<1>6. w \in Rings /\ Len(w) = n
  <2>. HIDE DEF n
  <2>. QED
    BY <1>1, <1>3, <1>4, <1>5, RingsAre
<1>7. ASSUME NEW k \in 0..(n + 1)
      PROVE  Place(w, k) = Place(s, o(k))
  <2>1. CASE k \in 1..n
    BY <2>1, <1>1, <1>2, <1>3, <1>6 DEF Place
  <2>2. CASE k = 0
    BY <2>2, <1>1, <1>2, <1>6 DEF Place
  <2>3. CASE k = n + 1
    <3>1. k \notin 1..n /\ o(k) = k
      BY <2>3, <1>1, <1>2
    <3>2. QED
      BY <3>1, <1>6 DEF Place
  <2>4. QED
    BY <2>1, <2>2, <2>3, <1>1
<1>8. OnRing(w) = OnRing(s)
  <2>1. ASSUME NEW y \in OnRing(w), y # BufferHead
        PROVE  y \in OnRing(s)
    <3>1. PICK k \in 1..n : y = w[k]
      BY <2>1, <1>6, PlaceIs
    <3>2. QED
      BY <3>1, <1>2, <1>3, PlaceIs
  <2>2. ASSUME NEW y \in OnRing(s), y # BufferHead
        PROVE  y \in OnRing(w)
    <3>1. PICK m \in 1..n : y = s[m]
      BY <2>2, PlaceIs
    <3>2. PICK k \in 1..n : o(k) = m
      BY <1>2
    <3>3. y = w[k]
      BY <1>3, <3>1, <3>2
    <3>4. QED
      BY <3>3, <1>6, PlaceIs
  <2>3. BufferHead \in OnRing(w) /\ BufferHead \in OnRing(s)
    BY <1>6, PlaceIs
  <2>4. QED
    BY <2>1, <2>2, <2>3
<1>9. QED
  BY <1>6, <1>7, <1>8 DEF w, o

-----------------------------------------------------------------------------
(* What links make of the lines                                            *)

(* A line x is linked in after line c.                                     *)
LEMMA RingWith ==
    ASSUME NEW b, NEW d, NEW s, NEW c \in 0..Len(s), NEW x \in Nodes,
           IsRing(b, s), x \notin OnRing(s),
           d.forw \in Links, d.back \in Links,
           \A y \in OnRing(s) \cup {x} :
              /\ d.forw[y] = IF y = Place(s, c) THEN x
                             ELSE IF y = x THEN Place(s, c + 1) ELSE b.forw[y]
              /\ d.back[y] = IF y = x THEN Place(s, c)
                             ELSE IF y = Place(s, c + 1) THEN x ELSE b.back[y]
    PROVE  IsRing(d, With(s, c, x))
<1>. DEFINE w == With(s, c, x)
<1>1. /\ s \in Rings
      /\ \A k \in 0..Len(s) :
            b.forw[Place(s, k)] = Place(s, k + 1) /\ b.back[Place(s, k + 1)] = Place(s, k)
  BY DEF IsRing
<1>2. /\ Len(s) \in Nat
      /\ \A i, j \in 0..Len(s) : Place(s, i) = Place(s, j) => i = j
      /\ \A i, j \in 1..(Len(s) + 1) : Place(s, i) = Place(s, j) => i = j
      /\ \A k \in 0..(Len(s) + 1) : Place(s, k) \in OnRing(s)
  BY <1>1, PlaceIs
<1>3. /\ w \in Rings /\ Len(w) = Len(s) + 1
      /\ \A k \in 0..(Len(s) + 2) :
            Place(w, k) = IF k <= c THEN Place(s, k) ELSE IF k = c + 1 THEN x
                          ELSE Place(s, k - 1)
  BY <1>1, WithIs
<1>. HIDE DEF w
<1>4. ASSUME NEW k \in 0..Len(w)
      PROVE  d.forw[Place(w, k)] = Place(w, k + 1) /\ d.back[Place(w, k + 1)] = Place(w, k)
  <2>1. CASE k < c
    <3>1. /\ Place(w, k) = Place(s, k) /\ Place(w, k + 1) = Place(s, k + 1)
          /\ k \in 0..Len(s) /\ c \in 0..Len(s) /\ c + 1 \in 1..(Len(s) + 1)
          /\ k + 1 \in 1..(Len(s) + 1) /\ k # c /\ k + 1 # c + 1
      BY <2>1, <1>2, <1>3
    <3>2. /\ Place(s, k) # Place(s, c) /\ Place(s, k + 1) # Place(s, c + 1)
          /\ Place(s, k) \in OnRing(s) /\ Place(s, k + 1) \in OnRing(s)
      BY <3>1, <1>2
    <3>3. QED
      BY <3>1, <3>2, <1>1
  <2>2. CASE k = c
    <3>1. /\ Place(w, k) = Place(s, c) /\ Place(w, k + 1) = x /\ c \in 0..(Len(s) + 1)
      BY <2>2, <1>2, <1>3
    <3>2. Place(s, c) \in OnRing(s)
      BY <3>1, <1>2
    <3>3. QED
      BY <3>1, <3>2
  <2>3. CASE k = c + 1
    <3>1. /\ Place(w, k) = x /\ Place(w, k + 1) = Place(s, c + 1)
          /\ c + 1 \in 0..(Len(s) + 1) /\ c \in 0..(Len(s) + 1)
      BY <2>3, <1>2, <1>3
    <3>2. Place(s, c) \in OnRing(s) /\ Place(s, c + 1) \in OnRing(s)
      BY <3>1, <1>2
    <3>3. QED
      BY <3>1, <3>2
  <2>4. CASE k > c + 1
    <3>1. /\ Place(w, k) = Place(s, k - 1) /\ Place(w, k + 1) = Place(s, k)
          /\ k - 1 \in 0..Len(s) /\ c \in 0..Len(s) /\ c + 1 \in 1..(Len(s) + 1)
          /\ k \in 1..(Len(s) + 1) /\ k - 1 # c /\ k # c + 1 /\ (k - 1) + 1 = k
      BY <2>4, <1>2, <1>3
    <3>2. /\ Place(s, k - 1) # Place(s, c) /\ Place(s, k) # Place(s, c + 1)
          /\ Place(s, k - 1) \in OnRing(s) /\ Place(s, k) \in OnRing(s)
      BY <3>1, <1>2
    <3>3. b.forw[Place(s, k - 1)] = Place(s, k) /\ b.back[Place(s, k)] = Place(s, k - 1)
      BY <3>1, <1>1
    <3>4. QED
      BY <3>1, <3>2, <3>3
  <2>5. QED
    BY <2>1, <2>2, <2>3, <2>4, <1>2, <1>3
<1>5. QED
  BY <1>3, <1>4 DEF IsRing, w

(* The lines from i to j are linked out.                                   *)
LEMMA RingWithout ==
    ASSUME NEW b, NEW d, NEW s, NEW i \in 1..(Len(s) + 1), NEW j \in 0..Len(s), i <= j + 1,
           IsRing(b, s), d.forw \in Links, d.back \in Links,
           \A y \in OnRing(s) :
              /\ d.forw[y] = IF y = Place(s, i - 1) THEN Place(s, j + 1) ELSE b.forw[y]
              /\ d.back[y] = IF y = Place(s, j + 1) THEN Place(s, i - 1) ELSE b.back[y]
    PROVE  IsRing(d, Without(s, i, j))
<1>. DEFINE w == Without(s, i, j)
            m == j - i + 1
<1>1. /\ s \in Rings
      /\ \A k \in 0..Len(s) :
            b.forw[Place(s, k)] = Place(s, k + 1) /\ b.back[Place(s, k + 1)] = Place(s, k)
  BY DEF IsRing
<1>2. /\ Len(s) \in Nat /\ m \in Nat
      /\ \A k, l \in 0..Len(s) : Place(s, k) = Place(s, l) => k = l
      /\ \A k, l \in 1..(Len(s) + 1) : Place(s, k) = Place(s, l) => k = l
      /\ \A k \in 0..(Len(s) + 1) : Place(s, k) \in OnRing(s)
  BY <1>1, PlaceIs
<1>3. /\ w \in Rings /\ Len(w) = Len(s) - m
      /\ \A k \in 0..(Len(w) + 1) :
            Place(w, k) = IF k < i THEN Place(s, k) ELSE Place(s, k + m)
  BY <1>1, WithoutIs
<1>. HIDE DEF w
<1>4. ASSUME NEW k \in 0..Len(w)
      PROVE  d.forw[Place(w, k)] = Place(w, k + 1) /\ d.back[Place(w, k + 1)] = Place(w, k)
  <2>1. CASE k < i - 1
    <3>1. /\ Place(w, k) = Place(s, k) /\ Place(w, k + 1) = Place(s, k + 1)
          /\ k \in 0..Len(s) /\ i - 1 \in 0..Len(s) /\ j + 1 \in 1..(Len(s) + 1)
          /\ k + 1 \in 1..(Len(s) + 1) /\ k # i - 1 /\ k + 1 # j + 1
      BY <2>1, <1>2, <1>3
    <3>2. /\ Place(s, k) # Place(s, i - 1) /\ Place(s, k + 1) # Place(s, j + 1)
          /\ Place(s, k) \in OnRing(s) /\ Place(s, k + 1) \in OnRing(s)
      BY <3>1, <1>2
    <3>3. QED
      BY <3>1, <3>2, <1>1
  <2>2. CASE k = i - 1
    <3>1. /\ Place(w, k) = Place(s, i - 1) /\ Place(w, k + 1) = Place(s, j + 1)
          /\ i - 1 \in 0..(Len(s) + 1) /\ j + 1 \in 0..(Len(s) + 1)
      BY <2>2, <1>2, <1>3
    <3>2. Place(s, i - 1) \in OnRing(s) /\ Place(s, j + 1) \in OnRing(s)
      BY <3>1, <1>2
    <3>3. QED
      BY <3>1, <3>2
  <2>3. CASE k >= i
    <3>1. /\ Place(w, k) = Place(s, k + m) /\ Place(w, k + 1) = Place(s, (k + m) + 1)
          /\ k + m \in 0..Len(s) /\ i - 1 \in 0..Len(s) /\ j + 1 \in 1..(Len(s) + 1)
          /\ (k + m) + 1 \in 1..(Len(s) + 1) /\ k + m # i - 1 /\ (k + m) + 1 # j + 1
      BY <2>3, <1>2, <1>3
    <3>. HIDE DEF m
    <3>2. /\ Place(s, k + m) # Place(s, i - 1) /\ Place(s, (k + m) + 1) # Place(s, j + 1)
          /\ Place(s, k + m) \in OnRing(s) /\ Place(s, (k + m) + 1) \in OnRing(s)
      BY <3>1, <1>2
    <3>3. QED
      BY <3>1, <3>2, <1>1
  <2>4. QED
    BY <2>1, <2>2, <2>3, <1>2, <1>3
<1>5. QED
  BY <1>3, <1>4 DEF IsRing, w

(* The lines from i to j are linked in behind line a.                      *)
LEMMA RingShifted ==
    ASSUME NEW b, NEW d, NEW s, NEW i, NEW j, NEW a, Movable(Len(s), i, j, a),
           IsRing(b, s), d.forw \in Links, d.back \in Links,
           \A y \in OnRing(s) :
              /\ d.forw[y] = IF y = Place(s, i - 1) THEN Place(s, j + 1)
                             ELSE IF y = Place(s, a) THEN Place(s, i)
                             ELSE IF y = Place(s, j) THEN Place(s, a + 1) ELSE b.forw[y]
              /\ d.back[y] = IF y = Place(s, j + 1) THEN Place(s, i - 1)
                             ELSE IF y = Place(s, a + 1) THEN Place(s, j)
                             ELSE IF y = Place(s, i) THEN Place(s, a) ELSE b.back[y]
    PROVE  IsRing(d, Shifted(s, i, j, a))
<1>. DEFINE w == Shifted(s, i, j, a)
            o(k) == Origin(i, j, a, k)
            n == Len(s)
<1>1. /\ s \in Rings
      /\ \A k \in 0..n :
            b.forw[Place(s, k)] = Place(s, k + 1) /\ b.back[Place(s, k + 1)] = Place(s, k)
  BY DEF IsRing
<1>2. /\ n \in Nat
      /\ \A k, l \in 0..n : Place(s, k) = Place(s, l) => k = l
      /\ \A k, l \in 1..(n + 1) : Place(s, k) = Place(s, l) => k = l
      /\ \A k \in 0..(n + 1) : Place(s, k) \in OnRing(s)
  BY <1>1, PlaceIs
<1>3. /\ w \in Rings /\ Len(w) = n
      /\ \A k \in 0..(n + 1) : Place(w, k) = Place(s, o(k))
  BY <1>1, ShiftedIs
<1>4. /\ o(0) = 0 /\ o(n + 1) = n + 1
      /\ \A k \in 1..n : o(k) \in 1..n
  BY <1>2, OriginIs
<1>5. \A k \in 0..n : /\ o(k + 1) = Following(i, j, a, o(k))
                     /\ o(k) = Followed(i, j, a, o(k + 1))
  BY <1>2, OriginSteps
<1>. HIDE DEF w, o
<1>6. ASSUME NEW k \in 0..n
      PROVE  d.forw[Place(w, k)] = Place(w, k + 1) /\ d.back[Place(w, k + 1)] = Place(w, k)
  <2>1. PICK p \in 0..n : p = o(k)
    <3>1. CASE k = 0
      BY <3>1, <1>2, <1>4
    <3>2. CASE k # 0
      BY <3>2, <1>2, <1>4
    <3>3. QED
      BY <3>1, <3>2
  <2>2. PICK q \in 1..(n + 1) : q = o(k + 1)
    <3>1. CASE k = n
      BY <3>1, <1>2, <1>4
    <3>2. CASE k # n
      <4>1. k + 1 \in 1..n
        BY <3>2, <1>2
      <4>2. QED
        BY <4>1, <1>4
    <3>3. QED
      BY <3>1, <3>2
  <2>3. Place(w, k) = Place(s, p) /\ Place(w, k + 1) = Place(s, q)
    BY <1>2, <1>3, <2>1, <2>2
  <2>4. /\ q = IF p = i - 1 THEN j + 1 ELSE IF p = a THEN i ELSE IF p = j THEN a + 1
               ELSE p + 1
        /\ p = IF q = j + 1 THEN i - 1 ELSE IF q = a + 1 THEN j ELSE IF q = i THEN a
               ELSE q - 1
    BY <1>5, <2>1, <2>2 DEF Following, Followed
  <2>5. /\ i - 1 \in 0..n /\ a \in 0..n /\ j \in 0..n
        /\ j + 1 \in 1..(n + 1) /\ a + 1 \in 1..(n + 1) /\ i \in 1..(n + 1)
        /\ p \in 0..(n + 1) /\ q \in 0..(n + 1)
    BY <1>2 DEF Movable
  <2>6. d.forw[Place(s, p)] = Place(s, q)
    <3>1. /\ Place(s, p) = Place(s, i - 1) <=> p = i - 1
          /\ Place(s, p) = Place(s, a) <=> p = a
          /\ Place(s, p) = Place(s, j) <=> p = j
          /\ Place(s, p) \in OnRing(s)
      BY <1>2, <2>5
    <3>2. b.forw[Place(s, p)] = Place(s, p + 1)
      BY <1>1
    <3>3. QED
      BY <2>4, <3>1, <3>2
  <2>7. d.back[Place(s, q)] = Place(s, p)
    <3>1. /\ Place(s, q) = Place(s, j + 1) <=> q = j + 1
          /\ Place(s, q) = Place(s, a + 1) <=> q = a + 1
          /\ Place(s, q) = Place(s, i) <=> q = i
          /\ Place(s, q) \in OnRing(s)
      BY <1>2, <2>5
    <3>2. q - 1 \in 0..n /\ (q - 1) + 1 = q
      BY <1>2
    <3>3. b.back[Place(s, q)] = Place(s, q - 1)
      BY <1>1, <3>2
    <3>4. QED
      BY <2>4, <3>1, <3>3
  <2>8. QED
    BY <2>3, <2>6, <2>7
<1>7. QED
  BY <1>3, <1>6 DEF IsRing, w

-----------------------------------------------------------------------------
(* What the operations on the buffer do                                    *)

LEMMA PushSeeksIs ==
    ASSUME NEW b, NEW s, Holds(b, s), NEW from \in Nat, NEW to \in Nat, NEW type
    PROVE  /\ Holds(PushSeeks(b, from, to), s) /\ SameLinks(b, PushSeeks(b, from, to))
           /\ Entry(b, type, from, to) = [type |-> type, h |-> Place(s, Upto(s, from)),
                                          t |-> Place(s, Upto(s, to))]
<1>1. Holds(Seek(b, to), s) /\ SameLinks(b, Seek(b, to)) /\ Node(b, to) = Place(s, Upto(s, to))
  BY SeekIs
<1>2. /\ Holds(PushSeeks(b, from, to), s)
      /\ SameLinks(Seek(b, to), PushSeeks(b, from, to))
      /\ Node(Seek(b, to), from) = Place(s, Upto(s, from))
  BY <1>1, SeekIs DEF PushSeeks
<1>3. SameLinks(b, PushSeeks(b, from, to))
  BY <1>1, <1>2 DEF SameLinks
<1>4. QED
  BY <1>1, <1>2, <1>3 DEF Entry

LEMMA AddLineIs ==
    ASSUME NEW b, NEW s, Holds(b, s), NEW x \in Nodes, x \notin OnRing(s),
           NEW c, c = b.current_addr
    PROVE  /\ Holds(AddLine(b, x), With(s, c, x)) /\ AddLine(b, x).current_addr = c + 1
           /\ \A y \in AnyNode :
                /\ AddLine(b, x).forw[y] =
                      IF y = Place(s, c) THEN x ELSE IF y = x THEN Place(s, c + 1) ELSE b.forw[y]
                /\ AddLine(b, x).back[y] =
                      IF y = x THEN Place(s, c) ELSE IF y = Place(s, c + 1) THEN x ELSE b.back[y]
<1>. PICK d : d = AddLine(b, x)
  OBVIOUS
<1>. PICK p, q : p = Place(s, c) /\ q = Place(s, c + 1)
  OBVIOUS
<1>. PICK e : e = Seek(b, c)
  OBVIOUS
<1>1. /\ IsRing(b, s) /\ s \in Rings /\ Len(s) \in Nat /\ c \in 0..Len(s) /\ b \in Buffers
      /\ b.addr_last = Len(s)
  <2>1. IsRing(b, s) /\ s \in Rings /\ c \in 0..Len(s) /\ b \in Buffers /\ b.addr_last = Len(s)
    BY DEF Holds, IsRing
  <2>2. QED
    BY <2>1, LinesAre
<1>2. Upto(s, c) = c /\ c \in Nat
  BY <1>1 DEF Upto
<1>3. /\ Holds(e, s) /\ SameLinks(b, e) /\ e.on = c /\ e.lp = p
  BY <1>2, SeekIs
<1>4. e.forw[e.lp] = q
  BY <1>1, <1>3 DEF IsRing, SameLinks
<1>5. p \in AnyNode /\ q \in AnyNode /\ x \in AnyNode /\ e \in Buffers
  BY <1>1, <1>3, PlaceIs DEF Holds, AnyNode
<1>. PICK r1 : r1 = Reque(e, x, q)
  OBVIOUS
<1>. PICK r2 : r2 = Reque(r1, p, x)
  OBVIOUS
<1>6. /\ r1 \in Buffers
      /\ \A y \in AnyNode : /\ r1.forw[y] = IF y = x THEN q ELSE b.forw[y]
                            /\ r1.back[y] = IF y = q THEN x ELSE b.back[y]
      /\ r1.lp = p /\ r1.on = c /\ r1.addr_last = Len(s) /\ r1.current_addr = c
  <2>1. r1 \in Buffers /\ Linked(r1, e, x, q) /\ SamePlace(r1, e)
    BY <1>5, RequeIs
  <2>2. QED
    BY <1>1, <1>3, <2>1 DEF SameLinks, Linked, SamePlace
<1>7. /\ r2 \in Buffers
      /\ \A y \in AnyNode :
           /\ r2.forw[y] = IF y = p THEN x ELSE IF y = x THEN q ELSE b.forw[y]
           /\ r2.back[y] = IF y = x THEN p ELSE IF y = q THEN x ELSE b.back[y]
      /\ r2.lp = p /\ r2.on = c /\ r2.addr_last = Len(s) /\ r2.current_addr = c
  <2>1. r2 \in Buffers /\ Linked(r2, r1, p, x) /\ SamePlace(r2, r1)
    <3>1. r1 \in Buffers
      BY <1>6
    <3>2. QED
      BY <1>5, <3>1, RequeIs
  <2>2. QED
    BY <1>6, <2>1 DEF Linked, SamePlace
<1>8. d = [r2 EXCEPT !.addr_last = Len(s) + 1, !.current_addr = c + 1]
  <2>1. d = [r2 EXCEPT !.addr_last = @ + 1, !.current_addr = @ + 1]
    BY <1>3, <1>4 DEF AddLine
  <2>2. QED
    BY <2>1, <1>7
<1>9. /\ d \in Buffers /\ d.forw = r2.forw /\ d.back = r2.back
      /\ d.lp = p /\ d.on = c /\ d.addr_last = Len(s) + 1 /\ d.current_addr = c + 1
  <2>1. Len(s) + 1 \in Nat /\ c + 1 \in Nat
    BY <1>1, <1>2
  <2>2. r2 \in Buffers
    BY <1>7
  <2>3. /\ d \in Buffers /\ d.forw = r2.forw /\ d.back = r2.back
        /\ d.lp = r2.lp /\ d.on = r2.on /\ d.addr_last = Len(s) + 1
        /\ d.current_addr = c + 1
    BY <1>8, <2>1, <2>2 DEF Buffers
  <2>4. QED
    BY <1>7, <2>3
<1>10. \A y \in AnyNode :
          /\ d.forw[y] = IF y = p THEN x ELSE IF y = x THEN q ELSE b.forw[y]
          /\ d.back[y] = IF y = x THEN p ELSE IF y = q THEN x ELSE b.back[y]
  BY <1>7, <1>9
<1>11. IsRing(d, With(s, c, x))
  <2>1. d.forw \in Links /\ d.back \in Links
    BY <1>9 DEF Buffers
  <2>2. OnRing(s) \cup {x} \subseteq AnyNode
    BY <1>1, <1>5, PlaceIs
  <2>3. \A y \in OnRing(s) \cup {x} :
           /\ d.forw[y] = IF y = Place(s, c) THEN x
                          ELSE IF y = x THEN Place(s, c + 1) ELSE b.forw[y]
           /\ d.back[y] = IF y = x THEN Place(s, c)
                          ELSE IF y = Place(s, c + 1) THEN x ELSE b.back[y]
    BY <1>10, <2>2
  <2>4. QED
    BY <1>1, <2>1, <2>3, RingWith
<1>12. Len(With(s, c, x)) = Len(s) + 1 /\ Place(With(s, c, x), c) = p
  <2>1. c \in 0..(Len(s) + 2) /\ c <= c
    BY <1>1
  <2>2. QED
    BY <1>1, <2>1, WithIs
<1>13. Holds(d, With(s, c, x))
  <2>1. c + 1 \in 0..(Len(s) + 1) /\ c \in 0..(Len(s) + 1)
    BY <1>1
  <2>2. QED
    BY <1>9, <1>11, <1>12, <2>1 DEF Holds
<1>14. QED
  BY <1>9, <1>10, <1>13

(* e deletes the lines 1 to 0 of an empty buffer.                          *)
Whole(s, from, to) ==
    \/ from \in 1..Len(s) /\ to \in from..Len(s)
    \/ from = 1 /\ to = 0 /\ Len(s) = 0

LEMMA CutLinesIs ==
    ASSUME NEW b, NEW s, Holds(b, s), NEW from, NEW to, Whole(s, from, to),
           NEW p, p = Place(s, from - 1), NEW n, n = Place(s, to + 1)
    PROVE  /\ Holds(CutLines(b, from, to), Without(s, from, to))
           /\ CutLines(b, from, to).current_addr = from - 1
           /\ Linked(CutLines(b, from, to), b, p, n)
<1>. PICK d : d = CutLines(b, from, to)
  OBVIOUS
<1>. PICK e : e = Seek(b, IncMod(to, b.addr_last))
  OBVIOUS
<1>. PICK f : f = Seek(e, from - 1)
  OBVIOUS
<1>. PICK r : r = Reque(f, p, n)
  OBVIOUS
<1>. PICK w : w = Without(s, from, to)
  OBVIOUS
<1>1. /\ IsRing(b, s) /\ s \in Rings /\ Len(s) \in Nat /\ b \in Buffers
      /\ b.addr_last = Len(s)
  <2>1. IsRing(b, s) /\ s \in Rings /\ b \in Buffers /\ b.addr_last = Len(s)
    BY DEF Holds, IsRing
  <2>2. QED
    BY <2>1, LinesAre
<1>2. /\ from \in 1..(Len(s) + 1) /\ to \in 0..Len(s) /\ from <= to + 1
      /\ from - 1 \in 0..Len(s) /\ from - 1 \in Nat /\ Upto(s, from - 1) = from - 1
      /\ Len(s) - (to - from + 1) \in Nat
      /\ from - 1 \in 0..(Len(s) - (to - from + 1))
  BY <1>1 DEF Whole, Upto
<1>3. /\ IncMod(to, b.addr_last) \in Nat
      /\ Place(s, Upto(s, IncMod(to, b.addr_last))) = n
  BY <1>1, <1>2, NextPlace
<1>4. Holds(e, s) /\ SameLinks(b, e) /\ e.lp = n
  BY <1>3, SeekIs
<1>5. Holds(f, s) /\ SameLinks(e, f) /\ f.lp = p /\ f.on = from - 1
  <2>1. Holds(e, s)
    BY <1>4
  <2>2. from - 1 \in Nat /\ Upto(s, from - 1) = from - 1
    BY <1>2
  <2>3. QED
    BY <2>1, <2>2, SeekIs
<1>6. p \in AnyNode /\ n \in AnyNode /\ f \in Buffers
  BY <1>1, <1>2, <1>5, PlaceIs DEF Holds
<1>7. /\ r \in Buffers
      /\ \A y \in AnyNode : /\ r.forw[y] = IF y = p THEN n ELSE b.forw[y]
                            /\ r.back[y] = IF y = n THEN p ELSE b.back[y]
      /\ r.lp = p /\ r.on = from - 1 /\ r.addr_last = Len(s)
  <2>1. r \in Buffers /\ Linked(r, f, p, n) /\ SamePlace(r, f)
    BY <1>6, RequeIs
  <2>2. QED
    BY <1>1, <1>4, <1>5, <2>1 DEF SameLinks, Linked, SamePlace
<1>8. d = [r EXCEPT !.addr_last = Len(s) - (to - from + 1), !.current_addr = from - 1]
  <2>1. d = [r EXCEPT !.addr_last = @ - (to - from + 1), !.current_addr = from - 1]
    BY <1>4, <1>5 DEF CutLines
  <2>2. QED
    BY <2>1, <1>7
<1>9. /\ d \in Buffers /\ d.forw = r.forw /\ d.back = r.back
      /\ d.lp = p /\ d.on = from - 1 /\ d.addr_last = Len(s) - (to - from + 1)
      /\ d.current_addr = from - 1
  <2>1. Len(s) - (to - from + 1) \in Nat /\ from - 1 \in Nat
    BY <1>2
  <2>2. r \in Buffers
    BY <1>7
  <2>3. /\ d \in Buffers /\ d.forw = r.forw /\ d.back = r.back
        /\ d.lp = r.lp /\ d.on = r.on /\ d.addr_last = Len(s) - (to - from + 1)
        /\ d.current_addr = from - 1
    BY <1>8, <2>1, <2>2 DEF Buffers
  <2>4. QED
    BY <1>7, <2>3
<1>10. \A y \in AnyNode : /\ d.forw[y] = IF y = p THEN n ELSE b.forw[y]
                          /\ d.back[y] = IF y = n THEN p ELSE b.back[y]
  BY <1>7, <1>9
<1>11. IsRing(d, w)
  <2>1. d.forw \in Links /\ d.back \in Links
    BY <1>9 DEF Buffers
  <2>2. OnRing(s) \subseteq AnyNode
    BY <1>1, PlaceIs
  <2>3. \A y \in OnRing(s) :
           /\ d.forw[y] = IF y = Place(s, from - 1) THEN Place(s, to + 1) ELSE b.forw[y]
           /\ d.back[y] = IF y = Place(s, to + 1) THEN Place(s, from - 1) ELSE b.back[y]
    BY <1>10, <2>2
  <2>4. QED
    BY <1>1, <1>2, <2>1, <2>3, RingWithout
<1>12. Len(w) = Len(s) - (to - from + 1) /\ Place(w, from - 1) = p
  <2>1. /\ Len(w) = Len(s) - (to - from + 1)
        /\ \A k \in 0..(Len(w) + 1) :
             Place(w, k) = IF k < from THEN Place(s, k) ELSE Place(s, k + (to - from + 1))
    BY <1>1, <1>2, WithoutIs
  <2>2. from - 1 \in 0..(Len(w) + 1) /\ from - 1 < from
    BY <1>2, <2>1
  <2>3. QED
    BY <2>1, <2>2
<1>13. Holds(d, w)
  BY <1>2, <1>9, <1>11, <1>12 DEF Holds
<1>14. QED
  BY <1>9, <1>10, <1>13 DEF Linked

(* The links of c are those of b, but for those of the nodes on the ring.  *)
Untouched(c, b, s) ==
    \A y \in AnyNode \ OnRing(s) : c.forw[y] = b.forw[y] /\ c.back[y] = b.back[y]

(* How lines are linked in elsewhere, when they are moved and when that is *)
(* undone: those between h1 and t1, to between h2 and t2.                  *)
Relinked(b, h1, t1, h2, t2) ==
    LET c1 == Reque(b, h2, b.forw[h1])
        c2 == Reque(c1, c1.back[t1], t2)
    IN  Reque(c2, h1, t1)

LEMMA RelinkedIs ==
    ASSUME NEW b \in Buffers, NEW s, IsRing(b, s), NEW i, NEW j, NEW a,
           Movable(Len(s), i, j, a),
           NEW h1, h1 = Place(s, i - 1), NEW t1, t1 = Place(s, j + 1),
           NEW h2, h2 = Place(s, a), NEW t2, t2 = Place(s, a + 1)
    PROVE  /\ Relinked(b, h1, t1, h2, t2) \in Buffers
           /\ IsRing(Relinked(b, h1, t1, h2, t2), Shifted(s, i, j, a))
           /\ Untouched(Relinked(b, h1, t1, h2, t2), b, s)
           /\ SamePlace(Relinked(b, h1, t1, h2, t2), b)
<1>. PICK p, q : p = Place(s, i) /\ q = Place(s, j)
  OBVIOUS
<1>. PICK c1 : c1 = Reque(b, h2, p)
  OBVIOUS
<1>. PICK c2 : c2 = Reque(c1, q, t2)
  OBVIOUS
<1>. PICK c3 : c3 = Reque(c2, h1, t1)
  OBVIOUS
<1>1. s \in Rings /\ Len(s) \in Nat
  <2>1. s \in Rings
    BY DEF IsRing
  <2>2. QED
    BY <2>1, LinesAre
<1>2. /\ i \in 1..Len(s) /\ j \in i..Len(s) /\ a \in 0..Len(s)
      /\ a < i - 1 \/ a > j
      /\ i - 1 \in 0..Len(s) /\ (i - 1) + 1 = i /\ j \in 0..Len(s)
      /\ i \in 1..(Len(s) + 1) /\ j + 1 \in 1..(Len(s) + 1) /\ i # j + 1
      /\ a # j /\ a # i - 1
      /\ i - 1 \in 0..(Len(s) + 1) /\ i \in 0..(Len(s) + 1) /\ j \in 0..(Len(s) + 1)
      /\ j + 1 \in 0..(Len(s) + 1) /\ a \in 0..(Len(s) + 1) /\ a + 1 \in 0..(Len(s) + 1)
  BY <1>1 DEF Movable
<1>3. {h1, t1, h2, t2, p, q} \subseteq OnRing(s) /\ OnRing(s) \subseteq AnyNode
  <2>1. \A k \in 0..(Len(s) + 1) : Place(s, k) \in OnRing(s)
    BY <1>1, PlaceIs
  <2>2. OnRing(s) \subseteq AnyNode
    BY <1>1, PlaceIs
  <2>3. QED
    BY <1>2, <2>1, <2>2
<1>4. h2 # q /\ t1 # p
  <2>1. \A k, l \in 0..Len(s) : Place(s, k) = Place(s, l) => k = l
    BY <1>1, PlaceIs
  <2>2. \A k, l \in 1..(Len(s) + 1) : Place(s, k) = Place(s, l) => k = l
    BY <1>1, PlaceIs
  <2>3. h2 # q
    BY <1>2, <2>1
  <2>4. t1 # p
    BY <1>2, <2>2
  <2>5. QED
    BY <2>3, <2>4
<1>5. b.forw[h1] = p /\ b.back[t1] = q
  BY <1>2 DEF IsRing
<1>6. c1 \in Buffers /\ Linked(c1, b, h2, p) /\ SamePlace(c1, b)
  BY <1>3, RequeIs
<1>7. c1.back[t1] = q
  BY <1>3, <1>4, <1>5, <1>6 DEF Linked
<1>8. c2 \in Buffers /\ Linked(c2, c1, q, t2) /\ SamePlace(c2, c1)
  BY <1>3, <1>6, RequeIs
<1>9. c3 \in Buffers /\ Linked(c3, c2, h1, t1) /\ SamePlace(c3, c2)
  BY <1>3, <1>8, RequeIs
<1>10. c3 = Relinked(b, h1, t1, h2, t2)
  BY <1>5, <1>7 DEF Relinked
<1>11. ASSUME NEW y \in AnyNode
       PROVE  /\ c3.forw[y] = IF y = h1 THEN t1 ELSE IF y = h2 THEN p
                              ELSE IF y = q THEN t2 ELSE b.forw[y]
              /\ c3.back[y] = IF y = t1 THEN h1 ELSE IF y = t2 THEN q
                              ELSE IF y = p THEN h2 ELSE b.back[y]
  <2>1. /\ c1.forw[y] = IF y = h2 THEN p ELSE b.forw[y]
        /\ c1.back[y] = IF y = p THEN h2 ELSE b.back[y]
    BY <1>6 DEF Linked
  <2>2. /\ c2.forw[y] = IF y = q THEN t2 ELSE c1.forw[y]
        /\ c2.back[y] = IF y = t2 THEN q ELSE c1.back[y]
    BY <1>8 DEF Linked
  <2>3. /\ c3.forw[y] = IF y = h1 THEN t1 ELSE c2.forw[y]
        /\ c3.back[y] = IF y = t1 THEN h1 ELSE c2.back[y]
    BY <1>9 DEF Linked
  <2>4. QED
    BY <2>1, <2>2, <2>3, <1>4
<1>12. IsRing(c3, Shifted(s, i, j, a))
  <2>1. c3.forw \in Links /\ c3.back \in Links
    BY <1>9 DEF Buffers
  <2>2. \A y \in OnRing(s) :
           /\ c3.forw[y] = IF y = Place(s, i - 1) THEN Place(s, j + 1)
                           ELSE IF y = Place(s, a) THEN Place(s, i)
                           ELSE IF y = Place(s, j) THEN Place(s, a + 1) ELSE b.forw[y]
           /\ c3.back[y] = IF y = Place(s, j + 1) THEN Place(s, i - 1)
                           ELSE IF y = Place(s, a + 1) THEN Place(s, j)
                           ELSE IF y = Place(s, i) THEN Place(s, a) ELSE b.back[y]
    BY <1>3, <1>11
  <2>3. QED
    BY <2>1, <2>2, RingShifted
<1>13. Untouched(c3, b, s)
  BY <1>3, <1>11 DEF Untouched
<1>14. SamePlace(c3, b)
  BY <1>6, <1>8, <1>9 DEF SamePlace
<1>15. QED
  BY <1>9, <1>10, <1>12, <1>13, <1>14

LEMMA MoveToIs ==
    ASSUME NEW b, NEW s, Holds(b, s), NEW i, NEW j, NEW a, Movable(Len(s), i, j, a)
    PROVE  /\ Holds(MoveTo(b, i, j, a), Shifted(s, i, j, a))
           /\ Untouched(MoveTo(b, i, j, a), b, s)
<1>. PICK c : c = MoveTo(b, i, j, a)
  OBVIOUS
<1>. PICK h1, t1 : h1 = Place(s, i - 1) /\ t1 = Place(s, j + 1)
  OBVIOUS
<1>. PICK h2, t2 : h2 = Place(s, a) /\ t2 = Place(s, a + 1)
  OBVIOUS
<1>. PICK w : w = Shifted(s, i, j, a)
  OBVIOUS
<1>. PICK a1 : a1 = Seek(b, IncMod(j, b.addr_last))
  OBVIOUS
<1>. PICK p1 : p1 = IF a < i THEN Seek(a1, i - 1) ELSE Seek(a1, a)
  OBVIOUS
<1>. PICK p2 : p2 = IF a < i THEN Seek(p1, a) ELSE Seek(p1, i - 1)
  OBVIOUS
<1>. PICK on : on = IF a < i THEN a ELSE i - 1
  OBVIOUS
<1>. PICK new : new = a + IF a < i THEN j - i + 1 ELSE 0
  OBVIOUS
<1>. PICK r : r = Relinked(p2, h1, t1, h2, t2)
  OBVIOUS
<1>1. /\ IsRing(b, s) /\ s \in Rings /\ b.addr_last = Len(s)
  BY DEF Holds, IsRing
<1>2. Len(s) \in Nat
  BY <1>1, LinesAre
<1>3. /\ i \in 1..Len(s) /\ j \in i..Len(s) /\ a \in 0..Len(s)
      /\ a < i - 1 \/ a > j
      /\ j \in 0..Len(s) /\ on \in 0..Len(s) /\ new \in 0..Len(s)
  BY <1>2 DEF Movable
<1>4. i - 1 \in 0..Len(s) /\ a \in 0..Len(s)
  BY <1>2, <1>3
<1>5. Holds(a1, s) /\ SameLinks(b, a1) /\ a1.lp = t1
  <2>1. IncMod(j, b.addr_last) \in Nat /\ Place(s, Upto(s, IncMod(j, b.addr_last))) = t1
    BY <1>1, <1>2, <1>3, NextPlace
  <2>2. QED
    BY <2>1, SeekIs
<1>6. /\ Holds(p1, s) /\ SameLinks(a1, p1) /\ p1.lp = IF a < i THEN h1 ELSE h2
  <2>1. CASE a < i
    <3>1. p1 = Seek(a1, i - 1)
      BY <2>1
    <3>2. Holds(p1, s) /\ SameLinks(a1, p1) /\ p1.lp = h1
      BY <3>1, <1>4, <1>5, SeekAt
    <3>3. QED
      BY <2>1, <3>2
  <2>2. CASE ~(a < i)
    <3>1. p1 = Seek(a1, a)
      BY <2>2
    <3>2. Holds(p1, s) /\ SameLinks(a1, p1) /\ p1.lp = h2
      BY <3>1, <1>4, <1>5, SeekAt
    <3>3. QED
      BY <2>2, <3>2
  <2>3. QED
    BY <2>1, <2>2
<1>7. /\ Holds(p2, s) /\ SameLinks(p1, p2) /\ p2.on = on
      /\ p2.lp = IF a < i THEN h2 ELSE h1
  <2>1. CASE a < i
    <3>1. p2 = Seek(p1, a)
      BY <2>1
    <3>2. Holds(p2, s) /\ SameLinks(p1, p2) /\ p2.lp = h2 /\ p2.on = a
      BY <3>1, <1>4, <1>6, SeekAt
    <3>3. QED
      BY <2>1, <3>2
  <2>2. CASE ~(a < i)
    <3>1. p2 = Seek(p1, i - 1)
      BY <2>2
    <3>2. Holds(p2, s) /\ SameLinks(p1, p2) /\ p2.lp = h1 /\ p2.on = i - 1
      BY <3>1, <1>4, <1>6, SeekAt
    <3>3. QED
      BY <2>2, <3>2
  <2>3. QED
    BY <2>1, <2>2
<1>8. p2.forw[h2] = t2
  <2>1. IsRing(p2, s)
    BY <1>7 DEF Holds
  <2>2. QED
    BY <1>3, <2>1 DEF IsRing
<1>9. c = [r EXCEPT !.current_addr = new]
  BY <1>5, <1>6, <1>7, <1>8 DEF MoveTo, Relinked
<1>10. r \in Buffers /\ IsRing(r, w) /\ Untouched(r, p2, s) /\ SamePlace(r, p2)
  <2>1. p2 \in Buffers /\ IsRing(p2, s)
    BY <1>7 DEF Holds
  <2>2. QED
    BY <2>1, RelinkedIs
<1>11. /\ c \in Buffers /\ c.forw = r.forw /\ c.back = r.back /\ c.lp = r.lp
       /\ c.on = r.on /\ c.addr_last = r.addr_last /\ c.current_addr = new
  <2>1. new \in Nat
    BY <1>3
  <2>2. QED
    BY <1>9, <1>10, <2>1 DEF Buffers
<1>12. Len(w) = Len(s) /\ Place(w, on) = Place(s, on)
  <2>1. /\ Len(w) = Len(s)
        /\ \A k \in 0..(Len(s) + 1) : Place(w, k) = Place(s, Origin(i, j, a, k))
    BY <1>1, ShiftedIs
  <2>2. Origin(i, j, a, on) = on
    BY <1>2, <1>3 DEF Origin
  <2>3. on \in 0..(Len(s) + 1)
    BY <1>2, <1>3
  <2>4. QED
    BY <2>1, <2>2, <2>3
<1>13. c.on = on /\ c.lp = Place(s, on) /\ c.addr_last = Len(s)
  <2>1. p2.on = on /\ p2.lp = Place(s, on) /\ p2.addr_last = Len(s)
    BY <1>7 DEF Holds
  <2>2. QED
    BY <1>10, <1>11, <2>1 DEF SamePlace
<1>14. IsRing(c, w)
  BY <1>10, <1>11 DEF IsRing
<1>15. Holds(c, w)
  BY <1>3, <1>11, <1>12, <1>13, <1>14 DEF Holds
<1>16. Untouched(c, b, s)
  BY <1>5, <1>6, <1>7, <1>10, <1>11 DEF Untouched, SameLinks
<1>17. QED
  BY <1>15, <1>16

-----------------------------------------------------------------------------
(* What undoing an entry does                                              *)

(* The lines r are the lines q with those from e.h to e.t put in.          *)
Inserted(q, r, e) ==
    \E i, j : /\ Whole(r, i, j) /\ q = Without(r, i, j)
              /\ e.h = Place(r, i) /\ e.t = Place(r, j)

(* The lines r are the lines q with some of them moved.                    *)
Moved(q, r, d, e) ==
    \E i, j, a : /\ Movable(Len(q), i, j, a) /\ r = Shifted(q, i, j, a)
                 /\ d.h = Place(q, i - 1) /\ d.t = Place(q, j + 1)
                 /\ e.h = Place(q, a) /\ e.t = Place(q, a + 1)

(* The lines of r that are not in q have the links they had in r.          *)
Dangling(b, r, q) ==
    \A k \in 1..Len(r) :
        r[k] \notin OnRing(q) =>
            b.forw[r[k]] = Place(r, k + 1) /\ b.back[r[k]] = Place(r, k - 1)

LEMMA WholeIs ==
    ASSUME NEW r \in Rings, NEW i, NEW j, Whole(r, i, j)
    PROVE  /\ i \in 1..(Len(r) + 1) /\ j \in 0..Len(r) /\ i <= j + 1
           /\ i - 1 \in 0..Len(r) /\ (i - 1) + 1 = i
           /\ i \in 0..(Len(r) + 1) /\ j + 1 \in 0..(Len(r) + 1)
           /\ Len(r) - (j - i + 1) \in Nat
           /\ i - 1 \in 0..(Len(r) - (j - i + 1))
           /\ i + (j - i + 1) = j + 1
  BY LinesAre DEF Whole

LEMMA UndoneAdd ==
    ASSUME NEW b \in Buffers, NEW r, IsRing(b, r), NEW q, NEW e, Inserted(q, r, e)
    PROVE  LET c == Reque(b, b.back[e.h], b.forw[e.t]) IN
           /\ c \in Buffers /\ IsRing(c, q) /\ Untouched(c, b, q) /\ SamePlace(c, b)
           /\ Dangling(c, r, q)
<1>1. r \in Rings
  BY DEF IsRing
<1>2. PICK i, j : /\ Whole(r, i, j) /\ q = Without(r, i, j)
                  /\ e.h = Place(r, i) /\ e.t = Place(r, j)
  BY DEF Inserted
<1>. PICK p, n : p = Place(r, i - 1) /\ n = Place(r, j + 1)
  OBVIOUS
<1>. PICK c : c = Reque(b, p, n)
  OBVIOUS
<1>3. /\ i \in 1..(Len(r) + 1) /\ j \in 0..Len(r) /\ i <= j + 1
      /\ i - 1 \in 0..Len(r) /\ (i - 1) + 1 = i
      /\ i - 1 \in 0..(Len(r) - (j - i + 1)) /\ Len(r) - (j - i + 1) \in Nat
      /\ i + (j - i + 1) = j + 1
  BY <1>1, <1>2, WholeIs
<1>4. b.back[e.h] = p /\ b.forw[e.t] = n
  BY <1>2, <1>3 DEF IsRing
<1>5. p \in AnyNode /\ n \in AnyNode
  BY <1>1, <1>3, PlaceIs
<1>6. c \in Buffers /\ Linked(c, b, p, n) /\ SamePlace(c, b)
  BY <1>5, RequeIs
<1>7. OnRing(r) \subseteq AnyNode
  BY <1>1, PlaceIs
<1>8. IsRing(c, q)
  <2>1. c.forw \in Links /\ c.back \in Links
    BY <1>6 DEF Buffers
  <2>2. \A y \in OnRing(r) :
           /\ c.forw[y] = IF y = Place(r, i - 1) THEN Place(r, j + 1) ELSE b.forw[y]
           /\ c.back[y] = IF y = Place(r, j + 1) THEN Place(r, i - 1) ELSE b.back[y]
    BY <1>6, <1>7 DEF Linked
  <2>3. QED
    BY <1>2, <1>3, <2>1, <2>2, RingWithout
<1>9. p \in OnRing(q) /\ n \in OnRing(q)
  <2>1. /\ q \in Rings /\ Len(q) = Len(r) - (j - i + 1)
        /\ \A k \in 0..(Len(q) + 1) :
             Place(q, k) = IF k < i THEN Place(r, k) ELSE Place(r, k + (j - i + 1))
    BY <1>1, <1>2, <1>3, WithoutIs
  <2>2. i - 1 \in 0..(Len(q) + 1) /\ i \in 0..(Len(q) + 1) /\ i - 1 < i /\ ~(i < i)
    BY <1>3, <2>1
  <2>3. Place(q, i - 1) = p /\ Place(q, i) = n
    BY <1>3, <2>1, <2>2
  <2>4. QED
    BY <2>1, <2>2, <2>3, PlaceIs
<1>10. Untouched(c, b, q)
  BY <1>6, <1>9 DEF Untouched, Linked
<1>11. Dangling(c, r, q)
  <2>1. SUFFICES ASSUME NEW k \in 1..Len(r), r[k] \notin OnRing(q)
                 PROVE  c.forw[r[k]] = Place(r, k + 1) /\ c.back[r[k]] = Place(r, k - 1)
    BY DEF Dangling
  <2>2. r[k] = Place(r, k) /\ r[k] \in AnyNode /\ Len(r) \in Nat
    BY <1>1, PlaceIs
  <2>3. c.forw[r[k]] = b.forw[r[k]] /\ c.back[r[k]] = b.back[r[k]]
    BY <1>10, <2>1, <2>2 DEF Untouched
  <2>4. k \in 0..Len(r) /\ k - 1 \in 0..Len(r) /\ (k - 1) + 1 = k
    BY <2>2
  <2>5. b.forw[Place(r, k)] = Place(r, k + 1) /\ b.back[Place(r, k)] = Place(r, k - 1)
    BY <2>4 DEF IsRing
  <2>6. QED
    BY <2>2, <2>3, <2>5
<1>12. QED
  BY <1>4, <1>6, <1>8, <1>10, <1>11

(* The lines from h to t are put in again, where their links say.           *)
Rejoined(b, h, t) ==
    LET d == Reque(b, b.back[h], h) IN Reque(d, t, d.forw[t])

LEMMA UndoneDel ==
    ASSUME NEW b \in Buffers, NEW q, IsRing(b, q), NEW r \in Rings, NEW e,
           Inserted(q, r, e), Dangling(b, r, q)
    PROVE  LET c == Rejoined(b, e.h, e.t) IN
           c \in Buffers /\ IsRing(c, r) /\ Untouched(c, b, r) /\ SamePlace(c, b)
<1>. PICK d : d = Reque(b, b.back[e.h], e.h)
  OBVIOUS
<1>1. PICK i, j : /\ Whole(r, i, j) /\ q = Without(r, i, j)
                  /\ e.h = Place(r, i) /\ e.t = Place(r, j)
  BY DEF Inserted
<1>. PICK h, t : h = Place(r, i) /\ t = Place(r, j)
  OBVIOUS
<1>. PICK p, n : p = Place(r, i - 1) /\ n = Place(r, j + 1)
  OBVIOUS
<1>. PICK m : m = j - i + 1
  OBVIOUS
<1>2. /\ i \in 1..(Len(r) + 1) /\ j \in 0..Len(r) /\ i <= j + 1
      /\ i - 1 \in 0..Len(r) /\ (i - 1) + 1 = i
      /\ i \in 0..(Len(r) + 1) /\ j + 1 \in 0..(Len(r) + 1)
  BY <1>1, WholeIs
<1>3. Len(r) \in Nat /\ m \in Nat
  BY <1>2, LinesAre
<1>4. {h, t, p, n} \subseteq OnRing(r) /\ OnRing(r) \subseteq AnyNode
  <2>1. /\ \A k \in 0..(Len(r) + 1) : Place(r, k) \in OnRing(r)
        /\ OnRing(r) \subseteq AnyNode
    BY PlaceIs
  <2>2. j \in 0..(Len(r) + 1) /\ i - 1 \in 0..(Len(r) + 1)
    BY <1>2, <1>3
  <2>3. QED
    BY <1>2, <2>1, <2>2
<1>5. /\ q \in Rings /\ Len(q) = Len(r) - m
      /\ \A k \in 0..(Len(q) + 1) :
           Place(q, k) = IF k < i THEN Place(r, k) ELSE Place(r, k + m)
      /\ OnRing(q) = OnRing(r) \ Lying(r, i, j)
  BY <1>1, <1>2, WithoutIs
<1>6. \A k \in 0..Len(q) :
         b.forw[Place(q, k)] = Place(q, k + 1) /\ b.back[Place(q, k + 1)] = Place(q, k)
  BY DEF IsRing
<1>. PICK c : c = Reque(d, t, n)
  OBVIOUS
<1>7. CASE Len(r) = 0
  <2>1. i = 1 /\ j = 0 /\ m = 0 /\ Len(q) = 0
    BY <1>1, <1>3, <1>5, <1>7 DEF Whole
  <2>2. h = BufferHead /\ t = BufferHead /\ p = BufferHead /\ n = BufferHead
    BY <1>7, <2>1 DEF Place
  <2>3. Place(q, 0) = BufferHead /\ Place(q, 0 + 1) = BufferHead
    BY <2>1 DEF Place
  <2>4. 0 \in 0..Len(q)
    BY <2>1
  <2>5. b.forw[BufferHead] = BufferHead /\ b.back[BufferHead] = BufferHead
    BY <1>6, <2>3, <2>4
  <2>6. BufferHead \in AnyNode
    BY <1>4, <2>2
  <2>7. d \in Buffers /\ Linked(d, b, BufferHead, BufferHead) /\ SamePlace(d, b)
    BY <1>1, <2>2, <2>5, <2>6, RequeIs
  <2>8. d.forw[t] = n
    BY <2>2, <2>6, <2>7 DEF Linked
  <2>9. c \in Buffers /\ Linked(c, d, BufferHead, BufferHead) /\ SamePlace(c, d)
    BY <2>2, <2>6, <2>7, RequeIs
  <2>10. IsRing(c, r)
    <3>1. c.forw \in Links /\ c.back \in Links
      BY <2>9 DEF Buffers
    <3>2. c.forw[BufferHead] = BufferHead /\ c.back[BufferHead] = BufferHead
      BY <2>6, <2>9 DEF Linked
    <3>3. \A k \in 0..Len(r) : Place(r, k) = BufferHead /\ Place(r, k + 1) = BufferHead
      BY <1>7 DEF Place
    <3>4. QED
      BY <3>1, <3>2, <3>3 DEF IsRing
  <2>11. Untouched(c, b, r)
    BY <1>4, <2>2, <2>7, <2>9 DEF Untouched, Linked
  <2>12. QED
    BY <1>1, <2>7, <2>8, <2>9, <2>10, <2>11 DEF SamePlace, Rejoined
<1>8. CASE Len(r) # 0
  <2>1. i \in 1..Len(r) /\ j \in i..Len(r)
    BY <1>1, <1>8 DEF Whole
  <2>2. /\ \A k, l \in 0..Len(r) : Place(r, k) = Place(r, l) => k = l
        /\ \A k, l \in 1..(Len(r) + 1) : Place(r, k) = Place(r, l) => k = l
    BY PlaceIs
  <2>3. \A k \in i..j : r[k] \notin OnRing(q) /\ k \in 1..Len(r) /\ r[k] = Place(r, k)
    BY <1>3, <1>5, <2>1 DEF Lying, Place
  <2>4. \A k \in i..j : b.forw[Place(r, k)] = Place(r, k + 1)
                     /\ b.back[Place(r, k)] = Place(r, k - 1)
    BY <2>3 DEF Dangling
  <2>5. b.back[h] = p /\ b.forw[t] = n
    <3>1. i \in i..j /\ j \in i..j
      BY <1>3, <2>1
    <3>2. QED
      BY <2>4, <3>1
  <2>6. t # p /\ h # n
    <3>1. j # i - 1 /\ i # j + 1 /\ i \in 1..(Len(r) + 1) /\ j + 1 \in 1..(Len(r) + 1)
      BY <1>3, <2>1
    <3>2. QED
      BY <1>2, <2>2, <3>1
  <2>7. d \in Buffers /\ Linked(d, b, p, h) /\ SamePlace(d, b)
    BY <1>1, <1>4, <2>5, RequeIs
  <2>8. d.forw[t] = n
    BY <1>4, <2>5, <2>6, <2>7 DEF Linked
  <2>9. c \in Buffers /\ Linked(c, d, t, n) /\ SamePlace(c, d)
    BY <1>4, <2>7, RequeIs
  <2>10. ASSUME NEW y \in AnyNode
         PROVE  /\ c.forw[y] = IF y = t THEN n ELSE IF y = p THEN h ELSE b.forw[y]
                /\ c.back[y] = IF y = n THEN t ELSE IF y = h THEN p ELSE b.back[y]
    BY <2>7, <2>9 DEF Linked
  <2>11. ASSUME NEW k \in 0..Len(r), k # i - 1, k # j
         PROVE  b.forw[Place(r, k)] = Place(r, k + 1) /\ b.back[Place(r, k + 1)] = Place(r, k)
    <3>1. CASE k < i - 1
      <4>1. /\ k \in 0..Len(q) /\ k \in 0..(Len(q) + 1) /\ k + 1 \in 0..(Len(q) + 1)
            /\ k < i /\ k + 1 < i
        BY <1>3, <1>5, <2>1, <3>1
      <4>2. Place(q, k) = Place(r, k) /\ Place(q, k + 1) = Place(r, k + 1)
        BY <1>5, <4>1
      <4>3. QED
        BY <1>6, <4>1, <4>2
    <3>2. CASE k >= i /\ k < j
      <4>1. k \in i..j /\ k + 1 \in i..j /\ (k + 1) - 1 = k
        BY <2>1, <3>2
      <4>2. b.back[Place(r, k + 1)] = Place(r, (k + 1) - 1)
        BY <2>4, <4>1
      <4>3. QED
        BY <2>4, <4>1, <4>2
    <3>3. CASE k > j
      <4>1. PICK l \in Int : l = k - m
        BY <1>3
      <4>2. /\ l \in 0..Len(q) /\ l \in 0..(Len(q) + 1) /\ l + 1 \in 0..(Len(q) + 1)
            /\ ~(l < i) /\ ~(l + 1 < i) /\ l + m = k /\ (l + 1) + m = k + 1
        BY <1>3, <1>5, <2>1, <3>3, <4>1
      <4>3. Place(q, l) = Place(r, k) /\ Place(q, l + 1) = Place(r, k + 1)
        BY <1>5, <4>2
      <4>4. QED
        BY <1>6, <4>2, <4>3
    <3>4. QED
      BY <1>3, <2>1, <2>11, <3>1, <3>2, <3>3
  <2>12. ASSUME NEW k \in 0..Len(r)
         PROVE  c.forw[Place(r, k)] = Place(r, k + 1) /\ c.back[Place(r, k + 1)] = Place(r, k)
    <3>1. /\ i - 1 \in 0..Len(r) /\ j \in 0..Len(r)
          /\ k + 1 \in 1..(Len(r) + 1) /\ i \in 1..(Len(r) + 1) /\ j + 1 \in 1..(Len(r) + 1)
          /\ k \in 0..(Len(r) + 1) /\ k + 1 \in 0..(Len(r) + 1) /\ i - 1 # j
      BY <1>3, <2>1
    <3>2. /\ Place(r, k) \in OnRing(r) /\ Place(r, k + 1) \in OnRing(r)
      BY <3>1, PlaceIs
    <3>3. CASE k = j
      BY <1>4, <2>10, <3>3
    <3>4. CASE k = i - 1
      <4>1. Place(r, k) = p /\ Place(r, k + 1) = h
        BY <1>2, <3>4
      <4>2. QED
        BY <1>4, <2>6, <2>10, <4>1
    <3>5. CASE k # j /\ k # i - 1
      <4>1. /\ Place(r, k) # t /\ Place(r, k) # p
        BY <2>2, <3>1, <3>5
      <4>2. k + 1 # j + 1 /\ k + 1 # i
        BY <1>3, <2>1, <3>5
      <4>3. Place(r, k + 1) # n /\ Place(r, k + 1) # h
        BY <2>2, <3>1, <4>2
      <4>4. QED
        BY <1>4, <2>10, <2>11, <3>2, <3>5, <4>1, <4>3
    <3>6. QED
      BY <3>3, <3>4, <3>5
  <2>13. IsRing(c, r)
    <3>1. c.forw \in Links /\ c.back \in Links
      BY <2>9 DEF Buffers
    <3>2. QED
      BY <2>12, <3>1 DEF IsRing
  <2>14. Untouched(c, b, r)
    BY <1>4, <2>10 DEF Untouched
  <2>15. QED
    BY <1>1, <2>7, <2>8, <2>9, <2>13, <2>14 DEF SamePlace, Rejoined
<1>9. QED
  BY <1>7, <1>8

(* A move that is undone is a move.                                        *)
LEMMA OriginBack ==
    ASSUME NEW n \in Nat, NEW i, NEW j, NEW a, Movable(n, i, j, a)
    PROVE  \E u, v, w :
              /\ Movable(n, u, v, w)
              /\ \A k \in 1..n : Origin(i, j, a, Origin(u, v, w, k)) = k
              /\ u - 1 \in 0..n /\ v + 1 \in 0..(n + 1) /\ w \in 0..n /\ w + 1 \in 0..(n + 1)
              /\ Origin(i, j, a, u - 1) = a /\ Origin(i, j, a, v + 1) = a + 1
              /\ Origin(i, j, a, w) = i - 1 /\ Origin(i, j, a, w + 1) = j + 1
<1>1. i \in 1..n /\ j \in i..n /\ a \in 0..n /\ (a < i - 1 \/ a > j)
  BY DEF Movable
<1>2. CASE a < i - 1
  <2>1. PICK u, v, w : u = a + 1 /\ v = a + (j - i + 1) /\ w = j
    OBVIOUS
  <2>2. Movable(n, u, v, w)
    BY <1>1, <1>2, <2>1 DEF Movable
  <2>3. \A k \in 1..n : Origin(i, j, a, Origin(u, v, w, k)) = k
    BY <1>1, <1>2, <2>1 DEF Origin
  <2>4. u - 1 \in 0..n /\ v + 1 \in 0..(n + 1) /\ w \in 0..n /\ w + 1 \in 0..(n + 1)
    BY <1>1, <1>2, <2>1
  <2>5. /\ Origin(i, j, a, u - 1) = a /\ Origin(i, j, a, v + 1) = a + 1
        /\ Origin(i, j, a, w) = i - 1 /\ Origin(i, j, a, w + 1) = j + 1
    BY <1>1, <1>2, <2>1 DEF Origin
  <2>6. QED
    BY <2>2, <2>3, <2>4, <2>5
<1>3. CASE a > j
  <2>1. PICK u, v, w : u = a - (j - i) /\ v = a /\ w = i - 1
    OBVIOUS
  <2>2. Movable(n, u, v, w)
    BY <1>1, <1>3, <2>1 DEF Movable
  <2>3. \A k \in 1..n : Origin(i, j, a, Origin(u, v, w, k)) = k
    BY <1>1, <1>3, <2>1 DEF Origin
  <2>4. u - 1 \in 0..n /\ v + 1 \in 0..(n + 1) /\ w \in 0..n /\ w + 1 \in 0..(n + 1)
    BY <1>1, <1>3, <2>1
  <2>5. /\ Origin(i, j, a, u - 1) = a /\ Origin(i, j, a, v + 1) = a + 1
        /\ Origin(i, j, a, w) = i - 1 /\ Origin(i, j, a, w + 1) = j + 1
    BY <1>1, <1>3, <2>1 DEF Origin
  <2>6. QED
    BY <2>2, <2>3, <2>4, <2>5
<1>4. QED
  BY <1>1, <1>2, <1>3

LEMMA MovedBack ==
    ASSUME NEW q \in Rings, NEW r, NEW d, NEW e, Moved(q, r, d, e)
    PROVE  r \in Rings /\ OnRing(r) = OnRing(q) /\ Moved(r, q, e, d)
<1>1. PICK i, j, a : /\ Movable(Len(q), i, j, a) /\ r = Shifted(q, i, j, a)
                     /\ d.h = Place(q, i - 1) /\ d.t = Place(q, j + 1)
                     /\ e.h = Place(q, a) /\ e.t = Place(q, a + 1)
  BY DEF Moved
<1>2. PICK n \in Nat : n = Len(q)
  BY LinesAre
<1>3. /\ r \in Rings /\ Len(r) = n /\ OnRing(r) = OnRing(q)
      /\ \A k \in 0..(n + 1) : Place(r, k) = Place(q, Origin(i, j, a, k))
  BY <1>1, <1>2, ShiftedIs
<1>4. PICK u, v, w :
          /\ Movable(n, u, v, w)
          /\ \A k \in 1..n : Origin(i, j, a, Origin(u, v, w, k)) = k
          /\ u - 1 \in 0..n /\ v + 1 \in 0..(n + 1) /\ w \in 0..n /\ w + 1 \in 0..(n + 1)
          /\ Origin(i, j, a, u - 1) = a /\ Origin(i, j, a, v + 1) = a + 1
          /\ Origin(i, j, a, w) = i - 1 /\ Origin(i, j, a, w + 1) = j + 1
  <2>1. Movable(n, i, j, a)
    BY <1>1, <1>2
  <2>2. QED
    BY <2>1, OriginBack
<1>5. /\ e.h = Place(r, u - 1) /\ e.t = Place(r, v + 1)
      /\ d.h = Place(r, w) /\ d.t = Place(r, w + 1)
  <2>1. u - 1 \in 0..(n + 1) /\ w \in 0..(n + 1)
    BY <1>2, <1>4
  <2>2. QED
    BY <1>1, <1>3, <1>4, <2>1
<1>6. q = Shifted(r, u, v, w)
  <2>1. q \in Seq(Nodes) /\ DOMAIN q = 1..n
    BY <1>2, LinesAre
  <2>2. q = [k \in 1..n |-> q[k]]
    BY <2>1
  <2>3. \A k \in 1..n : Origin(u, v, w, k) \in 1..n
    BY <1>2, <1>4, OriginIs
  <2>4. \A k \in 1..n : r[k] = q[Origin(i, j, a, k)]
    BY <1>1, <1>2 DEF Shifted
  <2>5. \A k \in 1..n : r[Origin(u, v, w, k)] = q[k]
    BY <1>4, <2>3, <2>4
  <2>6. Shifted(r, u, v, w) = [k \in 1..n |-> r[Origin(u, v, w, k)]]
    BY <1>3 DEF Shifted
  <2>7. QED
    BY <2>2, <2>5, <2>6
<1>7. Movable(Len(r), u, v, w)
  BY <1>3, <1>4
<1>8. QED
  BY <1>3, <1>5, <1>6, <1>7 DEF Moved

LEMMA UndoneMove ==
    ASSUME NEW b \in Buffers, NEW r, IsRing(b, r), NEW q, NEW d, NEW e, Moved(r, q, e, d)
    PROVE  LET c == Relinked(b, e.h, e.t, d.h, d.t) IN
           c \in Buffers /\ IsRing(c, q) /\ Untouched(c, b, r) /\ SamePlace(c, b)
<1>1. PICK i, j, a : /\ Movable(Len(r), i, j, a) /\ q = Shifted(r, i, j, a)
                     /\ e.h = Place(r, i - 1) /\ e.t = Place(r, j + 1)
                     /\ d.h = Place(r, a) /\ d.t = Place(r, a + 1)
  BY DEF Moved
<1>2. QED
  BY <1>1, RelinkedIs

-----------------------------------------------------------------------------
(* The lines at the times of the entries of the undo stack                 *)

Entries == [type : {"UADD", "UDEL", "UMOV"}, h : AnyNode, t : AnyNode]

(* From the lines q to the lines r, with the entry e.                      *)
Changed(q, r, e) ==
    /\ e.type = "UADD" => Inserted(q, r, e)
    /\ e.type = "UDEL" => Inserted(r, q, e)
    /\ e.type = "UMOV" => OnRing(q) = OnRing(r)

(* hist[i] are the lines after the first i entries of us; P are the second *)
(* entries of moves.  A line is in the buffer for one stretch of time.     *)
History(us, hist, P) ==
    /\ us \in Seq(Entries)
    /\ hist \in [0..Len(us) -> Rings]
    /\ P \subseteq 2..Len(us)
    /\ \A i \in 1..Len(us) : Changed(hist[i - 1], hist[i], us[i])
    /\ \A i \in 1..Len(us) : us[i].type = "UMOV" => i \in P \/ i + 1 \in P
    /\ \A i \in P : /\ us[i].type = "UMOV" /\ us[i - 1].type = "UMOV" /\ i - 1 \notin P
                    /\ Moved(hist[i - 2], hist[i], us[i - 1], us[i])
    /\ \A i, j, k \in 0..Len(us) :
          i <= j /\ j <= k => OnRing(hist[i]) \cap OnRing(hist[k]) \subseteq OnRing(hist[j])

(* The lines out of the buffer, when it is as after n entries, can be put  *)
(* in again: by undoing one of these entries, or by doing a later one.     *)
Loose(b, us, hist, n) ==
    \A i \in 1..Len(us) :
        /\ us[i].type = "UDEL" /\ i <= n => Dangling(b, hist[i - 1], hist[i])
        /\ us[i].type = "UADD" /\ i > n => Dangling(b, hist[i], hist[i - 1])

LEMMA DanglingKept ==
    ASSUME NEW b, NEW c, NEW q, NEW r \in Rings, NEW s, Dangling(b, r, q),
           Untouched(c, b, s), OnRing(r) \cap OnRing(s) \subseteq OnRing(q)
    PROVE  Dangling(c, r, q)
<1>1. SUFFICES ASSUME NEW k \in 1..Len(r), r[k] \notin OnRing(q)
               PROVE  c.forw[r[k]] = Place(r, k + 1) /\ c.back[r[k]] = Place(r, k - 1)
  BY DEF Dangling
<1>2. r[k] \in OnRing(r) /\ r[k] \in AnyNode
  BY PlaceIs
<1>3. c.forw[r[k]] = b.forw[r[k]] /\ c.back[r[k]] = b.back[r[k]]
  BY <1>1, <1>2 DEF Untouched
<1>4. QED
  BY <1>1, <1>3 DEF Dangling

LEMMA LooseKept ==
    ASSUME NEW us, NEW hist, NEW P, History(us, hist, P), NEW b, NEW c,
           NEW n \in 0..Len(us), NEW m \in 0..Len(us), m <= n, Loose(b, us, hist, n),
           Untouched(c, b, hist[m]),
           \A i \in (m + 1)..n : us[i].type = "UADD" => Dangling(c, hist[i], hist[i - 1])
    PROVE  Loose(c, us, hist, m)
<1>1. /\ Len(us) \in Nat /\ \A i \in 0..Len(us) : hist[i] \in Rings
      /\ \A i, j, k \in 0..Len(us) :
            i <= j /\ j <= k => OnRing(hist[i]) \cap OnRing(hist[k]) \subseteq OnRing(hist[j])
  BY LenProperties DEF History
<1>2. ASSUME NEW i \in 1..Len(us), us[i].type = "UDEL", i <= m
      PROVE  Dangling(c, hist[i - 1], hist[i])
  <2>1. i \in 0..Len(us) /\ i - 1 \in 0..Len(us) /\ i - 1 <= i /\ i <= n
    BY <1>1, <1>2
  <2>2. OnRing(hist[i - 1]) \cap OnRing(hist[m]) \subseteq OnRing(hist[i])
    BY <1>1, <1>2, <2>1
  <2>3. Dangling(b, hist[i - 1], hist[i])
    BY <1>2, <2>1 DEF Loose
  <2>4. hist[i - 1] \in Rings
    BY <1>1, <2>1
  <2>5. QED
    BY <2>2, <2>3, <2>4, DanglingKept
<1>3. ASSUME NEW i \in 1..Len(us), us[i].type = "UADD", i > m
      PROVE  Dangling(c, hist[i], hist[i - 1])
  <2>1. CASE i <= n
    <3>1. i \in (m + 1)..n
      BY <1>1, <1>3, <2>1
    <3>2. QED
      BY <1>3, <3>1
  <2>2. CASE i > n
    <3>1. i \in 0..Len(us) /\ i - 1 \in 0..Len(us) /\ i - 1 <= i /\ m <= i - 1
      BY <1>1, <1>3
    <3>2. OnRing(hist[i]) \cap OnRing(hist[m]) \subseteq OnRing(hist[i - 1])
      BY <1>1, <3>1
    <3>3. Dangling(b, hist[i], hist[i - 1])
      BY <1>3, <2>2 DEF Loose
    <3>4. hist[i] \in Rings
      BY <1>1, <3>1
    <3>5. QED
      BY <3>2, <3>3, <3>4, DanglingKept
  <2>3. QED
    BY <1>1, <2>1, <2>2
<1>4. QED
  BY <1>2, <1>3 DEF Loose

(* What the loop of pop_undo_stack() keeps.                                *)
Good(s, us, hist, P) ==
    /\ s \in [buf : Buffers, n : 0..Len(us)]
    /\ s.n + 1 \notin P
    /\ IsRing(s.buf, hist[s.n])
    /\ Loose(s.buf, us, hist, s.n)

LEMMA TurnIs ==
    ASSUME NEW us, NEW hist, NEW P, History(us, hist, P), NEW s, Good(s, us, hist, P)
    PROVE  /\ Good(Turn(s, us), us, hist, P)
           /\ SamePlace(Turn(s, us).buf, s.buf)
           /\ s.n # 0 => Turn(s, us).n < s.n
<1>. PICK b : b = s.buf
  OBVIOUS
<1>. PICK n \in 0..Len(us) : n = s.n
  BY DEF Good
<1>1. /\ b \in Buffers /\ n \in 0..Len(us) /\ n + 1 \notin P /\ IsRing(b, hist[n])
      /\ Loose(b, us, hist, n)
  BY DEF Good
<1>2. CASE n = 0
  BY <1>2 DEF Turn, SamePlace
<1>3. CASE n # 0
  <2>. PICK e : e = us[n]
    OBVIOUS
  <2>. PICK m : m = IF e.type = "UMOV" THEN n - 2 ELSE n - 1
    OBVIOUS
  <2>. PICK c : c = Undone(b, us, n)
    OBVIOUS
  <2>1. /\ Len(us) \in Nat /\ n \in 1..Len(us) /\ n - 1 \in 0..Len(us)
        /\ e.type \in {"UADD", "UDEL", "UMOV"}
        /\ hist[n - 1] \in Rings /\ hist[n] \in Rings
    <3>1. Len(us) \in Nat
      BY LenProperties DEF History
    <3>2. n \in 1..Len(us) /\ n - 1 \in 0..Len(us)
      BY <1>1, <1>3, <3>1
    <3>3. us[n] \in Entries
      BY <3>2, ElementOfSeq DEF History
    <3>4. QED
      BY <1>1, <3>1, <3>2, <3>3 DEF History, Entries
  <2>2. Turn(s, us) = [buf |-> c, n |-> m]
    BY <1>3 DEF Turn
  <2>3. Changed(hist[n - 1], hist[n], e)
    BY <2>1 DEF History
  <2>4. SUFFICES /\ c \in Buffers /\ IsRing(c, hist[m]) /\ SamePlace(c, b)
                 /\ Untouched(c, b, hist[m])
                 /\ m \in 0..Len(us) /\ m < n /\ m + 1 \notin P
                 /\ \A i \in (m + 1)..n : us[i].type = "UADD" =>
                                             Dangling(c, hist[i], hist[i - 1])
    <3>1. Turn(s, us) \in [buf : Buffers, n : 0..Len(us)]
      BY <2>2, <2>4
    <3>2. Turn(s, us).buf = c /\ Turn(s, us).n = m
      BY <2>2
    <3>3. /\ n \in 0..Len(us) /\ m \in 0..Len(us) /\ m <= n /\ Loose(b, us, hist, n)
          /\ Untouched(c, b, hist[m])
          /\ \A i \in (m + 1)..n : us[i].type = "UADD" => Dangling(c, hist[i], hist[i - 1])
      BY <1>1, <2>1, <2>4
    <3>4. Loose(c, us, hist, m)
      <4>1. PICK k \in 0..Len(us) : k = m
        BY <3>3
      <4>2. /\ k <= n /\ Untouched(c, b, hist[k]) /\ Loose(b, us, hist, n)
            /\ \A i \in (k + 1)..n : us[i].type = "UADD" => Dangling(c, hist[i], hist[i - 1])
        BY <3>3, <4>1
      <4>3. Loose(c, us, hist, k)
        BY <4>2, LooseKept
      <4>4. QED
        BY <4>1, <4>3
    <3>5. QED
      BY <2>4, <3>1, <3>2, <3>4 DEF Good
  <2>5. CASE e.type = "UADD"
    <3>1. c = Reque(b, b.back[e.h], b.forw[e.t]) /\ m = n - 1
      BY <2>5 DEF Undone
    <3>2. Inserted(hist[n - 1], hist[n], e)
      BY <2>3, <2>5 DEF Changed
    <3>3. /\ c \in Buffers /\ IsRing(c, hist[m]) /\ SamePlace(c, b)
          /\ Untouched(c, b, hist[m]) /\ Dangling(c, hist[n], hist[n - 1])
      BY <1>1, <3>1, <3>2, UndoneAdd
    <3>4. m \in 0..Len(us) /\ m < n /\ m + 1 = n
      BY <2>1, <3>1
    <3>5. n \notin P
      BY <2>5 DEF History
    <3>6. \A i \in (m + 1)..n : i = n
      BY <2>1, <3>1
    <3>7. QED
      BY <3>3, <3>4, <3>5, <3>6
  <2>6. CASE e.type = "UDEL"
    <3>1. m = n - 1
      BY <2>6
    <3>9. c = Rejoined(b, e.h, e.t)
      BY <2>6 DEF Undone, Rejoined
    <3>2. Inserted(hist[n], hist[n - 1], e)
      BY <2>3, <2>6 DEF Changed
    <3>3. Dangling(b, hist[n - 1], hist[n])
      BY <1>1, <2>1, <2>6 DEF Loose
    <3>4. /\ c \in Buffers /\ IsRing(c, hist[m]) /\ SamePlace(c, b)
          /\ Untouched(c, b, hist[m])
      <4>1. b \in Buffers /\ IsRing(b, hist[n]) /\ hist[n - 1] \in Rings
        BY <1>1, <2>1
      <4>2. c \in Buffers /\ IsRing(c, hist[n - 1]) /\ SamePlace(c, b)
            /\ Untouched(c, b, hist[n - 1])
        BY <3>2, <3>3, <3>9, <4>1, UndoneDel
      <4>3. QED
        BY <3>1, <4>2
    <3>5. m \in 0..Len(us) /\ m < n /\ m + 1 = n
      BY <2>1, <3>1
    <3>6. n \notin P
      BY <2>6 DEF History
    <3>7. \A i \in (m + 1)..n : us[i].type # "UADD"
      <4>1. \A i \in (m + 1)..n : i = n
        BY <2>1, <3>1
      <4>2. QED
        BY <2>6, <4>1
    <3>8. QED
      BY <3>4, <3>5, <3>6, <3>7
  <2>7. CASE e.type = "UMOV"
    <3>. PICK d : d = us[n - 1]
      OBVIOUS
    <3>1. c = Relinked(b, e.h, e.t, d.h, d.t) /\ m = n - 2
      BY <2>7 DEF Undone, Relinked
    <3>2. n \in P
      BY <1>1, <2>1, <2>7 DEF History
    <3>3. m \in 0..Len(us) /\ m < n /\ m + 1 = n - 1 /\ hist[m] \in Rings
      <4>1. n \in 2..Len(us)
        BY <3>2 DEF History
      <4>2. m \in 0..Len(us) /\ m < n /\ m + 1 = n - 1
        BY <2>1, <3>1, <4>1
      <4>3. QED
        BY <4>2 DEF History
    <3>4. d.type = "UMOV" /\ n - 1 \notin P /\ Moved(hist[m], hist[n], d, e)
      BY <3>1, <3>2 DEF History
    <3>5. OnRing(hist[n]) = OnRing(hist[m]) /\ Moved(hist[n], hist[m], e, d)
      BY <3>3, <3>4, MovedBack
    <3>6. c \in Buffers /\ IsRing(c, hist[m]) /\ Untouched(c, b, hist[n]) /\ SamePlace(c, b)
      BY <1>1, <3>1, <3>5, UndoneMove
    <3>7. Untouched(c, b, hist[m])
      BY <3>5, <3>6 DEF Untouched
    <3>8. \A i \in (m + 1)..n : us[i].type # "UADD"
      <4>1. \A i \in (m + 1)..n : i = n \/ i = n - 1
        BY <2>1, <3>1
      <4>2. QED
        BY <2>7, <3>4, <4>1
    <3>9. QED
      BY <3>3, <3>4, <3>6, <3>7, <3>8
  <2>8. QED
    BY <2>1, <2>5, <2>6, <2>7
<1>4. QED
  BY <1>2, <1>3

LEMMA UndoneAllIs ==
    ASSUME NEW us, NEW hist, NEW P, History(us, hist, P), NEW b \in Buffers,
           IsRing(b, hist[Len(us)]), Loose(b, us, hist, Len(us))
    PROVE  LET c == UndoneAll(b, us) IN
           /\ c \in Buffers /\ IsRing(c, hist[0]) /\ Loose(c, us, hist, 0)
           /\ SamePlace(c, b)
<1>. PICK N \in Nat : N = Len(us)
  BY LenProperties DEF History
<1>. DEFINE S == { s \in [buf : Buffers, n : 0..N] :
                     Good(s, us, hist, P) /\ SamePlace(s.buf, b) }
            g == [k \in Nat |-> [s \in S |-> Turn(s, us)]]
            x == [buf |-> b, n |-> N]
            state == CHOOSE f : f = [k \in Nat |-> IF k = 0 THEN x ELSE Turn(f[k - 1], us)]
<1>1. x \in S
  <2>1. x \in [buf : Buffers, n : 0..N] /\ x.buf = b /\ x.n = N
    OBVIOUS
  <2>2. N + 1 \notin P
    BY DEF History
  <2>. HIDE DEF x
  <2>3. Good(x, us, hist, P)
    BY <2>1, <2>2 DEF Good
  <2>4. SamePlace(x.buf, b)
    BY <2>1 DEF SamePlace
  <2>5. QED
    BY <2>1, <2>3, <2>4
<1>2. \A s \in S : /\ Turn(s, us) \in S
                   /\ s.n # 0 => Turn(s, us).n < s.n
                   /\ s.n = 0 => Turn(s, us) = s
  <2>1. SUFFICES ASSUME NEW s \in S
                 PROVE  /\ Turn(s, us) \in S
                        /\ s.n # 0 => Turn(s, us).n < s.n
                        /\ s.n = 0 => Turn(s, us) = s
    OBVIOUS
  <2>2. Good(s, us, hist, P) /\ SamePlace(s.buf, b)
    OBVIOUS
  <2>3. /\ Good(Turn(s, us), us, hist, P)
        /\ SamePlace(Turn(s, us).buf, s.buf)
        /\ s.n # 0 => Turn(s, us).n < s.n
    BY <2>2, TurnIs
  <2>4. Turn(s, us) \in [buf : Buffers, n : 0..N]
    BY <2>3 DEF Good
  <2>5. SamePlace(Turn(s, us).buf, b)
    BY <2>2, <2>3 DEF SamePlace
  <2>6. s.n = 0 => Turn(s, us) = s
    BY DEF Turn
  <2>7. QED
    BY <2>3, <2>4, <2>5, <2>6
<1>3. \A s \in S : s.n \in 0..N /\ s.buf \in Buffers /\ Good(s, us, hist, P) /\ SamePlace(s.buf, b)
  OBVIOUS
<1>4. x.n = N
  OBVIOUS
<1>. HIDE DEF S, x
<1>5. g \in Steps(S)
  BY <1>2 DEF Steps
<1>6. PICK f \in [Nat -> S] : f[0] = x /\ \A k \in Nat \ {0} : f[k] = g[k][f[k - 1]]
  <2>. HIDE DEF g
  <2>1. PICK f : Recurs(f, S, x, g)
    BY <1>1, <1>5, Recurring
  <2>2. QED
    BY <2>1 DEF Recurs
<1>7. f = [k \in Nat |-> IF k = 0 THEN x ELSE Turn(f[k - 1], us)]
  <2>1. \A k \in Nat \ {0} : f[k] = Turn(f[k - 1], us)
    <3>1. SUFFICES ASSUME NEW k \in Nat \ {0} PROVE f[k] = Turn(f[k - 1], us)
      OBVIOUS
    <3>2. k - 1 \in Nat
      OBVIOUS
    <3>3. f[k - 1] \in S
      BY <3>2
    <3>4. QED
      BY <1>6, <3>3
  <2>2. QED
    BY <1>6, <2>1
<1>8. state = [k \in Nat |-> IF k = 0 THEN x ELSE Turn(state[k - 1], us)]
  BY <1>7
<1>9. UndoneAll(b, us) = state[N].buf
  BY DEF UndoneAll, x
<1>. HIDE DEF state
<1>. DEFINE T == { k \in Nat : state[k] \in S /\ (state[k].n = 0 \/ state[k].n + k <= N) }
<1>10. 0 \in T
  <2>1. state[0] = x
    BY <1>8
  <2>2. QED
    BY <1>1, <1>4, <2>1
<1>11. ASSUME NEW k \in Nat, k \in T
       PROVE  k + 1 \in T
  <2>1. state[k + 1] = Turn(state[k], us)
    <3>1. k + 1 \in Nat /\ k + 1 # 0 /\ (k + 1) - 1 = k
      OBVIOUS
    <3>2. QED
      BY <1>8, <3>1
  <2>2. PICK s \in S : s = state[k] /\ (s.n = 0 \/ s.n + k <= N)
    BY <1>11
  <2>3. Turn(s, us) \in S /\ s.n \in 0..N /\ Turn(s, us).n \in 0..N
    BY <1>2, <1>3
  <2>4. Turn(s, us).n = 0 \/ Turn(s, us).n + (k + 1) <= N
    <3>1. CASE s.n = 0
      BY <1>2, <3>1
    <3>2. CASE s.n # 0
      <4>1. Turn(s, us).n < s.n
        BY <1>2, <3>2
      <4>2. QED
        BY <2>2, <2>3, <3>2, <4>1
    <3>3. QED
      BY <3>1, <3>2
  <2>5. QED
    BY <2>1, <2>2, <2>3, <2>4
<1>12. N \in T
  BY <1>10, <1>11, Inducts
<1>13. state[N] \in S /\ state[N].n = 0
  <2>1. state[N] \in S /\ (state[N].n = 0 \/ state[N].n + N <= N)
    BY <1>12
  <2>2. state[N].n \in 0..N
    BY <1>3, <2>1
  <2>3. QED
    BY <2>1, <2>2
<1>14. /\ state[N].buf \in Buffers /\ Good(state[N], us, hist, P)
       /\ SamePlace(state[N].buf, b)
  BY <1>3, <1>13
<1>15. IsRing(state[N].buf, hist[0]) /\ Loose(state[N].buf, us, hist, 0)
  BY <1>13, <1>14 DEF Good
<1>16. QED
  BY <1>9, <1>14, <1>15

(* What was done after the lines were hist[0] has been undone.             *)
Reversed(hist, n) == [i \in 0..n |-> hist[n - i]]

Mirrored(P, n) == { k \in 2..n : n + 2 - k \in P }

LEMMA FlippedIs ==
    ASSUME NEW e \in Entries
    PROVE  /\ Flipped(e) \in Entries /\ Flipped(e).h = e.h /\ Flipped(e).t = e.t
           /\ Flipped(e).type = "UADD" <=> e.type = "UDEL"
           /\ Flipped(e).type = "UDEL" <=> e.type = "UADD"
           /\ Flipped(e).type = "UMOV" <=> e.type = "UMOV"
<1>. PICK y : y = CASE e.type = "UADD" -> "UDEL"
                    [] e.type = "UDEL" -> "UADD"
                    [] OTHER -> e.type
  OBVIOUS
<1>1. e.type \in {"UADD", "UDEL", "UMOV"} /\ e.h \in AnyNode /\ e.t \in AnyNode
  BY DEF Entries
<1>2. /\ y \in {"UADD", "UDEL", "UMOV"}
      /\ y = "UADD" <=> e.type = "UDEL"
      /\ y = "UDEL" <=> e.type = "UADD"
      /\ y = "UMOV" <=> e.type = "UMOV"
  BY <1>1
<1>3. Flipped(e) = [e EXCEPT !.type = y]
  BY DEF Flipped, Entries
<1>4. QED
  BY <1>1, <1>2, <1>3 DEF Entries

LEMMA InvertedIs ==
    ASSUME NEW us \in Seq(Entries)
    PROVE  /\ Inverted(us) \in Seq(Entries) /\ Len(Inverted(us)) = Len(us)
           /\ \A i \in 1..Len(us) : /\ Len(us) + 1 - i \in 1..Len(us)
                                    /\ Inverted(us)[i] = Flipped(us[Len(us) + 1 - i])
<1>. PICK n \in Nat : n = Len(us)
  BY LenProperties
<1>1. \A i \in 1..n : n + 1 - i \in 1..n /\ Inverted(us)[i] = Flipped(us[n + 1 - i])
  BY DEF Inverted
<1>2. \A i \in 1..n : us[i] \in Entries
  BY ElementOfSeq
<1>3. Inverted(us) \in [1..n -> Entries]
  <2>1. \A i \in 1..n : Inverted(us)[i] \in Entries
    BY <1>1, <1>2, FlippedIs
  <2>2. Inverted(us) = [i \in 1..n |-> Inverted(us)[i]]
    BY DEF Inverted
  <2>3. QED
    BY <2>1, <2>2
<1>4. QED
  BY <1>1, <1>3, IsASeq

LEMMA HistoryReversed ==
    ASSUME NEW us, NEW hist, NEW P, History(us, hist, P)
    PROVE  History(Inverted(us), Reversed(hist, Len(us)), Mirrored(P, Len(us)))
<1>. PICK n \in Nat : n = Len(us)
  BY LenProperties DEF History
<1>. PICK us2, h2, P2 : /\ us2 = Inverted(us) /\ h2 = Reversed(hist, n)
                        /\ P2 = Mirrored(P, n)
  OBVIOUS
<1>1. /\ us \in Seq(Entries) /\ hist \in [0..n -> Rings] /\ P \subseteq 2..n
      /\ \A i \in 1..n : us[i] \in Entries
  BY ElementOfSeq DEF History
<1>2. us2 \in Seq(Entries) /\ Len(us2) = n
  BY <1>1, InvertedIs
<1>3. \A i \in 1..n : n + 1 - i \in 1..n /\ us2[i] = Flipped(us[n + 1 - i])
  BY <1>1, InvertedIs
<1>4. h2 \in [0..n -> Rings] /\ \A i \in 0..n : n - i \in 0..n /\ h2[i] = hist[n - i]
  BY <1>1 DEF Reversed
<1>5. P2 \subseteq 2..n /\ \A k \in 2..n : k \in P2 <=> n + 2 - k \in P
  BY DEF Mirrored
<1>6. ASSUME NEW i \in 1..n
      PROVE  Changed(h2[i - 1], h2[i], us2[i])
  <2>. PICK k \in 1..n : k = n + 1 - i
    BY <1>3
  <2>1. us2[i] = Flipped(us[k]) /\ us[k] \in Entries
    BY <1>1, <1>3
  <2>2. h2[i - 1] = hist[k] /\ h2[i] = hist[k - 1]
    <3>1. i - 1 \in 0..n /\ i \in 0..n /\ n - (i - 1) = k /\ n - i = k - 1
      OBVIOUS
    <3>2. QED
      BY <1>4, <3>1
  <2>3. Changed(hist[k - 1], hist[k], us[k])
    BY DEF History
  <2>4. /\ us2[i].h = us[k].h /\ us2[i].t = us[k].t
        /\ us2[i].type = "UADD" <=> us[k].type = "UDEL"
        /\ us2[i].type = "UDEL" <=> us[k].type = "UADD"
        /\ us2[i].type = "UMOV" <=> us[k].type = "UMOV"
    BY <2>1, FlippedIs
  <2>5. QED
    BY <2>2, <2>3, <2>4 DEF Changed, Inserted
<1>7. ASSUME NEW i \in 1..n, us2[i].type = "UMOV"
      PROVE  i \in P2 \/ i + 1 \in P2
  <2>. PICK k \in 1..n : k = n + 1 - i
    BY <1>3
  <2>1. us[k].type = "UMOV"
    BY <1>1, <1>3, <1>7, FlippedIs
  <2>2. k \in P \/ k + 1 \in P
    BY <2>1 DEF History
  <2>3. CASE k \in P
    <3>1. k \in 2..n
      BY <1>1, <2>3
    <3>2. i + 1 \in 2..n /\ n + 2 - (i + 1) = k
      BY <3>1
    <3>3. QED
      BY <1>5, <2>3, <3>2
  <2>4. CASE k + 1 \in P
    <3>1. k + 1 \in 2..n
      BY <1>1, <2>4
    <3>2. i \in 2..n /\ n + 2 - i = k + 1
      BY <3>1
    <3>3. QED
      BY <1>5, <2>4, <3>2
  <2>5. QED
    BY <2>2, <2>3, <2>4
<1>8. ASSUME NEW j \in 2..n, j \in P2
      PROVE  /\ us2[j].type = "UMOV" /\ us2[j - 1].type = "UMOV" /\ j - 1 \notin P2
             /\ Moved(h2[j - 2], h2[j], us2[j - 1], us2[j])
  <2>0. n + 2 - j \in 2..n
    OBVIOUS
  <2>. PICK k \in 2..n : k = n + 2 - j
    BY <2>0
  <2>1. k \in P
    BY <1>5, <1>8
  <2>2. /\ us[k].type = "UMOV" /\ us[k - 1].type = "UMOV" /\ k - 1 \notin P
        /\ Moved(hist[k - 2], hist[k], us[k - 1], us[k])
    BY <2>1 DEF History
  <2>3. /\ j \in 1..n /\ j - 1 \in 1..n /\ n + 1 - j = k - 1 /\ n + 1 - (j - 1) = k
        /\ k - 1 \in 1..n /\ k \in 1..n
    OBVIOUS
  <2>4. us2[j] = Flipped(us[k - 1]) /\ us2[j - 1] = Flipped(us[k])
    BY <1>3, <2>3
  <2>5. /\ us2[j].type = "UMOV" /\ us2[j].h = us[k - 1].h /\ us2[j].t = us[k - 1].t
        /\ us2[j - 1].type = "UMOV" /\ us2[j - 1].h = us[k].h /\ us2[j - 1].t = us[k].t
    BY <1>1, <2>2, <2>3, <2>4, FlippedIs
  <2>6. j - 1 \notin P2
    <3>1. ASSUME j - 1 \in P2 PROVE FALSE
      <4>1. j - 1 \in 2..n /\ n + 2 - (j - 1) \in P
        BY <1>5, <3>1
      <4>2. n + 2 - (j - 1) = k + 1 /\ (k + 1) - 1 = k
        OBVIOUS
      <4>3. k + 1 \in P
        BY <4>1, <4>2
      <4>4. (k + 1) - 1 \notin P
        BY <4>3 DEF History
      <4>5. QED
        BY <2>1, <4>2, <4>4
    <3>2. QED
      BY <3>1
  <2>7. h2[j - 2] = hist[k] /\ h2[j] = hist[k - 2] /\ hist[k] \in Rings /\ hist[k - 2] \in Rings
    <3>1. /\ j - 2 \in 0..n /\ j \in 0..n /\ n - (j - 2) = k /\ n - j = k - 2
          /\ k \in 0..n /\ k - 2 \in 0..n
      OBVIOUS
    <3>2. QED
      BY <1>1, <1>4, <3>1
  <2>8. Moved(hist[k], hist[k - 2], us[k], us[k - 1])
    BY <2>2, <2>7, MovedBack
  <2>9. Moved(hist[k], hist[k - 2], us2[j - 1], us2[j])
    BY <2>5, <2>8 DEF Moved
  <2>10. QED
    BY <2>5, <2>6, <2>7, <2>9
<1>9. ASSUME NEW i \in 0..n, NEW j \in 0..n, NEW k \in 0..n, i <= j, j <= k
      PROVE  OnRing(h2[i]) \cap OnRing(h2[k]) \subseteq OnRing(h2[j])
  <2>1. /\ n - i \in 0..n /\ n - j \in 0..n /\ n - k \in 0..n
        /\ n - k <= n - j /\ n - j <= n - i
    BY <1>9
  <2>2. OnRing(hist[n - k]) \cap OnRing(hist[n - i]) \subseteq OnRing(hist[n - j])
    BY <2>1 DEF History
  <2>3. QED
    BY <1>4, <2>2
<1>10. QED
  BY <1>2, <1>4, <1>5, <1>6, <1>7, <1>8, <1>9 DEF History

LEMMA LooseReversed ==
    ASSUME NEW us, NEW hist, NEW P, History(us, hist, P), NEW c, Loose(c, us, hist, 0)
    PROVE  Loose(c, Inverted(us), Reversed(hist, Len(us)), Len(us))
<1>. PICK n \in Nat : n = Len(us)
  BY LenProperties DEF History
<1>1. us \in Seq(Entries) /\ \A i \in 1..n : us[i] \in Entries
  BY ElementOfSeq DEF History
<1>2. /\ Len(Inverted(us)) = n
      /\ \A i \in 1..n : n + 1 - i \in 1..n /\ Inverted(us)[i] = Flipped(us[n + 1 - i])
  BY <1>1, InvertedIs
<1>3. ASSUME NEW i \in 1..n, Inverted(us)[i].type = "UDEL"
      PROVE  Dangling(c, Reversed(hist, n)[i - 1], Reversed(hist, n)[i])
  <2>. PICK k \in 1..n : k = n + 1 - i
    BY <1>2
  <2>1. us[k].type = "UADD"
    BY <1>1, <1>2, <1>3, FlippedIs
  <2>2. Dangling(c, hist[k], hist[k - 1])
    BY <2>1 DEF Loose
  <2>3. i - 1 \in 0..n /\ i \in 0..n /\ n - (i - 1) = k /\ n - i = k - 1
    OBVIOUS
  <2>4. Reversed(hist, n)[i - 1] = hist[k] /\ Reversed(hist, n)[i] = hist[k - 1]
    BY <2>3 DEF Reversed
  <2>5. QED
    BY <2>2, <2>4
<1>4. \A i \in 1..n : ~(i > n)
  OBVIOUS
<1>5. QED
  BY <1>2, <1>3, <1>4 DEF Loose

-----------------------------------------------------------------------------
(* What an entry more does to the past                                     *)

(* The two parts of History.                                               *)
Course(us, hist) ==
    /\ us \in Seq(Entries)
    /\ hist \in [0..Len(us) -> Rings]
    /\ \A i \in 1..Len(us) : Changed(hist[i - 1], hist[i], us[i])
    /\ \A i, j, k \in 0..Len(us) :
          i <= j /\ j <= k => OnRing(hist[i]) \cap OnRing(hist[k]) \subseteq OnRing(hist[j])

Pairs(us, hist, P) ==
    /\ P \subseteq 2..Len(us)
    /\ \A i \in 1..Len(us) : us[i].type = "UMOV" => i \in P \/ i + 1 \in P
    /\ \A i \in P : /\ us[i].type = "UMOV" /\ us[i - 1].type = "UMOV" /\ i - 1 \notin P
                    /\ Moved(hist[i - 2], hist[i], us[i - 1], us[i])

LEMMA TwoParts ==
    ASSUME NEW us, NEW hist, NEW P
    PROVE  History(us, hist, P) <=> Course(us, hist) /\ Pairs(us, hist, P)
  BY DEF History, Course, Pairs

(* All nodes that have been in the buffer.                                 *)
Known(hist, n) == UNION { OnRing(hist[i]) : i \in 0..n }

Extended(hist, n, s) == [i \in 0..(n + 1) |-> IF i = n + 1 THEN s ELSE hist[i]]

(* No node that was out of the buffer has come back in s.                  *)
Fresh(s, hist, n) == OnRing(s) \cap Known(hist, n) \subseteq OnRing(hist[n])

LEMMA AppendIs ==
    ASSUME NEW us \in Seq(Entries), NEW e \in Entries
    PROVE  /\ Append(us, e) \in Seq(Entries) /\ Len(Append(us, e)) = Len(us) + 1
           /\ \A i \in 1..Len(us) : Append(us, e)[i] = us[i]
           /\ Append(us, e)[Len(us) + 1] = e
  BY AppendProperties

LEMMA ExtendedIs ==
    ASSUME NEW n \in Nat, NEW hist \in [0..n -> Rings], NEW s \in Rings
    PROVE  /\ Extended(hist, n, s) \in [0..(n + 1) -> Rings]
           /\ \A i \in 0..n : Extended(hist, n, s)[i] = hist[i]
           /\ Extended(hist, n, s)[n + 1] = s
<1>. PICK h : h = Extended(hist, n, s)
  OBVIOUS
<1>1. h \in [0..(n + 1) -> Rings]
  BY DEF Extended
<1>2. \A i \in 0..n : i \in 0..(n + 1) /\ h[i] = hist[i]
  BY DEF Extended
<1>3. n + 1 \in 0..(n + 1) /\ h[n + 1] = s
  BY DEF Extended
<1>4. QED
  BY <1>1, <1>2, <1>3

LEMMA KnownExtended ==
    ASSUME NEW n \in Nat, NEW hist, NEW s
    PROVE  Known(Extended(hist, n, s), n + 1) = Known(hist, n) \cup OnRing(s)
<1>1. \A i \in 0..n : i \in 0..(n + 1) /\ i # n + 1
  OBVIOUS
<1>2. n + 1 \in 0..(n + 1) /\ \A i \in 0..(n + 1) : i = n + 1 \/ i \in 0..n
  OBVIOUS
<1>3. \A i \in 0..n : Extended(hist, n, s)[i] = hist[i]
  BY <1>1 DEF Extended
<1>4. Extended(hist, n, s)[n + 1] = s
  BY <1>2 DEF Extended
<1>5. QED
  BY <1>1, <1>2, <1>3, <1>4 DEF Known

LEMMA CourseExtended ==
    ASSUME NEW us, NEW hist, Course(us, hist), NEW e \in Entries, NEW s \in Rings,
           Changed(hist[Len(us)], s, e), Fresh(s, hist, Len(us))
    PROVE  Course(Append(us, e), Extended(hist, Len(us), s))
<1>. PICK n \in Nat : n = Len(us)
  BY LenProperties DEF Course
<1>. PICK us2, h : us2 = Append(us, e) /\ h = Extended(hist, n, s)
  OBVIOUS
<1>1. us \in Seq(Entries) /\ hist \in [0..n -> Rings]
  BY DEF Course
<1>2. /\ us2 \in Seq(Entries) /\ Len(us2) = n + 1
      /\ \A i \in 1..n : us2[i] = us[i]
      /\ us2[n + 1] = e
  BY <1>1, AppendIs
<1>3. /\ h \in [0..(n + 1) -> Rings]
      /\ \A i \in 0..n : h[i] = hist[i]
      /\ h[n + 1] = s
  BY <1>1, ExtendedIs
<1>4. ASSUME NEW i \in 1..(n + 1)
      PROVE  Changed(h[i - 1], h[i], us2[i])
  <2>1. CASE i = n + 1
    <3>1. n \in 0..n /\ i - 1 = n
      BY <2>1
    <3>2. QED
      BY <1>2, <1>3, <2>1, <3>1
  <2>2. CASE i # n + 1
    <3>1. i \in 1..n /\ i \in 0..n /\ i - 1 \in 0..n
      BY <2>2
    <3>2. Changed(hist[i - 1], hist[i], us[i])
      BY <3>1 DEF Course
    <3>3. QED
      BY <1>2, <1>3, <3>1, <3>2
  <2>3. QED
    BY <2>1, <2>2
<1>5. ASSUME NEW i \in 0..(n + 1), NEW j \in 0..(n + 1), NEW k \in 0..(n + 1), i <= j, j <= k
      PROVE  OnRing(h[i]) \cap OnRing(h[k]) \subseteq OnRing(h[j])
  <2>1. CASE k # n + 1
    <3>1. i \in 0..n /\ j \in 0..n /\ k \in 0..n
      BY <1>5, <2>1
    <3>2. OnRing(hist[i]) \cap OnRing(hist[k]) \subseteq OnRing(hist[j])
      BY <1>5, <3>1 DEF Course
    <3>3. QED
      BY <1>3, <3>1, <3>2
  <2>2. CASE j = n + 1
    <3>1. k = j
      BY <1>5, <2>2
    <3>2. QED
      BY <3>1
  <2>3. CASE k = n + 1 /\ j # n + 1
    <3>1. i \in 0..n /\ j \in 0..n /\ n \in 0..n /\ j <= n
      BY <1>5, <2>3
    <3>2. OnRing(hist[i]) \cap OnRing(hist[n]) \subseteq OnRing(hist[j])
      BY <1>5, <3>1 DEF Course
    <3>3. OnRing(hist[i]) \subseteq Known(hist, n)
      BY <3>1 DEF Known
    <3>4. OnRing(s) \cap Known(hist, n) \subseteq OnRing(hist[n])
      BY DEF Fresh
    <3>5. QED
      BY <1>3, <2>3, <3>1, <3>2, <3>3, <3>4
  <2>4. QED
    BY <2>1, <2>2, <2>3
<1>6. QED
  BY <1>2, <1>3, <1>4, <1>5 DEF Course

LEMMA LooseExtended ==
    ASSUME NEW us, NEW hist, Course(us, hist), NEW e \in Entries, NEW s \in Rings,
           NEW b, NEW c, Loose(b, us, hist, Len(us)),
           NEW r, Untouched(c, b, r), Fresh(r, hist, Len(us)),
           e.type = "UDEL" => Dangling(c, hist[Len(us)], s)
    PROVE  Loose(c, Append(us, e), Extended(hist, Len(us), s), Len(us) + 1)
<1>. PICK n \in Nat : n = Len(us)
  BY LenProperties DEF Course
<1>. PICK us2, h : us2 = Append(us, e) /\ h = Extended(hist, n, s)
  OBVIOUS
<1>1. us \in Seq(Entries) /\ hist \in [0..n -> Rings]
  BY DEF Course
<1>2. /\ us2 \in Seq(Entries) /\ Len(us2) = n + 1
      /\ \A i \in 1..n : us2[i] = us[i]
      /\ us2[n + 1] = e
  BY <1>1, AppendIs
<1>3. /\ h \in [0..(n + 1) -> Rings]
      /\ \A i \in 0..n : h[i] = hist[i]
      /\ h[n + 1] = s
  BY <1>1, ExtendedIs
<1>4. ASSUME NEW i \in 1..(n + 1), us2[i].type = "UDEL"
      PROVE  Dangling(c, h[i - 1], h[i])
  <2>1. CASE i = n + 1
    <3>1. n \in 0..n /\ i - 1 = n
      BY <2>1
    <3>2. QED
      BY <1>2, <1>3, <1>4, <2>1, <3>1
  <2>2. CASE i # n + 1
    <3>1. /\ i \in 1..n /\ i \in 0..n /\ i - 1 \in 0..n /\ n \in 0..n
          /\ i - 1 <= i /\ i <= n
      BY <2>2
    <3>2. Dangling(b, hist[i - 1], hist[i])
      BY <1>2, <1>4, <3>1 DEF Loose
    <3>3. OnRing(hist[i - 1]) \cap OnRing(hist[n]) \subseteq OnRing(hist[i])
      BY <3>1 DEF Course
    <3>4. OnRing(hist[i - 1]) \subseteq Known(hist, n)
      BY <3>1 DEF Known
    <3>5. OnRing(r) \cap Known(hist, n) \subseteq OnRing(hist[n])
      BY DEF Fresh
    <3>6. OnRing(hist[i - 1]) \cap OnRing(r) \subseteq OnRing(hist[i])
      BY <3>3, <3>4, <3>5
    <3>7. hist[i - 1] \in Rings
      BY <1>1, <3>1
    <3>8. Dangling(c, hist[i - 1], hist[i])
      BY <3>2, <3>6, <3>7, DanglingKept
    <3>9. QED
      BY <1>3, <3>1, <3>8
  <2>3. QED
    BY <2>1, <2>2
<1>5. \A i \in 1..(n + 1) : ~(i > n + 1)
  OBVIOUS
<1>6. QED
  BY <1>2, <1>4, <1>5 DEF Loose

(* The last entry is extended.                                             *)
LEMMA ReplacedIs ==
    ASSUME NEW n \in Nat \ {0}, NEW us \in Seq(Entries), Len(us) = n, NEW e \in Entries,
           NEW hist \in [0..n -> Rings], NEW s \in Rings
    PROVE  /\ [us EXCEPT ![n] = e] \in Seq(Entries) /\ Len([us EXCEPT ![n] = e]) = n
           /\ \A i \in 1..n : i # n => [us EXCEPT ![n] = e][i] = us[i]
           /\ [us EXCEPT ![n] = e][n] = e
           /\ [hist EXCEPT ![n] = s] \in [0..n -> Rings]
           /\ \A i \in 0..n : i # n => [hist EXCEPT ![n] = s][i] = hist[i]
           /\ [hist EXCEPT ![n] = s][n] = s
<1>. PICK us2, h : us2 = [us EXCEPT ![n] = e] /\ h = [hist EXCEPT ![n] = s]
  OBVIOUS
<1>1. n \in 1..n /\ n \in 0..n /\ DOMAIN us = 1..n
  BY LenProperties
<1>2. us2 \in Seq(Entries) /\ Len(us2) = n
  BY <1>1, ExceptSeq
<1>3. us2[n] = e /\ \A i \in 1..n : i # n => us2[i] = us[i]
  BY <1>1
<1>4. /\ h \in [0..n -> Rings] /\ h[n] = s
      /\ \A i \in 0..n : i # n => h[i] = hist[i]
  BY <1>1
<1>5. QED
  BY <1>2, <1>3, <1>4

LEMMA KnownReplaced ==
    ASSUME NEW n \in Nat, NEW hist \in [0..n -> Rings], NEW s,
           OnRing(hist[n]) \subseteq OnRing(s)
    PROVE  Known([hist EXCEPT ![n] = s], n) = Known(hist, n) \cup OnRing(s)
<1>. PICK h : h = [hist EXCEPT ![n] = s]
  OBVIOUS
<1>1. n \in 0..n /\ h[n] = s /\ \A i \in 0..n : i # n => h[i] = hist[i]
  OBVIOUS
<1>2. ASSUME NEW y \in Known(h, n)
      PROVE  y \in Known(hist, n) \cup OnRing(s)
  <2>1. PICK i \in 0..n : y \in OnRing(h[i])
    BY <1>2 DEF Known
  <2>2. CASE i = n
    BY <1>1, <2>1, <2>2
  <2>3. CASE i # n
    BY <1>1, <2>1, <2>3 DEF Known
  <2>4. QED
    BY <2>2, <2>3
<1>3. ASSUME NEW y \in Known(hist, n) \cup OnRing(s)
      PROVE  y \in Known(h, n)
  <2>1. CASE y \in OnRing(s)
    BY <1>1, <2>1 DEF Known
  <2>2. CASE y \notin OnRing(s)
    <3>1. PICK i \in 0..n : y \in OnRing(hist[i])
      BY <1>3, <2>2 DEF Known
    <3>2. i # n
      BY <2>2, <3>1
    <3>3. QED
      BY <1>1, <3>1, <3>2 DEF Known
  <2>3. QED
    BY <2>1, <2>2
<1>4. QED
  BY <1>2, <1>3

LEMMA CourseReplaced ==
    ASSUME NEW us, NEW hist, Course(us, hist), NEW n \in Nat \ {0}, Len(us) = n,
           NEW e \in Entries, NEW s \in Rings, OnRing(hist[n]) \subseteq OnRing(s),
           Changed(hist[n - 1], s, e), Fresh(s, hist, n)
    PROVE  Course([us EXCEPT ![n] = e], [hist EXCEPT ![n] = s])
<1>. PICK us2, h : us2 = [us EXCEPT ![n] = e] /\ h = [hist EXCEPT ![n] = s]
  OBVIOUS
<1>1. us \in Seq(Entries) /\ hist \in [0..n -> Rings]
  BY DEF Course
<1>2. /\ us2 \in Seq(Entries) /\ Len(us2) = n
      /\ \A i \in 1..n : i # n => us2[i] = us[i]
      /\ us2[n] = e
      /\ h \in [0..n -> Rings] /\ h[n] = s
      /\ \A i \in 0..n : i # n => h[i] = hist[i]
  BY <1>1, ReplacedIs
<1>3. ASSUME NEW i \in 1..n
      PROVE  Changed(h[i - 1], h[i], us2[i])
  <2>1. i - 1 \in 0..n /\ i - 1 # n /\ i \in 0..n
    OBVIOUS
  <2>2. CASE i = n
    BY <1>2, <2>1, <2>2
  <2>3. CASE i # n
    BY <1>2, <2>1, <2>3 DEF Course
  <2>4. QED
    BY <2>2, <2>3
<1>4. ASSUME NEW i \in 0..n, NEW j \in 0..n, NEW k \in 0..n, i <= j, j <= k
      PROVE  OnRing(h[i]) \cap OnRing(h[k]) \subseteq OnRing(h[j])
  <2>1. CASE k # n
    <3>1. i # n /\ j # n
      BY <1>4, <2>1
    <3>2. OnRing(hist[i]) \cap OnRing(hist[k]) \subseteq OnRing(hist[j])
      BY <1>4 DEF Course
    <3>3. QED
      BY <1>2, <2>1, <3>1, <3>2
  <2>2. CASE j = n
    <3>1. k = j
      BY <1>4, <2>2
    <3>2. QED
      BY <3>1
  <2>3. CASE k = n /\ j # n
    <3>1. i # n /\ n \in 0..n /\ j <= n
      BY <1>4, <2>3
    <3>2. OnRing(hist[i]) \cap OnRing(hist[n]) \subseteq OnRing(hist[j])
      BY <1>4, <3>1 DEF Course
    <3>3. OnRing(hist[i]) \subseteq Known(hist, n)
      BY DEF Known
    <3>4. OnRing(s) \cap Known(hist, n) \subseteq OnRing(hist[n])
      BY DEF Fresh
    <3>5. QED
      BY <1>2, <2>3, <3>1, <3>2, <3>3, <3>4
  <2>4. QED
    BY <2>1, <2>2, <2>3
<1>5. /\ us2 \in Seq(Entries) /\ h \in [0..Len(us2) -> Rings]
      /\ \A i \in 1..Len(us2) : Changed(h[i - 1], h[i], us2[i])
      /\ \A i, j, k \in 0..Len(us2) :
           i <= j /\ j <= k => OnRing(h[i]) \cap OnRing(h[k]) \subseteq OnRing(h[j])
  BY <1>2, <1>3, <1>4
<1>6. Course(us2, h)
  BY <1>5 DEF Course
<1>7. QED
  BY <1>6

LEMMA LooseReplaced ==
    ASSUME NEW us, NEW hist, Course(us, hist), NEW n \in Nat \ {0}, Len(us) = n,
           NEW e \in Entries, e.type # "UDEL",
           NEW s \in Rings, OnRing(hist[n]) \subseteq OnRing(s),
           NEW b, NEW c, Loose(b, us, hist, n),
           NEW r, Untouched(c, b, r), Fresh(r, hist, n)
    PROVE  Loose(c, [us EXCEPT ![n] = e], [hist EXCEPT ![n] = s], n)
<1>. PICK us2, h : us2 = [us EXCEPT ![n] = e] /\ h = [hist EXCEPT ![n] = s]
  OBVIOUS
<1>1. us \in Seq(Entries) /\ hist \in [0..n -> Rings]
  BY DEF Course
<1>2. /\ us2 \in Seq(Entries) /\ Len(us2) = n
      /\ \A i \in 1..n : i # n => us2[i] = us[i]
      /\ us2[n] = e
      /\ \A i \in 0..n : i # n => h[i] = hist[i]
  BY <1>1, ReplacedIs
<1>3. ASSUME NEW i \in 1..n, us2[i].type = "UDEL"
      PROVE  Dangling(c, h[i - 1], h[i])
  <2>1. i # n
    BY <1>2, <1>3
  <2>2. /\ i \in 0..n /\ i - 1 \in 0..n /\ i - 1 # n /\ n \in 0..n
        /\ i - 1 <= i /\ i <= n
    BY <2>1
  <2>3. Dangling(b, hist[i - 1], hist[i])
    BY <1>2, <1>3, <2>1, <2>2 DEF Loose
  <2>4. OnRing(hist[i - 1]) \cap OnRing(hist[n]) \subseteq OnRing(hist[i])
    BY <2>2 DEF Course
  <2>5. OnRing(hist[i - 1]) \subseteq Known(hist, n)
    BY <2>2 DEF Known
  <2>6. OnRing(r) \cap Known(hist, n) \subseteq OnRing(hist[n])
    BY DEF Fresh
  <2>7. OnRing(hist[i - 1]) \cap OnRing(r) \subseteq OnRing(hist[i])
    BY <2>4, <2>5, <2>6
  <2>8. hist[i - 1] \in Rings
    BY <1>1, <2>2
  <2>9. Dangling(c, hist[i - 1], hist[i])
    BY <2>3, <2>7, <2>8, DanglingKept
  <2>10. QED
    BY <1>2, <2>1, <2>2, <2>9
<1>4. \A i \in 1..n : ~(i > n)
  OBVIOUS
<1>5. QED
  BY <1>2, <1>3, <1>4 DEF Loose
-----------------------------------------------------------------------------
(* Spans of nodes, and the lines of a buffer                               *)

LEMMA NodesCounted == Cardinality(Nodes) \in Nat
<1>. QED
  BY BufferAssumption, FS_CardinalityType

LEMMA RingSize ==
    ASSUME NEW r \in Rings
    PROVE  /\ Len(r) <= Cardinality(Nodes)
           /\ Cardinality({ r[k] : k \in 1..Len(r) }) = Len(r)
<1>. PICK n \in Nat : n = Len(r)
  BY LinesAre
<1>1. r \in [1..n -> Nodes] /\ \A k, l \in 1..n : r[k] = r[l] => k = l
  <2>1. DOMAIN r = 1..n /\ \A k \in 1..n : r[k] \in Nodes
    BY LinesAre
  <2>2. r \in [DOMAIN r -> Nodes]
    BY <2>1, LinesAre
  <2>3. QED
    BY <2>1, <2>2, LinesAre
<1>2. IsFiniteSet(1..n) /\ Cardinality(1..n) = n
  <2>1. 1 \in Int /\ n \in Int
    OBVIOUS
  <2>2. /\ IsFiniteSet(1..n)
        /\ Cardinality(1..n) = IF 1 > n THEN 0 ELSE n - 1 + 1
    BY <2>1, FS_Interval, Zenon
  <2>3. QED
    BY <2>2
<1>3. r \in Injection(1..n, Nodes)
  BY <1>1 DEF Injection, IsInjective
<1>4. n <= Cardinality(Nodes)
  BY <1>2, <1>3, FS_Injection, BufferAssumption
<1>. DEFINE T == { r[k] : k \in 1..n }
<1>5. r \in [1..n -> T]
  BY <1>1
<1>6. r \in Surjection(1..n, T) /\ r \in Injection(1..n, T)
  BY <1>1, <1>5 DEF Surjection, Injection, IsInjective
<1>7. Cardinality(T) = n
  <2>. HIDE DEF T
  <2>. QED
    BY <1>2, <1>6, FS_Surjection
<1>8. QED
  BY <1>4, <1>7

(* The lines of r from i to j are linked as they were.                      *)
Chained(b, r, i, j) ==
    \A k \in 1..Len(r) : i <= k /\ k <= j => b.forw[r[k]] = Place(r, k + 1)

LEMMA SpanIs ==
    ASSUME NEW b, b.forw \in Links, NEW r \in Rings, NEW i \in 1..Len(r), NEW j \in i..Len(r),
           Chained(b, r, i, j)
    PROVE  Span(b, Place(r, i), b.forw[Place(r, j)]) = Lying(r, i, j)
<1>. PICK n \in Nat : n = Len(r)
  BY LinesAre
<1>. PICK x, end : x = Place(r, i) /\ end = Place(r, j + 1)
  OBVIOUS
<1>1. i \in 1..n /\ j \in 1..n /\ i <= j /\ x \in AnyNode
  BY PlaceIs
<1>2. \A k \in 1..n : Place(r, k) = r[k]
  BY PlaceIs
<1>3. b.forw[Place(r, j)] = end
  BY <1>1, <1>2 DEF Chained
<1>. DEFINE T == { m \in Nat : i + m <= j + 1 => Along(b.forw, x, m) = Place(r, i + m) }
<1>4. 0 \in T
  BY <1>1, AlongIs
<1>5. ASSUME NEW m \in Nat, m \in T
      PROVE  m + 1 \in T
  <2>1. SUFFICES ASSUME i + (m + 1) <= j + 1
                 PROVE  Along(b.forw, x, m + 1) = Place(r, i + (m + 1))
    OBVIOUS
  <2>2. i + m \in 1..n /\ i <= i + m /\ i + m <= j /\ i + m <= j + 1 /\ (i + m) + 1 = i + (m + 1)
    BY <1>1, <2>1
  <2>3. Along(b.forw, x, m) = r[i + m]
    BY <1>2, <1>5, <2>2
  <2>4. Along(b.forw, x, m + 1) = b.forw[Along(b.forw, x, m)]
    BY <1>1, AlongIs
  <2>5. b.forw[r[i + m]] = Place(r, (i + m) + 1)
    BY <2>2 DEF Chained
  <2>6. QED
    BY <2>2, <2>3, <2>4, <2>5
<1>6. \A m \in Nat : i + m <= j + 1 => Along(b.forw, x, m) = Place(r, i + m)
  BY <1>4, <1>5, Inducts
<1>7. \A m \in Nat : i + m <= j => Along(b.forw, x, m) # end
  <2>1. SUFFICES ASSUME NEW m \in Nat, i + m <= j PROVE Along(b.forw, x, m) # end
    OBVIOUS
  <2>2. i + m \in 1..(n + 1) /\ j + 1 \in 1..(n + 1) /\ i + m # j + 1 /\ i + m <= j + 1
    BY <1>1, <2>1
  <2>3. Along(b.forw, x, m) = Place(r, i + m)
    BY <1>6, <2>2
  <2>4. \A u, v \in 1..(n + 1) : Place(r, u) = Place(r, v) => u = v
    BY PlaceIs
  <2>5. QED
    BY <2>2, <2>3, <2>4
<1>8. (j + 1) - i \in Nat /\ Along(b.forw, x, (j + 1) - i) = end
  <2>1. (j + 1) - i \in Nat /\ i + ((j + 1) - i) = j + 1 /\ i + ((j + 1) - i) <= j + 1
    BY <1>1
  <2>2. QED
    BY <1>6, <2>1
<1>9. n <= Cardinality(Nodes) /\ Cardinality(Nodes) \in Nat
  BY RingSize, NodesCounted
<1>10. ASSUME NEW m \in Around, \A l \in 0..m : Along(b.forw, x, l) # end
       PROVE  Along(b.forw, x, m) \in Lying(r, i, j)
  <2>1. m \in Nat
    BY <1>9 DEF Around
  <2>2. ~((j + 1) - i \in 0..m)
    BY <1>8, <1>10
  <2>3. i + m \in i..j /\ i + m \in 1..n /\ i + m <= j + 1
    BY <1>1, <1>8, <2>1, <2>2
  <2>4. Along(b.forw, x, m) = r[i + m]
    BY <1>2, <1>6, <2>1, <2>3
  <2>5. QED
    BY <2>3, <2>4 DEF Lying
<1>11. ASSUME NEW y \in Lying(r, i, j)
       PROVE  \E m \in Around : y = Along(b.forw, x, m) /\ \A l \in 0..m : Along(b.forw, x, l) # end
  <2>1. PICK k \in i..j : y = r[k]
    BY DEF Lying
  <2>2. PICK m \in Nat : m = k - i
    BY <1>1
  <2>3. k \in 1..n /\ i + m = k /\ i + m <= j + 1 /\ i + m <= j /\ m <= n
    BY <1>1, <2>2
  <2>4. m \in Around
    BY <1>9, <2>3 DEF Around
  <2>5. y = Along(b.forw, x, m)
    BY <1>2, <1>6, <2>1, <2>3
  <2>6. ASSUME NEW l \in 0..m PROVE Along(b.forw, x, l) # end
    <3>1. l \in Nat /\ i + l <= j
      BY <1>1, <2>3
    <3>2. QED
      BY <1>7, <3>1
  <2>7. QED
    BY <2>4, <2>5, <2>6
<1>12. Span(b, x, end) = Lying(r, i, j)
  BY <1>10, <1>11 DEF Span
<1>13. QED
  BY <1>3, <1>12

LEMMA SpanEmpty ==
    ASSUME NEW b, b.forw \in Links, NEW x \in AnyNode
    PROVE  Span(b, x, x) = {}
<1>1. Along(b.forw, x, 0) = x
  BY AlongIs
<1>2. \A k \in Around : 0 \in 0..k
  BY NodesCounted DEF Around
<1>3. QED
  BY <1>1, <1>2 DEF Span

(* What a ring says of Lines and of RingOf.                                *)
LEMMA RingOfIs ==
    ASSUME NEW b, NEW s, IsRing(b, s), b.addr_last = Len(s)
    PROVE  Lines(b) = s /\ InBuffer(b) = OnRing(s) \ {BufferHead} /\ RingOf(b)
<1>. PICK n \in Nat : n = Len(s)
  BY LinesAre DEF IsRing
<1>1. s \in Rings
  BY DEF IsRing
<1>2. /\ Place(s, 0) = BufferHead /\ Place(s, n + 1) = BufferHead
      /\ \A k \in 1..n : Place(s, k) = s[k] /\ s[k] \in Nodes /\ s[k] # BufferHead
  BY <1>1, PlaceIs
<1>3. \A k \in Nat : k <= n + 1 => Along(b.forw, BufferHead, k) = Place(s, k)
  <2>1. 0 \in 0..Len(s) /\ \A k \in Nat : 0 + k = k
    OBVIOUS
  <2>2. \A k \in Nat : 0 + k <= Len(s) + 1 => Along(b.forw, Place(s, 0), k) = Place(s, 0 + k)
    BY <2>1, RingAlong
  <2>3. QED
    BY <1>2, <2>1, <2>2
<1>4. Lines(b) = s
  <2>1. DOMAIN s = 1..n /\ s = [k \in 1..n |-> s[k]]
    BY <1>1, LinesAre
  <2>2. \A k \in 1..n : Along(b.forw, BufferHead, k) = s[k]
    BY <1>2, <1>3
  <2>3. QED
    BY <2>1, <2>2 DEF Lines
<1>5. InBuffer(b) = { s[k] : k \in 1..n }
  BY <1>1, <1>4, LinesAre DEF InBuffer
<1>6. InBuffer(b) = OnRing(s) \ {BufferHead}
  BY <1>1, <1>2, <1>5, PlaceIs
<1>7. BufferHead \in OnRing(s)
  BY <1>1, PlaceIs
<1>8. Cardinality(InBuffer(b)) = b.addr_last
  BY <1>1, <1>5, RingSize
<1>9. Along(b.forw, BufferHead, b.addr_last + 1) = BufferHead
  BY <1>2, <1>3
<1>10. ASSUME NEW x \in InBuffer(b) \cup {BufferHead}
       PROVE  b.back[b.forw[x]] = x
  <2>1. PICK k \in 0..Len(s) : x = Place(s, k)
    BY <1>6, <1>7 DEF OnRing
  <2>2. QED
    BY <2>1 DEF IsRing
<1>11. QED
  BY <1>4, <1>6, <1>8, <1>9, <1>10 DEF RingOf

LEMMA HoldsIs ==
    ASSUME NEW b, NEW s, Holds(b, s)
    PROVE  /\ Lines(b) = s /\ InBuffer(b) = OnRing(s) \ {BufferHead} /\ RingOf(b)
           /\ b.lp = Along(b.forw, BufferHead, b.on)
           /\ b.addr_last \in 0..Cardinality(Nodes)
<1>1. IsRing(b, s) /\ b.addr_last = Len(s) /\ s \in Rings
  BY DEF Holds, IsRing
<1>2. Len(s) \in Nat /\ Place(s, 0) = BufferHead
  BY <1>1, PlaceIs
<1>3. b.on \in 0..Len(s) /\ b.lp = Place(s, b.on)
  BY DEF Holds
<1>4. Along(b.forw, Place(s, 0), b.on) = Place(s, 0 + b.on)
  BY <1>1, <1>2, <1>3, RingAlong
<1>5. b.lp = Along(b.forw, BufferHead, b.on)
  BY <1>2, <1>3, <1>4
<1>6. b.addr_last \in 0..Cardinality(Nodes)
  <2>1. Len(s) <= Cardinality(Nodes)
    BY <1>1, RingSize
  <2>2. QED
    BY <1>1, <1>2, <2>1, NodesCounted
<1>7. QED
  BY <1>1, <1>5, <1>6, RingOfIs
-----------------------------------------------------------------------------
(* The nodes that clear_undo_stack() frees                                 *)

LEMMA InsertedRings ==
    ASSUME NEW q, NEW r \in Rings, NEW e, Inserted(q, r, e)
    PROVE  /\ q \in Rings /\ OnRing(q) \subseteq OnRing(r)
           /\ e.h \in OnRing(r) /\ e.t \in OnRing(r)
<1>1. PICK i, j : /\ Whole(r, i, j) /\ q = Without(r, i, j)
                  /\ e.h = Place(r, i) /\ e.t = Place(r, j)
  BY DEF Inserted
<1>2. /\ i \in 1..(Len(r) + 1) /\ j \in 0..Len(r) /\ i <= j + 1
      /\ i \in 0..(Len(r) + 1)
  BY <1>1, WholeIs
<1>3. q \in Rings /\ OnRing(q) = OnRing(r) \ Lying(r, i, j)
  BY <1>1, <1>2, WithoutIs
<1>4. j \in 0..(Len(r) + 1)
  BY <1>2, LinesAre
<1>5. e.h \in OnRing(r) /\ e.t \in OnRing(r)
  BY <1>1, <1>2, <1>4, PlaceIs
<1>6. QED
  BY <1>3, <1>5

LEMMA EntryIs ==
    ASSUME NEW us, NEW hist, Course(us, hist), NEW i \in 1..Len(us)
    PROVE  /\ i - 1 \in 0..Len(us) /\ i \in 0..Len(us) /\ Len(us) \in Nat
           /\ hist[i - 1] \in Rings /\ hist[i] \in Rings
           /\ us[i] \in Entries /\ us[i].type \in {"UADD", "UDEL", "UMOV"}
           /\ Changed(hist[i - 1], hist[i], us[i])
           /\ us[i].type # "UDEL" => OnRing(hist[i - 1]) \subseteq OnRing(hist[i])
           /\ us[i].type = "UDEL" => OnRing(hist[i]) \subseteq OnRing(hist[i - 1])
<1>. PICK n \in Nat : n = Len(us)
  BY LenProperties DEF Course
<1>1. us \in Seq(Entries) /\ hist \in [0..n -> Rings]
  BY DEF Course
<1>2. i \in 0..n /\ i - 1 \in 0..n
  OBVIOUS
<1>3. hist[i - 1] \in Rings /\ hist[i] \in Rings
  BY <1>1, <1>2
<1>4. us[i] \in Entries
  BY <1>1, ElementOfSeq
<1>5. us[i].type \in {"UADD", "UDEL", "UMOV"}
  BY <1>4 DEF Entries
<1>6. Changed(hist[i - 1], hist[i], us[i])
  BY DEF Course
<1>7. CASE us[i].type = "UADD"
  <2>1. Inserted(hist[i - 1], hist[i], us[i])
    BY <1>6, <1>7 DEF Changed
  <2>2. OnRing(hist[i - 1]) \subseteq OnRing(hist[i])
    BY <1>3, <2>1, InsertedRings
  <2>3. QED
    BY <1>2, <1>3, <1>4, <1>5, <1>6, <1>7, <2>2
<1>8. CASE us[i].type = "UDEL"
  <2>1. Inserted(hist[i], hist[i - 1], us[i])
    BY <1>6, <1>8 DEF Changed
  <2>2. OnRing(hist[i]) \subseteq OnRing(hist[i - 1])
    BY <1>3, <2>1, InsertedRings
  <2>3. QED
    BY <1>2, <1>3, <1>4, <1>5, <1>6, <1>8, <2>2
<1>9. CASE us[i].type = "UMOV"
  <2>1. OnRing(hist[i - 1]) = OnRing(hist[i])
    BY <1>6, <1>9 DEF Changed
  <2>2. QED
    BY <1>2, <1>3, <1>4, <1>5, <1>6, <1>9, <2>1
<1>10. QED
  BY <1>5, <1>7, <1>8, <1>9

(* An entry for no lines at all points to the head: the ring is empty.      *)
Closed(b, us) ==
    \A i \in 1..Len(us) :
        us[i].type = "UDEL" /\ us[i].h = BufferHead => b.forw[BufferHead] = BufferHead

LEMMA CutOutIs ==
    ASSUME NEW us, NEW hist, Course(us, hist), NEW b, b.forw \in Links,
           Loose(b, us, hist, Len(us)), Closed(b, us),
           NEW i \in 1..Len(us), us[i].type = "UDEL"
    PROVE  CutOut(b, us[i]) = OnRing(hist[i - 1]) \ OnRing(hist[i])
<1>. PICK r, q, e : r = hist[i - 1] /\ q = hist[i] /\ e = us[i]
  OBVIOUS
<1>1. r \in Rings /\ Inserted(q, r, e) /\ Len(us) \in Nat
  BY EntryIs DEF Changed
<1>2. PICK u, v : /\ Whole(r, u, v) /\ q = Without(r, u, v)
                  /\ e.h = Place(r, u) /\ e.t = Place(r, v)
  BY <1>1 DEF Inserted
<1>3. u \in 1..(Len(r) + 1) /\ v \in 0..Len(r) /\ u <= v + 1
  BY <1>1, <1>2, WholeIs
<1>4. OnRing(q) = OnRing(r) \ Lying(r, u, v)
  BY <1>1, <1>2, <1>3, WithoutIs
<1>5. Lying(r, u, v) \subseteq OnRing(r)
  <2>1. SUFFICES ASSUME NEW k \in u..v PROVE r[k] \in OnRing(r)
    BY DEF Lying
  <2>2. k \in 1..Len(r)
    BY <1>1, <1>3, LinesAre
  <2>3. QED
    BY <1>1, <2>2, PlaceIs
<1>6. OnRing(r) \ OnRing(q) = Lying(r, u, v)
  BY <1>4, <1>5
<1>7. CASE u \in 1..Len(r) /\ v \in u..Len(r)
  <2>1. Dangling(b, r, q)
    BY <1>1 DEF Loose
  <2>2. ASSUME NEW k \in 1..Len(r), u <= k, k <= v
        PROVE  b.forw[r[k]] = Place(r, k + 1)
    <3>1. k \in u..v
      BY <1>1, <1>3, <2>2, LinesAre
    <3>2. r[k] \notin OnRing(q)
      BY <1>4, <3>1 DEF Lying
    <3>3. QED
      BY <2>1, <3>2 DEF Dangling
  <2>3. Chained(b, r, u, v)
    BY <2>2 DEF Chained
  <2>4. r \in Rings /\ u \in 1..Len(r) /\ v \in u..Len(r)
    BY <1>1, <1>7
  <2>5. Span(b, Place(r, u), b.forw[Place(r, v)]) = Lying(r, u, v)
    BY <2>3, <2>4, SpanIs
  <2>6. QED
    BY <1>2, <1>6, <2>5 DEF CutOut
<1>8. CASE u = 1 /\ v = 0 /\ Len(r) = 0
  <2>1. e.h = BufferHead /\ e.t = BufferHead
    BY <1>1, <1>2, <1>8 DEF Place
  <2>2. b.forw[BufferHead] = BufferHead
    BY <2>1 DEF Closed
  <2>3. Span(b, BufferHead, BufferHead) = {}
    BY SpanEmpty DEF AnyNode
  <2>4. Lying(r, u, v) = {}
    BY <1>8 DEF Lying
  <2>5. QED
    BY <1>6, <2>1, <2>2, <2>3, <2>4 DEF CutOut
<1>9. QED
  BY <1>2, <1>7, <1>8 DEF Whole

(* A node that has gone has been deleted.                                  *)
LEMMA GoneIs ==
    ASSUME NEW us, NEW hist, Course(us, hist), NEW x,
           x \in Known(hist, Len(us)), x \notin OnRing(hist[Len(us)])
    PROVE  \E i \in 1..Len(us) : /\ us[i].type = "UDEL"
                                 /\ x \in OnRing(hist[i - 1]) \ OnRing(hist[i])
<1>. PICK n \in Nat : n = Len(us)
  BY LenProperties DEF Course
<1>1. PICK j \in 0..n : x \in OnRing(hist[j])
  BY DEF Known
<1>. DEFINE T == { k \in Nat : j < k /\ k <= n /\ x \notin OnRing(hist[k]) }
<1>2. j # n
  BY <1>1
<1>3. n \in T
  BY <1>1, <1>2
<1>4. PICK i \in T : \A m \in T : i <= m
  BY <1>3, LeastNat
<1>5. i \in 1..n /\ i - 1 \in Nat /\ i - 1 <= n /\ j <= i - 1 /\ x \notin OnRing(hist[i])
  BY <1>1, <1>4
<1>6. i - 1 \notin T
  BY <1>4, <1>5
<1>7. x \in OnRing(hist[i - 1])
  BY <1>1, <1>5, <1>6
<1>8. us[i].type = "UDEL"
  BY <1>5, <1>7, EntryIs
<1>9. QED
  BY <1>5, <1>7, <1>8

LEMMA GoneFor ==
    ASSUME NEW us, NEW hist, Course(us, hist), NEW i \in 1..Len(us), NEW x,
           x \in OnRing(hist[i - 1]) \ OnRing(hist[i]), NEW k \in i..Len(us)
    PROVE  x \in Known(hist, Len(us)) /\ x \notin OnRing(hist[k])
<1>. PICK n \in Nat : n = Len(us)
  BY LenProperties DEF Course
<1>1. i - 1 \in 0..n /\ i \in 0..n /\ k \in 0..n /\ i - 1 <= i /\ i <= k
  OBVIOUS
<1>2. OnRing(hist[i - 1]) \cap OnRing(hist[k]) \subseteq OnRing(hist[i])
  BY <1>1 DEF Course
<1>3. OnRing(hist[i - 1]) \subseteq Known(hist, n)
  BY <1>1 DEF Known
<1>4. QED
  BY <1>2, <1>3

LEMMA FreedIs ==
    ASSUME NEW hist, Course(ustack, hist), NEW b, b.forw \in Links,
           Loose(b, ustack, hist, Len(ustack)), Closed(b, ustack)
    PROVE  Freed(b) = Known(hist, Len(ustack)) \ OnRing(hist[Len(ustack)])
<1>. PICK n \in Nat : n = Len(ustack)
  BY LenProperties DEF Course
<1>1. DOMAIN ustack = 1..n
  BY LenProperties DEF Course
<1>. PICK us : us = ustack
  OBVIOUS
<1>b. /\ Course(us, hist) /\ b.forw \in Links
      /\ Loose(b, us, hist, Len(us)) /\ Closed(b, us)
  OBVIOUS
<1>c. ASSUME NEW i \in 1..Len(ustack), ustack[i].type = "UDEL"
      PROVE  CutOut(b, ustack[i]) = OnRing(hist[i - 1]) \ OnRing(hist[i])
  <2>1. i \in 1..Len(us) /\ us[i].type = "UDEL"
    BY <1>c
  <2>2. CutOut(b, us[i]) = OnRing(hist[i - 1]) \ OnRing(hist[i])
    BY <1>b, <2>1, CutOutIs
  <2>3. QED
    BY <2>2
<1>2. ASSUME NEW i \in 1..n, NEW x \in CutOut(b, ustack[i])
      PROVE  x \in Known(hist, n) \ OnRing(hist[n])
  <2>1. ustack[i].type = "UDEL"
    BY <1>2 DEF CutOut
  <2>2. x \in OnRing(hist[i - 1]) \ OnRing(hist[i])
    BY <1>2, <1>c, <2>1
  <2>3. n \in i..n
    OBVIOUS
  <2>4. QED
    BY <2>2, <2>3, GoneFor
<1>3. ASSUME NEW x \in Known(hist, n), x \notin OnRing(hist[n])
      PROVE  x \in Freed(b)
  <2>1. PICK i \in 1..n : /\ ustack[i].type = "UDEL"
                          /\ x \in OnRing(hist[i - 1]) \ OnRing(hist[i])
    BY <1>3, GoneIs
  <2>2. x \in CutOut(b, ustack[i])
    BY <1>c, <2>1
  <2>3. QED
    BY <1>1, <2>2 DEF Freed
<1>4. QED
  BY <1>1, <1>2, <1>3 DEF Freed

(* What is left after nodes that are not in the buffer are freed.          *)
LEMMA ForgetIs ==
    ASSUME NEW b, NEW s, Holds(b, s), NEW freed, freed \cap OnRing(s) = {}
    PROVE  /\ Holds(Forget(b, freed), s)
           /\ Forget(b, freed).current_addr = b.current_addr
           /\ Forget(b, freed).addr_last = b.addr_last
<1>. PICK c : c = Forget(b, freed)
  OBVIOUS
<1>1. b \in Buffers /\ IsRing(b, s) /\ s \in Rings
  BY DEF Holds, IsRing
<1>2. b.forw \in Links /\ b.back \in Links
  BY DEF Holds, IsRing
<1>3. c = [b EXCEPT !.forw = [x \in AnyNode |-> IF x \in freed THEN BufferHead ELSE b.forw[x]],
                    !.back = [x \in AnyNode |-> IF x \in freed THEN BufferHead ELSE b.back[x]]]
  BY DEF Forget
<1>4. /\ c.forw = [x \in AnyNode |-> IF x \in freed THEN BufferHead ELSE b.forw[x]]
      /\ c.back = [x \in AnyNode |-> IF x \in freed THEN BufferHead ELSE b.back[x]]
      /\ SamePlace(c, b)
  BY <1>1, <1>3 DEF Buffers, SamePlace
<1>5. c.forw \in Links /\ c.back \in Links
  BY <1>2, <1>4 DEF Links, AnyNode
<1>6. c \in Buffers
  BY <1>1, <1>3, <1>4, <1>5 DEF Buffers
<1>7. \A y \in OnRing(s) : c.forw[y] = b.forw[y] /\ c.back[y] = b.back[y]
  BY <1>1, <1>4, PlaceIs
<1>8. IsRing(c, s)
  <2>1. ASSUME NEW k \in 0..Len(s)
        PROVE  c.forw[Place(s, k)] = Place(s, k + 1) /\ c.back[Place(s, k + 1)] = Place(s, k)
    <3>1. k \in 0..(Len(s) + 1) /\ k + 1 \in 0..(Len(s) + 1)
      BY <1>1, LinesAre
    <3>2. Place(s, k) \in OnRing(s) /\ Place(s, k + 1) \in OnRing(s)
      BY <1>1, <3>1, PlaceIs
    <3>3. b.forw[Place(s, k)] = Place(s, k + 1) /\ b.back[Place(s, k + 1)] = Place(s, k)
      BY <1>1 DEF IsRing
    <3>4. QED
      BY <1>7, <3>2, <3>3
  <2>2. QED
    BY <1>1, <1>5, <2>1 DEF IsRing
<1>9. /\ b.addr_last = Len(s) /\ b.current_addr \in 0..Len(s)
      /\ b.on \in 0..Len(s) /\ b.lp = Place(s, b.on)
  BY DEF Holds
<1>10. QED
  BY <1>4, <1>6, <1>8, <1>9 DEF Holds, SamePlace
-----------------------------------------------------------------------------
(* The buffer, the undo stack and what is allocated, together              *)

(* No entry but those of moves points to the head ...                      *)
Headless(us) == \A i \in 1..Len(us) : us[i].type # "UMOV" => us[i].h # BufferHead

(* ... but those e pushes when it deletes the lines of an empty buffer.     *)
NoLines(us, hist) ==
    \A i \in 1..Len(us) :
        us[i].h = BufferHead =>
            /\ us[i].type = "UADD" => \A j \in 0..i : Len(hist[j]) = 0
            /\ us[i].type = "UDEL" => \A j \in (i - 1)..Len(us) : Len(hist[j]) = 0

Past(b, us, hp, hist, P) ==
    /\ History(us, hist, P)
    /\ Holds(b, hist[Len(us)])
    /\ Loose(b, us, hist, Len(us))
    /\ hp \subseteq Nodes /\ hp \cup {BufferHead} = Known(hist, Len(us))
    /\ NoLines(us, hist)

(* What u is to bring back: nothing, or the lines s.                       *)
Noted(s, addr, last, bf) ==
    \/ addr = -1 /\ last = -1 /\ bf = Nothing
    \/ addr \in 0..Len(s) /\ last = Len(s) /\ bf = [lines |-> s, dot |-> addr]

Kept(b, us, hp, addr, last, bf) ==
    \E hist, P : Past(b, us, hp, hist, P) /\ Noted(hist[0], addr, last, bf)

LEMMA PastIs ==
    ASSUME NEW b, NEW us, NEW hp, NEW hist, NEW P, Past(b, us, hp, hist, P)
    PROVE  /\ Len(us) \in Nat /\ us \in Seq(Entries) /\ hist \in [0..Len(us) -> Rings]
           /\ hist[Len(us)] \in Rings /\ hist[0] \in Rings
           /\ Lines(b) = hist[Len(us)] /\ Holds(b, Lines(b))
           /\ OnRing(Lines(b)) \subseteq hp \cup {BufferHead} /\ BufferHead \notin hp
           /\ Course(us, hist) /\ Pairs(us, hist, P)
<1>1. Course(us, hist) /\ Pairs(us, hist, P)
  BY TwoParts DEF Past
<1>. PICK n \in Nat : n = Len(us)
  BY <1>1, LenProperties DEF Course
<1>2. us \in Seq(Entries) /\ hist \in [0..n -> Rings]
  BY <1>1 DEF Course
<1>3. hist[n] \in Rings /\ hist[0] \in Rings
  BY <1>2
<1>4. Holds(b, hist[n])
  BY DEF Past
<1>5. Lines(b) = hist[n]
  BY <1>4, HoldsIs
<1>6. hp \cup {BufferHead} = Known(hist, n) /\ hp \subseteq Nodes
  BY DEF Past
<1>7. OnRing(hist[n]) \subseteq Known(hist, n)
  BY DEF Known
<1>8. BufferHead \notin hp
  BY <1>6, BufferAssumption
<1>9. QED
  BY <1>1, <1>2, <1>3, <1>4, <1>5, <1>6, <1>7, <1>8

LEMMA KeptIs ==
    ASSUME NEW b, NEW us, NEW hp, NEW addr, NEW last, NEW bf,
           Kept(b, us, hp, addr, last, bf)
    PROVE  /\ Len(us) \in Nat /\ us \in Seq(Entries)
           /\ Lines(b) \in Rings /\ Holds(b, Lines(b)) /\ hp \subseteq Nodes
           /\ OnRing(Lines(b)) \subseteq hp \cup {BufferHead} /\ BufferHead \notin hp
<1>1. PICK hist, P : Past(b, us, hp, hist, P)
  BY DEF Kept
<1>2. hp \subseteq Nodes
  BY <1>1 DEF Past
<1>3. QED
  BY <1>1, <1>2, PastIs

(* Looking lines up changes nothing.                                       *)
SameRing(b, c) == c.forw = b.forw /\ c.back = b.back

LEMMA KeptLinks ==
    ASSUME NEW b, NEW us, NEW hp, NEW addr, NEW last, NEW bf,
           Kept(b, us, hp, addr, last, bf),
           NEW c, Holds(c, Lines(b)), SameRing(b, c)
    PROVE  Kept(c, us, hp, addr, last, bf) /\ Lines(c) = Lines(b)
<1>1. PICK hist, P : Past(b, us, hp, hist, P) /\ Noted(hist[0], addr, last, bf)
  BY DEF Kept
<1>2. Holds(c, hist[Len(us)])
  BY <1>1, PastIs
<1>3. Loose(b, us, hist, Len(us))
  BY <1>1 DEF Past
<1>4. Loose(c, us, hist, Len(us))
  BY <1>3 DEF Loose, Dangling, SameRing
<1>5. Past(c, us, hp, hist, P)
  BY <1>1, <1>2, <1>4 DEF Past
<1>6. Kept(c, us, hp, addr, last, bf)
  BY <1>1, <1>5 DEF Kept
<1>7. Lines(c) = Lines(b)
  BY HoldsIs
<1>8. QED
  BY <1>6, <1>7

(* The undo stack is empty.                                                *)
Once(s) == [i \in 0..0 |-> s]

LEMMA PastFresh ==
    ASSUME NEW b, NEW s, Holds(b, s), NEW hp, hp \subseteq Nodes,
           hp \cup {BufferHead} = OnRing(s)
    PROVE  Past(b, << >>, hp, Once(s), {}) /\ Once(s)[0] = s
<1>. PICK us, hist : us = << >> /\ hist = Once(s)
  OBVIOUS
<1>1. us \in Seq(Entries) /\ Len(us) = 0
  BY EmptySeq
<1>2. s \in Rings
  BY DEF Holds, IsRing
<1>3. hist \in [0..Len(us) -> Rings] /\ hist[0] = s /\ hist[Len(us)] = s
  BY <1>1, <1>2 DEF Once
<1>4. \A i \in 1..Len(us) : FALSE
  BY <1>1
<1>5. \A i, j, k \in 0..Len(us) : i = j /\ k = j
  BY <1>1
<1>6. History(us, hist, {})
  <2>1. {} \subseteq 2..Len(us)
    OBVIOUS
  <2>2. \A i, j, k \in 0..Len(us) :
          i <= j /\ j <= k => OnRing(hist[i]) \cap OnRing(hist[k]) \subseteq OnRing(hist[j])
    BY <1>5
  <2>3. QED
    BY <1>1, <1>3, <1>4, <2>1, <2>2 DEF History
<1>7. Loose(b, us, hist, Len(us)) /\ NoLines(us, hist)
  BY <1>4 DEF Loose, NoLines
<1>8. Known(hist, Len(us)) = OnRing(s)
  <2>1. 0..Len(us) = {0}
    BY <1>1
  <2>2. QED
    BY <1>3, <2>1 DEF Known
<1>9. Past(b, us, hp, hist, {})
  BY <1>3, <1>6, <1>7, <1>8 DEF Past
<1>10. QED
  BY <1>3, <1>9

LEMMA KeptFresh ==
    ASSUME NEW b, NEW s, Holds(b, s), NEW hp, hp \subseteq Nodes,
           hp \cup {BufferHead} = OnRing(s), NEW addr, NEW last, NEW bf,
           Noted(s, addr, last, bf)
    PROVE  Kept(b, << >>, hp, addr, last, bf)
<1>1. Past(b, << >>, hp, Once(s), {}) /\ Once(s)[0] = s
  BY PastFresh
<1>2. QED
  BY <1>1 DEF Kept

LEMMA ClosedIs ==
    ASSUME NEW b, NEW us, NEW hist, Course(us, hist), NoLines(us, hist),
           Holds(b, hist[Len(us)])
    PROVE  Closed(b, us)
<1>1. SUFFICES ASSUME NEW i \in 1..Len(us), us[i].type = "UDEL", us[i].h = BufferHead
               PROVE  b.forw[BufferHead] = BufferHead
  BY DEF Closed
<1>. PICK s : s = hist[Len(us)]
  OBVIOUS
<1>2. Len(us) \in Nat
  BY EntryIs
<1>3. Len(us) \in (i - 1)..Len(us)
  BY <1>2
<1>4. Len(s) = 0
  BY <1>1, <1>3 DEF NoLines
<1>5. s \in Rings /\ IsRing(b, s)
  BY DEF Holds, IsRing
<1>6. Place(s, 0) = BufferHead /\ Place(s, 1) = BufferHead
  BY <1>4 DEF Place
<1>7. 0 \in 0..Len(s) /\ 0 + 1 = 1
  BY <1>4
<1>8. b.forw[Place(s, 0)] = Place(s, 0 + 1)
  BY <1>5, <1>7 DEF IsRing
<1>9. QED
  BY <1>6, <1>7, <1>8

(* clear_undo_stack() with the lines s in the buffer b, which are those     *)
(* that have been there, but for new ones.                                 *)
LEMMA ClearedIs ==
    ASSUME NEW hist, Course(ustack, hist), NEW b, NEW s, Holds(b, s),
           Loose(b, ustack, hist, Len(ustack)), Closed(b, ustack),
           OnRing(hist[Len(ustack)]) \subseteq OnRing(s), Fresh(s, hist, Len(ustack)),
           NEW hp, hp \subseteq Nodes,
           hp \cup {BufferHead} = Known(hist, Len(ustack)) \cup OnRing(s),
           NEW addr, NEW last, NEW bf, Noted(s, addr, last, bf)
    PROVE  /\ Kept(Cleared(b), << >>, hp \ Freed(b), addr, last, bf)
           /\ Holds(Cleared(b), s)
           /\ Cleared(b).current_addr = b.current_addr /\ Cleared(b).addr_last = b.addr_last
<1>. PICK f : f = Freed(b)
  OBVIOUS
<1>1. b.forw \in Links /\ s \in Rings
  BY DEF Holds, IsRing
<1>2. f = Known(hist, Len(ustack)) \ OnRing(hist[Len(ustack)])
  BY <1>1, FreedIs
<1>3. f \cap OnRing(s) = {}
  BY <1>2 DEF Fresh
<1>4. BufferHead \in OnRing(s)
  BY <1>1, PlaceIs
<1>5. (hp \ f) \cup {BufferHead} = OnRing(s) /\ hp \ f \subseteq Nodes
  BY <1>2, <1>3, <1>4
<1>6. Cleared(b) = Forget(b, f)
  BY DEF Cleared
<1>7. Holds(Forget(b, f), s) /\ Forget(b, f).current_addr = b.current_addr
      /\ Forget(b, f).addr_last = b.addr_last
  BY <1>3, ForgetIs
<1>8. Kept(Forget(b, f), << >>, hp \ f, addr, last, bf)
  BY <1>5, <1>7, KeptFresh
<1>9. QED
  BY <1>6, <1>7, <1>8
LEMMA KeptCleared ==
    ASSUME Kept(buf, ustack, heap, u_current_addr, u_addr_last, before),
           NEW addr, NEW last, NEW bf, Noted(Lines(buf), addr, last, bf)
    PROVE  /\ Kept(Cleared(buf), << >>, heap \ Freed(buf), addr, last, bf)
           /\ Holds(Cleared(buf), Lines(buf))
           /\ Cleared(buf).current_addr = buf.current_addr
           /\ Cleared(buf).addr_last = buf.addr_last
<1>1. PICK hist, P : Past(buf, ustack, heap, hist, P)
  BY DEF Kept
<1>. PICK b, hp : b = buf /\ hp = heap
  OBVIOUS
<1>. PICK s : s = Lines(b)
  OBVIOUS
<1>2. Course(ustack, hist) /\ s = hist[Len(ustack)] /\ s \in Rings /\ Holds(b, s)
  BY <1>1, PastIs
<1>3. /\ Loose(b, ustack, hist, Len(ustack)) /\ NoLines(ustack, hist)
      /\ hp \subseteq Nodes /\ hp \cup {BufferHead} = Known(hist, Len(ustack))
  BY <1>1 DEF Past
<1>4. Closed(b, ustack)
  BY <1>2, <1>3, ClosedIs
<1>5. OnRing(s) \subseteq Known(hist, Len(ustack))
  <2>1. Len(ustack) \in 0..Len(ustack)
    BY <1>1, PastIs
  <2>2. QED
    BY <1>2, <2>1 DEF Known
<1>6. OnRing(hist[Len(ustack)]) \subseteq OnRing(s) /\ Fresh(s, hist, Len(ustack))
  BY <1>2 DEF Fresh
<1>7. hp \cup {BufferHead} = Known(hist, Len(ustack)) \cup OnRing(s)
  BY <1>3, <1>5
<1>8. /\ Kept(Cleared(b), << >>, hp \ Freed(b), addr, last, bf)
      /\ Holds(Cleared(b), s)
      /\ Cleared(b).current_addr = b.current_addr /\ Cleared(b).addr_last = b.addr_last
  BY <1>2, <1>3, <1>4, <1>6, <1>7, ClearedIs
<1>9. QED
  BY <1>8

(* What is noted when the undo stack is cleared.                           *)
LEMMA TextNoted ==
    ASSUME NEW b, NEW s, Holds(b, s)
    PROVE  Noted(s, b.current_addr, b.addr_last, Text(b)) /\ Text(b).lines = s
<1>1. Lines(b) = s
  BY HoldsIs
<1>2. Text(b) = [lines |-> s, dot |-> b.current_addr]
  BY <1>1 DEF Text
<1>3. b.addr_last = Len(s) /\ b.current_addr \in 0..Len(s)
  BY DEF Holds
<1>4. QED
  BY <1>2, <1>3 DEF Noted

LEMMA ClearUndoIs ==
    ASSUME Kept(buf, ustack, heap, u_current_addr, u_addr_last, before),
           ClearUndo(buf, heap),
           NEW c, Holds(c, Lines(buf)), SameRing(Cleared(buf), c)
    PROVE  /\ Kept(c, ustack', heap', u_current_addr', u_addr_last', before')
           /\ Lines(c) = Lines(buf) /\ ustack' = << >>
<1>1. Holds(buf, Lines(buf))
  BY KeptIs
<1>2. Noted(Lines(buf), buf.current_addr, buf.addr_last, Text(buf))
  BY <1>1, TextNoted
<1>. PICK s, hp, addr, last, bf : /\ s = Lines(buf) /\ hp = heap \ Freed(buf)
                                  /\ addr = buf.current_addr /\ last = buf.addr_last
                                  /\ bf = Text(buf)
  OBVIOUS
<1>3. Kept(Cleared(buf), << >>, hp, addr, last, bf) /\ Holds(Cleared(buf), s)
  BY <1>2, KeptCleared
<1>. PICK d : d = Cleared(buf)
  OBVIOUS
<1>4. Lines(d) = s
  BY <1>3, HoldsIs
<1>5. Kept(c, << >>, hp, addr, last, bf) /\ Lines(c) = s
  BY <1>3, <1>4, KeptLinks
<1>6. /\ heap' = hp /\ ustack' = << >> /\ u_current_addr' = addr /\ u_addr_last' = last
      /\ before' = bf
  BY DEF ClearUndo
<1>7. QED
  BY <1>5, <1>6

LEMMA PairsExtended ==
    ASSUME NEW us, NEW hist, NEW P, Course(us, hist), Pairs(us, hist, P),
           NEW e \in Entries, e.type # "UMOV", NEW s \in Rings
    PROVE  Pairs(Append(us, e), Extended(hist, Len(us), s), P)
<1>. PICK n \in Nat : n = Len(us)
  BY LenProperties DEF Course
<1>. PICK us2, h : us2 = Append(us, e) /\ h = Extended(hist, n, s)
  OBVIOUS
<1>1. us \in Seq(Entries) /\ hist \in [0..n -> Rings]
  BY DEF Course
<1>2. Len(us2) = n + 1 /\ us2[n + 1] = e /\ \A i \in 1..n : us2[i] = us[i]
  BY <1>1, AppendIs
<1>3. \A i \in 0..n : h[i] = hist[i]
  BY <1>1, ExtendedIs
<1>4. P \subseteq 2..n
  BY DEF Pairs
<1>5. \A i \in 1..(n + 1) : us2[i].type = "UMOV" => i \in P \/ i + 1 \in P
  <2>1. SUFFICES ASSUME NEW i \in 1..(n + 1), us2[i].type = "UMOV"
                 PROVE  i \in P \/ i + 1 \in P
    OBVIOUS
  <2>2. i \in 1..n
    BY <1>2, <2>1
  <2>3. us[i].type = "UMOV"
    BY <1>2, <2>1, <2>2
  <2>4. QED
    BY <2>2, <2>3 DEF Pairs
<1>6. ASSUME NEW i \in P
      PROVE  /\ us2[i].type = "UMOV" /\ us2[i - 1].type = "UMOV" /\ i - 1 \notin P
             /\ Moved(h[i - 2], h[i], us2[i - 1], us2[i])
  <2>1. i \in 1..n /\ i - 1 \in 1..n /\ i \in 0..n /\ i - 2 \in 0..n
    BY <1>4
  <2>2. /\ us[i].type = "UMOV" /\ us[i - 1].type = "UMOV" /\ i - 1 \notin P
        /\ Moved(hist[i - 2], hist[i], us[i - 1], us[i])
    BY DEF Pairs
  <2>3. us2[i] = us[i] /\ us2[i - 1] = us[i - 1] /\ h[i - 2] = hist[i - 2] /\ h[i] = hist[i]
    BY <1>2, <1>3, <2>1
  <2>4. QED
    BY <2>2, <2>3
<1>7. P \subseteq 2..(n + 1)
  BY <1>4
<1>8. QED
  BY <1>2, <1>5, <1>6, <1>7 DEF Pairs

LEMMA NoLinesExtended ==
    ASSUME NEW us, NEW hist, Course(us, hist), NoLines(us, hist),
           NEW e \in Entries, NEW s \in Rings, Headless(us) \/ Len(s) = 0,
           e.type = "UADD" => e.h # BufferHead,
           e.type = "UDEL" /\ e.h = BufferHead => Len(hist[Len(us)]) = 0 /\ Len(s) = 0
    PROVE  NoLines(Append(us, e), Extended(hist, Len(us), s))
<1>. PICK n \in Nat : n = Len(us)
  BY LenProperties DEF Course
<1>. PICK us2, h : us2 = Append(us, e) /\ h = Extended(hist, n, s)
  OBVIOUS
<1>1. us \in Seq(Entries) /\ hist \in [0..n -> Rings]
  BY DEF Course
<1>2. Len(us2) = n + 1 /\ us2[n + 1] = e /\ \A i \in 1..n : us2[i] = us[i]
  BY <1>1, AppendIs
<1>3. h[n + 1] = s /\ \A i \in 0..n : h[i] = hist[i]
  BY <1>1, ExtendedIs
<1>4. SUFFICES ASSUME NEW i \in 1..(n + 1), us2[i].h = BufferHead
               PROVE  /\ us2[i].type = "UADD" => \A j \in 0..i : Len(h[j]) = 0
                      /\ us2[i].type = "UDEL" => \A j \in (i - 1)..(n + 1) : Len(h[j]) = 0
  BY <1>2 DEF NoLines
<1>5. CASE i = n + 1
  <2>1. us2[i] = e
    BY <1>2, <1>5
  <2>2. ASSUME e.type = "UDEL", NEW j \in (i - 1)..(n + 1)
        PROVE  Len(h[j]) = 0
    <3>1. Len(hist[n]) = 0 /\ Len(s) = 0
      BY <1>4, <2>1, <2>2
    <3>2. j = n \/ j = n + 1
      BY <1>5
    <3>3. n \in 0..n
      OBVIOUS
    <3>4. QED
      BY <1>3, <3>1, <3>2, <3>3
  <2>3. QED
    BY <1>4, <2>1, <2>2
<1>6. CASE i # n + 1
  <2>1. i \in 1..n /\ us2[i] = us[i]
    BY <1>2, <1>6
  <2>2. ASSUME us[i].type = "UADD", NEW j \in 0..i
        PROVE  Len(h[j]) = 0
    <3>1. j \in 0..n
      BY <2>1
    <3>2. Len(hist[j]) = 0
      BY <1>4, <2>1, <2>2 DEF NoLines
    <3>3. QED
      BY <1>3, <3>1, <3>2
  <2>3. ASSUME us[i].type = "UDEL", NEW j \in (i - 1)..(n + 1)
        PROVE  Len(h[j]) = 0
    <3>1. Len(s) = 0
      BY <1>4, <2>1, <2>3 DEF Headless
    <3>2. CASE j = n + 1
      BY <1>3, <3>1, <3>2
    <3>3. CASE j # n + 1
      <4>1. j \in (i - 1)..n /\ j \in 0..n
        BY <2>1, <3>3
      <4>2. Len(hist[j]) = 0
        BY <1>4, <2>1, <2>3, <4>1 DEF NoLines
      <4>3. QED
        BY <1>3, <4>1, <4>2
    <3>4. QED
      BY <3>2, <3>3
  <2>4. QED
    BY <2>1, <2>2, <2>3
<1>7. QED
  BY <1>5, <1>6
-----------------------------------------------------------------------------
(* A line is added                                                         *)

LEMMA WithWithout ==
    ASSUME NEW s \in Rings, NEW c \in 0..Len(s), NEW x \in Nodes, x \notin OnRing(s),
           NEW i \in 1..(c + 1)
    PROVE  Without(With(s, c, x), i, c + 1) = Without(s, i, c)
<1>. PICK n \in Nat : n = Len(s)
  BY LinesAre
<1>. PICK w : w = With(s, c, x)
  OBVIOUS
<1>1. Len(w) = n + 1
  BY WithIs
<1>2. \A k \in 1..(n + 1) :
         w[k] = IF k <= c THEN s[k] ELSE IF k = c + 1 THEN x ELSE s[k - 1]
  BY DEF With
<1>a. n - (c - i + 1) \in Int
  OBVIOUS
<1>3. PICK m \in Int : m = n - (c - i + 1)
  BY <1>a
<1>4. Len(w) - ((c + 1) - i + 1) = m
  BY <1>1, <1>3, LinesAre
<1>5. ASSUME NEW k \in 1..m
      PROVE  (IF k < i THEN w[k] ELSE w[k + ((c + 1) - i + 1)])
                = IF k < i THEN s[k] ELSE s[k + (c - i + 1)]
  <2>1. CASE k < i
    <3>1. k \in 1..(n + 1) /\ k <= c
      BY <1>3, <2>1
    <3>2. QED
      BY <1>2, <2>1, <3>1
  <2>2. CASE ~(k < i)
    <3>1. PICK l \in Int : l = k + ((c + 1) - i + 1)
      OBVIOUS
    <3>2. l \in 1..(n + 1) /\ ~(l <= c) /\ l # c + 1 /\ l - 1 = k + (c - i + 1)
      BY <1>3, <2>2, <3>1
    <3>3. w[l] = s[l - 1]
      BY <1>2, <3>2
    <3>4. QED
      BY <2>2, <3>1, <3>2, <3>3
  <2>3. QED
    BY <2>1, <2>2
<1>6. Without(w, i, c + 1) = [k \in 1..m |-> IF k < i THEN w[k] ELSE w[k + ((c + 1) - i + 1)]]
  BY <1>4 DEF Without
<1>7. Without(s, i, c) = [k \in 1..m |-> IF k < i THEN s[k] ELSE s[k + (c - i + 1)]]
  BY <1>3 DEF Without
<1>8. QED
  BY <1>5, <1>6, <1>7

LEMMA WithoutNone ==
    ASSUME NEW s \in Rings, NEW c \in 0..Len(s)
    PROVE  Without(s, c + 1, c) = s
<1>. PICK n \in Nat : n = Len(s)
  BY LinesAre
<1>1. n - (c - (c + 1) + 1) = n /\ \A k \in 1..n : k + (c - (c + 1) + 1) = k
  OBVIOUS
<1>2. Without(s, c + 1, c) = [k \in 1..n |-> IF k < c + 1 THEN s[k] ELSE s[k]]
  BY <1>1 DEF Without
<1>3. s = [k \in 1..n |-> s[k]]
  BY LinesAre
<1>4. QED
  BY <1>2, <1>3

(* The lines with x as the new line after line c, in the buffer d.         *)
LEMMA AddedIs ==
    ASSUME NEW b, NEW us, NEW hp, NEW hist, NEW P, Past(b, us, hp, hist, P),
           NEW x \in Nodes \ hp, NEW s, s = Lines(b), NEW c, c = b.current_addr
    PROVE  /\ c \in 0..Len(s) /\ s \in Rings /\ x \notin OnRing(s)
           /\ Holds(AddLine(b, x), With(s, c, x)) /\ AddLine(b, x).current_addr = c + 1
           /\ With(s, c, x) \in Rings /\ Len(With(s, c, x)) = Len(s) + 1
           /\ OnRing(With(s, c, x)) = OnRing(s) \cup {x}
           /\ Place(With(s, c, x), c + 1) = x
           /\ \A k \in 0..c : Place(With(s, c, x), k) = Place(s, k)
           /\ Fresh(With(s, c, x), hist, Len(us))
           /\ Untouched(AddLine(b, x), b, With(s, c, x))
<1>1. s \in Rings /\ Holds(b, s) /\ s = hist[Len(us)] /\ OnRing(s) \subseteq hp \cup {BufferHead}
  BY PastIs
<1>2. c \in 0..Len(s)
  BY <1>1 DEF Holds
<1>3. x \in Nodes /\ x \notin hp /\ x # BufferHead
  BY BufferAssumption
<1>4. x \notin OnRing(s)
  BY <1>1, <1>3
<1>. PICK w, d : w = With(s, c, x) /\ d = AddLine(b, x)
  OBVIOUS
<1>5. /\ Holds(d, w) /\ d.current_addr = c + 1
      /\ \A y \in AnyNode :
           /\ d.forw[y] =
                 IF y = Place(s, c) THEN x ELSE IF y = x THEN Place(s, c + 1) ELSE b.forw[y]
           /\ d.back[y] =
                 IF y = x THEN Place(s, c) ELSE IF y = Place(s, c + 1) THEN x ELSE b.back[y]
  BY <1>1, <1>3, <1>4, AddLineIs
<1>6. /\ w \in Rings /\ Len(w) = Len(s) + 1
      /\ \A k \in 0..(Len(s) + 2) :
           Place(w, k) = IF k <= c THEN Place(s, k) ELSE IF k = c + 1 THEN x
                         ELSE Place(s, k - 1)
      /\ OnRing(w) = OnRing(s) \cup {x}
  BY <1>1, <1>2, <1>3, <1>4, WithIs
<1>7. Place(w, c + 1) = x /\ \A k \in 0..c : Place(w, k) = Place(s, k)
  <2>1. Len(s) \in Nat
    BY <1>1, LinesAre
  <2>2. c + 1 \in 0..(Len(s) + 2) /\ ~(c + 1 <= c)
        /\ \A k \in 0..c : k \in 0..(Len(s) + 2) /\ k <= c
    BY <1>2, <2>1
  <2>3. QED
    BY <1>6, <2>2
<1>8. Fresh(w, hist, Len(us))
  <2>1. x \notin Known(hist, Len(us))
    BY <1>3 DEF Past
  <2>2. QED
    BY <1>1, <1>6, <2>1 DEF Fresh
<1>9. Untouched(d, b, w)
  <2>1. Place(s, c) \in OnRing(s) /\ Place(s, c + 1) \in OnRing(s)
    <3>1. c \in 0..(Len(s) + 1) /\ c + 1 \in 0..(Len(s) + 1)
      BY <1>1, <1>2, LinesAre
    <3>2. QED
      BY <1>1, <3>1, PlaceIs
  <2>2. QED
    BY <1>5, <1>6, <2>1 DEF Untouched
<1>10. QED
  BY <1>1, <1>2, <1>4, <1>5, <1>6, <1>7, <1>8, <1>9

LEMMA LooseAdded ==
    ASSUME NEW us, NEW hist, Course(us, hist), NEW b, NEW c, Loose(b, us, hist, Len(us)),
           NEW r, Untouched(c, b, r), Fresh(r, hist, Len(us))
    PROVE  Loose(c, us, hist, Len(us))
<1>. PICK n \in Nat : n = Len(us)
  BY LenProperties DEF Course
<1>1. hist \in [0..n -> Rings]
  BY DEF Course
<1>2. ASSUME NEW i \in 1..n, us[i].type = "UDEL"
      PROVE  Dangling(c, hist[i - 1], hist[i])
  <2>1. /\ i \in 0..n /\ i - 1 \in 0..n /\ n \in 0..n
        /\ i - 1 <= i /\ i <= n
    OBVIOUS
  <2>2. Dangling(b, hist[i - 1], hist[i])
    BY <1>2, <2>1 DEF Loose
  <2>3. OnRing(hist[i - 1]) \cap OnRing(hist[n]) \subseteq OnRing(hist[i])
    BY <2>1 DEF Course
  <2>4. OnRing(hist[i - 1]) \subseteq Known(hist, n)
    BY <2>1 DEF Known
  <2>5. OnRing(r) \cap Known(hist, n) \subseteq OnRing(hist[n])
    BY DEF Fresh
  <2>6. OnRing(hist[i - 1]) \cap OnRing(r) \subseteq OnRing(hist[i])
    BY <2>3, <2>4, <2>5
  <2>7. hist[i - 1] \in Rings
    BY <1>1, <2>1
  <2>8. QED
    BY <2>2, <2>6, <2>7, DanglingKept
<1>3. \A i \in 1..n : ~(i > n)
  OBVIOUS
<1>4. QED
  BY <1>2, <1>3 DEF Loose
LEMMA PastExtended ==
    ASSUME NEW b, NEW us, NEW hp, NEW hist, NEW P, Past(b, us, hp, hist, P),
           NEW e \in Entries, e.type # "UMOV", NEW s \in Rings,
           Changed(hist[Len(us)], s, e), Fresh(s, hist, Len(us)),
           NEW c, Holds(c, s), NEW r, Untouched(c, b, r), Fresh(r, hist, Len(us)),
           e.type = "UDEL" => Dangling(c, hist[Len(us)], s),
           Headless(us) \/ Len(s) = 0,
           e.type = "UADD" => e.h # BufferHead,
           e.type = "UDEL" /\ e.h = BufferHead => Len(hist[Len(us)]) = 0 /\ Len(s) = 0,
           NEW hq, hq \subseteq Nodes,
           hq \cup {BufferHead} = Known(hist, Len(us)) \cup OnRing(s)
    PROVE  Past(c, Append(us, e), hq, Extended(hist, Len(us), s), P)
<1>. PICK n \in Nat : n = Len(us)
  BY PastIs
<1>. PICK us2, h : us2 = Append(us, e) /\ h = Extended(hist, n, s)
  OBVIOUS
<1>1. Course(us, hist) /\ Pairs(us, hist, P) /\ us \in Seq(Entries) /\ hist \in [0..n -> Rings]
  BY PastIs
<1>2. Loose(b, us, hist, n) /\ NoLines(us, hist)
  BY DEF Past
<1>3. Len(us2) = n + 1
  BY <1>1, AppendIs
<1>4. h[n + 1] = s /\ Known(h, n + 1) = Known(hist, n) \cup OnRing(s)
  <2>1. n \in Nat /\ hist \in [0..n -> Rings] /\ s \in Rings
    BY <1>1
  <2>2. Extended(hist, n, s)[n + 1] = s
    BY <2>1, ExtendedIs
  <2>3. Known(Extended(hist, n, s), n + 1) = Known(hist, n) \cup OnRing(s)
    BY KnownExtended
  <2>4. QED
    BY <2>2, <2>3
<1>5. Course(us2, h)
  BY <1>1, CourseExtended
<1>6. Pairs(us2, h, P)
  BY <1>1, PairsExtended
<1>7. Loose(c, us2, h, n + 1)
  BY <1>1, <1>2, LooseExtended
<1>8. NoLines(us2, h)
  BY <1>1, <1>2, NoLinesExtended
<1>9. History(us2, h, P)
  BY <1>5, <1>6, TwoParts
<1>10. QED
  BY <1>3, <1>4, <1>7, <1>8, <1>9 DEF Past

(* The line that was put in last is the end of the last entry.             *)
Continues(b, us) ==
    /\ Len(us) # 0 /\ b.current_addr # 0
    /\ us[Len(us)].type = "UADD"
    /\ us[Len(us)].t = Place(Lines(b), b.current_addr)

LEMMA HeadlessMore ==
    ASSUME NEW us \in Seq(Entries), Headless(us), NEW e \in Entries,
           e.type # "UMOV" => e.h # BufferHead
    PROVE  Headless(Append(us, e))
<1>. PICK n \in Nat : n = Len(us)
  BY LenProperties
<1>. PICK us2 : us2 = Append(us, e)
  OBVIOUS
<1>1. Len(us2) = n + 1 /\ us2[n + 1] = e /\ \A i \in 1..n : us2[i] = us[i]
  BY AppendIs
<1>2. SUFFICES ASSUME NEW i \in 1..(n + 1), us2[i].type # "UMOV"
               PROVE  us2[i].h # BufferHead
  BY <1>1 DEF Headless
<1>3. CASE i = n + 1
  BY <1>1, <1>2, <1>3
<1>4. CASE i # n + 1
  <2>1. i \in 1..n /\ us2[i] = us[i]
    BY <1>1, <1>4
  <2>2. QED
    BY <1>2, <2>1 DEF Headless
<1>5. QED
  BY <1>3, <1>4

(* append_lines() and others push an entry for the line they have added.   *)
Pushed(b) == PushSeeks(b, b.current_addr, b.current_addr)
LineEntry(b) == Entry(b, "UADD", b.current_addr, b.current_addr)

LEMMA KeptPushed ==
    ASSUME NEW b, NEW us, NEW hp, NEW addr, NEW last, NEW bf,
           Kept(b, us, hp, addr, last, bf), Headless(us), NEW x \in Nodes \ hp
    PROVE  /\ Kept(Pushed(AddLine(b, x)), Append(us, LineEntry(AddLine(b, x))), hp \cup {x},
                   addr, last, bf)
           /\ Lines(Pushed(AddLine(b, x))) = With(Lines(b), b.current_addr, x)
           /\ Pushed(AddLine(b, x)).current_addr = b.current_addr + 1
           /\ Headless(Append(us, LineEntry(AddLine(b, x))))
           /\ Continues(Pushed(AddLine(b, x)), Append(us, LineEntry(AddLine(b, x))))
<1>1. PICK hist, P : Past(b, us, hp, hist, P) /\ Noted(hist[0], addr, last, bf)
  BY DEF Kept
<1>. PICK s : s = Lines(b)
  OBVIOUS
<1>. PICK n \in Nat : n = Len(us)
  BY <1>1, PastIs
<1>2. /\ s \in Rings /\ s = hist[n] /\ Holds(b, s) /\ us \in Seq(Entries)
      /\ hist \in [0..n -> Rings]
  BY <1>1, PastIs
<1>. PICK c \in 0..Len(s) : c = b.current_addr
  BY <1>2 DEF Holds
<1>. PICK w, d : w = With(s, c, x) /\ d = AddLine(b, x)
  OBVIOUS
<1>3. /\ x \notin OnRing(s) /\ Holds(d, w) /\ d.current_addr = c + 1
      /\ w \in Rings /\ Len(w) = Len(s) + 1 /\ OnRing(w) = OnRing(s) \cup {x}
      /\ Place(w, c + 1) = x /\ Fresh(w, hist, n) /\ Untouched(d, b, w)
  BY <1>1, AddedIs
<1>. PICK f, e : f = Pushed(d) /\ e = LineEntry(d)
  OBVIOUS
<1>4. c + 1 \in Nat /\ Upto(w, c + 1) = c + 1 /\ c + 1 # 0 /\ Len(s) \in Nat
  BY <1>2, <1>3, LinesAre DEF Upto
<1>5. /\ Holds(f, w) /\ SameLinks(d, f)
      /\ e = [type |-> "UADD", h |-> Place(w, Upto(w, c + 1)), t |-> Place(w, Upto(w, c + 1))]
  BY <1>3, <1>4, PushSeeksIs DEF Pushed, LineEntry
<1>6. e = [type |-> "UADD", h |-> x, t |-> x] /\ x \in Nodes /\ x # BufferHead
  BY <1>3, <1>4, <1>5, BufferAssumption
<1>7. e \in Entries /\ e.type = "UADD" /\ e.h = x /\ e.t = x
  BY <1>6 DEF Entries, AnyNode
<1>8. Changed(s, w, e)
  <2>1. Whole(w, c + 1, c + 1)
    BY <1>3, <1>4 DEF Whole
  <2>2. Without(w, c + 1, c + 1) = s
    <3>1. c + 1 \in 1..(c + 1)
      OBVIOUS
    <3>2. Without(w, c + 1, c + 1) = Without(s, c + 1, c)
      BY <1>2, <1>3, <3>1, WithWithout
    <3>3. QED
      BY <1>2, <3>2, WithoutNone
  <2>3. Inserted(s, w, e)
    BY <1>3, <1>7, <2>1, <2>2 DEF Inserted
  <2>4. QED
    BY <1>7, <2>3 DEF Changed
<1>9. Untouched(f, b, w) /\ f.current_addr = c + 1
  BY <1>3, <1>5 DEF Untouched, SameLinks
<1>10. hp \cup {x} \subseteq Nodes /\ (hp \cup {x}) \cup {BufferHead} = Known(hist, n) \cup OnRing(w)
  <2>1. hp \subseteq Nodes /\ hp \cup {BufferHead} = Known(hist, n)
    BY <1>1 DEF Past
  <2>2. OnRing(s) \subseteq Known(hist, n)
    BY <1>2 DEF Known
  <2>3. QED
    BY <1>3, <1>6, <2>1, <2>2
<1>. PICK us2, h : us2 = Append(us, e) /\ h = Extended(hist, n, w)
  OBVIOUS
<1>11. Past(f, us2, hp \cup {x}, h, P)
  BY <1>1, <1>2, <1>3, <1>5, <1>6, <1>7, <1>8, <1>9, <1>10, PastExtended
<1>12. h[0] = hist[0]
  <2>1. 0 \in 0..(n + 1) /\ 0 # n + 1
    OBVIOUS
  <2>2. QED
    BY <2>1 DEF Extended
<1>13. Kept(f, us2, hp \cup {x}, addr, last, bf)
  BY <1>1, <1>11, <1>12 DEF Kept
<1>14. Headless(us2)
  BY <1>2, <1>6, <1>7, HeadlessMore
<1>15. Lines(f) = w
  BY <1>5, HoldsIs
<1>16. Continues(f, us2)
  <2>1. Len(us2) = n + 1 /\ us2[n + 1] = e /\ n + 1 # 0
    BY <1>2, <1>7, AppendIs
  <2>2. QED
    BY <1>3, <1>4, <1>7, <1>9, <1>15, <2>1 DEF Continues
<1>17. QED
  BY <1>9, <1>13, <1>14, <1>15, <1>16
LEMMA HeadlessIs ==
    ASSUME NEW us, NEW hist, Headless(us)
    PROVE  NoLines(us, hist)
  BY DEF Headless, NoLines

LEMMA PairsReplaced ==
    ASSUME NEW us, NEW hist, NEW P, Course(us, hist), Pairs(us, hist, P),
           NEW n \in Nat \ {0}, Len(us) = n, us[n].type = "UADD",
           NEW e \in Entries, e.type = "UADD", NEW s \in Rings,
           OnRing(hist[n]) \subseteq OnRing(s)
    PROVE  Pairs([us EXCEPT ![n] = e], [hist EXCEPT ![n] = s], P)
<1>. PICK us2, h : us2 = [us EXCEPT ![n] = e] /\ h = [hist EXCEPT ![n] = s]
  OBVIOUS
<1>1. us \in Seq(Entries) /\ hist \in [0..n -> Rings]
  BY DEF Course
<1>2. /\ Len(us2) = n /\ us2[n] = e
      /\ \A i \in 1..n : i # n => us2[i] = us[i]
      /\ \A i \in 0..n : i # n => h[i] = hist[i]
  BY <1>1, ReplacedIs
<1>3. P \subseteq 2..n
  BY DEF Pairs
<1>4. \A i \in 1..n : us2[i].type = "UMOV" => i \in P \/ i + 1 \in P
  <2>1. SUFFICES ASSUME NEW i \in 1..n, us2[i].type = "UMOV"
                 PROVE  i \in P \/ i + 1 \in P
    OBVIOUS
  <2>2. i # n
    BY <1>2, <2>1
  <2>3. us[i].type = "UMOV"
    BY <1>2, <2>1, <2>2
  <2>4. QED
    BY <2>3 DEF Pairs
<1>5. ASSUME NEW i \in P
      PROVE  /\ us2[i].type = "UMOV" /\ us2[i - 1].type = "UMOV" /\ i - 1 \notin P
             /\ Moved(h[i - 2], h[i], us2[i - 1], us2[i])
  <2>1. /\ us[i].type = "UMOV" /\ us[i - 1].type = "UMOV" /\ i - 1 \notin P
        /\ Moved(hist[i - 2], hist[i], us[i - 1], us[i])
    BY DEF Pairs
  <2>2. i # n
    BY <2>1
  <2>3. /\ i \in 1..n /\ i - 1 \in 1..n /\ i - 1 # n /\ i \in 0..n
        /\ i - 2 \in 0..n /\ i - 2 # n
    BY <1>3, <2>2
  <2>4. us2[i] = us[i] /\ us2[i - 1] = us[i - 1] /\ h[i - 2] = hist[i - 2] /\ h[i] = hist[i]
    BY <1>2, <2>2, <2>3
  <2>5. QED
    BY <2>1, <2>4
<1>6. QED
  BY <1>2, <1>3, <1>4, <1>5 DEF Pairs

(* The entry is extended to a line that was added behind its last one.      *)
EndsAt(e, y) == e.t = y
Stretched(g, e, x) == g.h = e.h /\ g.t = x

LEMMA InsertedMore ==
    ASSUME NEW s \in Rings, NEW c \in 1..Len(s), NEW x \in Nodes, x \notin OnRing(s),
           NEW q, NEW e, Inserted(q, s, e), EndsAt(e, Place(s, c)),
           NEW g, Stretched(g, e, x)
    PROVE  Inserted(q, With(s, c, x), g) /\ e.h # BufferHead
<1>. PICK w : w = With(s, c, x)
  OBVIOUS
<1>1. PICK i, j : /\ Whole(s, i, j) /\ q = Without(s, i, j)
                  /\ e.h = Place(s, i) /\ e.t = Place(s, j)
  BY DEF Inserted
<1>2. i \in 1..(Len(s) + 1) /\ j \in 0..Len(s) /\ i <= j + 1 /\ Len(s) \in Nat
  BY <1>1, WholeIs, LinesAre
<1>3. c \in 0..Len(s)
  BY <1>2
<1>4. j = c
  <2>1. Place(s, j) = Place(s, c)
    BY <1>1 DEF EndsAt
  <2>2. QED
    BY <1>2, <1>3, <2>1, PlaceIs
<1>5. i \in 1..Len(s) /\ i <= c
  BY <1>1, <1>2, <1>4 DEF Whole
<1>6. Len(w) = Len(s) + 1
      /\ \A k \in 0..(Len(s) + 2) :
           Place(w, k) = IF k <= c THEN Place(s, k) ELSE IF k = c + 1 THEN x
                         ELSE Place(s, k - 1)
  BY <1>3, WithIs
<1>7. i \in 0..(Len(s) + 2) /\ c + 1 \in 0..(Len(s) + 2) /\ ~(c + 1 <= c)
  BY <1>2, <1>5
<1>8. g.h = Place(w, i) /\ g.t = Place(w, c + 1)
  BY <1>1, <1>5, <1>6, <1>7 DEF Stretched
<1>9. Whole(w, i, c + 1)
  BY <1>2, <1>5, <1>6 DEF Whole
<1>10. Without(w, i, c + 1) = q
  <2>1. i \in 1..(c + 1)
    BY <1>5
  <2>2. Without(w, i, c + 1) = Without(s, i, c)
    BY <1>3, <2>1, WithWithout
  <2>3. QED
    BY <1>1, <1>4, <2>2
<1>11. e.h # BufferHead
  BY <1>1, <1>5, PlaceIs
<1>12. QED
  BY <1>8, <1>9, <1>10, <1>11 DEF Inserted

(* The last entry is extended to x.                                        *)
Longer(us, x) == [us EXCEPT ![Len(us)].t = x]

LEMMA KeptLonger ==
    ASSUME NEW b, NEW us, NEW hp, NEW addr, NEW last, NEW bf,
           Kept(b, us, hp, addr, last, bf), Headless(us), Continues(b, us),
           NEW x \in Nodes \ hp
    PROVE  /\ Kept(AddLine(b, x), Longer(us, x), hp \cup {x}, addr, last, bf)
           /\ Lines(AddLine(b, x)) = With(Lines(b), b.current_addr, x)
           /\ Holds(AddLine(b, x), With(Lines(b), b.current_addr, x))
           /\ AddLine(b, x).current_addr = b.current_addr + 1
           /\ Headless(Longer(us, x)) /\ Len(Longer(us, x)) = Len(us)
           /\ Continues(AddLine(b, x), Longer(us, x))
<1>1. PICK hist, P : Past(b, us, hp, hist, P) /\ Noted(hist[0], addr, last, bf)
  BY DEF Kept
<1>. PICK s : s = Lines(b)
  OBVIOUS
<1>a. Len(us) \in Nat /\ Len(us) # 0
  BY <1>1, PastIs DEF Continues
<1>. PICK n \in Nat \ {0} : n = Len(us)
  BY <1>a
<1>2. /\ s \in Rings /\ s = hist[n] /\ Holds(b, s) /\ us \in Seq(Entries)
      /\ hist \in [0..n -> Rings] /\ Course(us, hist) /\ Pairs(us, hist, P)
  BY <1>1, PastIs
<1>b. b.current_addr \in 1..Len(s)
  BY <1>2 DEF Holds, Continues
<1>. PICK c \in 1..Len(s) : c = b.current_addr
  BY <1>b
<1>. PICK w, d : w = With(s, c, x) /\ d = AddLine(b, x)
  OBVIOUS
<1>3. /\ x \notin OnRing(s) /\ Holds(d, w) /\ d.current_addr = c + 1
      /\ w \in Rings /\ Len(w) = Len(s) + 1 /\ OnRing(w) = OnRing(s) \cup {x}
      /\ Place(w, c + 1) = x /\ Fresh(w, hist, n) /\ Untouched(d, b, w)
  BY <1>1, AddedIs
<1>. PICK f, e : f = us[n] /\ e = [us[n] EXCEPT !.t = x]
  OBVIOUS
<1>4. n \in 1..n /\ f \in Entries /\ Changed(hist[n - 1], s, f)
  BY <1>2, EntryIs
<1>5. f.type = "UADD" /\ f.t = Place(s, c)
  BY DEF Continues
<1>6. e \in Entries /\ e.type = "UADD" /\ e.h = f.h /\ e.t = x
  BY <1>4, <1>5 DEF Entries, AnyNode
<1>7. Inserted(hist[n - 1], w, e) /\ f.h # BufferHead
  <2>1. Inserted(hist[n - 1], s, f)
    BY <1>4, <1>5 DEF Changed
  <2>2. /\ s \in Rings /\ c \in 1..Len(s) /\ x \in Nodes /\ x \notin OnRing(s)
        /\ Inserted(hist[n - 1], s, f) /\ EndsAt(f, Place(s, c)) /\ Stretched(e, f, x)
    BY <1>2, <1>3, <1>5, <1>6, <2>1 DEF EndsAt, Stretched
  <2>3. Inserted(hist[n - 1], With(s, c, x), e) /\ f.h # BufferHead
    BY <2>2, InsertedMore
  <2>4. QED
    BY <2>3
<1>8. Changed(hist[n - 1], w, e)
  BY <1>6, <1>7 DEF Changed
<1>. PICK us2, h : us2 = [us EXCEPT ![n] = e] /\ h = [hist EXCEPT ![n] = w]
  OBVIOUS
<1>9. us2 = Longer(us, x)
  BY <1>2 DEF Longer
<1>10. OnRing(hist[n]) \subseteq OnRing(w)
  BY <1>2, <1>3
<1>11. /\ Len(us2) = n /\ us2[n] = e /\ h[n] = w
       /\ \A i \in 1..n : i # n => us2[i] = us[i]
       /\ \A i \in 0..n : i # n => h[i] = hist[i]
       /\ Known(h, n) = Known(hist, n) \cup OnRing(w)
  <2>1. /\ n \in Nat \ {0} /\ us \in Seq(Entries) /\ Len(us) = n /\ e \in Entries
        /\ hist \in [0..n -> Rings] /\ w \in Rings /\ OnRing(hist[n]) \subseteq OnRing(w)
    BY <1>2, <1>3, <1>6, <1>10
  <2>2. Len(us2) = n /\ us2[n] = e /\ \A i \in 1..n : i # n => us2[i] = us[i]
    BY <2>1, ReplacedIs
  <2>3. h[n] = w /\ \A i \in 0..n : i # n => h[i] = hist[i]
    BY <2>1, ReplacedIs
  <2>4. Known(h, n) = Known(hist, n) \cup OnRing(w)
    BY <2>1, KnownReplaced
  <2>5. QED
    BY <2>2, <2>3, <2>4
<1>12. Course(us2, h)
  BY <1>2, <1>3, <1>6, <1>8, <1>10, CourseReplaced
<1>13. Pairs(us2, h, P)
  BY <1>2, <1>3, <1>5, <1>6, <1>10, PairsReplaced
<1>14. Loose(b, us, hist, n) /\ hp \subseteq Nodes /\ hp \cup {BufferHead} = Known(hist, n)
  BY <1>1 DEF Past
<1>15. Loose(d, us2, h, n)
  BY <1>2, <1>3, <1>6, <1>10, <1>14, LooseReplaced
<1>16. Headless(us2)
  <2>1. SUFFICES ASSUME NEW i \in 1..n, us2[i].type # "UMOV" PROVE us2[i].h # BufferHead
    BY <1>11 DEF Headless
  <2>2. CASE i = n
    BY <1>6, <1>7, <1>11, <2>2
  <2>3. CASE i # n
    BY <1>11, <2>1, <2>3 DEF Headless
  <2>4. QED
    BY <2>2, <2>3
<1>17. NoLines(us2, h)
  BY <1>16, HeadlessIs
<1>18. hp \cup {x} \subseteq Nodes /\ (hp \cup {x}) \cup {BufferHead} = Known(hist, n) \cup OnRing(w)
  <2>1. n \in 0..n
    OBVIOUS
  <2>2. OnRing(s) \subseteq Known(hist, n)
    BY <1>2, <2>1 DEF Known
  <2>3. QED
    BY <1>3, <1>14, <2>2
<1>19. Past(d, us2, hp \cup {x}, h, P)
  <2>1. History(us2, h, P)
    BY <1>12, <1>13, TwoParts
  <2>2. QED
    BY <1>3, <1>11, <1>15, <1>17, <1>18, <2>1 DEF Past
<1>20. h[0] = hist[0]
  <2>1. 0 \in 0..n /\ 0 # n
    OBVIOUS
  <2>2. QED
    BY <1>11, <2>1
<1>21. Kept(d, us2, hp \cup {x}, addr, last, bf)
  BY <1>1, <1>19, <1>20 DEF Kept
<1>22. Lines(d) = w
  BY <1>3, HoldsIs
<1>23. Continues(d, us2)
  <2>1. c + 1 # 0
    OBVIOUS
  <2>2. QED
    BY <1>3, <1>6, <1>11, <1>22, <2>1 DEF Continues
<1>24. QED
  BY <1>3, <1>9, <1>11, <1>16, <1>21, <1>22, <1>23
-----------------------------------------------------------------------------
(* Lines are deleted                                                       *)

(* delete_lines()                                                          *)
Cut(b, from, to) == CutLines(PushSeeks(b, from, to), from, to)
CutEntry(b, from, to) == Entry(b, "UDEL", from, to)

LEMMA CutIs ==
    ASSUME NEW b, NEW s, Holds(b, s), NEW from, NEW to, Whole(s, from, to)
    PROVE  /\ Holds(Cut(b, from, to), Without(s, from, to))
           /\ Cut(b, from, to).current_addr = from - 1
           /\ Untouched(Cut(b, from, to), b, s)
           /\ Dangling(Cut(b, from, to), s, Without(s, from, to))
           /\ CutEntry(b, from, to) \in Entries /\ CutEntry(b, from, to).type = "UDEL"
           /\ CutEntry(b, from, to).h = Place(s, from)
           /\ CutEntry(b, from, to).t = Place(s, to)
<1>1. s \in Rings /\ IsRing(b, s)
  BY DEF Holds, IsRing
<1>2. /\ from \in 1..(Len(s) + 1) /\ to \in 0..Len(s) /\ from <= to + 1
      /\ from - 1 \in 0..Len(s) /\ (from - 1) + 1 = from
      /\ from \in 0..(Len(s) + 1) /\ to + 1 \in 0..(Len(s) + 1)
      /\ Len(s) - (to - from + 1) \in Nat
      /\ from - 1 \in 0..(Len(s) - (to - from + 1))
      /\ from + (to - from + 1) = to + 1
  BY <1>1, WholeIs
<1>3. Len(s) \in Nat /\ from \in Nat /\ to \in Nat
  BY <1>1, <1>2, LinesAre
<1>. PICK d, q, e : /\ d = Cut(b, from, to) /\ q = PushSeeks(b, from, to)
                    /\ e = CutEntry(b, from, to)
  OBVIOUS
<1>4. /\ Holds(q, s) /\ SameLinks(b, q)
      /\ e = [type |-> "UDEL", h |-> Place(s, Upto(s, from)), t |-> Place(s, Upto(s, to))]
  BY <1>3, PushSeeksIs DEF CutEntry
<1>5. Place(s, Upto(s, to)) = Place(s, to) /\ Place(s, Upto(s, from)) = Place(s, from)
  <2>1. Upto(s, to) = to
    BY <1>2, <1>3 DEF Upto
  <2>2. CASE from \in 1..Len(s)
    BY <1>3, <2>1, <2>2 DEF Upto
  <2>3. CASE from = 1 /\ to = 0 /\ Len(s) = 0
    BY <2>1, <2>3 DEF Upto, Place
  <2>4. QED
    BY <2>2, <2>3 DEF Whole
<1>6. \A k \in Int : Place(s, k) \in AnyNode
  BY <1>1, PlaceIs
<1>7. e \in Entries /\ e.type = "UDEL" /\ e.h = Place(s, from) /\ e.t = Place(s, to)
  BY <1>3, <1>4, <1>5, <1>6 DEF Entries
<1>. PICK w : w = Without(s, from, to)
  OBVIOUS
<1>. PICK x, y : x = Place(s, from - 1) /\ y = Place(s, to + 1)
  OBVIOUS
<1>8. /\ Holds(d, w) /\ d.current_addr = from - 1
      /\ Linked(d, q, x, y)
  BY <1>4, CutLinesIs DEF Cut
<1>9. x \in OnRing(s) /\ y \in OnRing(s)
  <2>1. from - 1 \in 0..(Len(s) + 1) /\ to + 1 \in 0..(Len(s) + 1)
    BY <1>2, <1>3
  <2>2. QED
    BY <1>1, <2>1, PlaceIs
<1>10. Untouched(d, b, s)
  BY <1>4, <1>8, <1>9 DEF Untouched, Linked, SameLinks
<1>11. /\ w \in Rings /\ Len(w) = Len(s) - (to - from + 1)
       /\ \A k \in 0..(Len(w) + 1) :
            Place(w, k) = IF k < from THEN Place(s, k) ELSE Place(s, k + (to - from + 1))
  BY <1>1, <1>2, WithoutIs
<1>12. x \in OnRing(w) /\ y \in OnRing(w)
  <2>1. from - 1 \in 0..(Len(w) + 1) /\ from \in 0..(Len(w) + 1) /\ from - 1 < from
    BY <1>2, <1>3, <1>11
  <2>2. Place(w, from - 1) = x
    BY <1>11, <2>1
  <2>3. Place(w, from) = y
    <3>1. ~(from < from)
      BY <1>3
    <3>2. Place(w, from) = Place(s, from + (to - from + 1))
      BY <1>11, <2>1, <3>1
    <3>3. QED
      BY <1>2, <3>2
  <2>4. QED
    BY <1>11, <2>1, <2>2, <2>3, PlaceIs
<1>13. Dangling(d, s, w)
  <2>1. SUFFICES ASSUME NEW k \in 1..Len(s), s[k] \notin OnRing(w)
                 PROVE  d.forw[s[k]] = Place(s, k + 1) /\ d.back[s[k]] = Place(s, k - 1)
    BY DEF Dangling
  <2>2. s[k] # x /\ s[k] # y /\ s[k] \in AnyNode /\ Place(s, k) = s[k]
    BY <1>1, <1>12, <2>1, PlaceIs DEF AnyNode
  <2>3. d.forw[s[k]] = b.forw[s[k]] /\ d.back[s[k]] = b.back[s[k]]
    BY <1>4, <1>8, <2>2 DEF Linked, SameLinks
  <2>4. k \in 0..Len(s) /\ k - 1 \in 0..Len(s) /\ (k - 1) + 1 = k
    BY <1>3
  <2>5. b.forw[Place(s, k)] = Place(s, k + 1)
    BY <1>1, <2>4 DEF IsRing
  <2>6. b.back[Place(s, (k - 1) + 1)] = Place(s, k - 1)
    BY <1>1, <2>4 DEF IsRing
  <2>7. QED
    BY <2>2, <2>3, <2>4, <2>5, <2>6
<1>14. QED
  BY <1>7, <1>8, <1>10, <1>13

LEMMA KeptCut ==
    ASSUME NEW b, NEW us, NEW hp, NEW addr, NEW last, NEW bf,
           Kept(b, us, hp, addr, last, bf), NEW from, NEW to, Whole(Lines(b), from, to),
           Headless(us) \/ Len(Without(Lines(b), from, to)) = 0
    PROVE  /\ Kept(Cut(b, from, to), Append(us, CutEntry(b, from, to)), hp, addr, last, bf)
           /\ Lines(Cut(b, from, to)) = Without(Lines(b), from, to)
           /\ Holds(Cut(b, from, to), Without(Lines(b), from, to))
           /\ Cut(b, from, to).current_addr = from - 1
           /\ Headless(us) /\ from <= to => Headless(Append(us, CutEntry(b, from, to)))
<1>1. PICK hist, P : Past(b, us, hp, hist, P) /\ Noted(hist[0], addr, last, bf)
  BY DEF Kept
<1>. PICK s : s = Lines(b)
  OBVIOUS
<1>. PICK n \in Nat : n = Len(us)
  BY <1>1, PastIs
<1>2. /\ s \in Rings /\ s = hist[n] /\ Holds(b, s) /\ us \in Seq(Entries)
      /\ hist \in [0..n -> Rings]
  BY <1>1, PastIs
<1>. PICK w, d, e : /\ w = Without(s, from, to) /\ d = Cut(b, from, to)
                    /\ e = CutEntry(b, from, to)
  OBVIOUS
<1>3. /\ Holds(d, w) /\ d.current_addr = from - 1
      /\ Untouched(d, b, s) /\ Dangling(d, s, w)
      /\ e \in Entries /\ e.type = "UDEL" /\ e.h = Place(s, from) /\ e.t = Place(s, to)
  BY <1>2, CutIs
<1>4. /\ from \in 1..(Len(s) + 1) /\ to \in 0..Len(s) /\ from <= to + 1
  BY <1>2, WholeIs
<1>5. w \in Rings /\ Len(w) = Len(s) - (to - from + 1) /\ OnRing(w) \subseteq OnRing(s)
  <2>1. OnRing(w) = OnRing(s) \ Lying(s, from, to)
    BY <1>2, <1>4, WithoutIs
  <2>2. w \in Rings /\ Len(w) = Len(s) - (to - from + 1)
    BY <1>2, <1>4, WithoutIs
  <2>3. QED
    BY <2>1, <2>2
<1>6. Changed(hist[n], w, e)
  <2>1. Inserted(w, s, e)
    BY <1>3 DEF Inserted
  <2>2. QED
    BY <1>2, <1>3, <2>1 DEF Changed
<1>7. Fresh(w, hist, n) /\ Fresh(s, hist, n)
  BY <1>2, <1>5 DEF Fresh
<1>8. from \in 1..Len(s) => e.h # BufferHead
  BY <1>2, <1>3, PlaceIs
<1>9. e.h = BufferHead => Len(hist[n]) = 0 /\ Len(w) = 0 /\ ~(from <= to)
  <2>1. SUFFICES ASSUME e.h = BufferHead PROVE Len(s) = 0 /\ Len(w) = 0 /\ ~(from <= to)
    BY <1>2
  <2>2. from = 1 /\ to = 0 /\ Len(s) = 0
    BY <1>8, <2>1 DEF Whole
  <2>3. QED
    BY <1>5, <2>2
<1>10. hp \subseteq Nodes /\ hp \cup {BufferHead} = Known(hist, n) \cup OnRing(w)
  <2>1. n \in 0..n
    OBVIOUS
  <2>2. OnRing(s) \subseteq Known(hist, n)
    BY <1>2, <2>1 DEF Known
  <2>3. hp \subseteq Nodes /\ hp \cup {BufferHead} = Known(hist, n)
    BY <1>1 DEF Past
  <2>4. QED
    BY <1>5, <2>2, <2>3
<1>11. Headless(us) \/ Len(w) = 0
  OBVIOUS
<1>. PICK us2, h : us2 = Append(us, e) /\ h = Extended(hist, n, w)
  OBVIOUS
<1>12. Past(d, us2, hp, h, P)
  BY <1>1, <1>2, <1>3, <1>5, <1>6, <1>7, <1>9, <1>10, <1>11, PastExtended
<1>13. h[0] = hist[0]
  <2>1. 0 \in 0..(n + 1) /\ 0 # n + 1
    OBVIOUS
  <2>2. QED
    BY <2>1 DEF Extended
<1>14. Kept(d, us2, hp, addr, last, bf)
  BY <1>1, <1>12, <1>13 DEF Kept
<1>15. Lines(d) = w
  BY <1>3, HoldsIs
<1>16. Headless(us) /\ from <= to => Headless(us2)
  BY <1>2, <1>3, <1>9, HeadlessMore
<1>17. QED
  BY <1>3, <1>14, <1>15, <1>16
LEMMA SpanCut ==
    ASSUME NEW b, NEW s, Holds(b, s), NEW from, NEW to, Whole(s, from, to)
    PROVE  Span(PushSeeks(b, from, to), Node(PushSeeks(b, from, to), from),
                Node(PushSeeks(b, from, to), IncMod(to, PushSeeks(b, from, to).addr_last)))
             = Lying(s, from, to)
<1>1. s \in Rings
  BY DEF Holds, IsRing
<1>2. /\ from \in 1..(Len(s) + 1) /\ to \in 0..Len(s) /\ from <= to + 1
  BY <1>1, WholeIs
<1>3. Len(s) \in Nat /\ from \in Nat /\ to \in Nat
  BY <1>1, <1>2, LinesAre
<1>. PICK p : p = PushSeeks(b, from, to)
  OBVIOUS
<1>4. Holds(p, s)
  BY <1>3, PushSeeksIs
<1>5. IsRing(p, s) /\ p.addr_last = Len(s) /\ p.forw \in Links
  BY <1>4 DEF Holds, IsRing
<1>6. Node(p, from) = Place(s, from)
  <2>1. Node(p, from) = Place(s, Upto(s, from))
    BY <1>3, <1>4, SeekIs
  <2>2. CASE from \in 1..Len(s)
    BY <1>3, <2>1, <2>2 DEF Upto
  <2>3. CASE from = 1 /\ to = 0 /\ Len(s) = 0
    BY <2>1, <2>3 DEF Upto, Place
  <2>4. QED
    BY <2>2, <2>3 DEF Whole
<1>7. Node(p, IncMod(to, p.addr_last)) = Place(s, to + 1)
  <2>1. IncMod(to, Len(s)) \in 0..Len(s) /\ Place(s, IncMod(to, Len(s))) = Place(s, to + 1)
    BY <1>1, <1>2, NextPlace
  <2>2. Node(p, IncMod(to, Len(s))) = Place(s, IncMod(to, Len(s)))
    BY <1>4, <2>1, SeekAt
  <2>3. QED
    BY <1>5, <2>1, <2>2
<1>8. CASE from \in 1..Len(s) /\ to \in from..Len(s)
  <2>1. Chained(p, s, from, to)
    <3>1. SUFFICES ASSUME NEW k \in 1..Len(s) PROVE p.forw[s[k]] = Place(s, k + 1)
      BY DEF Chained
    <3>2. Place(s, k) = s[k] /\ k \in 0..Len(s)
      BY <1>1, PlaceIs
    <3>3. QED
      BY <1>5, <3>2 DEF IsRing
  <2>2. Span(p, Place(s, from), p.forw[Place(s, to)]) = Lying(s, from, to)
    BY <1>1, <1>5, <1>8, <2>1, SpanIs
  <2>3. p.forw[Place(s, to)] = Place(s, to + 1)
    BY <1>2, <1>5 DEF IsRing
  <2>4. QED
    BY <1>6, <1>7, <2>2, <2>3
<1>9. CASE from = 1 /\ to = 0 /\ Len(s) = 0
  <2>1. Place(s, from) = BufferHead /\ Place(s, to + 1) = BufferHead
    BY <1>9 DEF Place
  <2>2. Span(p, BufferHead, BufferHead) = {}
    BY <1>5, SpanEmpty DEF AnyNode
  <2>3. Lying(s, from, to) = {}
    BY <1>9 DEF Lying
  <2>4. QED
    BY <1>6, <1>7, <2>1, <2>2, <2>3
<1>10. QED
  BY <1>8, <1>9 DEF Whole

LEMMA OnlyIs ==
    ASSUME NEW S, NEW list \in Seq(S), NEW set
    PROVE  Only(list, set) \in Seq(S \cap set)
<1>. PICK n \in Nat : n = Len(list)
  BY LenProperties
<1>. PICK T : T = Seq(S \cap set)
  OBVIOUS
<1>. DEFINE step(k, q) == IF k \in 1..n /\ list[k] \in set THEN Append(q, list[k]) ELSE q
            g == [k \in Nat |-> [q \in T |-> step(k, q)]]
            kept == CHOOSE f : f = [i \in 0..n |-> IF i = 0 THEN << >>
                                                   ELSE IF list[i] \in set
                                                   THEN Append(f[i - 1], list[i])
                                                   ELSE f[i - 1]]
<1>1. \A k \in 1..n : list[k] \in S
  BY ElementOfSeq
<1>2. \A k \in Nat, q \in T : step(k, q) \in T
  <2>1. SUFFICES ASSUME NEW k \in 1..n, list[k] \in set, NEW q \in T
                 PROVE  Append(q, list[k]) \in T
    OBVIOUS
  <2>2. list[k] \in S \cap set
    BY <1>1, <2>1
  <2>3. QED
    BY <2>2, AppendProperties
<1>3. g \in Steps(T) /\ << >> \in T
  BY <1>2, EmptySeq DEF Steps
<1>4. PICK f : Recurs(f, T, << >>, g)
  <2>. HIDE DEF g
  <2>. QED
    BY <1>3, Recurring
<1>5. f \in [Nat -> T] /\ f[0] = << >> /\ \A k \in Nat \ {0} : f[k] = step(k, f[k - 1])
  <2>1. f \in [Nat -> T] /\ f[0] = << >>
    BY <1>4 DEF Recurs
  <2>2. ASSUME NEW k \in Nat \ {0}
        PROVE  f[k] = step(k, f[k - 1])
    <3>1. f[k] = g[k][f[k - 1]]
      BY <1>4 DEF Recurs
    <3>2. k \in Nat /\ f[k - 1] \in T
      BY <2>1
    <3>3. QED
      BY <3>1, <3>2
  <2>3. QED
    BY <2>1, <2>2
<1>. DEFINE h == [i \in 0..n |-> f[i]]
<1>6. h = [i \in 0..n |-> IF i = 0 THEN << >>
                          ELSE IF list[i] \in set THEN Append(h[i - 1], list[i])
                          ELSE h[i - 1]]
  <2>1. ASSUME NEW i \in 0..n, i # 0
        PROVE  f[i] = IF list[i] \in set THEN Append(h[i - 1], list[i]) ELSE h[i - 1]
    <3>1. i \in Nat \ {0} /\ i \in 1..n /\ i - 1 \in 0..n
      BY <2>1
    <3>2. f[i] = step(i, f[i - 1]) /\ h[i - 1] = f[i - 1]
      BY <1>5, <3>1
    <3>3. QED
      BY <3>1, <3>2
  <2>2. f[0] = << >>
    BY <1>5
  <2>3. QED
    BY <2>1, <2>2
<1>7. kept = [i \in 0..n |-> IF i = 0 THEN << >>
                             ELSE IF list[i] \in set THEN Append(kept[i - 1], list[i])
                             ELSE kept[i - 1]]
  BY <1>6
<1>8. Only(list, set) = kept[n]
  BY DEF Only
<1>. HIDE DEF kept
<1>9. kept[0] = << >>
      /\ \A i \in 1..n : kept[i] = IF list[i] \in set THEN Append(kept[i - 1], list[i])
                                   ELSE kept[i - 1]
  <2>1. 0 \in 0..n /\ \A i \in 1..n : i \in 0..n /\ i # 0
    OBVIOUS
  <2>2. QED
    BY <1>7, <2>1
<1>. DEFINE U == { k \in Nat : k <= n => kept[k] \in T }
<1>10. 0 \in U
  BY <1>3, <1>9
<1>11. ASSUME NEW k \in Nat, k \in U
       PROVE  k + 1 \in U
  <2>1. SUFFICES ASSUME k + 1 <= n PROVE kept[k + 1] \in T
    OBVIOUS
  <2>2. k + 1 \in 1..n /\ k + 1 \in Nat /\ (k + 1) - 1 = k /\ k <= n
    BY <2>1
  <2>3. kept[k] \in T
    BY <1>11, <2>2
  <2>4. kept[k + 1] = step(k + 1, kept[k])
    BY <1>9, <2>2
  <2>5. QED
    BY <1>2, <2>2, <2>3, <2>4
<1>12. n \in U
  BY <1>10, <1>11, Inducts
<1>13. QED
  BY <1>8, <1>12
-----------------------------------------------------------------------------
(* Lines are moved                                                         *)

(* The two entries that are pushed when the lines from i to j are moved    *)
(* behind line a.                                                          *)
MoveEntries(s, i, j, a, d, e) ==
    /\ d \in Entries /\ d.type = "UMOV" /\ e \in Entries /\ e.type = "UMOV"
    /\ d.h = Place(s, i - 1) /\ d.t = Place(s, j + 1)
    /\ e.h = Place(s, a) /\ e.t = Place(s, a + 1)

LEMMA PairsMoved ==
    ASSUME NEW us, NEW hist, NEW P, Course(us, hist), Pairs(us, hist, P),
           NEW d \in Entries, NEW e \in Entries, d.type = "UMOV", e.type = "UMOV",
           NEW s \in Rings, NEW w \in Rings, Moved(hist[Len(us)], w, d, e)
    PROVE  Pairs(Append(Append(us, d), e), Extended(Extended(hist, Len(us), s), Len(us) + 1, w),
                 P \cup {Len(us) + 2})
<1>. PICK n \in Nat : n = Len(us)
  BY LenProperties DEF Course
<1>. PICK us1, us2 : us1 = Append(us, d) /\ us2 = Append(us1, e)
  OBVIOUS
<1>. PICK h1, h2 : h1 = Extended(hist, n, s) /\ h2 = Extended(h1, n + 1, w)
  OBVIOUS
<1>1. us \in Seq(Entries) /\ hist \in [0..n -> Rings]
  BY DEF Course
<1>2. /\ us1 \in Seq(Entries) /\ Len(us1) = n + 1
      /\ us1[n + 1] = d /\ \A i \in 1..n : us1[i] = us[i]
  BY <1>1, AppendIs
<1>3. /\ Len(us2) = n + 2 /\ us2[n + 2] = e /\ \A i \in 1..(n + 1) : us2[i] = us1[i]
  <2>1. /\ Len(us2) = Len(us1) + 1 /\ us2[Len(us1) + 1] = e
        /\ \A i \in 1..Len(us1) : us2[i] = us1[i]
    BY <1>2, AppendIs
  <2>2. Len(us1) + 1 = n + 2 /\ Len(us1) = n + 1
    BY <1>2
  <2>3. QED
    BY <2>1, <2>2
<1>4. us2[n + 1] = d /\ \A i \in 1..n : us2[i] = us[i]
  <2>1. n + 1 \in 1..(n + 1) /\ \A i \in 1..n : i \in 1..(n + 1)
    OBVIOUS
  <2>2. QED
    BY <1>2, <1>3, <2>1
<1>5. h2[n + 2] = w /\ \A i \in 0..n : h2[i] = hist[i]
  <2>1. (n + 1) + 1 = n + 2 /\ n + 2 \in 0..(n + 2)
    OBVIOUS
  <2>2. h2 = [i \in 0..(n + 2) |-> IF i = n + 2 THEN w ELSE h1[i]]
    BY <2>1 DEF Extended
  <2>3. h1 = [i \in 0..(n + 1) |-> IF i = n + 1 THEN s ELSE hist[i]]
    BY DEF Extended
  <2>4. \A i \in 0..n : i \in 0..(n + 2) /\ i # n + 2 /\ i \in 0..(n + 1) /\ i # n + 1
    OBVIOUS
  <2>5. QED
    BY <2>1, <2>2, <2>3, <2>4
<1>6. P \subseteq 2..n
  BY DEF Pairs
<1>. PICK Q : Q = P \cup {n + 2}
  OBVIOUS
<1>7. Q \subseteq 2..(n + 2)
  <2>1. n + 2 \in 2..(n + 2) /\ \A i \in 2..n : i \in 2..(n + 2)
    OBVIOUS
  <2>2. QED
    BY <1>6, <2>1
<1>8. ASSUME NEW i \in 1..(n + 2), us2[i].type = "UMOV"
      PROVE  i \in Q \/ i + 1 \in Q
  <2>1. CASE i = n + 2
    BY <2>1
  <2>2. CASE i = n + 1
    BY <2>2
  <2>3. CASE i # n + 1 /\ i # n + 2
    <3>1. i \in 1..n
      BY <2>3
    <3>2. us[i].type = "UMOV"
      BY <1>4, <1>8, <3>1
    <3>3. QED
      BY <3>1, <3>2 DEF Pairs
  <2>4. QED
    BY <2>1, <2>2, <2>3
<1>9. ASSUME NEW i \in Q
      PROVE  /\ us2[i].type = "UMOV" /\ us2[i - 1].type = "UMOV" /\ i - 1 \notin Q
             /\ Moved(h2[i - 2], h2[i], us2[i - 1], us2[i])
  <2>1. CASE i = n + 2
    <3>1. i - 1 = n + 1 /\ i - 2 = n /\ n \in 0..n
      BY <2>1
    <3>2. i - 1 \notin Q
      BY <1>6, <3>1
    <3>3. QED
      BY <1>3, <1>4, <1>5, <2>1, <3>1, <3>2
  <2>2. CASE i \in P
    <3>1. /\ us[i].type = "UMOV" /\ us[i - 1].type = "UMOV" /\ i - 1 \notin P
          /\ Moved(hist[i - 2], hist[i], us[i - 1], us[i])
      BY <2>2 DEF Pairs
    <3>2. /\ i \in 1..n /\ i - 1 \in 1..n /\ i \in 0..n /\ i - 2 \in 0..n /\ i - 1 # n + 2
      BY <1>6, <2>2
    <3>3. us2[i] = us[i] /\ us2[i - 1] = us[i - 1]
      BY <1>4, <3>2
    <3>4. h2[i - 2] = hist[i - 2] /\ h2[i] = hist[i]
      BY <1>5, <3>2
    <3>5. QED
      BY <3>1, <3>2, <3>3, <3>4
  <2>3. QED
    BY <2>1, <2>2
<1>10. Pairs(us2, h2, Q)
  BY <1>3, <1>7, <1>8, <1>9 DEF Pairs
<1>11. QED
  BY <1>10

LEMMA KeptMoved ==
    ASSUME NEW b, NEW us, NEW hp, NEW addr, NEW last, NEW bf,
           Kept(b, us, hp, addr, last, bf), Headless(us),
           NEW s, s = Lines(b), NEW i, NEW j, NEW a, Movable(Len(s), i, j, a),
           NEW c, Holds(c, Shifted(s, i, j, a)), Untouched(c, b, s),
           NEW d, NEW e, MoveEntries(s, i, j, a, d, e)
    PROVE  /\ Kept(c, Append(Append(us, d), e), hp, addr, last, bf)
           /\ Headless(Append(Append(us, d), e))
           /\ Len(Append(Append(us, d), e)) = Len(us) + 2
<1>1. PICK hist, P : Past(b, us, hp, hist, P) /\ Noted(hist[0], addr, last, bf)
  BY DEF Kept
<1>. PICK n \in Nat : n = Len(us)
  BY <1>1, PastIs
<1>2. /\ s \in Rings /\ s = hist[n] /\ us \in Seq(Entries)
      /\ hist \in [0..n -> Rings] /\ Course(us, hist) /\ Pairs(us, hist, P)
  BY <1>1, PastIs
<1>3. Loose(b, us, hist, n) /\ hp \subseteq Nodes /\ hp \cup {BufferHead} = Known(hist, n)
  BY <1>1 DEF Past
<1>. PICK w : w = Shifted(s, i, j, a)
  OBVIOUS
<1>4. w \in Rings /\ OnRing(w) = OnRing(s)
  BY <1>2, ShiftedIs
<1>5. d \in Entries /\ d.type = "UMOV" /\ e \in Entries /\ e.type = "UMOV"
  BY DEF MoveEntries
<1>6. Moved(s, w, d, e)
  BY DEF Moved, MoveEntries
<1>. PICK us1, us2 : us1 = Append(us, d) /\ us2 = Append(us1, e)
  OBVIOUS
<1>. PICK h1, h2 : h1 = Extended(hist, n, s) /\ h2 = Extended(h1, n + 1, w)
  OBVIOUS
<1>7. us1 \in Seq(Entries) /\ Len(us1) = n + 1
  BY <1>2, <1>5, AppendIs
<1>8. Len(us2) = n + 2
  <2>1. Len(us2) = Len(us1) + 1
    BY <1>5, <1>7, AppendIs
  <2>2. QED
    BY <1>7, <2>1
<1>9. h1 \in [0..(n + 1) -> Rings] /\ h1[n + 1] = s
  <2>1. h1 \in [0..(n + 1) -> Rings]
    BY <1>2, ExtendedIs
  <2>2. h1[n + 1] = s
    BY <1>2, ExtendedIs
  <2>3. QED
    BY <2>1, <2>2
<1>10. Known(h1, n + 1) = Known(hist, n) /\ Known(h2, n + 2) = Known(hist, n)
  <2>1. n \in 0..n
    OBVIOUS
  <2>2. OnRing(s) \subseteq Known(hist, n)
    BY <1>2, <2>1 DEF Known
  <2>3. Known(h1, n + 1) = Known(hist, n) \cup OnRing(s)
    BY KnownExtended
  <2>4. n + 1 \in Nat /\ (n + 1) + 1 = n + 2
    OBVIOUS
  <2>5. Known(h2, (n + 1) + 1) = Known(h1, n + 1) \cup OnRing(w)
    BY <2>4, KnownExtended
  <2>6. QED
    BY <1>4, <2>2, <2>3, <2>4, <2>5
<1>11. Changed(s, s, d) /\ Changed(s, w, e)
  BY <1>4, <1>5 DEF Changed
<1>12. Fresh(s, hist, n) /\ Fresh(s, h1, n + 1) /\ Fresh(w, h1, n + 1)
  BY <1>2, <1>4, <1>9 DEF Fresh
<1>13. Course(us1, h1)
  BY <1>2, <1>5, <1>11, <1>12, CourseExtended
<1>14. Course(us2, h2)
  <2>1. Changed(h1[Len(us1)], w, e) /\ Fresh(w, h1, Len(us1))
    BY <1>7, <1>9, <1>11, <1>12
  <2>2. Course(us2, Extended(h1, Len(us1), w))
    BY <1>4, <1>5, <1>13, <2>1, CourseExtended
  <2>3. QED
    BY <1>7, <2>2
<1>15. Loose(b, us1, h1, n + 1)
  <2>1. Untouched(b, b, s)
    BY DEF Untouched
  <2>2. d.type = "UDEL" => Dangling(b, hist[Len(us)], s)
    BY <1>5
  <2>3. QED
    BY <1>2, <1>3, <1>5, <1>12, <2>1, <2>2, LooseExtended
<1>16. Loose(c, us2, h2, n + 2)
  <2>1. Loose(b, us1, h1, Len(us1)) /\ Fresh(s, h1, Len(us1))
    BY <1>7, <1>12, <1>15
  <2>2. e.type = "UDEL" => Dangling(c, h1[Len(us1)], w)
    BY <1>5
  <2>3. Loose(c, us2, Extended(h1, Len(us1), w), Len(us1) + 1)
    BY <1>4, <1>5, <1>13, <2>1, <2>2, LooseExtended
  <2>4. Len(us1) + 1 = n + 2 /\ Len(us1) = n + 1
    BY <1>7
  <2>5. QED
    BY <2>3, <2>4
<1>17. Pairs(us2, h2, P \cup {n + 2})
  BY <1>2, <1>4, <1>5, <1>6, PairsMoved
<1>18. Headless(us2)
  <2>1. Headless(us1)
    BY <1>2, <1>5, HeadlessMore
  <2>2. QED
    BY <1>5, <1>7, <2>1, HeadlessMore
<1>19. h2[n + 2] = w /\ h2[0] = hist[0]
  <2>1. (n + 1) + 1 = n + 2 /\ n + 2 \in 0..(n + 2)
    OBVIOUS
  <2>2. h2 = [k \in 0..(n + 2) |-> IF k = n + 2 THEN w ELSE h1[k]]
    BY <2>1 DEF Extended
  <2>3. h1 = [k \in 0..(n + 1) |-> IF k = n + 1 THEN s ELSE hist[k]]
    BY DEF Extended
  <2>4. 0 \in 0..(n + 2) /\ 0 # n + 2 /\ 0 \in 0..(n + 1) /\ 0 # n + 1
    OBVIOUS
  <2>5. QED
    BY <2>1, <2>2, <2>3, <2>4
<1>20. Past(c, us2, hp, h2, P \cup {n + 2})
  <2>1. History(us2, h2, P \cup {n + 2})
    BY <1>14, <1>17, TwoParts
  <2>2. NoLines(us2, h2)
    BY <1>18, HeadlessIs
  <2>3. QED
    BY <1>3, <1>8, <1>10, <1>16, <1>19, <2>1, <2>2 DEF Past
<1>21. Kept(c, us2, hp, addr, last, bf)
  BY <1>1, <1>19, <1>20 DEF Kept
<1>22. QED
  BY <1>8, <1>18, <1>21
-----------------------------------------------------------------------------
(* Undoing                                                                 *)

LEMMA NoLinesReversed ==
    ASSUME NEW us, NEW hist, Course(us, hist), NoLines(us, hist)
    PROVE  NoLines(Inverted(us), Reversed(hist, Len(us)))
<1>. PICK n \in Nat : n = Len(us)
  BY LenProperties DEF Course
<1>. PICK us2, h : us2 = Inverted(us) /\ h = Reversed(hist, n)
  OBVIOUS
<1>1. us \in Seq(Entries)
  BY DEF Course
<1>2. Len(us2) = n /\ \A i \in 1..n : n + 1 - i \in 1..n /\ us2[i] = Flipped(us[n + 1 - i])
  BY <1>1, InvertedIs
<1>3. \A j \in 0..n : n - j \in 0..n /\ h[j] = hist[n - j]
  BY DEF Reversed
<1>4. SUFFICES ASSUME NEW i \in 1..n, us2[i].h = BufferHead
               PROVE  /\ us2[i].type = "UADD" => \A j \in 0..i : Len(h[j]) = 0
                      /\ us2[i].type = "UDEL" => \A j \in (i - 1)..n : Len(h[j]) = 0
  BY <1>2 DEF NoLines
<1>. PICK k \in 1..n : k = n + 1 - i
  BY <1>2
<1>. PICK e : e = us[k]
  OBVIOUS
<1>5. us2[i] = Flipped(e) /\ e \in Entries
  BY <1>1, <1>2, ElementOfSeq
<1>6. /\ e.h = BufferHead
      /\ us2[i].type = "UADD" <=> e.type = "UDEL"
      /\ us2[i].type = "UDEL" <=> e.type = "UADD"
  BY <1>4, <1>5, FlippedIs
<1>7. ASSUME us2[i].type = "UADD", NEW j \in 0..i
      PROVE  Len(h[j]) = 0
  <2>1. n - j \in (k - 1)..n /\ j \in 0..n
    OBVIOUS
  <2>2. Len(hist[n - j]) = 0
    BY <1>6, <1>7, <2>1 DEF NoLines
  <2>3. QED
    BY <1>3, <2>1, <2>2
<1>8. ASSUME us2[i].type = "UDEL", NEW j \in (i - 1)..n
      PROVE  Len(h[j]) = 0
  <2>1. n - j \in 0..k /\ j \in 0..n
    OBVIOUS
  <2>2. Len(hist[n - j]) = 0
    BY <1>6, <1>8, <2>1 DEF NoLines
  <2>3. QED
    BY <1>3, <2>1, <2>2
<1>9. QED
  BY <1>7, <1>8

LEMMA HeadlessInverted ==
    ASSUME NEW us \in Seq(Entries), Headless(us)
    PROVE  Headless(Inverted(us))
<1>. PICK n \in Nat : n = Len(us)
  BY LenProperties
<1>. PICK us2 : us2 = Inverted(us)
  OBVIOUS
<1>1. Len(us2) = n /\ \A i \in 1..n : n + 1 - i \in 1..n /\ us2[i] = Flipped(us[n + 1 - i])
  BY InvertedIs
<1>2. SUFFICES ASSUME NEW i \in 1..n, us2[i].type # "UMOV" PROVE us2[i].h # BufferHead
  BY <1>1 DEF Headless
<1>. PICK k \in 1..n : k = n + 1 - i
  BY <1>1
<1>3. us2[i] = Flipped(us[k]) /\ us[k] \in Entries
  BY <1>1, ElementOfSeq
<1>4. us2[i].h = us[k].h /\ (us2[i].type = "UMOV" <=> us[k].type = "UMOV")
  BY <1>3, FlippedIs
<1>5. QED
  BY <1>2, <1>4 DEF Headless

LEMMA KnownReversed ==
    ASSUME NEW n \in Nat, NEW hist
    PROVE  Known(Reversed(hist, n), n) = Known(hist, n)
<1>1. \A j \in 0..n : n - j \in 0..n /\ n - (n - j) = j
  OBVIOUS
<1>2. \A j \in 0..n : Reversed(hist, n)[j] = hist[n - j]
  BY DEF Reversed
<1>3. ASSUME NEW y \in Known(hist, n)
      PROVE  y \in Known(Reversed(hist, n), n)
  <2>1. PICK j \in 0..n : y \in OnRing(hist[j])
    BY DEF Known
  <2>2. n - j \in 0..n /\ Reversed(hist, n)[n - j] = hist[j]
    BY <1>1, <1>2
  <2>3. QED
    BY <2>1, <2>2 DEF Known
<1>4. ASSUME NEW y \in Known(Reversed(hist, n), n)
      PROVE  y \in Known(hist, n)
  <2>1. PICK j \in 0..n : y \in OnRing(Reversed(hist, n)[j])
    BY DEF Known
  <2>2. QED
    BY <1>1, <1>2, <2>1 DEF Known
<1>5. QED
  BY <1>3, <1>4

(* pop_undo_stack()                                                        *)
Popped(b, us, addr, last) ==
    [UndoneAll(Seek(b, 0), us) EXCEPT !.current_addr = addr, !.addr_last = last]

LEMMA KeptUndone ==
    ASSUME NEW b, NEW us, NEW hp, NEW addr, NEW last, NEW bf,
           Kept(b, us, hp, addr, last, bf), addr # -1, last # -1
    PROVE  /\ Kept(Popped(b, us, addr, last), Inverted(us), hp,
                   b.current_addr, b.addr_last, Text(b))
           /\ Len(Inverted(us)) = Len(us)
           /\ Headless(us) => Headless(Inverted(us))
           /\ Text(Popped(b, us, addr, last)) = bf
           /\ bf \in [lines : Seq(Nodes), dot : Nat]
<1>1. PICK hist, P : Past(b, us, hp, hist, P) /\ Noted(hist[0], addr, last, bf)
  BY DEF Kept
<1>. PICK s, q : s = Lines(b) /\ q = hist[0]
  OBVIOUS
<1>. PICK n \in Nat : n = Len(us)
  BY <1>1, PastIs
<1>2. /\ s \in Rings /\ s = hist[n] /\ Holds(b, s) /\ us \in Seq(Entries)
      /\ hist \in [0..n -> Rings] /\ Course(us, hist) /\ q \in Rings
  BY <1>1, PastIs
<1>3. /\ Loose(b, us, hist, n) /\ hp \subseteq Nodes /\ hp \cup {BufferHead} = Known(hist, n)
      /\ History(us, hist, P) /\ NoLines(us, hist)
  BY <1>1 DEF Past
<1>4. addr \in 0..Len(q) /\ last = Len(q) /\ bf = [lines |-> q, dot |-> addr]
  BY <1>1 DEF Noted
<1>. PICK b0 : b0 = Seek(b, 0)
  OBVIOUS
<1>5. Holds(b0, s) /\ SameLinks(b, b0) /\ b0.on = 0 /\ b0.lp = BufferHead
  <2>1. 0 \in 0..Len(s) /\ Place(s, 0) = BufferHead
    BY <1>2, PlaceIs
  <2>2. QED
    BY <1>2, <2>1, SeekAt
<1>6. b0 \in Buffers /\ IsRing(b0, hist[n])
  BY <1>2, <1>5 DEF Holds
<1>7. Loose(b0, us, hist, n)
  BY <1>3, <1>5 DEF Loose, Dangling, SameLinks
<1>. PICK b1, c : b1 = UndoneAll(b0, us) /\ c = Popped(b, us, addr, last)
  OBVIOUS
<1>8. b1 \in Buffers /\ IsRing(b1, q) /\ Loose(b1, us, hist, 0) /\ SamePlace(b1, b0)
  BY <1>3, <1>6, <1>7, UndoneAllIs
<1>9. c = [b1 EXCEPT !.current_addr = addr, !.addr_last = last]
  BY DEF Popped
<1>10. Len(q) \in Nat /\ addr \in Nat /\ last \in Nat /\ q \in Seq(Nodes)
  BY <1>2, <1>4, LinesAre
<1>11. /\ c \in Buffers /\ c.forw = b1.forw /\ c.back = b1.back
       /\ c.lp = BufferHead /\ c.on = 0 /\ c.current_addr = addr /\ c.addr_last = last
  BY <1>5, <1>8, <1>9, <1>10 DEF Buffers, SamePlace
<1>12. Holds(c, q)
  <2>1. IsRing(c, q)
    BY <1>8, <1>11 DEF IsRing
  <2>2. Place(q, 0) = BufferHead /\ 0 \in 0..Len(q)
    BY <1>2, PlaceIs
  <2>3. QED
    BY <1>4, <1>11, <2>1, <2>2 DEF Holds
<1>. PICK us2, h, Q : us2 = Inverted(us) /\ h = Reversed(hist, n) /\ Q = Mirrored(P, n)
  OBVIOUS
<1>13. Len(us2) = n
  BY <1>2, InvertedIs
<1>14. History(us2, h, Q) /\ NoLines(us2, h)
  BY <1>2, <1>3, HistoryReversed, NoLinesReversed
<1>15. Loose(c, us2, h, n)
  <2>1. Loose(c, us, hist, 0)
    BY <1>8, <1>11 DEF Loose, Dangling
  <2>2. QED
    BY <1>3, <2>1, LooseReversed
<1>16. h[n] = q /\ h[0] = s
  <2>1. n \in 0..n /\ n - n = 0 /\ 0 \in 0..n /\ n - 0 = n
    OBVIOUS
  <2>2. QED
    BY <1>2, <2>1 DEF Reversed
<1>17. Known(h, n) = Known(hist, n)
  BY KnownReversed
<1>18. Past(c, us2, hp, h, Q)
  BY <1>3, <1>12, <1>13, <1>14, <1>15, <1>16, <1>17 DEF Past
<1>19. Noted(s, b.current_addr, b.addr_last, Text(b))
  BY <1>2, TextNoted
<1>20. Kept(c, us2, hp, b.current_addr, b.addr_last, Text(b))
  BY <1>16, <1>18, <1>19 DEF Kept
<1>21. Headless(us) => Headless(us2)
  BY <1>2, HeadlessInverted
<1>22. Text(c) = bf
  <2>1. Lines(c) = q
    BY <1>12, HoldsIs
  <2>2. QED
    BY <1>4, <1>11, <2>1 DEF Text
<1>23. bf \in [lines : Seq(Nodes), dot : Nat]
  BY <1>4, <1>10
<1>24. QED
  BY <1>13, <1>20, <1>21, <1>22, <1>23

(* Undoing at any point gives a sound ring.                                *)
LEMMA KeptRestored ==
    ASSUME NEW b, NEW us, NEW hp, NEW addr, NEW last, NEW bf,
           Kept(b, us, hp, addr, last, bf), addr # -1, last # -1
    PROVE  RingOf([UndoneAll(b, us) EXCEPT !.addr_last = last]) /\ addr <= last
<1>1. PICK hist, P : Past(b, us, hp, hist, P) /\ Noted(hist[0], addr, last, bf)
  BY DEF Kept
<1>. PICK q : q = hist[0]
  OBVIOUS
<1>. PICK n \in Nat : n = Len(us)
  BY <1>1, PastIs
<1>2. History(us, hist, P) /\ Loose(b, us, hist, n) /\ Holds(b, hist[n])
  BY <1>1 DEF Past
<1>3. b \in Buffers /\ IsRing(b, hist[n])
  BY <1>2 DEF Holds
<1>4. addr \in 0..Len(q) /\ last = Len(q)
  BY <1>1 DEF Noted
<1>. PICK b1, c : b1 = UndoneAll(b, us) /\ c = [b1 EXCEPT !.addr_last = last]
  OBVIOUS
<1>5. b1 \in Buffers /\ IsRing(b1, q)
  BY <1>2, <1>3, UndoneAllIs
<1>6. c.forw = b1.forw /\ c.back = b1.back /\ c.addr_last = Len(q)
  BY <1>4, <1>5 DEF Buffers
<1>7. IsRing(c, q)
  BY <1>5, <1>6 DEF IsRing
<1>8. RingOf(c)
  BY <1>6, <1>7, RingOfIs
<1>9. Len(q) \in Nat
  BY <1>1, PastIs, LinesAre
<1>10. QED
  BY <1>4, <1>8, <1>9
-----------------------------------------------------------------------------
(* What is allocated                                                       *)

LEMMA EntryKnown ==
    ASSUME NEW us, NEW hist, NEW P, Course(us, hist), Pairs(us, hist, P),
           NEW i \in 1..Len(us)
    PROVE  us[i].h \in Known(hist, Len(us)) /\ us[i].t \in Known(hist, Len(us))
<1>. PICK n \in Nat : n = Len(us)
  BY LenProperties DEF Course
<1>1. /\ i - 1 \in 0..n /\ i \in 0..n /\ hist[i - 1] \in Rings /\ hist[i] \in Rings
      /\ us[i].type \in {"UADD", "UDEL", "UMOV"} /\ Changed(hist[i - 1], hist[i], us[i])
  BY EntryIs
<1>2. hist \in [0..n -> Rings] /\ P \subseteq 2..n
  BY DEF Course, Pairs
<1>3. \A j \in 0..n : OnRing(hist[j]) \subseteq Known(hist, n)
  BY DEF Known
<1>4. CASE us[i].type = "UADD"
  <2>1. Inserted(hist[i - 1], hist[i], us[i])
    BY <1>1, <1>4 DEF Changed
  <2>2. us[i].h \in OnRing(hist[i]) /\ us[i].t \in OnRing(hist[i])
    BY <1>1, <2>1, InsertedRings
  <2>3. QED
    BY <1>1, <1>3, <2>2
<1>5. CASE us[i].type = "UDEL"
  <2>1. Inserted(hist[i], hist[i - 1], us[i])
    BY <1>1, <1>5 DEF Changed
  <2>2. us[i].h \in OnRing(hist[i - 1]) /\ us[i].t \in OnRing(hist[i - 1])
    BY <1>1, <2>1, InsertedRings
  <2>3. QED
    BY <1>1, <1>3, <2>2
<1>6. CASE us[i].type = "UMOV"
  <2>1. ASSUME NEW q \in Rings, NEW r, NEW d, NEW e, Moved(q, r, d, e)
        PROVE  {d.h, d.t, e.h, e.t} \subseteq OnRing(q)
    <3>1. PICK u, v, a : /\ Movable(Len(q), u, v, a)
                         /\ d.h = Place(q, u - 1) /\ d.t = Place(q, v + 1)
                         /\ e.h = Place(q, a) /\ e.t = Place(q, a + 1)
      BY <2>1 DEF Moved
    <3>2. Len(q) \in Nat
      BY LinesAre
    <3>3. /\ u - 1 \in 0..(Len(q) + 1) /\ v + 1 \in 0..(Len(q) + 1)
          /\ a \in 0..(Len(q) + 1) /\ a + 1 \in 0..(Len(q) + 1)
      BY <3>1, <3>2 DEF Movable
    <3>4. \A k \in 0..(Len(q) + 1) : Place(q, k) \in OnRing(q)
      BY PlaceIs
    <3>5. QED
      BY <3>1, <3>3, <3>4
  <2>2. CASE i \in P
    <3>1. Moved(hist[i - 2], hist[i], us[i - 1], us[i]) /\ i - 2 \in 0..n
      BY <1>2, <2>2 DEF Pairs
    <3>2. hist[i - 2] \in Rings /\ OnRing(hist[i - 2]) \subseteq Known(hist, n)
      BY <1>2, <1>3, <3>1
    <3>3. QED
      BY <2>1, <3>1, <3>2
  <2>3. CASE i + 1 \in P
    <3>1. (i + 1) - 2 = i - 1 /\ (i + 1) - 1 = i
      OBVIOUS
    <3>2. Moved(hist[(i + 1) - 2], hist[i + 1], us[(i + 1) - 1], us[i + 1])
      BY <2>3 DEF Pairs
    <3>3. Moved(hist[i - 1], hist[i + 1], us[i], us[i + 1])
      BY <3>1, <3>2
    <3>4. OnRing(hist[i - 1]) \subseteq Known(hist, n)
      BY <1>1, <1>3
    <3>5. QED
      BY <1>1, <2>1, <3>3, <3>4
  <2>4. QED
    BY <1>6, <2>2, <2>3 DEF Pairs
<1>7. QED
  BY <1>1, <1>4, <1>5, <1>6

LEMMA PastCutOut ==
    ASSUME NEW b, NEW us, NEW hp, NEW hist, NEW P, Past(b, us, hp, hist, P)
    PROVE  \A i \in 1..Len(us) :
              us[i].type = "UDEL" => CutOut(b, us[i]) = OnRing(hist[i - 1]) \ OnRing(hist[i])
<1>1. Course(us, hist) /\ NoLines(us, hist) /\ Loose(b, us, hist, Len(us))
  BY PastIs DEF Past
<1>2. Holds(b, hist[Len(us)])
  BY DEF Past
<1>3. Closed(b, us)
  BY <1>1, <1>2, ClosedIs
<1>4. b.forw \in Links
  BY <1>2 DEF Holds, IsRing
<1>5. /\ Course(us, hist) /\ b.forw \in Links
      /\ Loose(b, us, hist, Len(us)) /\ Closed(b, us)
  BY <1>1, <1>3, <1>4
<1>6. ASSUME NEW i, i \in 1..Len(us) /\ us[i].type = "UDEL"
      PROVE  CutOut(b, us[i]) = OnRing(hist[i - 1]) \ OnRing(hist[i])
  BY <1>5, <1>6, CutOutIs
<1>7. QED
  BY <1>6

Removed(us) == { i \in DOMAIN us : us[i].type = "UDEL" }

LEMMA KeptAccounted ==
    ASSUME NEW b, NEW us, NEW hp, NEW addr, NEW last, NEW bf,
           Kept(b, us, hp, addr, last, bf)
    PROVE  /\ hp = InBuffer(b) \cup UNION { CutOut(b, us[i]) : i \in Removed(us) }
           /\ \A i \in Removed(us) : CutOut(b, us[i]) \cap InBuffer(b) = {}
           /\ \A i, j \in Removed(us) : i # j => CutOut(b, us[i]) \cap CutOut(b, us[j]) = {}
           /\ \A i \in DOMAIN us : {us[i].h, us[i].t} \subseteq hp \cup {BufferHead}
<1>0. Removed(us) = { i \in DOMAIN us : us[i].type = "UDEL" }
  BY DEF Removed
<1>1. PICK hist, P : Past(b, us, hp, hist, P) /\ Noted(hist[0], addr, last, bf)
  BY DEF Kept
<1>5. \A k \in 1..Len(us) :
         us[k].type = "UDEL" => CutOut(b, us[k]) = OnRing(hist[k - 1]) \ OnRing(hist[k])
  BY <1>1, PastCutOut
<1>. PICK s : s = Lines(b)
  OBVIOUS
<1>. PICK n \in Nat : n = Len(us)
  BY <1>1, PastIs
<1>2. /\ s \in Rings /\ s = hist[n] /\ Holds(b, s) /\ us \in Seq(Entries)
      /\ Course(us, hist) /\ Pairs(us, hist, P) /\ BufferHead \notin hp
  BY <1>1, PastIs
<1>3. /\ Loose(b, us, hist, n) /\ hp \cup {BufferHead} = Known(hist, n)
      /\ NoLines(us, hist)
  BY <1>1 DEF Past
<1>4. DOMAIN us = 1..n
  BY <1>2, LenProperties
<1>6. ASSUME NEW i \in 1..n, us[i].type = "UDEL"
      PROVE  CutOut(b, us[i]) = OnRing(hist[i - 1]) \ OnRing(hist[i])
  BY <1>5, <1>6
<1>7. InBuffer(b) = OnRing(s) \ {BufferHead} /\ BufferHead \in OnRing(s)
  BY <1>2, HoldsIs, PlaceIs
<1>8. ASSUME NEW i \in Removed(us), NEW x \in CutOut(b, us[i])
      PROVE  x \in Known(hist, n) /\ \A k \in i..n : x \notin OnRing(hist[k])
  <2>1. i \in 1..n /\ us[i].type = "UDEL"
    BY <1>0, <1>4
  <2>2. x \in OnRing(hist[i - 1]) \ OnRing(hist[i])
    BY <1>6, <1>8, <2>1
  <2>3. \A k \in i..n : x \in Known(hist, n) /\ x \notin OnRing(hist[k])
    BY <1>2, <2>1, <2>2, GoneFor
  <2>4. n \in i..n
    BY <2>1
  <2>5. QED
    BY <2>3, <2>4
<1>9. ASSUME NEW x \in Known(hist, n), x \notin OnRing(s)
      PROVE  \E i \in Removed(us) : x \in CutOut(b, us[i])
  <2>1. PICK i \in 1..n : us[i].type = "UDEL" /\ x \in OnRing(hist[i - 1]) \ OnRing(hist[i])
    BY <1>2, <1>9, GoneIs
  <2>2. i \in Removed(us) /\ x \in CutOut(b, us[i])
    BY <1>0, <1>4, <1>6, <2>1
  <2>3. QED
    BY <2>2
<1>10. \A i \in Removed(us) : CutOut(b, us[i]) \cap OnRing(s) = {}
  <2>1. \A i \in Removed(us) : n \in i..n
    BY <1>0, <1>4
  <2>2. QED
    BY <1>2, <1>8, <2>1
<1>11. OnRing(s) \subseteq Known(hist, n)
  <2>1. n \in 0..n
    OBVIOUS
  <2>2. QED
    BY <1>2, <2>1 DEF Known
<1>12. hp = InBuffer(b) \cup UNION { CutOut(b, us[i]) : i \in Removed(us) }
  <2>1. ASSUME NEW x \in hp
        PROVE  x \in InBuffer(b) \cup UNION { CutOut(b, us[i]) : i \in Removed(us) }
    BY <1>2, <1>3, <1>7, <1>9
  <2>2. ASSUME NEW x \in InBuffer(b)
        PROVE  x \in hp
    BY <1>3, <1>7, <1>11
  <2>3. ASSUME NEW i \in Removed(us), NEW x \in CutOut(b, us[i])
        PROVE  x \in hp
    BY <1>3, <1>7, <1>8, <1>10
  <2>4. QED
    BY <2>1, <2>2, <2>3
<1>13. ASSUME NEW i \in Removed(us), NEW j \in Removed(us), i < j
       PROVE  CutOut(b, us[i]) \cap CutOut(b, us[j]) = {}
  <2>1. i \in 1..n /\ j \in 1..n /\ us[j].type = "UDEL" /\ j - 1 \in i..n
    BY <1>0, <1>4, <1>13
  <2>2. CutOut(b, us[j]) \subseteq OnRing(hist[j - 1])
    BY <1>6, <2>1
  <2>3. QED
    BY <1>8, <2>1, <2>2
<1>14. ASSUME NEW i \in Removed(us), NEW j \in Removed(us), i # j
       PROVE  CutOut(b, us[i]) \cap CutOut(b, us[j]) = {}
  <2>1. i \in 1..n /\ j \in 1..n
    BY <1>0, <1>4
  <2>2. i < j \/ j < i
    BY <1>14, <2>1
  <2>3. QED
    BY <1>13, <2>2
<1>15. \A i \in DOMAIN us : {us[i].h, us[i].t} \subseteq hp \cup {BufferHead}
  BY <1>2, <1>3, <1>4, EntryKnown
<1>16. QED
  BY <1>7, <1>10, <1>12, <1>14, <1>15

-----------------------------------------------------------------------------
(* The inductive invariant                                                 *)

(* What a command that deletes lines does next.                            *)
Then == { Inserting("a"), [op |-> "after_d"], [op |-> "join"], [op |-> "reopen"] }

Inserts == [op : {"insert"}, by : {"a", "r", "e"}, up : BOOLEAN]
Deletes == [op : {"delete"}, from : Nat, to : Nat, then : Then]
Moves == [op : {"move"}, from : Nat, to : Nat, addr : Nat]
Copies == [op : {"copy"}, up : BOOLEAN, n : Nat, m : Nat]
Substs == [op : {"subst"}, left : Nat, xa : Nat]
Replaces == [op : {"replace"}, left : Nat, up : BOOLEAN]

(* The tasks there are.                                                    *)
Doing(t) ==
    \/ t = Idle \/ t \in Inserts \/ t \in Deletes \/ t \in Then \/ t \in Moves
    \/ t \in Copies \/ t \in Substs \/ t \in Replaces

(* The addresses of a task are in the buffer, and the entry that the next  *)
(* line is to extend ends at the current line.                             *)
Ready(t, b, us) ==
    LET last == Len(Lines(b)) IN
    /\ t.op \in {"insert", "copy", "replace"} /\ t.up => Continues(b, us)
    /\ t.op = "delete" =>
          /\ Whole(Lines(b), t.from, t.to)
          /\ IF t.then.op = "reopen" THEN t.from = 1 /\ t.to = last
             ELSE t.from <= t.to
    /\ t.op = "move" =>
          /\ t.from \in 1..last /\ t.to \in t.from..last /\ t.addr \in 0..last
          /\ ~(t.from <= t.addr /\ t.addr < t.to)
    /\ t.op = "subst" => b.current_addr + t.left <= last /\ t.xa <= last
    /\ t.op = "replace" => b.current_addr + t.left <= last

(* An entry for no lines stays on the stack only until e, or the command   *)
(* after an interrupted e, clears it.                                      *)
Between(t, global) ==
    \/ t.op = "reopen"
    \/ ~global /\ (t = Idle \/ (t.op = "delete" /\ t.then.op = "reopen"))

Listed(global, list, s) ==
    list \in Seq(Nodes) /\ (global => list \in Seq(OnRing(s)))

Flags == isglobal \in BOOLEAN /\ modified \in BOOLEAN /\ changed \in BOOLEAN

Undoing == Kept(buf, ustack, heap, u_current_addr, u_addr_last, before)

Inv ==
    /\ Undoing
    /\ Len(ustack) <= MaxUndo
    /\ Flags
    /\ Listed(isglobal, active, Lines(buf))
    /\ Doing(task) /\ Ready(task, buf, ustack)
    /\ Headless(ustack) \/ Between(task, isglobal)

LEMMA TasksAre ==
    ASSUME NEW t, Doing(t)
    PROVE  /\ t.op = "idle" => t = Idle
           /\ t.op = "insert" => t \in Inserts
           /\ t.op = "delete" => t \in Deletes
           /\ t.op = "move" => t \in Moves
           /\ t.op = "copy" => t \in Copies
           /\ t.op = "subst" => t \in Substs
           /\ t.op = "replace" => t \in Replaces
<1>1. Inserting("a") \in Inserts
  BY DEF Inserts, Inserting
<1>2. /\ [op |-> "after_d"].op = "after_d" /\ [op |-> "join"].op = "join"
      /\ [op |-> "reopen"].op = "reopen"
  OBVIOUS
<1>3. t \in Then => t \in Inserts \/ t.op \in {"after_d", "join", "reopen"}
  BY <1>1, <1>2 DEF Then
<1>4. QED
  BY <1>3 DEF Doing, Idle, Inserts, Deletes, Moves, Copies, Substs, Replaces

(* A task that relies on nothing.                                          *)
Free(t) ==
    \/ t.op \in {"idle", "after_d", "join", "reopen"}
    \/ t.op \in {"insert", "copy"} /\ ~t.up

LEMMA ReadyFree ==
    ASSUME NEW t, Free(t), NEW b, NEW us
    PROVE  Ready(t, b, us)
BY DEF Free, Ready

LEMMA FreeTasks ==
    /\ Doing(Idle) /\ Free(Idle)
    /\ \A by \in {"a", "r", "e"} :
          Doing(Inserting(by)) /\ Free(Inserting(by)) /\ Inserting(by).op = "insert"
    /\ Doing([op |-> "after_d"]) /\ Free([op |-> "after_d"])
    /\ Doing([op |-> "join"]) /\ Free([op |-> "join"])
    /\ Doing([op |-> "reopen"]) /\ Free([op |-> "reopen"])
<1>1. Doing(Idle) /\ Free(Idle)
  BY DEF Doing, Free, Idle
<1>2. ASSUME NEW by \in {"a", "r", "e"}
      PROVE  Doing(Inserting(by)) /\ Free(Inserting(by)) /\ Inserting(by).op = "insert"
  BY DEF Doing, Free, Inserting, Inserts
<1>3. QED
  BY <1>1, <1>2 DEF Doing, Free, Then

(* What the invariant says of the buffer.                                  *)
LEMMA InvIs ==
    ASSUME Inv
    PROVE  /\ Kept(buf, ustack, heap, u_current_addr, u_addr_last, before)
           /\ Holds(buf, Lines(buf)) /\ Lines(buf) \in Rings
           /\ Len(Lines(buf)) \in Nat /\ buf.addr_last = Len(Lines(buf))
           /\ buf.current_addr \in 0..Len(Lines(buf))
           /\ Len(ustack) \in Nat /\ ustack \in Seq(Entries)
           /\ heap \subseteq Nodes /\ BufferHead \notin heap
           /\ OnRing(Lines(buf)) \subseteq heap \cup {BufferHead}
<1>. PICK b, us, hp, addr, last, bf :
        /\ b = buf /\ us = ustack /\ hp = heap
        /\ addr = u_current_addr /\ last = u_addr_last /\ bf = before
  OBVIOUS
<1>1. Kept(b, us, hp, addr, last, bf)
  BY DEF Inv, Undoing
<1>2. /\ Len(us) \in Nat /\ us \in Seq(Entries)
      /\ Lines(b) \in Rings /\ Holds(b, Lines(b)) /\ hp \subseteq Nodes
      /\ OnRing(Lines(b)) \subseteq hp \cup {BufferHead} /\ BufferHead \notin hp
  BY <1>1, KeptIs
<1>3. Len(Lines(b)) \in Nat
  BY <1>2, LinesAre
<1>4. b.addr_last = Len(Lines(b)) /\ b.current_addr \in 0..Len(Lines(b))
  BY <1>2 DEF Holds
<1>5. QED
  BY <1>1, <1>2, <1>3, <1>4

LEMMA ListedLess ==
    ASSUME NEW global, NEW fewer, fewer => global, NEW list, NEW s,
           Listed(global, list, s)
    PROVE  Listed(fewer, list, s)
BY DEF Listed

LEMMA HeadlessTasks ==
    ASSUME Inv
    PROVE  /\ task.op \notin {"idle", "delete", "reopen"} => Headless(ustack)
           /\ isglobal /\ task.op # "reopen" /\ task.op # "delete" => Headless(ustack)
           /\ task.op = "delete" /\ task.then.op # "reopen" => Headless(ustack)
<1>1. Idle.op = "idle"
  BY DEF Idle
<1>2. QED
  BY <1>1 DEF Inv, Between

(* A step that leaves the ring and the undo stack as they are.             *)
LEMMA TextKept ==
    ASSUME Inv, Holds(buf', Lines(buf)), SameRing(buf, buf'),
           UNCHANGED << undoing, heap >>, Flags',
           Listed(isglobal', active', Lines(buf)), Doing(task'),
           Ready(task', buf', ustack), Headless(ustack) \/ Between(task', isglobal')
    PROVE  Inv'
<1>. PICK b, c, us, hp, addr, last, bf :
        /\ b = buf /\ c = buf' /\ us = ustack /\ hp = heap
        /\ addr = u_current_addr /\ last = u_addr_last /\ bf = before
  OBVIOUS
<1>1. Kept(b, us, hp, addr, last, bf) /\ Holds(c, Lines(b)) /\ SameRing(b, c)
  BY DEF Inv, Undoing
<1>2. Kept(c, us, hp, addr, last, bf) /\ Lines(c) = Lines(b)
  BY <1>1, KeptLinks
<1>3. /\ ustack' = ustack /\ heap' = heap /\ u_current_addr' = u_current_addr
      /\ u_addr_last' = u_addr_last /\ before' = before
  BY DEF undoing
<1>4. Undoing' /\ Lines(buf') = Lines(buf)
  BY <1>2, <1>3 DEF Undoing
<1>5. Len(ustack') <= MaxUndo
  BY <1>3 DEF Inv
<1>6. /\ Listed(isglobal', active', Lines(buf')) /\ Ready(task', buf', ustack')
      /\ Headless(ustack') \/ Between(task', isglobal')
  BY <1>3, <1>4
<1>7. QED
  BY <1>4, <1>5, <1>6 DEF Inv

(* The same, when nothing of the buffer changes.                           *)
LEMMA BufferKept ==
    ASSUME Inv, UNCHANGED << buf, undoing, heap >>, Flags',
           Listed(isglobal', active', Lines(buf)), Doing(task'),
           Ready(task', buf, ustack), Headless(ustack) \/ Between(task', isglobal')
    PROVE  Inv'
<1>1. Holds(buf, Lines(buf)) /\ buf' = buf
  BY InvIs
<1>2. Holds(buf', Lines(buf)) /\ SameRing(buf, buf') /\ Ready(task', buf', ustack)
  BY <1>1 DEF SameRing
<1>3. UNCHANGED << undoing, heap >>
  OBVIOUS
<1>4. QED
  BY <1>2, <1>3, TextKept

LEMMA InterruptStep == Inv /\ Interrupt => Inv'
<1>. SUFFICES ASSUME Inv, Interrupt PROVE Inv'
  OBVIOUS
<1>1. task' = Idle /\ isglobal' = FALSE
  BY DEF Interrupt, Error
<1>2. UNCHANGED << buf, undoing, heap >> /\ active' = active /\ Flags'
  BY <1>1 DEF Interrupt, Inv, Flags
<1>3. Listed(isglobal', active', Lines(buf))
  BY <1>1, <1>2 DEF Inv, Listed
<1>4. Doing(task') /\ Ready(task', buf, ustack) /\ Between(task', isglobal')
  BY <1>1, FreeTasks, ReadyFree DEF Between
<1>5. QED
  BY <1>2, <1>3, <1>4, BufferKept

LEMMA WarnStep == Inv /\ Warn => Inv'
<1>. SUFFICES ASSUME Inv, Warn PROVE Inv'
  OBVIOUS
<1>1. task' = Idle /\ isglobal' = FALSE
  BY DEF Warn, Error
<1>2. UNCHANGED << buf, undoing, heap >> /\ active' = active /\ Flags'
  BY <1>1 DEF Warn, Inv, Flags
<1>3. Listed(isglobal', active', Lines(buf))
  BY <1>1, <1>2 DEF Inv, Listed
<1>4. Doing(task') /\ Ready(task', buf, ustack) /\ Between(task', isglobal')
  BY <1>1, FreeTasks, ReadyFree DEF Between
<1>5. QED
  BY <1>2, <1>3, <1>4, BufferKept

LEMMA GlobalEndStep == Inv /\ GlobalEnd => Inv'
<1>. SUFFICES ASSUME Inv, GlobalEnd PROVE Inv'
  OBVIOUS
<1>1. task = Idle /\ task' = Idle /\ isglobal' = FALSE
  BY DEF GlobalEnd
<1>2. UNCHANGED << buf, undoing, heap >> /\ active' = active /\ Flags'
  BY <1>1 DEF GlobalEnd, Inv, Flags
<1>3. Listed(isglobal', active', Lines(buf))
  BY <1>1, <1>2 DEF Inv, Listed
<1>4. Doing(task') /\ Ready(task', buf, ustack) /\ Between(task', isglobal')
  BY <1>1, FreeTasks, ReadyFree DEF Between
<1>5. QED
  BY <1>2, <1>3, <1>4, BufferKept

LEMMA InsertEndStep == Inv /\ InsertEnd => Inv'
<1>. SUFFICES ASSUME Inv, InsertEnd PROVE Inv'
  OBVIOUS
<1>1. task.op = "insert" /\ task' = Idle
  BY DEF InsertEnd
<1>2. UNCHANGED << buf, undoing, heap >> /\ active' = active /\ isglobal' = isglobal
  BY DEF InsertEnd
<1>3. task \in Inserts
  BY <1>1, TasksAre DEF Inv
<1>4. Flags'
  <2>1. modified' \in BOOLEAN
    BY DEF InsertEnd
  <2>2. QED
    BY <2>1 DEF InsertEnd, Inv, Flags
<1>5. Listed(isglobal', active', Lines(buf))
  BY <1>2 DEF Inv
<1>6. Doing(task') /\ Ready(task', buf, ustack)
  BY <1>1, FreeTasks, ReadyFree
<1>7. Headless(ustack)
  BY <1>1, HeadlessTasks
<1>8. QED
  BY <1>2, <1>4, <1>5, <1>6, <1>7, BufferKept

LEMMA ReplacedStep == Inv /\ Replaced => Inv'
<1>. SUFFICES ASSUME Inv, Replaced PROVE Inv'
  OBVIOUS
<1>1. /\ task.op = "replace"
      /\ task' = [op |-> "subst", left |-> task.left, xa |-> buf.current_addr]
  BY DEF Replaced
<1>2. UNCHANGED << buf, undoing, heap >> /\ active' = active /\ isglobal' = isglobal
  BY DEF Replaced
<1>3. Flags'
  BY DEF Replaced, Inv, Flags
<1>4. Listed(isglobal', active', Lines(buf))
  BY <1>2 DEF Inv
<1>5. task \in Replaces
  BY <1>1, TasksAre DEF Inv
<1>6. buf.current_addr \in 0..Len(Lines(buf)) /\ Len(Lines(buf)) \in Nat
  BY InvIs
<1>7. task' \in Substs
  BY <1>1, <1>5, <1>6 DEF Replaces, Substs
<1>8. buf.current_addr + task.left <= Len(Lines(buf))
  BY <1>1 DEF Inv, Ready
<1>9. Ready(task', buf, ustack)
  <2>1. /\ task'.op = "subst" /\ task'.left = task.left /\ task'.xa = buf.current_addr
    BY <1>1
  <2>2. QED
    BY <1>6, <1>8, <2>1 DEF Ready
<1>10. Headless(ustack)
  BY <1>1, HeadlessTasks
<1>11. QED
  BY <1>2, <1>3, <1>4, <1>7, <1>9, <1>10, BufferKept DEF Doing

LEMMA EditFileStep == Inv /\ EditFile => Inv'
<1>. SUFFICES ASSUME Inv, EditFile PROVE Inv'
  OBVIOUS
<1>1. task = Idle /\ task' = Deleting(1, buf.addr_last, [op |-> "reopen"])
  BY DEF EditFile
<1>2. UNCHANGED << buf, undoing, heap >> /\ active' = active /\ isglobal' = isglobal
  BY DEF EditFile
<1>3. Flags'
  BY DEF EditFile, Inv, Flags
<1>4. Listed(isglobal', active', Lines(buf))
  BY <1>2 DEF Inv
<1>5. buf.addr_last = Len(Lines(buf)) /\ Len(Lines(buf)) \in Nat
  BY InvIs
<1>6. /\ task'.op = "delete" /\ task'.from = 1 /\ task'.to = Len(Lines(buf))
      /\ task'.then = [op |-> "reopen"] /\ task'.then.op = "reopen"
  BY <1>1, <1>5 DEF Deleting
<1>7. Doing(task')
  BY <1>1, <1>5 DEF Doing, Deletes, Deleting, Then
<1>8. Whole(Lines(buf), 1, Len(Lines(buf)))
  BY <1>5 DEF Whole
<1>9. Ready(task', buf, ustack)
  BY <1>6, <1>8 DEF Ready
<1>10. Headless(ustack) \/ Between(task', isglobal')
  BY <1>1, <1>2, <1>6 DEF Inv, Between, Idle
<1>11. QED
  BY <1>2, <1>3, <1>4, <1>7, <1>9, <1>10, BufferKept

LEMMA SeekRing ==
    ASSUME NEW b, NEW s, Holds(b, s), NEW n \in Nat
    PROVE  /\ Holds(Seek(b, n), s) /\ SameRing(b, Seek(b, n))
           /\ Seek(b, n).current_addr = b.current_addr
BY SeekIs DEF SameLinks, SameRing

LEMMA AtRing ==
    ASSUME NEW b, NEW s, Holds(b, s), NEW n \in 0..Len(s)
    PROVE  Holds(At(b, n), s) /\ SameRing(b, At(b, n)) /\ At(b, n).current_addr = n
BY AtIs DEF SameRing

LEMMA SameRings ==
    ASSUME NEW b, NEW c, NEW d, SameRing(b, c), SameRing(c, d)
    PROVE  SameRing(b, d)
BY DEF SameRing

LEMMA ReadyMoved ==
    ASSUME NEW t, NEW b, NEW c, NEW us, Ready(t, b, us), Lines(c) = Lines(b),
           c.current_addr = b.current_addr
    PROVE  Ready(t, c, us)
BY DEF Ready, Continues

LEMMA WriteFileStep == Inv /\ WriteFile => Inv'
<1>. SUFFICES ASSUME Inv, WriteFile PROVE Inv'
  OBVIOUS
<1>. PICK n \in Nat : n = IF buf.addr_last = 0 THEN 0 ELSE 1
  OBVIOUS
<1>1. buf' = Seek(buf, n) /\ UNCHANGED << undoing, heap >>
  BY DEF WriteFile
<1>2. active' = active /\ isglobal' = isglobal /\ task' = task
  BY DEF WriteFile
<1>3. Flags'
  BY DEF WriteFile, Inv, Flags
<1>4. Holds(buf, Lines(buf))
  BY InvIs
<1>5. /\ Holds(buf', Lines(buf)) /\ SameRing(buf, buf')
      /\ buf'.current_addr = buf.current_addr
  BY <1>1, <1>4, SeekRing
<1>6. Lines(buf') = Lines(buf)
  BY <1>5, HoldsIs
<1>7. Ready(task', buf', ustack)
  BY <1>2, <1>5, <1>6, ReadyMoved DEF Inv
<1>8. /\ Listed(isglobal', active', Lines(buf)) /\ Doing(task')
      /\ Headless(ustack) \/ Between(task', isglobal')
  BY <1>2 DEF Inv
<1>9. QED
  BY <1>1, <1>3, <1>5, <1>7, <1>8, TextKept

LEMMA AfterDeleteStep == Inv /\ AfterDelete => Inv'
<1>. SUFFICES ASSUME Inv, AfterDelete PROVE Inv'
  OBVIOUS
<1>1. task.op = "after_d" /\ task' = Idle /\ UNCHANGED << undoing, heap >>
  BY DEF AfterDelete
<1>2. active' = active /\ isglobal' = isglobal
  BY DEF AfterDelete
<1>3. Flags'
  BY DEF AfterDelete, Inv, Flags
<1>4. /\ Holds(buf, Lines(buf)) /\ buf.current_addr \in 0..Len(Lines(buf))
      /\ buf.addr_last = Len(Lines(buf)) /\ Len(Lines(buf)) \in Nat
  BY InvIs
<1>5. IncMod(buf.current_addr, buf.addr_last) \in 0..Len(Lines(buf))
  BY <1>4 DEF IncMod
<1>6. Holds(buf', Lines(buf)) /\ SameRing(buf, buf')
  <2>1. buf' = At(buf, IncMod(buf.current_addr, buf.addr_last)) \/ buf' = buf
    BY DEF AfterDelete
  <2>2. CASE buf' = buf
    BY <1>4, <2>2 DEF SameRing
  <2>3. CASE buf' = At(buf, IncMod(buf.current_addr, buf.addr_last))
    BY <1>4, <1>5, <2>3, AtRing
  <2>4. QED
    BY <2>1, <2>2, <2>3
<1>7. Doing(task') /\ Ready(task', buf', ustack)
  BY <1>1, FreeTasks, ReadyFree
<1>8. Listed(isglobal', active', Lines(buf)) /\ Headless(ustack)
  BY <1>1, <1>2, HeadlessTasks DEF Inv
<1>9. QED
  BY <1>1, <1>3, <1>6, <1>7, <1>8, TextKept

LEMMA SubstituteEndStep == Inv /\ SubstituteEnd => Inv'
<1>. SUFFICES ASSUME Inv, SubstituteEnd PROVE Inv'
  OBVIOUS
<1>1. /\ task.op = "subst" /\ task' = Idle /\ buf' = At(buf, task.xa)
      /\ UNCHANGED << undoing, heap >>
  BY DEF SubstituteEnd
<1>2. active' = active /\ isglobal' = isglobal
  BY DEF SubstituteEnd
<1>3. Flags'
  BY DEF SubstituteEnd, Inv, Flags
<1>4. Holds(buf, Lines(buf)) /\ Len(Lines(buf)) \in Nat
  BY InvIs
<1>5. task.xa \in 0..Len(Lines(buf))
  <2>1. task \in Substs /\ task.xa <= Len(Lines(buf))
    BY <1>1, TasksAre DEF Inv, Ready
  <2>2. QED
    BY <1>4, <2>1 DEF Substs
<1>6. Holds(buf', Lines(buf)) /\ SameRing(buf, buf')
  BY <1>1, <1>4, <1>5, AtRing
<1>7. Doing(task') /\ Ready(task', buf', ustack)
  BY <1>1, FreeTasks, ReadyFree
<1>8. Listed(isglobal', active', Lines(buf)) /\ Headless(ustack)
  BY <1>1, <1>2, HeadlessTasks DEF Inv
<1>9. QED
  BY <1>1, <1>3, <1>6, <1>7, <1>8, TextKept

(* A substitution is at a line of the buffer.                              *)
LEMMA SubstAt ==
    ASSUME Inv, task.op = "subst", task.left > 0
    PROVE  /\ buf.current_addr + 1 \in 1..Len(Lines(buf))
           /\ task \in Substs /\ task.left - 1 \in Nat
           /\ (buf.current_addr + 1) + (task.left - 1) <= Len(Lines(buf))
           /\ task.xa <= Len(Lines(buf))
<1>1. /\ task \in Substs /\ buf.current_addr + task.left <= Len(Lines(buf))
      /\ task.xa <= Len(Lines(buf))
  BY TasksAre DEF Inv, Ready
<1>2. buf.current_addr \in Nat /\ Len(Lines(buf)) \in Nat
  BY InvIs
<1>3. task.left \in Nat
  BY <1>1 DEF Substs
<1>4. QED
  BY <1>1, <1>2, <1>3

LEMMA NoMatchStep == Inv /\ NoMatch => Inv'
<1>. SUFFICES ASSUME Inv, NoMatch PROVE Inv'
  OBVIOUS
<1>1. /\ task.op = "subst" /\ task.left > 0 /\ task' = [task EXCEPT !.left = @ - 1]
      /\ buf' = Seek(At(buf, buf.current_addr + 1), buf.current_addr + 1)
      /\ UNCHANGED << undoing, heap >>
  BY DEF NoMatch
<1>2. active' = active /\ isglobal' = isglobal
  BY DEF NoMatch
<1>3. Flags'
  BY DEF NoMatch, Inv, Flags
<1>4. Holds(buf, Lines(buf)) /\ Len(Lines(buf)) \in Nat
  BY InvIs
<1>5. /\ buf.current_addr + 1 \in 1..Len(Lines(buf))
      /\ task \in Substs /\ task.left - 1 \in Nat
      /\ (buf.current_addr + 1) + (task.left - 1) <= Len(Lines(buf))
      /\ task.xa <= Len(Lines(buf))
  BY <1>1, SubstAt
<1>6. PICK n \in 1..Len(Lines(buf)) : n = buf.current_addr + 1
  BY <1>5
<1>7. n \in 0..Len(Lines(buf)) /\ n \in Nat
  BY <1>4
<1>8. /\ Holds(At(buf, n), Lines(buf)) /\ SameRing(buf, At(buf, n))
      /\ At(buf, n).current_addr = n
  BY <1>4, <1>7, AtRing
<1>9. /\ Holds(buf', Lines(buf)) /\ SameRing(At(buf, n), buf') /\ buf'.current_addr = n
  BY <1>1, <1>6, <1>7, <1>8, SeekRing
<1>10. SameRing(buf, buf')
  BY <1>8, <1>9, SameRings
<1>11. Lines(buf') = Lines(buf)
  BY <1>9, HoldsIs
<1>12. /\ task' \in Substs /\ task'.op = "subst" /\ task'.left = task.left - 1
       /\ task'.xa = task.xa
  BY <1>1, <1>5 DEF Substs
<1>13. Ready(task', buf', ustack)
  <2>1. buf'.current_addr + task'.left <= Len(Lines(buf'))
    BY <1>5, <1>6, <1>9, <1>11, <1>12
  <2>2. task'.xa <= Len(Lines(buf'))
    BY <1>5, <1>11, <1>12
  <2>3. QED
    BY <1>12, <2>1, <2>2 DEF Ready
<1>14. Listed(isglobal', active', Lines(buf)) /\ Headless(ustack)
  BY <1>1, <1>2, HeadlessTasks DEF Inv
<1>15. QED
  BY <1>1, <1>3, <1>9, <1>10, <1>12, <1>13, <1>14, TextKept DEF Doing

LEMMA CopyRestStep == Inv /\ CopyRest => Inv'
<1>. SUFFICES ASSUME Inv, CopyRest PROVE Inv'
  OBVIOUS
<1>1. /\ task.op = "copy" /\ buf' = Seek(buf, buf.current_addr + 1)
      /\ task' = IF task.m = 0 THEN Idle ELSE [task EXCEPT !.n = task.m, !.m = 0]
      /\ UNCHANGED << undoing, heap >>
  BY DEF CopyRest
<1>2. active' = active /\ isglobal' = isglobal
  BY DEF CopyRest
<1>3. Flags'
  BY DEF CopyRest, Inv, Flags
<1>4. Holds(buf, Lines(buf)) /\ buf.current_addr + 1 \in Nat
  BY InvIs
<1>5. /\ Holds(buf', Lines(buf)) /\ SameRing(buf, buf')
      /\ buf'.current_addr = buf.current_addr
  BY <1>1, <1>4, SeekRing
<1>6. Lines(buf') = Lines(buf)
  BY <1>5, HoldsIs
<1>7. task \in Copies /\ (task.up => Continues(buf, ustack))
  BY <1>1, TasksAre DEF Inv, Ready
<1>8. Doing(task') /\ Ready(task', buf', ustack)
  <2>1. CASE task.m = 0
    BY <1>1, <2>1, FreeTasks, ReadyFree
  <2>2. CASE task.m # 0
    <3>1. task' \in Copies /\ task'.op = "copy" /\ task'.up = task.up
      BY <1>1, <1>7, <2>2 DEF Copies
    <3>2. task'.up => Continues(buf', ustack)
      BY <1>5, <1>6, <1>7, <3>1 DEF Continues
    <3>3. QED
      BY <3>1, <3>2 DEF Ready, Doing
  <2>3. QED
    BY <2>1, <2>2
<1>9. Listed(isglobal', active', Lines(buf)) /\ Headless(ustack)
  BY <1>1, <1>2, HeadlessTasks DEF Inv
<1>10. QED
  BY <1>1, <1>3, <1>5, <1>8, <1>9, TextKept

LEMMA NextActiveStep == Inv /\ NextActive => Inv'
<1>. SUFFICES ASSUME Inv, NextActive PROVE Inv'
  OBVIOUS
<1>1. PICK n \in 1..buf.addr_last : buf' = At(buf, n)
  BY DEF NextActive
<1>2. /\ task = Idle /\ task' = Idle /\ isglobal /\ isglobal' = isglobal
      /\ UNCHANGED << undoing, heap >> /\ active # << >> /\ active' = Tail(active)
  BY DEF NextActive
<1>3. Flags'
  BY DEF NextActive, Inv, Flags
<1>4. /\ Holds(buf, Lines(buf)) /\ buf.addr_last = Len(Lines(buf))
      /\ Len(Lines(buf)) \in Nat
  BY InvIs
<1>5. n \in 0..Len(Lines(buf))
  BY <1>4
<1>6. Holds(buf', Lines(buf)) /\ SameRing(buf, buf')
  BY <1>1, <1>4, <1>5, AtRing
<1>7. Doing(task') /\ Ready(task', buf', ustack)
  BY <1>2, FreeTasks, ReadyFree
<1>8. Listed(isglobal', active', Lines(buf))
  <2>1. active \in Seq(Nodes) /\ active \in Seq(OnRing(Lines(buf)))
    BY <1>2 DEF Inv, Listed
  <2>2. Tail(active) \in Seq(Nodes) /\ Tail(active) \in Seq(OnRing(Lines(buf)))
    BY <1>2, <2>1, HeadTailProperties
  <2>3. QED
    BY <1>2, <2>2 DEF Listed
<1>9. Headless(ustack)
  BY <1>2, HeadlessTasks DEF Idle
<1>10. QED
  BY <1>2, <1>3, <1>6, <1>7, <1>8, <1>9, TextKept

-----------------------------------------------------------------------------
(* Steps that clear the undo stack                                         *)

LEMMA HeadlessNone == Headless(<< >>) /\ Len(<< >>) = 0
BY DEF Headless

LEMMA ClearedHolds ==
    ASSUME Inv
    PROVE  /\ Holds(Cleared(buf), Lines(buf))
           /\ Cleared(buf).current_addr = buf.current_addr
           /\ Cleared(buf).addr_last = buf.addr_last
<1>1. Holds(buf, Lines(buf))
  BY InvIs
<1>. PICK addr, last, bf : addr = buf.current_addr /\ last = buf.addr_last /\ bf = Text(buf)
  OBVIOUS
<1>2. Noted(Lines(buf), addr, last, bf)
  BY <1>1, TextNoted
<1>3. Kept(buf, ustack, heap, u_current_addr, u_addr_last, before)
  BY InvIs
<1>4. QED
  BY <1>2, <1>3, KeptCleared

LEMMA ClearedKept ==
    ASSUME Inv, ClearUndo(buf, heap), Holds(buf', Lines(buf)), SameRing(Cleared(buf), buf'),
           Flags', Listed(isglobal', active', Lines(buf)), Doing(task'),
           Ready(task', buf', << >>)
    PROVE  Inv'
<1>. PICK c : c = buf'
  OBVIOUS
<1>1. /\ Kept(buf, ustack, heap, u_current_addr, u_addr_last, before)
      /\ Holds(c, Lines(buf)) /\ SameRing(Cleared(buf), c)
  BY InvIs
<1>2. /\ Kept(c, ustack', heap', u_current_addr', u_addr_last', before')
      /\ Lines(c) = Lines(buf) /\ ustack' = << >>
  BY <1>1, ClearUndoIs
<1>3. Undoing' /\ Lines(buf') = Lines(buf) /\ ustack' = << >>
  BY <1>2 DEF Undoing
<1>4. Len(ustack') <= MaxUndo /\ Headless(ustack')
  BY <1>3, HeadlessNone, UndoAssumption
<1>5. Listed(isglobal', active', Lines(buf')) /\ Ready(task', buf', ustack')
  BY <1>3
<1>6. QED
  BY <1>3, <1>4, <1>5 DEF Inv

LEMMA StartIs ==
    ASSUME Inv
    PROVE  /\ Holds(Start, Lines(buf))
           /\ Start.current_addr = buf.current_addr /\ Start.addr_last = buf.addr_last
<1>1. Holds(Cleared(buf), Lines(buf)) /\ Holds(buf, Lines(buf))
  BY InvIs, ClearedHolds
<1>2. QED
  BY <1>1, ClearedHolds DEF Start

LEMMA BeginKept ==
    ASSUME Inv, NEW b, NEW t, Begin(b, t), Holds(b, Lines(buf)), SameRing(Start, b),
           Doing(t), Ready(t, b, << >>), Ready(t, b, ustack)
    PROVE  Inv'
<1>1. /\ task = Idle /\ buf' = b /\ task' = t
      /\ isglobal' = isglobal /\ active' = active
  BY DEF Begin
<1>2. Flags'
  BY DEF Begin, Inv, Flags
<1>3. Holds(buf', Lines(buf)) /\ Doing(task') /\ Listed(isglobal', active', Lines(buf))
  BY <1>1 DEF Inv
<1>4. CASE isglobal
  <2>1. UNCHANGED << undoing, heap >> /\ SameRing(buf, buf')
    BY <1>1, <1>4 DEF Begin, Start
  <2>2. Headless(ustack)
    BY <1>1, <1>4, HeadlessTasks DEF Idle
  <2>3. Ready(task', buf', ustack)
    BY <1>1
  <2>4. QED
    BY <1>2, <1>3, <2>1, <2>2, <2>3, TextKept
<1>5. CASE ~isglobal
  <2>1. ClearUndo(buf, heap) /\ SameRing(Cleared(buf), buf')
    BY <1>1, <1>5 DEF Begin, Start
  <2>2. Ready(task', buf', << >>)
    BY <1>1
  <2>3. QED
    BY <1>2, <1>3, <2>1, <2>2, ClearedKept
<1>6. QED
  BY <1>4, <1>5

LEMMA SameItself == \A b : SameRing(b, b)
BY DEF SameRing

LEMMA AppendLinesStep == Inv /\ AppendLines => Inv'
<1>. SUFFICES ASSUME Inv, AppendLines PROVE Inv'
  OBVIOUS
<1>1. PICK n \in 0..buf.addr_last : Begin(At(Start, n), Inserting("a"))
  BY DEF AppendLines
<1>2. n \in 0..Len(Lines(buf)) /\ Holds(Start, Lines(buf))
  BY InvIs, StartIs
<1>3. Holds(At(Start, n), Lines(buf)) /\ SameRing(Start, At(Start, n))
  BY <1>2, AtRing
<1>4. Doing(Inserting("a")) /\ Free(Inserting("a"))
  BY FreeTasks
<1>5. QED
  BY <1>1, <1>3, <1>4, ReadyFree, BeginKept

LEMMA ReadFileStep == Inv /\ ReadFile => Inv'
<1>. SUFFICES ASSUME Inv, ReadFile PROVE Inv'
  OBVIOUS
<1>1. PICK n \in 0..buf.addr_last : Begin(At(Seek(Start, n), n), Inserting("r"))
  BY DEF ReadFile
<1>2. n \in 0..Len(Lines(buf)) /\ n \in Nat /\ Holds(Start, Lines(buf))
  BY InvIs, StartIs
<1>3. Holds(Seek(Start, n), Lines(buf)) /\ SameRing(Start, Seek(Start, n))
  BY <1>2, SeekRing
<1>4. /\ Holds(At(Seek(Start, n), n), Lines(buf))
      /\ SameRing(Seek(Start, n), At(Seek(Start, n), n))
  BY <1>2, <1>3, AtRing
<1>5. SameRing(Start, At(Seek(Start, n), n))
  BY <1>3, <1>4, SameRings
<1>6. Doing(Inserting("r")) /\ Free(Inserting("r"))
  BY FreeTasks
<1>7. QED
  BY <1>1, <1>4, <1>5, <1>6, ReadyFree, BeginKept

LEMMA RangesAre ==
    ASSUME Inv, NEW r \in Ranges
    PROVE  /\ r[1] \in 1..Len(Lines(buf)) /\ r[2] \in r[1]..Len(Lines(buf))
           /\ r[1] \in Nat /\ r[2] \in Nat /\ r[1] <= r[2]
           /\ Whole(Lines(buf), r[1], r[2])
<1>1. buf.addr_last = Len(Lines(buf)) /\ Len(Lines(buf)) \in Nat
  BY InvIs
<1>2. r[1] \in 1..Len(Lines(buf)) /\ r[2] \in 1..Len(Lines(buf)) /\ r[1] <= r[2]
  BY <1>1 DEF Ranges
<1>3. r[2] \in r[1]..Len(Lines(buf))
  BY <1>1, <1>2
<1>4. QED
  BY <1>1, <1>2, <1>3 DEF Whole

LEMMA DeletingReady ==
    ASSUME NEW b, NEW s, Holds(b, s), NEW from \in Nat, NEW to \in Nat, Whole(s, from, to),
           from <= to, NEW then \in Then, then.op # "reopen"
    PROVE  /\ Doing(Deleting(from, to, then))
           /\ \A us : Ready(Deleting(from, to, then), b, us)
<1>. PICK t : t = Deleting(from, to, then)
  OBVIOUS
<1>1. t.op = "delete" /\ t.from = from /\ t.to = to /\ t.then = then
  BY DEF Deleting
<1>2. t \in Deletes
  BY DEF Deleting, Deletes
<1>3. Lines(b) = s
  BY HoldsIs
<1>4. Whole(Lines(b), t.from, t.to) /\ t.then.op # "reopen" /\ t.from <= t.to
  BY <1>1, <1>3
<1>5. \A us : Ready(t, b, us)
  BY <1>1, <1>4 DEF Ready
<1>6. QED
  BY <1>2, <1>5 DEF Doing

LEMMA ChangeLinesStep == Inv /\ ChangeLines => Inv'
<1>. SUFFICES ASSUME Inv, ChangeLines PROVE Inv'
  OBVIOUS
<1>1. PICK r \in Ranges : Begin(Start, Deleting(r[1], r[2], Inserting("a")))
  BY DEF ChangeLines
<1>2. Holds(Start, Lines(buf)) /\ SameRing(Start, Start)
  BY StartIs, SameItself
<1>3. r[1] \in Nat /\ r[2] \in Nat /\ Whole(Lines(buf), r[1], r[2]) /\ r[1] <= r[2]
  BY RangesAre
<1>4. Inserting("a") \in Then /\ Inserting("a").op # "reopen"
  BY DEF Inserting, Then
<1>5. /\ Doing(Deleting(r[1], r[2], Inserting("a")))
      /\ \A us : Ready(Deleting(r[1], r[2], Inserting("a")), Start, us)
  BY <1>2, <1>3, <1>4, DeletingReady
<1>6. QED
  BY <1>1, <1>2, <1>5, BeginKept

LEMMA DeleteLinesStep == Inv /\ DeleteLines => Inv'
<1>. SUFFICES ASSUME Inv, DeleteLines PROVE Inv'
  OBVIOUS
<1>1. PICK r \in Ranges : Begin(Start, Deleting(r[1], r[2], [op |-> "after_d"]))
  BY DEF DeleteLines
<1>2. Holds(Start, Lines(buf)) /\ SameRing(Start, Start)
  BY StartIs, SameItself
<1>3. r[1] \in Nat /\ r[2] \in Nat /\ Whole(Lines(buf), r[1], r[2]) /\ r[1] <= r[2]
  BY RangesAre
<1>4. [op |-> "after_d"] \in Then /\ [op |-> "after_d"].op # "reopen"
  BY DEF Then
<1>5. /\ Doing(Deleting(r[1], r[2], [op |-> "after_d"]))
      /\ \A us : Ready(Deleting(r[1], r[2], [op |-> "after_d"]), Start, us)
  BY <1>2, <1>3, <1>4, DeletingReady
<1>6. QED
  BY <1>1, <1>2, <1>5, BeginKept

LEMMA JoinLinesStep == Inv /\ JoinLines => Inv'
<1>. SUFFICES ASSUME Inv, JoinLines PROVE Inv'
  OBVIOUS
<1>1. PICK r \in Ranges :
         Begin(Seek(Seek(Start, IncMod(r[2], buf.addr_last)), r[1]),
               Deleting(r[1], r[2], [op |-> "join"]))
  BY DEF JoinLines
<1>2. Holds(Start, Lines(buf)) /\ buf.addr_last \in Nat
  BY InvIs, StartIs
<1>3. r[1] \in Nat /\ r[2] \in Nat /\ Whole(Lines(buf), r[1], r[2]) /\ r[1] <= r[2]
  BY RangesAre
<1>. PICK n \in Nat : n = IncMod(r[2], buf.addr_last)
  BY <1>2, <1>3 DEF IncMod
<1>. PICK b : b = Seek(Seek(Start, n), r[1])
  OBVIOUS
<1>4. Holds(Seek(Start, n), Lines(buf)) /\ SameRing(Start, Seek(Start, n))
  BY <1>2, SeekRing
<1>5. Holds(b, Lines(buf)) /\ SameRing(Seek(Start, n), b)
  BY <1>3, <1>4, SeekRing
<1>6. SameRing(Start, b)
  BY <1>4, <1>5, SameRings
<1>7. [op |-> "join"] \in Then /\ [op |-> "join"].op # "reopen"
  BY DEF Then
<1>8. /\ Doing(Deleting(r[1], r[2], [op |-> "join"]))
      /\ \A us : Ready(Deleting(r[1], r[2], [op |-> "join"]), b, us)
  BY <1>3, <1>5, <1>7, DeletingReady
<1>9. Begin(b, Deleting(r[1], r[2], [op |-> "join"]))
  BY <1>1
<1>10. QED
  BY <1>5, <1>6, <1>8, <1>9, BeginKept

LEMMA MoveLinesStep == Inv /\ MoveLines => Inv'
<1>. SUFFICES ASSUME Inv, MoveLines PROVE Inv'
  OBVIOUS
<1>1. PICK r \in Ranges, addr \in 0..buf.addr_last :
         /\ ~(r[1] <= addr /\ addr < r[2])
         /\ Begin(Start, [op |-> "move", from |-> r[1], to |-> r[2], addr |-> addr])
  BY DEF MoveLines
<1>2. Holds(Start, Lines(buf)) /\ SameRing(Start, Start)
  BY StartIs, SameItself
<1>3. Lines(Start) = Lines(buf)
  BY <1>2, HoldsIs
<1>4. /\ r[1] \in 1..Len(Lines(buf)) /\ r[2] \in r[1]..Len(Lines(buf))
      /\ r[1] \in Nat /\ r[2] \in Nat
  BY RangesAre
<1>5. addr \in 0..Len(Lines(buf)) /\ addr \in Nat
  BY InvIs
<1>. PICK t : t = [op |-> "move", from |-> r[1], to |-> r[2], addr |-> addr]
  OBVIOUS
<1>6. /\ t \in Moves /\ t.op = "move" /\ t.from = r[1] /\ t.to = r[2] /\ t.addr = addr
  BY <1>4, <1>5 DEF Moves
<1>7. \A us : Ready(t, Start, us)
  BY <1>1, <1>3, <1>4, <1>5, <1>6 DEF Ready
<1>8. Begin(Start, t) /\ Doing(t)
  BY <1>1, <1>6 DEF Doing
<1>9. QED
  BY <1>2, <1>7, <1>8, BeginKept

LEMMA CopyLinesStep == Inv /\ CopyLines => Inv'
<1>. SUFFICES ASSUME Inv, CopyLines PROVE Inv'
  OBVIOUS
<1>1. PICK r \in Ranges, addr \in 0..buf.addr_last :
         LET inside == r[1] <= addr /\ addr < r[2] IN
         Begin(At(Seek(Start, r[1]), addr),
               [op |-> "copy", up |-> FALSE,
                n |-> IF inside THEN addr - r[1] + 1 ELSE r[2] - r[1] + 1,
                m |-> IF inside THEN r[2] - addr ELSE 0])
  BY DEF CopyLines
<1>2. Holds(Start, Lines(buf)) /\ addr \in 0..Len(Lines(buf))
  BY InvIs, StartIs
<1>3. /\ r[1] \in 1..Len(Lines(buf)) /\ r[2] \in r[1]..Len(Lines(buf))
      /\ r[1] \in Nat /\ r[2] \in Nat
  BY RangesAre
<1>. PICK n \in Nat : n = IF r[1] <= addr /\ addr < r[2] THEN addr - r[1] + 1
                          ELSE r[2] - r[1] + 1
  BY <1>2, <1>3
<1>. PICK m \in Nat : m = IF r[1] <= addr /\ addr < r[2] THEN r[2] - addr ELSE 0
  BY <1>2, <1>3
<1>. PICK t : t = [op |-> "copy", up |-> FALSE, n |-> n, m |-> m]
  OBVIOUS
<1>. PICK b : b = At(Seek(Start, r[1]), addr)
  OBVIOUS
<1>4. Begin(b, t)
  BY <1>1
<1>5. t \in Copies /\ Free(t)
  BY DEF Copies, Free
<1>6. Holds(Seek(Start, r[1]), Lines(buf)) /\ SameRing(Start, Seek(Start, r[1]))
  BY <1>2, <1>3, SeekRing
<1>7. Holds(b, Lines(buf)) /\ SameRing(Seek(Start, r[1]), b)
  BY <1>2, <1>6, AtRing
<1>8. SameRing(Start, b)
  BY <1>6, <1>7, SameRings
<1>9. Ready(t, b, << >>) /\ Ready(t, b, ustack)
  BY <1>5, ReadyFree
<1>10. QED
  BY <1>4, <1>5, <1>7, <1>8, <1>9, BeginKept DEF Doing

LEMMA SubstituteStep == Inv /\ Substitute => Inv'
<1>. SUFFICES ASSUME Inv, Substitute PROVE Inv'
  OBVIOUS
<1>1. PICK r \in Ranges :
         Begin(At(Start, r[1] - 1),
               [op |-> "subst", left |-> r[2] - r[1] + 1, xa |-> buf.current_addr])
  BY DEF Substitute
<1>2. /\ Holds(Start, Lines(buf)) /\ buf.current_addr \in 0..Len(Lines(buf))
      /\ Len(Lines(buf)) \in Nat
  BY InvIs, StartIs
<1>3. r[1] \in 1..Len(Lines(buf)) /\ r[2] \in r[1]..Len(Lines(buf))
  BY RangesAre
<1>. PICK n \in 0..Len(Lines(buf)) : n = r[1] - 1
  BY <1>2, <1>3
<1>. PICK k \in Nat : k = r[2] - r[1] + 1
  BY <1>2, <1>3
<1>. PICK t : t = [op |-> "subst", left |-> k, xa |-> buf.current_addr]
  OBVIOUS
<1>4. Begin(At(Start, n), t)
  BY <1>1
<1>5. /\ Holds(At(Start, n), Lines(buf)) /\ SameRing(Start, At(Start, n))
      /\ At(Start, n).current_addr = n
  BY <1>2, AtRing
<1>6. Lines(At(Start, n)) = Lines(buf)
  BY <1>5, HoldsIs
<1>7. t \in Substs /\ t.op = "subst" /\ t.left = k /\ t.xa = buf.current_addr
  BY <1>2 DEF Substs
<1>8. n + k <= Len(Lines(buf))
  BY <1>2, <1>3
<1>9. \A us : Ready(t, At(Start, n), us)
  BY <1>2, <1>5, <1>6, <1>7, <1>8 DEF Ready
<1>10. QED
  BY <1>4, <1>5, <1>7, <1>9, BeginKept DEF Doing

LEMMA EditEndStep == Inv /\ EditEnd => Inv'
<1>. SUFFICES ASSUME Inv, EditEnd PROVE Inv'
  OBVIOUS
<1>1. /\ buf' = Cleared(buf) /\ ustack' = << >> /\ heap' = heap \ Freed(buf)
      /\ u_current_addr' = -1 /\ u_addr_last' = -1 /\ before' = Nothing
      /\ task' = Idle /\ active' = active /\ isglobal' = isglobal
  BY DEF EditEnd
<1>2. Flags'
  BY DEF EditEnd, Inv, Flags
<1>. PICK addr, last, bf : addr = -1 /\ last = -1 /\ bf = Nothing
  OBVIOUS
<1>3. Noted(Lines(buf), addr, last, bf)
  BY DEF Noted
<1>4. Kept(Cleared(buf), << >>, heap \ Freed(buf), addr, last, bf)
  BY <1>3, InvIs, KeptCleared
<1>5. Undoing'
  BY <1>1, <1>4 DEF Undoing
<1>6. Lines(buf') = Lines(buf)
  BY <1>1, ClearedHolds, HoldsIs
<1>7. Listed(isglobal', active', Lines(buf'))
  BY <1>1, <1>6 DEF Inv
<1>8. Len(ustack') <= MaxUndo /\ Headless(ustack')
  BY <1>1, HeadlessNone, UndoAssumption
<1>9. Doing(task') /\ Ready(task', buf', ustack')
  BY <1>1, FreeTasks, ReadyFree
<1>10. QED
  BY <1>2, <1>5, <1>7, <1>8, <1>9 DEF Inv

LEMMA ReopenStep == Inv /\ Reopen => Inv'
<1>. SUFFICES ASSUME Inv, Reopen PROVE Inv'
  OBVIOUS
<1>1. /\ buf' = Seek(At(Cleared(buf), 0), 0) /\ ClearUndo(buf, heap)
      /\ task' = Inserting("e") /\ active' = active /\ isglobal' = isglobal
  BY DEF Reopen
<1>2. Flags'
  BY DEF Reopen, Inv, Flags
<1>3. Holds(Cleared(buf), Lines(buf)) /\ 0 \in 0..Len(Lines(buf)) /\ 0 \in Nat
  BY InvIs, ClearedHolds
<1>4. Holds(At(Cleared(buf), 0), Lines(buf)) /\ SameRing(Cleared(buf), At(Cleared(buf), 0))
  BY <1>3, AtRing
<1>5. Holds(buf', Lines(buf)) /\ SameRing(At(Cleared(buf), 0), buf')
  BY <1>1, <1>3, <1>4, SeekRing
<1>6. SameRing(Cleared(buf), buf')
  BY <1>4, <1>5, SameRings
<1>7. Listed(isglobal', active', Lines(buf))
  BY <1>1 DEF Inv
<1>8. Doing(task') /\ Ready(task', buf', << >>)
  BY <1>1, FreeTasks, ReadyFree
<1>9. QED
  BY <1>1, <1>2, <1>5, <1>6, <1>7, <1>8, ClearedKept

LEMMA FreedSame ==
    ASSUME NEW b, NEW c, c.forw = b.forw
    PROVE  Freed(c) = Freed(b)
<1>1. \A e : CutOut(c, e) = CutOut(b, e)
  BY DEF CutOut, Span
<1>2. QED
  BY <1>1 DEF Freed

LEMMA FreedApart ==
    ASSUME Inv
    PROVE  Freed(buf) \cap OnRing(Lines(buf)) = {}
<1>. PICK b, us, hp, addr, last, bf :
        /\ b = buf /\ us = ustack /\ hp = heap
        /\ addr = u_current_addr /\ last = u_addr_last /\ bf = before
  OBVIOUS
<1>1. Kept(b, us, hp, addr, last, bf)
  BY DEF Inv, Undoing
<1>2. PICK hist, P : Past(b, us, hp, hist, P)
  BY <1>1 DEF Kept
<1>3. Course(us, hist) /\ Lines(b) = hist[Len(us)]
  BY <1>2, PastIs
<1>4. Holds(b, hist[Len(us)]) /\ Loose(b, us, hist, Len(us)) /\ NoLines(us, hist)
  BY <1>2 DEF Past
<1>5. b.forw \in Links /\ Closed(b, us)
  BY <1>3, <1>4, ClosedIs DEF Holds, IsRing
<1>6. /\ Course(ustack, hist) /\ b.forw \in Links
      /\ Loose(b, ustack, hist, Len(ustack)) /\ Closed(b, ustack)
  BY <1>3, <1>4, <1>5
<1>7. Freed(b) = Known(hist, Len(ustack)) \ OnRing(hist[Len(ustack)])
  BY <1>6, FreedIs
<1>8. QED
  BY <1>3, <1>7

(* The same lines with another address noted, or another one cached, are   *)
(* freed alike.                                                            *)
LEMMA ClearedSame ==
    ASSUME Inv, NEW c, Holds(c, Lines(buf)), SameRing(buf, c)
    PROVE  /\ Freed(c) = Freed(buf)
           /\ Holds(Cleared(c), Lines(buf)) /\ SameRing(Cleared(buf), Cleared(c))
           /\ Cleared(c).current_addr = c.current_addr
<1>1. Holds(buf, Lines(buf))
  BY InvIs
<1>2. Freed(c) = Freed(buf)
  BY FreedSame DEF SameRing
<1>3. Freed(c) \cap OnRing(Lines(buf)) = {}
  BY <1>2, FreedApart
<1>. PICK s, fr : s = Lines(buf) /\ fr = Freed(buf)
  OBVIOUS
<1>4. Cleared(c) = Forget(c, fr) /\ Cleared(buf) = Forget(buf, fr)
  BY <1>2 DEF Cleared
<1>5. Holds(Forget(c, fr), s)
  BY <1>2, <1>3, ForgetIs
<1>6. buf \in Buffers /\ c \in Buffers
  BY <1>1 DEF Holds
<1>7. c.forw = buf.forw /\ c.back = buf.back
  BY DEF SameRing
<1>8. /\ SameRing(Forget(buf, fr), Forget(c, fr))
      /\ Forget(c, fr).current_addr = c.current_addr
  BY <1>6, <1>7 DEF SameRing, Forget, Buffers
<1>9. QED
  BY <1>2, <1>4, <1>5, <1>8

LEMMA PushFailsIs ==
    ASSUME Inv, NEW c, Holds(c, Lines(buf)), SameRing(buf, c), PushFails(c)
    PROVE  Inv' /\ before' = Text(buf') /\ Lines(buf') = Lines(buf)
<1>1. /\ buf' = Cleared(c) /\ ClearUndo(c, heap)
      /\ task' = Idle /\ active' = active /\ isglobal' = FALSE
  BY DEF PushFails, Error
<1>. PICK s, hp, addr, last, bf :
        /\ s = Lines(buf) /\ hp = heap \ Freed(buf)
        /\ addr = c.current_addr /\ last = c.addr_last /\ bf = Text(c)
  OBVIOUS
<1>2. Noted(Lines(buf), addr, last, bf) /\ bf.lines = s
  BY TextNoted
<1>3. Kept(buf, ustack, heap, u_current_addr, u_addr_last, before)
  BY InvIs
<1>4. Kept(Cleared(buf), << >>, hp, addr, last, bf) /\ Holds(Cleared(buf), s)
  BY <1>2, <1>3, KeptCleared
<1>. PICK d, e : d = Cleared(buf) /\ e = Cleared(c)
  OBVIOUS
<1>5. Lines(d) = s
  BY <1>4, HoldsIs
<1>6. Freed(c) = Freed(buf) /\ Holds(e, s) /\ SameRing(d, e) /\ e.current_addr = addr
  BY ClearedSame
<1>7. Kept(e, << >>, hp, addr, last, bf) /\ Lines(e) = s
  BY <1>4, <1>5, <1>6, KeptLinks
<1>8. /\ buf' = e /\ ustack' = << >> /\ heap' = hp
      /\ u_current_addr' = addr /\ u_addr_last' = last /\ before' = bf
  BY <1>1, <1>6 DEF ClearUndo
<1>9. Undoing' /\ Lines(buf') = s
  BY <1>7, <1>8 DEF Undoing
<1>10. Len(ustack') <= MaxUndo /\ Headless(ustack')
  BY <1>8, HeadlessNone, UndoAssumption
<1>11. Flags'
  BY <1>1 DEF PushFails, Inv, Flags
<1>12. Listed(isglobal', active', Lines(buf'))
  BY <1>1 DEF Inv, Listed
<1>13. Doing(task') /\ Ready(task', buf', ustack')
  BY <1>1, FreeTasks, ReadyFree
<1>14. Inv'
  BY <1>9, <1>10, <1>11, <1>12, <1>13 DEF Inv
<1>15. Text(buf') = bf
  <2>1. Lines(c) = s
    BY HoldsIs
  <2>2. QED
    BY <1>6, <1>7, <1>8, <2>1 DEF Text
<1>16. QED
  BY <1>8, <1>9, <1>14, <1>15

FirstOf(S) == CHOOSE n \in S : \A m \in S : n <= m

LEMMA GlobalStep == Inv /\ Global => Inv'
<1>. SUFFICES ASSUME Inv, Global PROVE Inv'
  OBVIOUS
<1>. PICK s : s = Lines(buf)
  OBVIOUS
<1>1. /\ s \in Rings /\ Holds(buf, s) /\ buf.addr_last = Len(s) /\ Len(s) \in Nat
  BY InvIs
<1>. PICK from \in 1..Len(s) : \E S \in (SUBSET (from..Len(s))) :
         /\ buf' = IF S = {} THEN Cleared(Seek(buf, from))
                   ELSE At(Cleared(Seek(buf, from)), FirstOf(S))
         /\ \E T : active' = IF S = {} THEN << >> ELSE Only(s, T)
         /\ isglobal' = (S # {})
  BY <1>1 DEF Global, FirstOf
<1>2. PICK S \in (SUBSET (from..Len(s))) :
         /\ buf' = IF S = {} THEN Cleared(Seek(buf, from))
                   ELSE At(Cleared(Seek(buf, from)), FirstOf(S))
         /\ \E T : active' = IF S = {} THEN << >> ELSE Only(s, T)
         /\ isglobal' = (S # {})
  OBVIOUS
<1>. PICK b : b = Seek(buf, from)
  OBVIOUS
<1>3. Holds(b, s) /\ SameRing(buf, b)
  BY <1>1, SeekRing
<1>4. Holds(Cleared(b), s) /\ SameRing(Cleared(buf), Cleared(b))
  BY <1>3, ClearedSame
<1>5. Holds(buf', s) /\ SameRing(Cleared(buf), buf')
  <2>1. CASE S = {}
    <3>1. buf' = Cleared(b)
      BY <1>2, <2>1
    <3>2. QED
      BY <1>4, <3>1
  <2>2. CASE S # {}
    <3>1. \E n \in S : \A m \in S : n <= m
      <4>1. S \subseteq Nat /\ S # {}
        BY <1>2, <2>2
      <4>2. QED
        BY <4>1, LeastNat
    <3>. PICK first : first = FirstOf(S)
      OBVIOUS
    <3>2. first \in S
      BY <3>1 DEF FirstOf
    <3>3. first \in 0..Len(s)
      BY <1>1, <1>2, <3>2
    <3>. PICK c : c = Cleared(b)
      OBVIOUS
    <3>4. buf' = At(c, first)
      BY <1>2, <2>2
    <3>5. Holds(buf', s) /\ SameRing(c, buf')
      BY <1>4, <3>3, <3>4, AtRing
    <3>6. QED
      BY <1>4, <3>5, SameRings
  <2>3. QED
    BY <2>1, <2>2
<1>6. PICK T : active' = IF S = {} THEN << >> ELSE Only(s, T)
  BY <1>2
<1>7. Listed(isglobal', active', s)
  <2>1. s \in Seq(Nodes)
    BY <1>1, LinesAre
  <2>2. s \in Seq(OnRing(s))
    <3>1. \A k \in 1..Len(s) : s[k] \in OnRing(s)
      BY <1>1, PlaceIs
    <3>2. s = [k \in 1..Len(s) |-> s[k]]
      BY <2>1
    <3>3. QED
      BY <1>1, <3>1, <3>2, IsASeq
  <2>3. Only(s, T) \in Seq(Nodes \cap T) /\ Only(s, T) \in Seq(OnRing(s) \cap T)
    BY <2>1, <2>2, OnlyIs
  <2>4. Only(s, T) \in Seq(Nodes) /\ Only(s, T) \in Seq(OnRing(s))
    <3>1. \A U, V : U \subseteq V => Seq(U) \subseteq Seq(V)
      OBVIOUS
    <3>2. QED
      BY <2>3, <3>1
  <2>5. active' \in Seq(Nodes) /\ active' \in Seq(OnRing(s))
    <3>1. << >> \in Seq(Nodes) /\ << >> \in Seq(OnRing(s))
      OBVIOUS
    <3>2. active' = << >> \/ active' = Only(s, T)
      BY <1>6
    <3>3. QED
      BY <2>4, <3>1, <3>2
  <2>6. QED
    BY <2>5 DEF Listed
<1>8. task' = Idle /\ ClearUndo(buf, heap)
  BY DEF Global
<1>9. Flags'
  BY <1>2 DEF Global, Inv, Flags
<1>10. Doing(task') /\ Ready(task', buf', << >>)
  BY <1>8, FreeTasks, ReadyFree
<1>11. QED
  BY <1>5, <1>7, <1>8, <1>9, <1>10, ClearedKept

-----------------------------------------------------------------------------
(* Steps that add a line                                                   *)

LEMMA ListedMore ==
    ASSUME NEW global, NEW list, NEW s, NEW w, OnRing(s) \subseteq OnRing(w),
           Listed(global, list, s)
    PROVE  Listed(global, list, w)
<1>1. \A U, V : U \subseteq V => Seq(U) \subseteq Seq(V)
  OBVIOUS
<1>2. QED
  BY <1>1 DEF Listed

(* What a step that adds a line leaves.                                    *)
Added ==
    /\ Undoing' /\ Len(ustack') <= MaxUndo /\ Headless(ustack')
    /\ Continues(buf', ustack')
    /\ buf'.current_addr = buf.current_addr + 1
    /\ Len(Lines(buf')) = Len(Lines(buf)) + 1
    /\ OnRing(Lines(buf)) \subseteq OnRing(Lines(buf'))

LEMMA Lengthened ==
    ASSUME NEW s \in Rings, NEW c \in 0..Len(s), NEW x \in Nodes, x \notin OnRing(s)
    PROVE  /\ Len(With(s, c, x)) = Len(s) + 1 /\ With(s, c, x) \in Rings
           /\ OnRing(s) \subseteq OnRing(With(s, c, x))
<1>1. Len(With(s, c, x)) = Len(s) + 1 /\ With(s, c, x) \in Rings
  BY WithIs
<1>2. OnRing(With(s, c, x)) = OnRing(s) \cup {x}
  BY WithIs
<1>3. QED
  BY <1>1, <1>2

LEMMA PutExtends ==
    ASSUME Inv, Headless(ustack), Continues(buf, ustack), NEW t, Put(TRUE, t)
    PROVE  Added
<1>. PICK b, us, hp, addr, last, bf :
        /\ b = buf /\ us = ustack /\ hp = heap
        /\ addr = u_current_addr /\ last = u_addr_last /\ bf = before
  OBVIOUS
<1>1. PICK x \in Nodes \ heap :
         /\ ustack' = [ustack EXCEPT ![Len(ustack)].t = x]
         /\ buf' = IF LooksUp THEN Seek(AddLine(buf, x), AddLine(buf, x).current_addr)
                   ELSE AddLine(buf, x)
         /\ heap' = heap \cup {x}
         /\ u_current_addr' = addr /\ u_addr_last' = last /\ before' = bf
  BY DEF Put
<1>. PICK c : c = AddLine(b, x)
  OBVIOUS
<1>. PICK vs : vs = Longer(us, x)
  OBVIOUS
<1>. PICK s : s = Lines(b)
  OBVIOUS
<1>. PICK w : w = With(s, b.current_addr, x)
  OBVIOUS
<1>2. /\ Kept(b, us, hp, addr, last, bf) /\ Headless(us) /\ Continues(b, us)
      /\ x \in Nodes \ hp
  BY InvIs
<1>3. /\ s \in Rings /\ b.current_addr \in 0..Len(s) /\ Len(us) \in Nat
      /\ OnRing(s) \subseteq hp \cup {BufferHead}
  BY InvIs
<1>4. /\ Kept(c, vs, hp \cup {x}, addr, last, bf) /\ Lines(c) = w /\ Holds(c, w)
      /\ c.current_addr = b.current_addr + 1
      /\ Headless(vs) /\ Len(vs) = Len(us) /\ Continues(c, vs)
  BY <1>2, KeptLonger
<1>5. x \notin OnRing(s)
  BY <1>2, <1>3, BufferAssumption
<1>6. Len(w) = Len(s) + 1 /\ OnRing(s) \subseteq OnRing(w)
  BY <1>2, <1>3, <1>5, Lengthened
<1>7. PICK d : d = buf'
  OBVIOUS
<1>8. d = c \/ d = Seek(c, c.current_addr)
  BY <1>1, <1>7
<1>9. Holds(d, w) /\ SameRing(c, d) /\ d.current_addr = c.current_addr
  <2>1. CASE d = c
    BY <1>4, <2>1, SameItself
  <2>2. CASE d = Seek(c, c.current_addr)
    <3>1. c.current_addr \in Nat
      BY <1>3, <1>4
    <3>2. QED
      BY <1>4, <2>2, <3>1, SeekRing
  <2>3. QED
    BY <1>8, <2>1, <2>2
<1>10. Kept(d, vs, hp \cup {x}, addr, last, bf) /\ Lines(d) = w
  BY <1>4, <1>9, KeptLinks
<1>11. Continues(d, vs)
  BY <1>4, <1>9, <1>10 DEF Continues
<1>12. ustack' = vs /\ heap' = hp \cup {x} /\ buf' = d
  BY <1>1, <1>7 DEF Longer
<1>13. Undoing'
  BY <1>1, <1>10, <1>12 DEF Undoing
<1>14. Len(ustack') <= MaxUndo
  BY <1>4, <1>12 DEF Inv
<1>15. Headless(ustack') /\ Continues(buf', ustack')
  BY <1>4, <1>11, <1>12
<1>16. /\ buf'.current_addr = buf.current_addr + 1
       /\ Len(Lines(buf')) = Len(Lines(buf)) + 1
       /\ OnRing(Lines(buf)) \subseteq OnRing(Lines(buf'))
  BY <1>4, <1>6, <1>9, <1>10, <1>12
<1>17. QED
  BY <1>13, <1>14, <1>15, <1>16 DEF Added

LEMMA PutPushes ==
    ASSUME Inv, Headless(ustack), NEW t, Put(FALSE, t)
    PROVE  Added
<1>. PICK b, us, hp, addr, last, bf :
        /\ b = buf /\ us = ustack /\ hp = heap
        /\ addr = u_current_addr /\ last = u_addr_last /\ bf = before
  OBVIOUS
<1>1. PICK x \in Nodes \ heap :
         /\ Room(1)
         /\ ustack' = Append(ustack, LineEntry(AddLine(buf, x)))
         /\ buf' = Pushed(AddLine(buf, x))
         /\ heap' = heap \cup {x}
         /\ u_current_addr' = addr /\ u_addr_last' = last /\ before' = bf
  BY DEF Put, LineEntry, Pushed
<1>. PICK c : c = AddLine(b, x)
  OBVIOUS
<1>. PICK d : d = Pushed(c)
  OBVIOUS
<1>. PICK vs : vs = Append(us, LineEntry(c))
  OBVIOUS
<1>. PICK s : s = Lines(b)
  OBVIOUS
<1>. PICK w : w = With(s, b.current_addr, x)
  OBVIOUS
<1>2. /\ Kept(b, us, hp, addr, last, bf) /\ Headless(us) /\ x \in Nodes \ hp
  BY InvIs
<1>3. /\ s \in Rings /\ b.current_addr \in 0..Len(s) /\ Len(us) \in Nat
      /\ us \in Seq(Entries) /\ OnRing(s) \subseteq hp \cup {BufferHead}
  BY InvIs
<1>4. /\ Kept(d, vs, hp \cup {x}, addr, last, bf) /\ Lines(d) = w
      /\ d.current_addr = b.current_addr + 1
      /\ Headless(vs) /\ Continues(d, vs)
  BY <1>2, KeptPushed
<1>5. x \notin OnRing(s)
  BY <1>2, <1>3, BufferAssumption
<1>6. Len(w) = Len(s) + 1 /\ OnRing(s) \subseteq OnRing(w)
  BY <1>2, <1>3, <1>5, Lengthened
<1>7. ustack' = vs /\ heap' = hp \cup {x} /\ buf' = d
  BY <1>1
<1>8. Undoing'
  BY <1>1, <1>4, <1>7 DEF Undoing
<1>9. Len(ustack') <= MaxUndo
  <2>1. Len(vs) = Len(us) + 1
    BY <1>3
  <2>2. Len(us) + 1 <= MaxUndo
    BY <1>1 DEF Room
  <2>3. QED
    BY <1>7, <2>1, <2>2
<1>10. Headless(ustack') /\ Continues(buf', ustack')
  BY <1>4, <1>7
<1>11. /\ buf'.current_addr = buf.current_addr + 1
       /\ Len(Lines(buf')) = Len(Lines(buf)) + 1
       /\ OnRing(Lines(buf)) \subseteq OnRing(Lines(buf'))
  BY <1>4, <1>6, <1>7
<1>12. QED
  BY <1>8, <1>9, <1>10, <1>11 DEF Added

LEMMA PutAdds ==
    ASSUME Inv, Headless(ustack), NEW up \in BOOLEAN, up => Continues(buf, ustack),
           NEW t, Put(up, t)
    PROVE  Added
<1>1. CASE up = TRUE
  BY <1>1, PutExtends
<1>2. CASE up = FALSE
  BY <1>2, PutPushes
<1>3. QED
  BY <1>1, <1>2

LEMMA PutKept ==
    ASSUME Inv, Added, NEW up, NEW t, Put(up, t), modified' \in BOOLEAN,
           Doing(t), Ready(t, buf', ustack')
    PROVE  Inv'
<1>1. /\ task' = t /\ changed' = TRUE /\ isglobal' = isglobal /\ active' = active
  BY DEF Put
<1>2. Flags'
  BY <1>1 DEF Inv, Flags
<1>3. Listed(isglobal', active', Lines(buf'))
  <2>1. Listed(isglobal, active, Lines(buf)) /\ OnRing(Lines(buf)) \subseteq OnRing(Lines(buf'))
    BY DEF Inv, Added
  <2>. PICK s, w : s = Lines(buf) /\ w = Lines(buf')
    OBVIOUS
  <2>2. Listed(isglobal, active, w)
    BY <2>1, ListedMore
  <2>3. QED
    BY <1>1, <2>2
<1>4. Doing(task') /\ Ready(task', buf', ustack')
  BY <1>1
<1>5. QED
  BY <1>2, <1>3, <1>4 DEF Inv, Added

LEMMA InsertLineStep == Inv /\ InsertLine => Inv'
<1>. SUFFICES ASSUME Inv, InsertLine PROVE Inv'
  OBVIOUS
<1>. PICK t : t = [task EXCEPT !.up = TRUE]
  OBVIOUS
<1>1. /\ task.op = "insert" /\ Put(task.up, t)
      /\ modified' = (modified \/ task.by = "a")
  BY DEF InsertLine
<1>2. task \in Inserts /\ (task.up => Continues(buf, ustack)) /\ Headless(ustack)
  BY <1>1, TasksAre, HeadlessTasks DEF Inv, Ready
<1>3. task.up \in BOOLEAN
  BY <1>2 DEF Inserts
<1>4. Added
  BY <1>1, <1>2, <1>3, PutAdds
<1>5. t \in Inserts /\ t.op = "insert"
  BY <1>2 DEF Inserts
<1>6. Ready(t, buf', ustack')
  BY <1>4, <1>5 DEF Ready, Added
<1>7. modified' \in BOOLEAN
  BY <1>1
<1>8. QED
  BY <1>1, <1>4, <1>5, <1>6, <1>7, PutKept DEF Doing

LEMMA JoinStep == Inv /\ Join => Inv'
<1>. SUFFICES ASSUME Inv, Join PROVE Inv'
  OBVIOUS
<1>1. task.op = "join" /\ Put(FALSE, Idle) /\ modified' = TRUE
  BY DEF Join
<1>2. Headless(ustack)
  BY <1>1, HeadlessTasks
<1>3. Added
  BY <1>1, <1>2, PutAdds
<1>4. Doing(Idle) /\ Ready(Idle, buf', ustack')
  BY FreeTasks, ReadyFree
<1>5. QED
  BY <1>1, <1>3, <1>4, PutKept

LEMMA CopyLineStep == Inv /\ CopyLine => Inv'
<1>. SUFFICES ASSUME Inv, CopyLine PROVE Inv'
  OBVIOUS
<1>. PICK t : t = [task EXCEPT !.n = @ - 1, !.up = TRUE]
  OBVIOUS
<1>1. /\ task.op = "copy" /\ task.n > 0 /\ Put(task.up, t) /\ modified' = TRUE
  BY DEF CopyLine
<1>2. task \in Copies /\ (task.up => Continues(buf, ustack)) /\ Headless(ustack)
  BY <1>1, TasksAre, HeadlessTasks DEF Inv, Ready
<1>3. task.up \in BOOLEAN /\ task.n - 1 \in Nat
  BY <1>1, <1>2 DEF Copies
<1>4. Added
  BY <1>1, <1>2, <1>3, PutAdds
<1>5. t \in Copies /\ t.op = "copy"
  BY <1>2, <1>3 DEF Copies
<1>6. Ready(t, buf', ustack')
  BY <1>4, <1>5 DEF Ready, Added
<1>7. QED
  BY <1>1, <1>4, <1>5, <1>6, PutKept DEF Doing

LEMMA ReplaceStep == Inv /\ Replace => Inv'
<1>. SUFFICES ASSUME Inv, Replace PROVE Inv'
  OBVIOUS
<1>. PICK t : t = [task EXCEPT !.up = TRUE]
  OBVIOUS
<1>1. /\ task.op = "replace" /\ Put(task.up, t) /\ modified' = modified
  BY DEF Replace
<1>2. /\ task \in Replaces /\ (task.up => Continues(buf, ustack)) /\ Headless(ustack)
      /\ buf.current_addr + task.left <= Len(Lines(buf))
  BY <1>1, TasksAre, HeadlessTasks DEF Inv, Ready
<1>3. task.up \in BOOLEAN /\ task.left \in Nat
  BY <1>2 DEF Replaces
<1>4. Added
  BY <1>1, <1>2, <1>3, PutAdds
<1>5. t \in Replaces /\ t.op = "replace" /\ t.left = task.left
  BY <1>2 DEF Replaces
<1>6. buf'.current_addr + t.left <= Len(Lines(buf'))
  <2>1. buf.current_addr \in Nat /\ Len(Lines(buf)) \in Nat
    BY InvIs
  <2>2. QED
    BY <1>2, <1>3, <1>4, <1>5, <2>1 DEF Added
<1>7. Ready(t, buf', ustack')
  BY <1>4, <1>5, <1>6 DEF Ready, Added
<1>8. modified' \in BOOLEAN
  BY <1>1 DEF Inv, Flags
<1>9. QED
  BY <1>1, <1>4, <1>5, <1>7, <1>8, PutKept DEF Doing

(* A line stays in the buffer, when there is no memory for its entry.      *)
LEMMA AddedCleared ==
    ASSUME Inv, Headless(ustack), NEW x \in Nodes \ heap, NEW b, b = AddLine(buf, x)
    PROVE  /\ Kept(Cleared(b), << >>, (heap \cup {x}) \ Freed(b),
                   b.current_addr, b.addr_last, Text(b))
           /\ Len(Lines(Cleared(b))) = Len(Lines(buf)) + 1
           /\ Text(Cleared(b)) = Text(b)
<1>. PICK a, us, hp : a = buf /\ us = ustack /\ hp = heap
  OBVIOUS
<1>1. PICK hist, P : Past(a, us, hp, hist, P)
  BY DEF Inv, Undoing, Kept
<1>. PICK s : s = Lines(a)
  OBVIOUS
<1>. PICK c : c = a.current_addr
  OBVIOUS
<1>. PICK w : w = With(s, c, x)
  OBVIOUS
<1>2. /\ Course(us, hist) /\ s = hist[Len(us)] /\ s \in Rings
  BY <1>1, PastIs
<1>3. /\ Loose(a, us, hist, Len(us)) /\ hp \subseteq Nodes
      /\ hp \cup {BufferHead} = Known(hist, Len(us))
  BY <1>1 DEF Past
<1>4. x \in Nodes \ hp
  OBVIOUS
<1>5. /\ Holds(AddLine(a, x), w) /\ Len(w) = Len(s) + 1
      /\ OnRing(w) = OnRing(s) \cup {x}
      /\ Fresh(w, hist, Len(us)) /\ Untouched(AddLine(a, x), a, w)
  BY <1>1, <1>4, AddedIs
<1>6. Holds(b, w) /\ Untouched(b, a, w)
  BY <1>5
<1>7. Loose(b, us, hist, Len(us))
  BY <1>2, <1>3, <1>5, <1>6, LooseAdded
<1>8. Closed(b, ustack)
  BY DEF Closed, Headless
<1>9. OnRing(s) \subseteq Known(hist, Len(us))
  <2>1. Len(us) \in 0..Len(us)
    BY <1>1, PastIs
  <2>2. QED
    BY <1>2, <2>1 DEF Known
<1>10. /\ hp \cup {x} \subseteq Nodes
       /\ (hp \cup {x}) \cup {BufferHead} = Known(hist, Len(us)) \cup OnRing(w)
  BY <1>3, <1>5, <1>9
<1>11. Noted(w, b.current_addr, b.addr_last, Text(b)) /\ Text(b).lines = w
  BY <1>6, TextNoted
<1>12. /\ Course(ustack, hist) /\ Holds(b, w) /\ Loose(b, ustack, hist, Len(ustack))
       /\ Closed(b, ustack) /\ OnRing(hist[Len(ustack)]) \subseteq OnRing(w)
       /\ Fresh(w, hist, Len(ustack))
  BY <1>2, <1>5, <1>6, <1>7, <1>8
<1>13. PICK hq : hq = hp \cup {x}
  OBVIOUS
<1>14. hq \subseteq Nodes /\ hq \cup {BufferHead} = Known(hist, Len(ustack)) \cup OnRing(w)
  BY <1>10, <1>13
<1>15. PICK addr, last, bf : addr = b.current_addr /\ last = b.addr_last /\ bf = Text(b)
  OBVIOUS
<1>16. Noted(w, addr, last, bf)
  BY <1>11, <1>15
<1>17. /\ Kept(Cleared(b), << >>, hq \ Freed(b), addr, last, bf)
       /\ Holds(Cleared(b), w) /\ Cleared(b).current_addr = b.current_addr
  BY <1>12, <1>14, <1>16, ClearedIs
<1>18. Lines(Cleared(b)) = w /\ Lines(b) = w
  BY <1>6, <1>17, HoldsIs
<1>19. Text(Cleared(b)) = Text(b)
  BY <1>17, <1>18 DEF Text
<1>20. hq = heap \cup {x}
  BY <1>13
<1>21. QED
  BY <1>5, <1>15, <1>17, <1>18, <1>19, <1>20

LEMMA PutFailsIs ==
    ASSUME Inv, Headless(ustack), NEW up, PutFails(up)
    PROVE  /\ Inv'
           /\ Text(buf') = before' /\ Len(Lines(buf')) = Len(Lines(buf)) + 1
<1>1. PICK x \in Nodes \ heap :
         /\ buf' = Cleared(AddLine(buf, x))
         /\ ClearUndo(AddLine(buf, x), heap \cup {x})
  BY DEF PutFails
<1>. PICK b : b = AddLine(buf, x)
  OBVIOUS
<1>2. /\ Kept(Cleared(b), << >>, (heap \cup {x}) \ Freed(b),
              b.current_addr, b.addr_last, Text(b))
      /\ Len(Lines(Cleared(b))) = Len(Lines(buf)) + 1
      /\ Text(Cleared(b)) = Text(b)
  BY AddedCleared
<1>3. /\ buf' = Cleared(b) /\ heap' = (heap \cup {x}) \ Freed(b) /\ ustack' = << >>
      /\ u_current_addr' = b.current_addr /\ u_addr_last' = b.addr_last
      /\ before' = Text(b)
  BY <1>1 DEF ClearUndo
<1>4. Undoing'
  BY <1>2, <1>3 DEF Undoing
<1>5. /\ task' = Idle /\ isglobal' = FALSE /\ changed' = TRUE
      /\ active' = active /\ modified' = modified
  BY DEF PutFails, Error
<1>6. Flags' /\ Listed(isglobal', active', Lines(buf'))
  BY <1>5 DEF Inv, Flags, Listed
<1>7. Len(ustack') <= MaxUndo /\ Headless(ustack')
  BY <1>3, HeadlessNone, UndoAssumption
<1>8. Doing(task') /\ Ready(task', buf', ustack')
  BY <1>5, FreeTasks, ReadyFree
<1>9. Text(buf') = before' /\ Len(Lines(buf')) = Len(Lines(buf)) + 1
  BY <1>2, <1>3
<1>10. QED
  BY <1>4, <1>6, <1>7, <1>8, <1>9 DEF Inv

(* The steps in which a push fails, after and before the buffer changed.   *)
LEMMA PutFailsSteps ==
    ASSUME Inv, InsertFails \/ JoinFails \/ CopyFails \/ ReplaceFails
    PROVE  Inv' /\ Text(buf') = before' /\ Len(Lines(buf')) = Len(Lines(buf)) + 1
<1>1. /\ task.op \in {"insert", "join", "copy", "replace"}
      /\ \E up : PutFails(up)
  BY DEF InsertFails, JoinFails, CopyFails, ReplaceFails
<1>2. Headless(ustack)
  BY <1>1, HeadlessTasks
<1>3. PICK up : PutFails(up)
  BY <1>1
<1>4. Inv'
  BY <1>2, <1>3, PutFailsIs
<1>5. Text(buf') = before' /\ Len(Lines(buf')) = Len(Lines(buf)) + 1
  BY <1>2, <1>3, PutFailsIs
<1>6. QED
  BY <1>4, <1>5

-----------------------------------------------------------------------------
(* Steps that delete and move lines                                        *)

LEMMA DeleteIs ==
    ASSUME Inv, NEW b, Holds(b, Lines(buf)), SameRing(buf, b), NEW from, NEW to,
           Whole(Lines(buf), from, to), NEW t, Delete(b, from, to, t),
           Headless(ustack) \/ Len(Without(Lines(buf), from, to)) = 0
    PROVE  /\ Undoing' /\ Len(ustack') <= MaxUndo
           /\ Lines(buf') = Without(Lines(buf), from, to)
           /\ buf'.current_addr = from - 1
           /\ Headless(ustack) /\ from <= to => Headless(ustack')
<1>. PICK a, us, hp, addr, last, bf :
        /\ a = buf /\ us = ustack /\ hp = heap
        /\ addr = u_current_addr /\ last = u_addr_last /\ bf = before
  OBVIOUS
<1>. PICK vs : vs = Append(us, CutEntry(b, from, to))
  OBVIOUS
<1>. PICK c : c = Cut(b, from, to)
  OBVIOUS
<1>. PICK w : w = Without(Lines(a), from, to)
  OBVIOUS
<1>1. /\ Room(1) /\ buf' = c /\ ustack' = vs /\ heap' = hp
      /\ u_current_addr' = addr /\ u_addr_last' = last /\ before' = bf
  BY DEF Delete, Cut, CutEntry
<1>2. Kept(a, us, hp, addr, last, bf) /\ Len(us) \in Nat /\ us \in Seq(Entries)
  BY InvIs
<1>3. Kept(b, us, hp, addr, last, bf) /\ Lines(b) = Lines(a)
  BY <1>2, KeptLinks
<1>4. Whole(Lines(b), from, to) /\ w = Without(Lines(b), from, to)
  BY <1>3
<1>5. Headless(us) \/ Len(Without(Lines(b), from, to)) = 0
  BY <1>3
<1>6. /\ Kept(c, vs, hp, addr, last, bf) /\ Lines(c) = w
      /\ c.current_addr = from - 1
      /\ Headless(us) /\ from <= to => Headless(vs)
  BY <1>3, <1>4, <1>5, KeptCut
<1>7. Undoing'
  BY <1>1, <1>6 DEF Undoing
<1>8. Len(ustack') <= MaxUndo
  <2>1. Len(vs) = Len(us) + 1
    BY <1>2
  <2>2. Len(us) + 1 <= MaxUndo
    BY <1>1 DEF Room
  <2>3. QED
    BY <1>1, <2>1, <2>2
<1>9. QED
  BY <1>1, <1>6, <1>7, <1>8

LEMMA UnsetKept ==
    ASSUME NEW S, NEW list \in Seq(S), NEW L, S \subseteq Nodes \cup {BufferHead},
           list \in Seq(Nodes)
    PROVE  Only(list, Nodes \ L) \in Seq(S \ L) /\ Only(list, Nodes \ L) \in Seq(Nodes)
<1>1. /\ Only(list, Nodes \ L) \in Seq(S \cap (Nodes \ L))
      /\ Only(list, Nodes \ L) \in Seq(Nodes \cap (Nodes \ L))
  BY OnlyIs
<1>2. \A U, V : U \subseteq V => Seq(U) \subseteq Seq(V)
  OBVIOUS
<1>3. S \cap (Nodes \ L) \subseteq S \ L /\ Nodes \cap (Nodes \ L) \subseteq Nodes
  OBVIOUS
<1>4. QED
  BY <1>1, <1>2, <1>3

LEMMA ListedWithout ==
    ASSUME NEW global \in BOOLEAN, NEW list, NEW s \in Rings, NEW L, Listed(global, list, s),
           NEW w, OnRing(s) \ L \subseteq OnRing(w)
    PROVE  Listed(global, IF global THEN Only(list, Nodes \ L) ELSE list, w)
<1>. PICK rest : rest = IF global THEN Only(list, Nodes \ L) ELSE list
  OBVIOUS
<1>1. \A U, V : U \subseteq V => Seq(U) \subseteq Seq(V)
  OBVIOUS
<1>2. CASE global
  <2>1. list \in Seq(OnRing(s)) /\ list \in Seq(Nodes)
    BY <1>2 DEF Listed
  <2>2. OnRing(s) \subseteq Nodes \cup {BufferHead}
    BY PlaceIs DEF AnyNode
  <2>3. rest \in Seq(OnRing(s) \ L) /\ rest \in Seq(Nodes)
    BY <1>2, <2>1, <2>2, UnsetKept
  <2>4. rest \in Seq(OnRing(w))
    BY <1>1, <2>3
  <2>5. QED
    BY <2>3, <2>4 DEF Listed
<1>3. CASE ~global
  BY <1>3 DEF Listed
<1>4. QED
  BY <1>2, <1>3

LEMMA DeleteKept ==
    ASSUME Inv, NEW b, Holds(b, Lines(buf)), NEW from, NEW to,
           Whole(Lines(buf), from, to), NEW t, Delete(b, from, to, t),
           Undoing', Len(ustack') <= MaxUndo,
           Lines(buf') = Without(Lines(buf), from, to),
           Doing(t), Ready(t, buf', ustack'), Headless(ustack') \/ Between(t, isglobal)
    PROVE  Inv'
<1>. PICK s : s = Lines(buf)
  OBVIOUS
<1>1. /\ task' = t /\ isglobal' = isglobal /\ modified' = TRUE
      /\ changed' = (changed \/ from <= to)
      /\ active' = IF isglobal THEN
                      Only(active, Nodes \
                        Span(PushSeeks(b, from, to), Node(PushSeeks(b, from, to), from),
                             Node(PushSeeks(b, from, to),
                                  IncMod(to, PushSeeks(b, from, to).addr_last))))
                   ELSE active
  BY DEF Delete, Unset
<1>2. Flags'
  BY <1>1 DEF Inv, Flags
<1>3. active' = IF isglobal THEN Only(active, Nodes \ Lying(s, from, to)) ELSE active
  <2>1. Span(PushSeeks(b, from, to), Node(PushSeeks(b, from, to), from),
             Node(PushSeeks(b, from, to), IncMod(to, PushSeeks(b, from, to).addr_last)))
          = Lying(s, from, to)
    BY SpanCut
  <2>2. QED
    BY <1>1, <2>1
<1>4. Listed(isglobal', active', Lines(buf'))
  <2>. PICK w, L, rest : /\ w = Without(s, from, to) /\ L = Lying(s, from, to)
                         /\ rest = active'
    OBVIOUS
  <2>1. s \in Rings
    BY InvIs
  <2>2. OnRing(w) = OnRing(s) \ L
    BY <2>1, WholeIs, WithoutIs
  <2>3. rest = IF isglobal THEN Only(active, Nodes \ L) ELSE active
    BY <1>3
  <2>4. isglobal \in BOOLEAN /\ Listed(isglobal, active, s)
    BY DEF Inv, Flags
  <2>5. OnRing(s) \ L \subseteq OnRing(w)
    BY <2>2
  <2>6. PICK global, list : global = isglobal /\ list = active
    OBVIOUS
  <2>7. global \in BOOLEAN /\ Listed(global, list, s)
    BY <2>4, <2>6
  <2>8. Listed(global, IF global THEN Only(list, Nodes \ L) ELSE list, w)
    BY <2>1, <2>5, <2>7, ListedWithout
  <2>9. QED
    BY <1>1, <2>3, <2>6, <2>8
<1>5. /\ Doing(task') /\ Ready(task', buf', ustack')
      /\ Headless(ustack') \/ Between(task', isglobal')
  BY <1>1
<1>6. QED
  BY <1>2, <1>4, <1>5 DEF Inv

LEMMA WithoutLen ==
    ASSUME NEW s \in Rings, NEW from, NEW to, Whole(s, from, to)
    PROVE  Len(Without(s, from, to)) = Len(s) - (to - from + 1)
<1>1. from \in 1..(Len(s) + 1) /\ to \in 0..Len(s) /\ from <= to + 1
  BY WholeIs
<1>2. QED
  BY <1>1, WithoutIs

LEMMA DeleteRangeStep == Inv /\ DeleteRange => Inv'
<1>. SUFFICES ASSUME Inv, DeleteRange PROVE Inv'
  OBVIOUS
<1>. PICK s : s = Lines(buf)
  OBVIOUS
<1>1. task.op = "delete" /\ Delete(buf, task.from, task.to, task.then)
  BY DEF DeleteRange
<1>. PICK from, to, t : from = task.from /\ to = task.to /\ t = task.then
  OBVIOUS
<1>2. task \in Deletes /\ t \in Then
  BY <1>1, TasksAre DEF Inv, Deletes
<1>3. /\ Whole(s, from, to)
      /\ IF t.op = "reopen" THEN from = 1 /\ to = Len(s) ELSE from <= to
  BY <1>1 DEF Inv, Ready
<1>4. s \in Rings /\ Len(s) \in Nat /\ Holds(buf, s) /\ SameRing(buf, buf)
  BY InvIs, SameItself
<1>5. t.op # "reopen" => Headless(ustack)
  BY <1>1, HeadlessTasks
<1>6. t.op = "reopen" => Len(Without(s, from, to)) = 0
  <2>1. HAVE t.op = "reopen"
  <2>2. Len(Without(s, from, to)) = Len(s) - (to - from + 1)
    BY <1>3, <1>4, WithoutLen
  <2>3. QED
    BY <1>3, <1>4, <2>1, <2>2
<1>7. Headless(ustack) \/ Len(Without(s, from, to)) = 0
  BY <1>5, <1>6
<1>8. Delete(buf, from, to, t)
  BY <1>1
<1>9. /\ Undoing' /\ Len(ustack') <= MaxUndo
      /\ Lines(buf') = Without(s, from, to)
      /\ Headless(ustack) /\ from <= to => Headless(ustack')
  BY <1>3, <1>4, <1>7, <1>8, DeleteIs
<1>10. Headless(ustack') \/ Between(t, isglobal)
  BY <1>3, <1>5, <1>9 DEF Between
<1>11. Doing(t) /\ Ready(t, buf', ustack')
  <2>1. Doing(t) /\ Free(t)
    BY <1>2, FreeTasks DEF Then
  <2>2. QED
    BY <2>1, ReadyFree
<1>12. QED
  BY <1>3, <1>4, <1>8, <1>9, <1>10, <1>11, DeleteKept

LEMMA MatchStep == Inv /\ Match => Inv'
<1>. SUFFICES ASSUME Inv, Match PROVE Inv'
  OBVIOUS
<1>. PICK s : s = Lines(buf)
  OBVIOUS
<1>1. task.op = "subst" /\ task.left > 0
  BY DEF Match
<1>2. /\ buf.current_addr + 1 \in 1..Len(s) /\ task.left - 1 \in Nat
      /\ (buf.current_addr + 1) + (task.left - 1) <= Len(s)
  BY <1>1, SubstAt
<1>3. s \in Rings /\ Len(s) \in Nat /\ Holds(buf, s)
  BY InvIs
<1>. PICK n \in 1..Len(s) : n = buf.current_addr + 1
  BY <1>2
<1>. PICK k \in Nat : k = task.left - 1
  BY <1>2
<1>. PICK t : t = [op |-> "replace", left |-> k, up |-> FALSE]
  OBVIOUS
<1>. PICK b : b = Seek(At(buf, n), n)
  OBVIOUS
<1>4. Delete(b, n, n, t)
  BY DEF Match
<1>5. n \in 0..Len(s) /\ n \in Nat /\ n <= n
  BY <1>3
<1>6. Holds(At(buf, n), s) /\ SameRing(buf, At(buf, n))
  BY <1>3, <1>5, AtRing
<1>7. Holds(b, s) /\ SameRing(At(buf, n), b)
  BY <1>5, <1>6, SeekRing
<1>8. SameRing(buf, b)
  BY <1>6, <1>7, SameRings
<1>9. Whole(s, n, n)
  BY <1>5 DEF Whole
<1>10. Headless(ustack)
  BY <1>1, HeadlessTasks
<1>11. /\ Undoing' /\ Len(ustack') <= MaxUndo
       /\ Lines(buf') = Without(s, n, n) /\ buf'.current_addr = n - 1
       /\ Headless(ustack) /\ n <= n => Headless(ustack')
  BY <1>4, <1>7, <1>8, <1>9, <1>10, DeleteIs
<1>12. Headless(ustack')
  BY <1>5, <1>10, <1>11
<1>13. Len(Without(s, n, n)) = Len(s) - (n - n + 1)
  BY <1>3, <1>9, WithoutLen
<1>14. t \in Replaces /\ t.op = "replace" /\ t.left = k /\ t.up = FALSE
  BY DEF Replaces
<1>15. buf'.current_addr + t.left <= Len(Lines(buf'))
  BY <1>2, <1>3, <1>11, <1>13, <1>14
<1>16. Doing(t) /\ Ready(t, buf', ustack')
  BY <1>14, <1>15 DEF Doing, Ready
<1>17. QED
  BY <1>4, <1>7, <1>9, <1>11, <1>12, <1>16, DeleteKept

(* The entries of a move stand for the lines that the code looks up.       *)
LEMMA MoveEntriesAre ==
    ASSUME NEW b, NEW s, Holds(b, s), NEW i, NEW j, NEW a, Movable(Len(s), i, j, a)
    PROVE  LET c == PushSeeks(b, i - 1, IncMod(j, b.addr_last)) IN
           /\ Holds(c, s) /\ SameRing(b, c)
           /\ Holds(PushSeeks(c, a, IncMod(a, b.addr_last)), s)
           /\ SameRing(b, PushSeeks(c, a, IncMod(a, b.addr_last)))
           /\ MoveEntries(s, i, j, a, Entry(b, "UMOV", i - 1, IncMod(j, b.addr_last)),
                          Entry(c, "UMOV", a, IncMod(a, b.addr_last)))
<1>1. s \in Rings /\ Len(s) \in Nat /\ b.addr_last = Len(s)
  BY LinesAre DEF Holds, IsRing
<1>2. i - 1 \in 0..Len(s) /\ j \in 0..Len(s) /\ a \in 0..Len(s)
  BY <1>1 DEF Movable
<1>. PICK p \in 0..Len(s) : p = i - 1
  BY <1>2
<1>. PICK n : n = IncMod(j, Len(s))
  OBVIOUS
<1>. PICK m : m = IncMod(a, Len(s))
  OBVIOUS
<1>3. /\ n \in 0..Len(s) /\ Place(s, n) = Place(s, j + 1) /\ Upto(s, n) = n
      /\ m \in 0..Len(s) /\ Place(s, m) = Place(s, a + 1) /\ Upto(s, m) = m
  BY <1>1, <1>2, NextPlace
<1>4. Upto(s, p) = p /\ Upto(s, a) = a
  BY <1>1, <1>2 DEF Upto
<1>5. n \in Nat /\ m \in Nat /\ p \in Nat /\ a \in Nat
  BY <1>1, <1>2, <1>3
<1>. PICK c : c = PushSeeks(b, p, n)
  OBVIOUS
<1>6. /\ Holds(c, s) /\ SameLinks(b, c)
      /\ Entry(b, "UMOV", p, n) = [type |-> "UMOV", h |-> Place(s, Upto(s, p)),
                                   t |-> Place(s, Upto(s, n))]
  BY <1>5, PushSeeksIs
<1>7. /\ Holds(PushSeeks(c, a, m), s) /\ SameLinks(c, PushSeeks(c, a, m))
      /\ Entry(c, "UMOV", a, m) = [type |-> "UMOV", h |-> Place(s, Upto(s, a)),
                                   t |-> Place(s, Upto(s, m))]
  BY <1>5, <1>6, PushSeeksIs
<1>8. SameRing(b, c) /\ SameRing(b, PushSeeks(c, a, m))
  BY <1>6, <1>7 DEF SameLinks, SameRing
<1>. PICK d : d = Entry(b, "UMOV", p, n)
  OBVIOUS
<1>. PICK e : e = Entry(c, "UMOV", a, m)
  OBVIOUS
<1>9. /\ d = [type |-> "UMOV", h |-> Place(s, p), t |-> Place(s, j + 1)]
      /\ e = [type |-> "UMOV", h |-> Place(s, a), t |-> Place(s, a + 1)]
  BY <1>3, <1>4, <1>6, <1>7
<1>10. /\ Place(s, p) \in AnyNode /\ Place(s, j + 1) \in AnyNode
       /\ Place(s, a) \in AnyNode /\ Place(s, a + 1) \in AnyNode
  <2>1. p \in Int /\ j + 1 \in Int /\ a \in Int /\ a + 1 \in Int
    BY <1>1, <1>2
  <2>2. QED
    BY <1>1, <2>1, PlaceIs
<1>11. MoveEntries(s, i, j, a, d, e)
  BY <1>9, <1>10 DEF MoveEntries, Entries
<1>12. QED
  BY <1>1, <1>6, <1>7, <1>8, <1>11

LEMMA AppendTwo ==
    ASSUME NEW us \in Seq(Entries), NEW d \in Entries, NEW e \in Entries
    PROVE  us \o << d, e >> = Append(Append(us, d), e)
OBVIOUS

LEMMA UnsetActive ==
    ASSUME Inv, NEW L, Unset(L), isglobal' = isglobal, NEW w,
           OnRing(Lines(buf)) \ L \subseteq OnRing(w)
    PROVE  Listed(isglobal', active', w)
<1>. PICK s, global, list : s = Lines(buf) /\ global = isglobal /\ list = active
  OBVIOUS
<1>1. s \in Rings /\ global \in BOOLEAN /\ Listed(global, list, s)
  BY InvIs DEF Inv, Flags
<1>2. OnRing(s) \ L \subseteq OnRing(w)
  OBVIOUS
<1>3. Listed(global, IF global THEN Only(list, Nodes \ L) ELSE list, w)
  BY <1>1, <1>2, ListedWithout
<1>4. active' = IF global THEN Only(list, Nodes \ L) ELSE list
  BY DEF Unset
<1>5. QED
  BY <1>3, <1>4

LEMMA MoveStep == Inv /\ Move => Inv'
<1>. SUFFICES ASSUME Inv, Move PROVE Inv'
  OBVIOUS
<1>. PICK s : s = Lines(buf)
  OBVIOUS
<1>. PICK i, j, a : i = task.from /\ j = task.to /\ a = task.addr
  OBVIOUS
<1>1. /\ task.op = "move" /\ task' = Idle /\ isglobal' = isglobal /\ modified' = TRUE
      /\ changed' = (changed \/ ~Stays)
      /\ heap' = heap /\ u_current_addr' = u_current_addr /\ u_addr_last' = u_addr_last
      /\ before' = before
  BY DEF Move
<1>2. PICK L : Unset(L)
  BY DEF Move
<1>3. Flags'
  BY <1>1 DEF Inv, Flags
<1>4. i \in 1..Len(s) /\ j \in i..Len(s) /\ a \in 0..Len(s) /\ ~(i <= a /\ a < j)
  BY <1>1 DEF Inv, Ready
<1>5. s \in Rings /\ Len(s) \in Nat /\ Holds(buf, s) /\ buf.addr_last = Len(s)
  BY InvIs
<1>6. Headless(ustack)
  BY <1>1, HeadlessTasks
<1>7. Doing(task') /\ \A b, us : Ready(task', b, us)
  BY <1>1, FreeTasks, ReadyFree
<1>8. CASE Stays
  <2>1. /\ buf' = At(Seek(Seek(buf, IncMod(j, buf.addr_last)), i - 1), j)
        /\ ustack' = ustack
    BY <1>8 DEF Move
  <2>. PICK n \in Nat : n = IncMod(j, buf.addr_last)
    BY <1>4, <1>5 DEF IncMod
  <2>. PICK p \in Nat : p = i - 1
    BY <1>4, <1>5
  <2>2. Holds(Seek(buf, n), s) /\ SameRing(buf, Seek(buf, n))
    BY <1>5, SeekRing
  <2>3. Holds(Seek(Seek(buf, n), p), s) /\ SameRing(Seek(buf, n), Seek(Seek(buf, n), p))
    BY <2>2, SeekRing
  <2>4. j \in 0..Len(s)
    BY <1>4, <1>5
  <2>5. Holds(buf', s) /\ SameRing(Seek(Seek(buf, n), p), buf')
    BY <2>1, <2>3, <2>4, AtRing
  <2>6. SameRing(buf, buf')
    BY <2>2, <2>3, <2>5, SameRings
  <2>7. Listed(isglobal', active', s)
    BY <1>1, <1>2, UnsetActive
  <2>8. UNCHANGED << undoing, heap >>
    BY <1>1, <2>1 DEF undoing
  <2>9. QED
    BY <1>3, <1>6, <1>7, <2>5, <2>6, <2>7, <2>8, TextKept
<1>9. CASE ~Stays
  <2>. PICK n : n = IncMod(j, buf.addr_last)
    OBVIOUS
  <2>. PICK c : c = PushSeeks(buf, i - 1, n)
    OBVIOUS
  <2>. PICK b : b = PushSeeks(c, a, IncMod(a, buf.addr_last))
    OBVIOUS
  <2>. PICK d, e : /\ d = Entry(buf, "UMOV", i - 1, n)
                   /\ e = Entry(c, "UMOV", a, IncMod(a, buf.addr_last))
    OBVIOUS
  <2>1. /\ Room(2) /\ buf' = MoveTo(b, i, j, a) /\ ustack' = ustack \o << d, e >>
    BY <1>9 DEF Move
  <2>2. Movable(Len(s), i, j, a)
    BY <1>4, <1>5, <1>9 DEF Movable, Stays
  <2>3. Holds(b, s) /\ SameRing(buf, b) /\ MoveEntries(s, i, j, a, d, e)
    BY <1>5, <2>2, MoveEntriesAre
  <2>. PICK g : g = MoveTo(b, i, j, a)
    OBVIOUS
  <2>4. Holds(g, Shifted(s, i, j, a)) /\ Untouched(g, b, s)
    BY <2>2, <2>3, MoveToIs
  <2>5. Untouched(g, buf, s)
    BY <2>3, <2>4 DEF Untouched, SameRing
  <2>. PICK f, us, hp, addr, last, bf :
          /\ f = buf /\ us = ustack /\ hp = heap
          /\ addr = u_current_addr /\ last = u_addr_last /\ bf = before
    OBVIOUS
  <2>6. /\ Kept(f, us, hp, addr, last, bf) /\ Headless(us) /\ us \in Seq(Entries)
        /\ Len(us) \in Nat /\ Untouched(g, f, s)
    BY <1>6, <2>5, InvIs
  <2>. PICK vs : vs = Append(Append(us, d), e)
    OBVIOUS
  <2>7. Kept(g, vs, hp, addr, last, bf) /\ Headless(vs) /\ Len(vs) = Len(us) + 2
    BY <2>2, <2>3, <2>4, <2>6, KeptMoved
  <2>8. ustack' = vs
    <3>1. d \in Entries /\ e \in Entries
      BY <2>3 DEF MoveEntries
    <3>2. QED
      BY <2>1, <2>6, <3>1, AppendTwo
  <2>9. Undoing'
    BY <1>1, <2>1, <2>7, <2>8 DEF Undoing
  <2>10. Len(ustack') <= MaxUndo /\ Headless(ustack')
    BY <2>1, <2>6, <2>7, <2>8 DEF Room
  <2>11. Lines(buf') = Shifted(s, i, j, a)
    BY <2>1, <2>4, HoldsIs
  <2>12. OnRing(Shifted(s, i, j, a)) = OnRing(s)
    BY <1>5, <2>2, ShiftedIs
  <2>13. Listed(isglobal', active', Lines(buf'))
    <3>1. OnRing(Lines(buf)) \ L \subseteq OnRing(Shifted(s, i, j, a))
      BY <2>12
    <3>. PICK w : w = Shifted(s, i, j, a)
      OBVIOUS
    <3>2. Listed(isglobal', active', w)
      BY <1>1, <1>2, <3>1, UnsetActive
    <3>3. QED
      BY <2>11, <3>2
  <2>14. QED
    BY <1>3, <1>7, <2>9, <2>10, <2>13 DEF Inv
<1>10. QED
  BY <1>8, <1>9

LEMMA PushFailsSteps ==
    ASSUME Inv, DeleteFails \/ MoveFails \/ MatchFails
    PROVE  Inv' /\ before' = Text(buf') /\ Lines(buf') = Lines(buf)
<1>. PICK s : s = Lines(buf)
  OBVIOUS
<1>1. s \in Rings /\ Len(s) \in Nat /\ Holds(buf, s) /\ SameRing(buf, buf)
  BY InvIs, SameItself
<1>2. SUFFICES \E c : Holds(c, s) /\ SameRing(buf, c) /\ PushFails(c)
  BY PushFailsIs
<1>3. CASE DeleteFails
  BY <1>1, <1>3 DEF DeleteFails
<1>4. CASE MoveFails
  <2>1. task.op = "move" /\ ~Stays
    BY <1>4 DEF MoveFails
  <2>. PICK i, j, a : i = task.from /\ j = task.to /\ a = task.addr
    OBVIOUS
  <2>2. Movable(Len(s), i, j, a)
    <3>1. i \in 1..Len(s) /\ j \in i..Len(s) /\ a \in 0..Len(s) /\ ~(i <= a /\ a < j)
      BY <2>1 DEF Inv, Ready
    <3>2. QED
      BY <1>1, <2>1, <3>1 DEF Movable, Stays
  <2>. PICK c : c = PushSeeks(buf, i - 1, IncMod(j, buf.addr_last))
    OBVIOUS
  <2>3. Holds(c, s) /\ SameRing(buf, c)
    BY <1>1, <2>2, MoveEntriesAre
  <2>4. PushFails(buf) \/ PushFails(c)
    BY <1>4 DEF MoveFails
  <2>5. QED
    BY <1>1, <2>3, <2>4
<1>5. CASE MatchFails
  <2>1. task.op = "subst" /\ task.left > 0
    BY <1>5 DEF MatchFails
  <2>. PICK n : n = buf.current_addr + 1
    OBVIOUS
  <2>2. n \in 0..Len(s) /\ n \in Nat
    BY <1>1, <2>1, SubstAt
  <2>. PICK c : c = At(buf, n)
    OBVIOUS
  <2>3. Holds(c, s) /\ SameRing(buf, c)
    BY <1>1, <2>2, AtRing
  <2>4. Holds(Seek(c, n), s) /\ SameRing(c, Seek(c, n))
    BY <2>2, <2>3, SeekRing
  <2>5. PushFails(Seek(c, n))
    BY <1>5 DEF MatchFails
  <2>6. QED
    BY <2>3, <2>4, <2>5, SameRings
<1>6. QED
  BY <1>3, <1>4, <1>5

LEMMA UndoStep == Inv /\ Undo => Inv' /\ Text(buf') = before /\ before # Nothing
<1>. SUFFICES ASSUME Inv, Undo
     PROVE  Inv' /\ Text(buf') = before /\ before # Nothing
  OBVIOUS
<1>. PICK b, us, hp, addr, last, bf :
        /\ b = buf /\ us = ustack /\ hp = heap
        /\ addr = u_current_addr /\ last = u_addr_last /\ bf = before
  OBVIOUS
<1>1. /\ task = Idle /\ task' = Idle /\ isglobal' = isglobal /\ heap' = hp
      /\ addr # -1 /\ last # -1
      /\ buf' = Popped(b, us, addr, last) /\ ustack' = Inverted(us)
      /\ u_current_addr' = b.current_addr /\ u_addr_last' = b.addr_last
      /\ before' = Text(b)
      /\ active' = IF isglobal THEN << >> ELSE active
      /\ modified' = (modified \/ ustack # << >>) /\ changed' = (changed \/ ustack # << >>)
  BY DEF Undo, Popped
<1>2. Kept(b, us, hp, addr, last, bf)
  BY InvIs
<1>3. /\ Kept(Popped(b, us, addr, last), Inverted(us), hp,
              b.current_addr, b.addr_last, Text(b))
      /\ Len(Inverted(us)) = Len(us)
      /\ Headless(us) => Headless(Inverted(us))
      /\ Text(Popped(b, us, addr, last)) = bf
      /\ bf \in [lines : Seq(Nodes), dot : Nat]
  BY <1>1, <1>2, KeptUndone
<1>4. Undoing'
  BY <1>1, <1>3 DEF Undoing
<1>5. Len(ustack') <= MaxUndo /\ (Headless(ustack') \/ Between(task', isglobal'))
  BY <1>1, <1>3 DEF Inv
<1>6. Flags'
  BY <1>1 DEF Inv, Flags
<1>7. Listed(isglobal', active', Lines(buf'))
  <2>1. active \in Seq(Nodes)
    BY DEF Inv, Listed
  <2>2. \A S : << >> \in Seq(S)
    OBVIOUS
  <2>3. QED
    BY <1>1, <2>1, <2>2 DEF Listed
<1>8. Doing(task') /\ Ready(task', buf', ustack')
  BY <1>1, FreeTasks, ReadyFree
<1>9. before # Nothing
  BY <1>3, UndoAssumption
<1>10. QED
  BY <1>1, <1>3, <1>4, <1>5, <1>6, <1>7, <1>8, <1>9 DEF Inv

-----------------------------------------------------------------------------
(* The initial state                                                       *)

(* The buffer of a file with the lines text.                               *)
Opened(b, text) ==
    /\ b \in Buffers
    /\ \A x \in AnyNode :
          /\ b.forw[x] = IF x = BufferHead THEN LineOf(text, 1)
                         ELSE LineOf(text, PosOf(text, x) + 1)
          /\ b.back[x] = IF x = BufferHead THEN LineOf(text, InitLines)
                         ELSE IF PosOf(text, x) <= InitLines
                              THEN LineOf(text, PosOf(text, x) - 1)
                         ELSE BufferHead
    /\ b.on \in 0..InitLines /\ b.lp = LineOf(text, b.on)
    /\ b.addr_last = InitLines /\ b.current_addr = InitLines

LEMMA OpenedHolds ==
    ASSUME NEW s \in Rings, Len(s) = InitLines, NEW b, Opened(b, s)
    PROVE  /\ Holds(b, s)
           /\ \A y \in AnyNode \ OnRing(s) : b.forw[y] = BufferHead /\ b.back[y] = BufferHead
<1>. PICK n \in Nat : n = InitLines
  BY LinesAre
<1>1. Len(s) = n
  OBVIOUS
<1>2. \A k : LineOf(s, k) = Place(s, k)
  BY DEF LineOf, Place
<1>3. ASSUME NEW k \in 1..n
      PROVE  PosOf(s, s[k]) = k
  <2>1. \A l \in 1..n : s[l] = s[k] => l = k
    BY <1>1, LinesAre
  <2>2. QED
    BY <2>1 DEF PosOf
<1>4. ASSUME NEW y \in AnyNode, y \notin OnRing(s)
      PROVE  PosOf(s, y) = n + 1 /\ y # BufferHead
  <2>1. \A k \in 1..n : s[k] \in OnRing(s)
    BY <1>1, PlaceIs
  <2>2. BufferHead \in OnRing(s)
    BY PlaceIs
  <2>3. QED
    BY <1>4, <2>1, <2>2 DEF PosOf
<1>5. Place(s, 0) = BufferHead /\ Place(s, n + 1) = BufferHead /\ Place(s, n + 2) = BufferHead
  BY <1>1 DEF Place
<1>6. b.forw \in Links /\ b.back \in Links /\ b \in Buffers
  BY DEF Opened, Buffers
<1>7. \A k \in 1..n : Place(s, k) = s[k] /\ s[k] # BufferHead /\ s[k] \in AnyNode
  BY <1>1, PlaceIs, LinesAre DEF AnyNode
<1>8. BufferHead \in AnyNode
  BY DEF AnyNode
<1>9. ASSUME NEW k \in 0..n
      PROVE  b.forw[Place(s, k)] = Place(s, k + 1)
  <2>1. CASE k = 0
    <3>1. b.forw[BufferHead] = LineOf(s, 1)
      BY <1>8 DEF Opened
    <3>2. QED
      BY <1>2, <1>5, <2>1, <3>1
  <2>2. CASE k \in 1..n
    <3>1. b.forw[s[k]] = LineOf(s, PosOf(s, s[k]) + 1)
      BY <1>7, <2>2 DEF Opened
    <3>2. QED
      BY <1>2, <1>3, <1>7, <2>2, <3>1
  <2>3. QED
    BY <2>1, <2>2
<1>10. ASSUME NEW k \in 0..n
       PROVE  b.back[Place(s, k + 1)] = Place(s, k)
  <2>1. CASE k = n
    <3>1. b.back[BufferHead] = LineOf(s, n)
      BY <1>8 DEF Opened
    <3>2. QED
      BY <1>2, <1>5, <2>1, <3>1
  <2>2. CASE k + 1 \in 1..n
    <3>1. PosOf(s, s[k + 1]) = k + 1
      BY <1>3, <2>2
    <3>2. s[k + 1] \in AnyNode /\ s[k + 1] # BufferHead /\ Place(s, k + 1) = s[k + 1]
      BY <1>7, <2>2
    <3>3. k + 1 <= InitLines /\ (k + 1) - 1 = k
      BY <2>2
    <3>4. b.back[s[k + 1]] = LineOf(s, (k + 1) - 1)
      BY <3>1, <3>2, <3>3 DEF Opened
    <3>5. QED
      BY <1>2, <3>2, <3>3, <3>4
  <2>3. QED
    BY <2>1, <2>2
<1>11. IsRing(b, s)
  BY <1>1, <1>6, <1>9, <1>10 DEF IsRing
<1>12. /\ b.addr_last = Len(s) /\ b.current_addr \in 0..Len(s)
       /\ b.on \in 0..Len(s) /\ b.lp = Place(s, b.on)
  BY <1>2 DEF Opened
<1>13. Holds(b, s)
  BY <1>6, <1>11, <1>12 DEF Holds
<1>14. ASSUME NEW y \in AnyNode \ OnRing(s)
       PROVE  b.forw[y] = BufferHead /\ b.back[y] = BufferHead
  <2>1. PosOf(s, y) = n + 1 /\ y # BufferHead
    BY <1>4
  <2>2. b.forw[y] = LineOf(s, (n + 1) + 1) /\ b.back[y] = BufferHead
    BY <2>1 DEF Opened
  <2>3. QED
    BY <1>2, <1>5, <2>2
<1>15. QED
  BY <1>13, <1>14

NoBuffer == [ forw |-> [x \in AnyNode |-> BufferHead], back |-> [x \in AnyNode |-> BufferHead],
              lp |-> BufferHead, on |-> 0, addr_last |-> 0, current_addr |-> 0 ]

LEMMA NoBufferHolds ==
    /\ << >> \in Rings /\ Holds(NoBuffer, << >>) /\ OnRing(<< >>) = {BufferHead}
    /\ \A y \in AnyNode : NoBuffer.forw[y] = BufferHead /\ NoBuffer.back[y] = BufferHead
<1>1. << >> \in Rings /\ Len(<< >>) = 0
  BY DEF Rings, Injective
<1>2. \A k : Place(<< >>, k) = BufferHead
  BY DEF Place
<1>3. OnRing(<< >>) = {BufferHead}
  <2>1. 0 \in 0..Len(<< >>)
    BY <1>1
  <2>2. QED
    BY <1>2, <2>1 DEF OnRing
<1>4. BufferHead \in AnyNode
  BY DEF AnyNode
<1>5. NoBuffer \in Buffers
  BY <1>4 DEF NoBuffer, Buffers, Links
<1>6. \A y \in AnyNode : NoBuffer.forw[y] = BufferHead /\ NoBuffer.back[y] = BufferHead
  BY DEF NoBuffer
<1>7. IsRing(NoBuffer, << >>)
  BY <1>1, <1>2, <1>4, <1>5, <1>6 DEF IsRing, Buffers
<1>8. /\ NoBuffer.addr_last = 0 /\ NoBuffer.current_addr = 0 /\ NoBuffer.on = 0
      /\ NoBuffer.lp = BufferHead
  BY DEF NoBuffer
<1>9. Holds(NoBuffer, << >>)
  BY <1>1, <1>2, <1>5, <1>7, <1>8 DEF Holds
<1>10. QED
  BY <1>1, <1>3, <1>6, <1>9

(* The file that is read first is an insertion into no lines at all.       *)
LEMMA OpenedKept ==
    ASSUME NEW s \in Rings, Len(s) = InitLines, InitLines # 0, NEW b, Opened(b, s),
           NEW hp, hp \subseteq Nodes, hp \cup {BufferHead} = OnRing(s),
           NEW e, e = [type |-> "UADD", h |-> LineOf(s, 1), t |-> LineOf(s, InitLines)]
    PROVE  Kept(b, Append(<< >>, e), hp, -1, -1, Nothing) /\ Headless(Append(<< >>, e))
<1>. PICK n \in Nat : n = InitLines
  BY LinesAre
<1>1. Len(s) = n /\ n # 0 /\ 1 \in 1..n /\ n \in 1..n
  OBVIOUS
<1>2. /\ Holds(b, s)
      /\ \A y \in AnyNode \ OnRing(s) : b.forw[y] = BufferHead /\ b.back[y] = BufferHead
  BY OpenedHolds
<1>3. Place(s, 1) = s[1] /\ Place(s, n) = s[n] /\ s[1] # BufferHead
  BY <1>1, PlaceIs
<1>4. LineOf(s, 1) = s[1] /\ LineOf(s, InitLines) = s[n]
  BY <1>1 DEF LineOf
<1>5. s[1] \in AnyNode /\ s[n] \in AnyNode
  BY <1>1, LinesAre DEF AnyNode
<1>6. e \in Entries /\ e.type = "UADD" /\ e.h = s[1] /\ e.t = s[n]
  BY <1>4, <1>5 DEF Entries
<1>. PICK es : es = << >>
  OBVIOUS
<1>7. es \in Rings /\ Holds(NoBuffer, es) /\ OnRing(es) = {BufferHead} /\ Len(es) = 0
  BY NoBufferHolds
<1>. PICK hist : hist = Once(es)
  OBVIOUS
<1>8. Past(NoBuffer, << >>, {}, hist, {}) /\ hist[0] = es
  <2>1. {} \subseteq Nodes /\ {} \cup {BufferHead} = OnRing(es)
    BY <1>7
  <2>2. QED
    BY <1>7, <2>1, PastFresh
<1>9. Inserted(es, s, e)
  <2>1. Whole(s, 1, n)
    BY <1>1 DEF Whole
  <2>2. es = Without(s, 1, n)
    BY <1>1 DEF Without
  <2>3. QED
    BY <1>3, <1>6, <2>1, <2>2 DEF Inserted
<1>. PICK us : us = es
  OBVIOUS
<1>10. Past(NoBuffer, us, {}, hist, {}) /\ hist[Len(us)] = es /\ Len(us) = 0
  BY <1>7, <1>8
<1>11. Changed(hist[Len(us)], s, e)
  BY <1>6, <1>9, <1>10 DEF Changed
<1>12. Known(hist, Len(us)) = OnRing(es)
  BY <1>10 DEF Known
<1>13. Fresh(s, hist, Len(us))
  BY <1>10, <1>12 DEF Fresh
<1>14. Untouched(b, NoBuffer, s)
  <2>1. \A y \in AnyNode : NoBuffer.forw[y] = BufferHead /\ NoBuffer.back[y] = BufferHead
    BY NoBufferHolds
  <2>2. QED
    BY <1>2, <2>1 DEF Untouched
<1>15. Headless(us)
  BY HeadlessNone
<1>16. BufferHead \in OnRing(s)
  BY PlaceIs
<1>17. hp \cup {BufferHead} = Known(hist, Len(us)) \cup OnRing(s)
  BY <1>7, <1>12, <1>16
<1>18. /\ e.type # "UMOV" /\ e.type # "UDEL" /\ e.h # BufferHead
  BY <1>3, <1>6
<1>19. Past(b, Append(us, e), hp, Extended(hist, Len(us), s), {})
  BY <1>2, <1>6, <1>10, <1>11, <1>13, <1>14, <1>15, <1>17, <1>18, PastExtended
<1>20. \A q : Noted(q, -1, -1, Nothing)
  BY DEF Noted
<1>21. Kept(b, Append(us, e), hp, -1, -1, Nothing)
  BY <1>19, <1>20 DEF Kept
<1>22. Headless(Append(us, e))
  <2>1. us \in Seq(Entries)
    OBVIOUS
  <2>2. QED
    BY <1>6, <1>15, <1>18, <2>1, HeadlessMore
<1>23. QED
  BY <1>21, <1>22

LEMMA InitInv == Init => Inv
<1>. SUFFICES ASSUME Init PROVE Inv
  OBVIOUS
<1>1. InitLines \in Nat
  BY UndoAssumption, NodesCounted
<1>2. PICK s \in [1..InitLines -> Nodes] :
         /\ Injective(s)
         /\ buf = [ forw |-> [x \in AnyNode |-> IF x = BufferHead THEN LineOf(s, 1)
                                                ELSE LineOf(s, PosOf(s, x) + 1)],
                    back |-> [x \in AnyNode |->
                                 IF x = BufferHead THEN LineOf(s, InitLines)
                                 ELSE IF PosOf(s, x) <= InitLines THEN LineOf(s, PosOf(s, x) - 1)
                                 ELSE BufferHead],
                    lp |-> LineOf(s, IF InitLines < 2 THEN InitLines ELSE InitLines - 1),
                    on |-> IF InitLines < 2 THEN InitLines ELSE InitLines - 1,
                    addr_last |-> InitLines, current_addr |-> InitLines ]
         /\ ustack = IF InitLines = 0 THEN << >>
                     ELSE << [type |-> "UADD", h |-> LineOf(s, 1), t |-> LineOf(s, InitLines)] >>
         /\ heap = { s[k] : k \in 1..InitLines }
  BY DEF Init, FirstRead
<1>3. s \in Rings /\ Len(s) = InitLines
  <2>1. s \in Seq(Nodes) /\ Len(s) = InitLines
    BY <1>1
  <2>2. QED
    BY <1>2, <2>1 DEF Rings
<1>4. Opened(buf, s)
  <2>1. \A k : LineOf(s, k) \in AnyNode
    BY DEF LineOf, AnyNode
  <2>2. BufferHead \in AnyNode
    BY DEF AnyNode
  <2>. PICK c \in Nat : c = IF InitLines < 2 THEN InitLines ELSE InitLines - 1
    BY <1>1
  <2>3. /\ buf.on = c /\ buf.lp = LineOf(s, c)
        /\ buf.addr_last = InitLines /\ buf.current_addr = InitLines /\ c \in 0..InitLines
    BY <1>1, <1>2
  <2>4. buf \in Buffers
    BY <1>1, <1>2, <2>1, <2>2 DEF Buffers, Links
  <2>5. \A x \in AnyNode :
          /\ buf.forw[x] = IF x = BufferHead THEN LineOf(s, 1)
                           ELSE LineOf(s, PosOf(s, x) + 1)
          /\ buf.back[x] = IF x = BufferHead THEN LineOf(s, InitLines)
                           ELSE IF PosOf(s, x) <= InitLines
                                THEN LineOf(s, PosOf(s, x) - 1)
                           ELSE BufferHead
    BY <1>2
  <2>6. QED
    BY <2>3, <2>4, <2>5 DEF Opened
<1>5. Holds(buf, s)
  BY <1>3, <1>4, OpenedHolds
<1>6. heap \subseteq Nodes /\ heap \cup {BufferHead} = OnRing(s)
  <2>1. BufferHead \in OnRing(s) /\ \A k \in 1..InitLines : s[k] \in OnRing(s)
    BY <1>3, PlaceIs
  <2>2. \A x \in OnRing(s) : x # BufferHead => \E k \in 1..InitLines : x = s[k]
    BY <1>3, PlaceIs
  <2>3. QED
    BY <1>2, <2>1, <2>2
<1>7. Kept(buf, ustack, heap, -1, -1, Nothing) /\ Headless(ustack) /\ Len(ustack) <= MaxUndo
  <2>. PICK b, hp : b = buf /\ hp = heap
    OBVIOUS
  <2>1. Holds(b, s) /\ hp \subseteq Nodes /\ hp \cup {BufferHead} = OnRing(s)
    BY <1>5, <1>6
  <2>2. CASE InitLines = 0
    <3>1. ustack = << >>
      BY <1>2, <2>2
    <3>2. Noted(s, -1, -1, Nothing)
      BY DEF Noted
    <3>3. Kept(b, << >>, hp, -1, -1, Nothing)
      BY <2>1, <3>2, KeptFresh
    <3>4. QED
      BY <3>1, <3>3, HeadlessNone, UndoAssumption
  <2>3. CASE InitLines # 0
    <3>. PICK e : e = [type |-> "UADD", h |-> LineOf(s, 1), t |-> LineOf(s, InitLines)]
      OBVIOUS
    <3>1. ustack = << e >> /\ << e >> = Append(<< >>, e) /\ Len(<< e >>) = 1
      BY <1>2, <2>3
    <3>2. Opened(b, s)
      BY <1>4
    <3>3. Kept(b, Append(<< >>, e), hp, -1, -1, Nothing) /\ Headless(Append(<< >>, e))
      BY <1>3, <2>1, <2>3, <3>2, OpenedKept
    <3>4. QED
      BY <3>1, <3>3, UndoAssumption
  <2>4. QED
    BY <2>2, <2>3
<1>8. /\ u_current_addr = -1 /\ u_addr_last = -1 /\ before = Nothing
      /\ isglobal = FALSE /\ active = << >> /\ modified = FALSE /\ changed = FALSE
      /\ task = Idle
  BY DEF Init
<1>9. Undoing
  BY <1>7, <1>8 DEF Undoing
<1>10. Flags /\ Listed(isglobal, active, Lines(buf))
  <2>1. << >> \in Seq(Nodes)
    OBVIOUS
  <2>2. QED
    BY <1>8, <2>1 DEF Flags, Listed
<1>11. Doing(task) /\ Ready(task, buf, ustack)
  BY <1>8, FreeTasks, ReadyFree
<1>12. QED
  BY <1>7, <1>9, <1>10, <1>11 DEF Inv

-----------------------------------------------------------------------------
(* Theorems                                                                *)

LEMMA StutterInv == Inv /\ UNCHANGED vars => Inv'
BY DEF Inv, Undoing, Flags, vars, undoing

LEMMA CommandSteps ==
    ASSUME Inv, \/ AppendLines \/ ReadFile \/ ChangeLines \/ DeleteLines \/ JoinLines
                \/ MoveLines \/ CopyLines \/ Substitute \/ EditFile \/ Undo
                \/ WriteFile \/ Warn \/ Global
    PROVE  Inv'
BY AppendLinesStep, ReadFileStep, ChangeLinesStep, DeleteLinesStep, JoinLinesStep,
   MoveLinesStep, CopyLinesStep, SubstituteStep, EditFileStep, UndoStep,
   WriteFileStep, WarnStep, GlobalStep

LEMMA SectionSteps ==
    ASSUME Inv, \/ InsertLine \/ InsertEnd \/ EditEnd \/ DeleteRange \/ AfterDelete
                \/ Join \/ Move \/ CopyLine \/ CopyRest
    PROVE  Inv'
BY InsertLineStep, InsertEndStep, EditEndStep, DeleteRangeStep, AfterDeleteStep,
   JoinStep, MoveStep, CopyLineStep, CopyRestStep

LEMMA OtherSteps ==
    ASSUME Inv, \/ NoMatch \/ Match \/ Replace \/ Replaced \/ SubstituteEnd \/ Reopen
                \/ NextActive \/ GlobalEnd \/ Interrupt
    PROVE  Inv'
BY NoMatchStep, MatchStep, ReplaceStep, ReplacedStep, SubstituteEndStep, ReopenStep,
   NextActiveStep, GlobalEndStep, InterruptStep

LEMMA StepKeeps == Inv /\ [Next]_vars => Inv'
<1>. SUFFICES ASSUME Inv, [Next]_vars PROVE Inv'
  OBVIOUS
<1>1. CASE UNCHANGED vars
  BY <1>1, StutterInv
<1>2. CASE \/ InsertFails \/ JoinFails \/ CopyFails \/ ReplaceFails
  BY <1>2, PutFailsSteps
<1>3. CASE \/ DeleteFails \/ MoveFails \/ MatchFails
  BY <1>3, PushFailsSteps
<1>4. CASE Next
  BY <1>2, <1>3, <1>4, CommandSteps, SectionSteps, OtherSteps DEF Next
<1>5. QED
  BY <1>1, <1>4

(* The undo stack is a course of insertions, deletions and moves that leads *)
(* from the lines that were noted to those of the buffer, and the nodes it *)
(* takes out of the ring keep the links that undoing needs, at any point   *)
(* of any command: push_undo_stack(), pop_undo_stack() and                 *)
(* clear_undo_stack() of ed/undo.c with the commands of ed/main.c.         *)
THEOREM UndoInvariant == Spec => []Inv
<1>1. Init => Inv
  BY InitInv
<1>2. Inv /\ [Next]_vars => Inv'
  BY StepKeeps
<1>3. QED
  BY <1>1, <1>2, PTL DEF Spec

LEMMA KeptNoted ==
    ASSUME NEW b, NEW us, NEW hp, NEW addr, NEW last, NEW bf,
           Kept(b, us, hp, addr, last, bf)
    PROVE  addr \in Nat \cup {-1} /\ last \in Nat \cup {-1}
<1>1. PICK hist, P : Past(b, us, hp, hist, P) /\ Noted(hist[0], addr, last, bf)
  BY DEF Kept
<1>2. hist[0] \in Rings
  BY <1>1, PastIs
<1>3. Len(hist[0]) \in Nat
  BY <1>2, LinesAre
<1>4. QED
  BY <1>1, <1>3 DEF Noted

LEMMA InvTypes ==
    ASSUME Inv
    PROVE  TypeOK
<1>. PICK b : b = buf
  OBVIOUS
<1>1. Holds(b, Lines(b)) /\ ustack \in Seq(Entries) /\ heap \subseteq Nodes
  BY InvIs
<1>2. /\ b.forw \in Links /\ b.back \in Links /\ b.lp \in AnyNode
      /\ b.on \in 0..b.addr_last /\ b.current_addr \in 0..b.addr_last
  BY <1>1 DEF Holds, IsRing, Buffers
<1>3. b.addr_last \in 0..Cardinality(Nodes)
  BY <1>1, HoldsIs
<1>4. u_current_addr \in Nat \cup {-1} /\ u_addr_last \in Nat \cup {-1}
  <2>. PICK us, hp, addr, last, bf :
          /\ us = ustack /\ hp = heap
          /\ addr = u_current_addr /\ last = u_addr_last /\ bf = before
    OBVIOUS
  <2>1. Kept(b, us, hp, addr, last, bf)
    BY InvIs
  <2>2. addr \in Nat \cup {-1} /\ last \in Nat \cup {-1}
    BY <2>1, KeptNoted
  <2>3. QED
    BY <2>2
<1>5. { isglobal, modified, changed } \subseteq BOOLEAN
  BY DEF Inv, Flags
<1>6. active \in Seq(Nodes) /\ Len(ustack) <= MaxUndo
  BY DEF Inv, Listed
<1>7. ustack \in Seq([type : {"UADD", "UDEL", "UMOV"}, h : AnyNode, t : AnyNode])
  BY <1>1 DEF Entries
<1>8. QED
  BY <1>1, <1>2, <1>3, <1>4, <1>5, <1>6, <1>7 DEF TypeOK

(* Whenever a signal may be handled the ring is sound and the cached       *)
(* position in it is right: add_line_node(), delete_lines(), move_lines()  *)
(* and get_addressed_line_node() of ed, in any order and interrupted.      *)
THEOREM RingSoundAlways == Spec => []RingSound
<1>1. Inv => RingSound
  <2>. SUFFICES ASSUME Inv PROVE RingSound
    OBVIOUS
  <2>1. Holds(buf, Lines(buf))
    BY InvIs
  <2>2. RingOf(buf) /\ buf.lp = Along(buf.forw, BufferHead, buf.on)
    BY <2>1, HoldsIs
  <2>3. QED
    BY <2>2, InvTypes DEF RingSound
<1>2. QED
  BY <1>1, UndoInvariant, PTL

(* At any point of any command, pop_undo_stack() would give a sound ring   *)
(* with as many lines as push_undo_stack() had noted.                      *)
THEOREM UndoSoundAlways == Spec => []UndoSound
<1>1. Inv => UndoSound
  <2>. SUFFICES ASSUME Inv, CanUndo
       PROVE  RingOf(Restored) /\ u_current_addr <= u_addr_last
    BY DEF UndoSound
  <2>. PICK b, us, hp, addr, last, bf :
          /\ b = buf /\ us = ustack /\ hp = heap
          /\ addr = u_current_addr /\ last = u_addr_last /\ bf = before
    OBVIOUS
  <2>1. Kept(b, us, hp, addr, last, bf) /\ addr # -1 /\ last # -1
    BY InvIs DEF CanUndo
  <2>2. RingOf([UndoneAll(b, us) EXCEPT !.addr_last = last]) /\ addr <= last
    BY <2>1, KeptRestored
  <2>3. QED
    BY <2>2 DEF Restored
<1>2. QED
  BY <1>1, UndoInvariant, PTL

(* What malloc() returned for a line is in the buffer or will be freed by  *)
(* clear_undo_stack(), once: none is leaked, freed twice or freed while it *)
(* is in the buffer, and the list of a global command names lines of the   *)
(* buffer only (unset_active_nodes()).                                     *)
THEOREM AccountedAlways == Spec => []Accounted
<1>1. Inv => Accounted
  <2>. SUFFICES ASSUME Inv PROVE Accounted
    OBVIOUS
  <2>. PICK b, us, hp, addr, last, bf :
          /\ b = buf /\ us = ustack /\ hp = heap
          /\ addr = u_current_addr /\ last = u_addr_last /\ bf = before
    OBVIOUS
  <2>1. Kept(b, us, hp, addr, last, bf)
    BY InvIs
  <2>2. /\ hp = InBuffer(b) \cup UNION { CutOut(b, us[i]) : i \in Removed(us) }
        /\ \A i \in Removed(us) : CutOut(b, us[i]) \cap InBuffer(b) = {}
        /\ \A i, j \in Removed(us) : i # j => CutOut(b, us[i]) \cap CutOut(b, us[j]) = {}
        /\ \A i \in DOMAIN us : {us[i].h, us[i].t} \subseteq hp \cup {BufferHead}
    BY <2>1, KeptAccounted
  <2>3. isglobal => \A i \in DOMAIN active : active[i] \in InBuffer(buf)
    <3>1. HAVE isglobal
    <3>2. active \in Seq(OnRing(Lines(buf))) /\ active \in Seq(Nodes)
      BY <3>1 DEF Inv, Listed
    <3>3. Holds(buf, Lines(buf))
      BY InvIs
    <3>4. InBuffer(buf) = OnRing(Lines(buf)) \ {BufferHead}
      BY <3>3, HoldsIs
    <3>5. \A i \in DOMAIN active : active[i] \in OnRing(Lines(buf)) /\ active[i] \in Nodes
      BY <3>2
    <3>6. QED
      BY <3>4, <3>5, BufferAssumption
  <2>4. QED
    BY <2>2, <2>3 DEF Accounted, Removed
<1>2. QED
  BY <1>1, UndoInvariant, PTL

-----------------------------------------------------------------------------
(* Undoing restores what was saved                                         *)

(* The lines are those that were noted, while nothing is on the stack.     *)
LEMMA KeptNone ==
    ASSUME NEW b, NEW us, NEW hp, NEW addr, NEW last, NEW bf,
           Kept(b, us, hp, addr, last, bf), us = << >>, addr # -1
    PROVE  bf.lines = Lines(b)
<1>1. PICK hist, P : Past(b, us, hp, hist, P) /\ Noted(hist[0], addr, last, bf)
  BY DEF Kept
<1>2. Lines(b) = hist[Len(us)] /\ Len(us) = 0
  BY <1>1, PastIs
<1>3. QED
  BY <1>1, <1>2 DEF Noted

LEMMA ClearingSaves ==
    ASSUME Inv, Inv', ClearUndo(buf, heap)
    PROVE  EL!Save
<1>. PICK b, us, hp, addr, last, bf :
        /\ b = buf' /\ us = ustack' /\ hp = heap'
        /\ addr = u_current_addr' /\ last = u_addr_last' /\ bf = before'
  OBVIOUS
<1>1. Kept(b, us, hp, addr, last, bf)
  BY DEF Inv, Undoing
<1>2. us = << >> /\ addr = buf.current_addr /\ bf = Text(buf)
  BY DEF ClearUndo
<1>3. addr # -1
  BY <1>2, InvIs
<1>4. bf.lines = Lines(b)
  BY <1>1, <1>2, <1>3, KeptNone
<1>5. Text(buf).lines = Lines(buf) /\ Text(buf').lines = Lines(buf')
  BY DEF Text
<1>6. QED
  BY <1>2, <1>4, <1>5 DEF EL!Save

LEMMA BeginSaves ==
    ASSUME Inv, Inv', NEW b, NEW t, Begin(b, t)
    PROVE  EL!Next
<1>1. CASE isglobal
  BY <1>1 DEF Begin, undoing, EL!Next, EL!Change
<1>2. CASE ~isglobal
  BY <1>2, ClearingSaves DEF Begin, EL!Next
<1>3. QED
  BY <1>1, <1>2

LEMMA CommandsAre ==
    ASSUME \/ AppendLines \/ ReadFile \/ ChangeLines \/ DeleteLines \/ JoinLines
           \/ MoveLines \/ CopyLines \/ Substitute
    PROVE  \E b, t : Begin(b, t)
<1>1. CASE AppendLines
  BY <1>1 DEF AppendLines
<1>2. CASE ReadFile
  BY <1>2 DEF ReadFile
<1>3. CASE ChangeLines
  BY <1>3 DEF ChangeLines
<1>4. CASE DeleteLines
  BY <1>4 DEF DeleteLines
<1>5. CASE JoinLines
  BY <1>5 DEF JoinLines
<1>6. CASE MoveLines
  BY <1>6 DEF MoveLines
<1>7. CASE CopyLines
  BY <1>7 DEF CopyLines
<1>8. CASE Substitute
  BY <1>8 DEF Substitute
<1>9. QED
  BY <1>1, <1>2, <1>3, <1>4, <1>5, <1>6, <1>7, <1>8

(* The steps that leave what u is to bring back alone.                     *)
LEMMA SavedKept ==
    ASSUME \/ EditFile \/ WriteFile \/ Warn \/ InsertLine \/ InsertEnd
           \/ DeleteRange \/ AfterDelete \/ Join \/ Move \/ CopyLine \/ CopyRest
           \/ NoMatch \/ Match \/ Replace \/ Replaced \/ SubstituteEnd
           \/ NextActive \/ GlobalEnd \/ Interrupt
    PROVE  before' = before
<1>1. CASE EditFile \/ WriteFile \/ Warn \/ InsertEnd \/ AfterDelete \/ CopyRest
  BY <1>1 DEF EditFile, WriteFile, Warn, InsertEnd, AfterDelete, CopyRest, undoing
<1>2. CASE NoMatch \/ Replaced \/ SubstituteEnd \/ NextActive \/ GlobalEnd \/ Interrupt
  BY <1>2 DEF NoMatch, Replaced, SubstituteEnd, NextActive, GlobalEnd, Interrupt, undoing
<1>3. \A up, t : Put(up, t) => before' = before
  BY DEF Put
<1>4. CASE InsertLine \/ Join \/ CopyLine \/ Replace
  BY <1>3, <1>4 DEF InsertLine, Join, CopyLine, Replace
<1>5. \A b, from, to, t : Delete(b, from, to, t) => before' = before
  BY DEF Delete
<1>6. CASE DeleteRange \/ Match
  BY <1>5, <1>6 DEF DeleteRange, Match
<1>7. CASE Move
  BY <1>7 DEF Move
<1>8. QED
  BY <1>1, <1>2, <1>4, <1>6, <1>7

(* u is the u of EdLines, and not another step that looks like it.         *)
LEMMA UndoImplements ==
    ASSUME Inv, Undo
    PROVE  EL!Undo
<1>1. Text(buf') = before /\ before # Nothing
  BY UndoStep
<1>2. before' = Text(buf)
  BY DEF Undo
<1>3. QED
  BY <1>1, <1>2 DEF EL!Undo

LEMMA StepImplements ==
    ASSUME Inv, Inv', Next
    PROVE  EL!Next
<1>1. CASE \/ AppendLines \/ ReadFile \/ ChangeLines \/ DeleteLines \/ JoinLines
           \/ MoveLines \/ CopyLines \/ Substitute
  BY <1>1, CommandsAre, BeginSaves
<1>2. CASE \/ EditFile \/ WriteFile \/ Warn \/ InsertLine \/ InsertEnd
           \/ DeleteRange \/ AfterDelete \/ Join \/ Move \/ CopyLine \/ CopyRest
           \/ NoMatch \/ Match \/ Replace \/ Replaced \/ SubstituteEnd
           \/ NextActive \/ GlobalEnd \/ Interrupt
  <2>1. before' = before
    BY <1>2, SavedKept
  <2>2. QED
    BY <2>1 DEF EL!Next, EL!Change
<1>3. CASE Undo
  BY <1>3, UndoImplements DEF EL!Next
<1>4. CASE Global \/ Reopen
  <2>1. ClearUndo(buf, heap)
    BY <1>4 DEF Global, Reopen
  <2>2. QED
    BY <2>1, ClearingSaves DEF EL!Next
<1>5. CASE DeleteFails \/ MoveFails \/ MatchFails
  <2>1. before' = Text(buf') /\ Lines(buf') = Lines(buf)
    BY <1>5, PushFailsSteps
  <2>2. Text(buf).lines = Lines(buf) /\ Text(buf').lines = Lines(buf')
    BY DEF Text
  <2>3. QED
    BY <2>1, <2>2 DEF EL!Next, EL!GiveUp
<1>6. CASE InsertFails \/ JoinFails \/ CopyFails \/ ReplaceFails
  <2>1. Text(buf') = before' /\ Len(Lines(buf')) = Len(Lines(buf)) + 1
    BY <1>6, PutFailsSteps
  <2>2. Text(buf).lines = Lines(buf) /\ Text(buf').lines = Lines(buf')
    BY DEF Text
  <2>3. QED
    BY <2>1, <2>2 DEF EL!Next, EL!GiveUp
<1>7. CASE EditEnd
  <2>1. before' = Nothing
    BY <1>7 DEF EditEnd
  <2>2. QED
    BY <2>1 DEF EL!Next, EL!Forget
<1>8. QED
  BY <1>1, <1>2, <1>3, <1>4, <1>5, <1>6, <1>7 DEF Next

(* "undoes the last command and restores the current address" (ed.1): u    *)
(* brings back the lines and the address from before the command, a global *)
(* one counting as one, and is its own inverse, whatever was interrupted   *)
(* or ran out of memory: pop_undo_stack() on every history of commands.    *)
THEOREM UndoImplementsLines == Spec => ImplementsEdLines
<1>1. Init => EL!Init
  BY DEF Init, EL!Init
<1>2. ASSUME Inv, Inv', [Next]_vars
      PROVE  [EL!Next]_<< Text(buf), before >>
  <2>1. CASE Next
    BY <1>2, <2>1, StepImplements
  <2>2. CASE UNCHANGED vars
    BY <2>2 DEF vars, undoing, Text, Lines
  <2>3. QED
    BY <1>2, <2>1, <2>2
<1>3. ASSUME Inv, [Next]_vars
      PROVE  [Undo => EL!Undo]_vars
  BY <1>3, UndoImplements
<1>4. QED
  BY <1>1, <1>2, <1>3, UndoInvariant, PTL DEF Spec, ImplementsEdLines, EL!Spec
=============================================================================
