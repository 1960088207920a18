-------------------------- MODULE TftpRecv_proofs ---------------------------
(***************************************************************************)
(* Theorems about TftpRecv, for every choice of its constants.             *)
(***************************************************************************)
EXTENDS TftpRecvInv, SequenceTheorems, TLAPS

-----------------------------------------------------------------------------
(* The buffers and the wire                                                *)

(* A read returns at most the octets asked for, of those left.             *)
LEMMA ChunkFacts ==
    ASSUME NEW f \in Seq(Int), NEW a \in Nat, NEW k \in Nat
    PROVE  /\ Chunk(f, a, k) \in Seq(Int)
           /\ Len(Chunk(f, a, k)) = IF a >= Len(f) THEN 0 ELSE Least(a + k, Len(f)) - a
BY DEF Chunk, Least

(* The octets before offset a and a read at a make the octets before the   *)
(* end of that read.                                                       *)
LEMMA ChunkExtends ==
    ASSUME NEW f \in Seq(Int), NEW a \in Nat, NEW k \in Nat
    PROVE  SubSeq(f, 1, Least(a, Len(f))) \o Chunk(f, a, k)
               = SubSeq(f, 1, Least(a + k, Len(f)))
<1> DEFINE x == SubSeq(f, 1, Least(a, Len(f)))
           y == Chunk(f, a, k)
           z == SubSeq(f, 1, Least(a + k, Len(f)))
<1>1. /\ Len(x) = Least(a, Len(f)) /\ x \in Seq(Int)
      /\ \A i \in 1..Len(x) : x[i] = f[i]
  BY DEF Least
<1>2. /\ y \in Seq(Int)
      /\ Len(y) = IF a >= Len(f) THEN 0 ELSE Least(a + k, Len(f)) - a
      /\ \A i \in 1..Len(y) : y[i] = f[a + i]
  BY DEF Chunk, Least
<1>3. /\ Len(z) = Least(a + k, Len(f)) /\ z \in Seq(Int)
      /\ \A i \in 1..Len(z) : z[i] = f[i]
  BY DEF Least
<1> HIDE DEF x, y, z
<1>4. /\ x \o y \in Seq(Int) /\ Len(x \o y) = Len(x) + Len(y)
      /\ \A i \in 1..(Len(x) + Len(y)) :
             (x \o y)[i] = IF i <= Len(x) THEN x[i] ELSE y[i - Len(x)]
  BY <1>1, <1>2, ConcatProperties
<1>a. Len(f) \in Nat /\ Len(x) \in Nat /\ Len(y) \in Nat
  BY <1>1, <1>2
<1>5. Len(x \o y) = Len(z)
  <2>1. CASE a >= Len(f)
    BY <2>1, <1>1, <1>2, <1>3, <1>4, <1>a DEF Least
  <2>2. CASE a < Len(f)
    BY <2>2, <1>1, <1>2, <1>3, <1>4, <1>a DEF Least
  <2>3. QED
    BY <2>1, <2>2, <1>a
<1>6. ASSUME NEW i \in 1..Len(x \o y)
      PROVE  (x \o y)[i] = z[i]
  <2>1. CASE i <= Len(x)
    <3>1. i \in 1..Len(x) /\ i \in 1..Len(z) /\ i \in 1..(Len(x) + Len(y))
      BY <2>1, <1>4, <1>5, <1>6, <1>a
    <3>2. QED
      BY <2>1, <3>1, <1>1, <1>3, <1>4
  <2>2. CASE i > Len(x)
    <3>1. i - Len(x) \in 1..Len(y) /\ i \in 1..Len(z) /\ i \in Nat
      BY <2>2, <1>4, <1>5, <1>6, <1>a
    <3>2. a < Len(f) /\ Len(x) = a
      BY <3>1, <1>1, <1>2, <1>a DEF Least
    <3>3. y[i - Len(x)] = f[a + (i - Len(x))] /\ z[i] = f[i]
      BY <3>1, <1>2, <1>3
    <3>4. (x \o y)[i] = y[i - Len(x)]
      BY <2>2, <3>1, <1>4, <1>5, <1>6, <1>a
    <3>5. QED
      BY <3>1, <3>2, <3>3, <3>4
  <2>3. QED
    BY <2>1, <2>2, <1>1, <1>2, <1>4
<1>7. x \o y = z
  BY <1>3, <1>4, <1>5, <1>6, SeqEqual
<1>8. QED
  BY <1>7 DEF x, y, z

(* Block k of a file in segments of s octets starts at offset (k - 1) * s: *)
(* block k + 1 a segment after block k, and later blocks later.            *)
LEMMA Offsets ==
    ASSUME NEW s \in Nat \ {0}
    PROVE  /\ \A k \in Nat \ {0} : (k - 1) * s \in Nat /\ k * s = (k - 1) * s + s
           /\ \A k, m \in Nat \ {0} : k <= m => (k - 1) * s <= (m - 1) * s
<1>1. ASSUME NEW a \in Nat, NEW b \in Nat
      PROVE  a * b \in Nat
  OBVIOUS
<1>2. \A k \in Nat \ {0} : (k - 1) * s \in Nat /\ k * s = (k - 1) * s + s
  OBVIOUS
<1>3. ASSUME NEW k \in Nat \ {0}, NEW m \in Nat \ {0}, k <= m
      PROVE  (k - 1) * s <= (m - 1) * s
  <2>1. (m - k) * s \in Nat
    BY <1>1, <1>3
  <2>2. (m - 1) * s = (k - 1) * s + (m - k) * s
    OBVIOUS
  <2>3. QED
    BY <2>1, <2>2, <1>2
<1>4. QED
  BY <1>2, <1>3

(* A direction holds what it held and the packet sent, or less.            *)
LEMMA SentKeeps ==
    ASSUME NEW ch, NEW p, NEW ch2 \in Sent(ch, p)
    PROVE  ch2 \subseteq ch \cup {p}
BY DEF Sent

(* Below BlockMod the next block number is the successor.                  *)
LEMMA NextBlockFacts ==
    ASSUME NEW k \in Nat, k + 1 < BlockMod
    PROVE  NextBlock(k) = k + 1
BY WireAssumption DEF NextBlock

-----------------------------------------------------------------------------
(* The write-behind buffers                                                *)

(* A buffer state of which some fields are changed.                        *)
LEMMA CounterChanged ==
    ASSUME NEW b \in Buffers, NEW c \in [{0, 1} -> Int], NEW r,
           r = [b EXCEPT !.counter = c]
    PROVE  /\ r \in Buffers
           /\ r.counter = c /\ r.data = b.data
           /\ r.current = b.current /\ r.nextone = b.nextone
BY DEF Buffers

LEMMA DataChanged ==
    ASSUME NEW b \in Buffers, NEW d \in [{0, 1} -> Seq(Int)], NEW r,
           r = [b EXCEPT !.data = d]
    PROVE  /\ r \in Buffers
           /\ r.counter = b.counter /\ r.data = d
           /\ r.current = b.current /\ r.nextone = b.nextone
BY DEF Buffers

LEMMA BufferTypes ==
    ASSUME NEW b \in Buffers
    PROVE  /\ b.counter \in [{0, 1} -> Int] /\ b.data \in [{0, 1} -> Seq(Int)]
           /\ b.current \in {0, 1} /\ b.nextone \in {0, 1}
           /\ Other(b.current) \in {0, 1} /\ Other(b.nextone) \in {0, 1}
           /\ \A k \in {0, 1} : b.counter[k] \in Int /\ b.data[k] \in Seq(Int)
           /\ \A k \in {0, 1}, ct \in Int : [b.counter EXCEPT ![k] = ct] \in [{0, 1} -> Int]
BY DEF Buffers, Other

(* What each function of the buffers leaves, field by field.               *)
LEMMA WriteBehindFields ==
    ASSUME NEW b \in Buffers
    PROVE  /\ WriteBehind(b) \in Buffers
           /\ Flushable(b) =>
                /\ WriteBehind(b).counter = [b.counter EXCEPT ![b.nextone] = BF_FREE]
                /\ WriteBehind(b).current = b.current
                /\ WriteBehind(b).nextone = Other(b.nextone)
           /\ ~Flushable(b) => WriteBehind(b) = b
<1>1. PICK c \in [{0, 1} -> Int] : c = [b.counter EXCEPT ![b.nextone] = BF_FREE]
  BY BufferTypes, -2 \in Int DEF BF_FREE
<1>2. PICK k \in {0, 1} : k = Other(b.nextone)
  BY BufferTypes
<1>3. Flushable(b) => WriteBehind(b) = [b EXCEPT !.counter = c, !.nextone = k]
  BY <1>1, <1>2, Zenon DEF WriteBehind
<1>4. ~Flushable(b) => WriteBehind(b) = b
  BY Zenon DEF WriteBehind
<1>5. CASE Flushable(b)
  <2>1. PICK r : r = WriteBehind(b)
    OBVIOUS
  <2>2. r = [b EXCEPT !.counter = c, !.nextone = k]
    BY <1>3, <1>5, <2>1
  <2>3. /\ r \in Buffers /\ r.counter = c
        /\ r.current = b.current /\ r.nextone = k
    BY <2>2 DEF Buffers
  <2>4. QED
    BY <1>1, <1>2, <1>5, <2>1, <2>3, Zenon
<1>6. QED
  BY <1>4, <1>5

LEMMA RecvIntoFields ==
    ASSUME NEW b \in Buffers, NEW d \in Seq(Int)
    PROVE  /\ RecvInto(b, d) \in Buffers
           /\ RecvInto(b, d).counter = b.counter
           /\ RecvInto(b, d).current = b.current
           /\ RecvInto(b, d).nextone = b.nextone
           /\ RecvInto(b, d).data[b.current]
                = d \o SubSeq(b.data[b.current], Len(d) + 1, Len(b.data[b.current]))
<1>1. PICK x \in Seq(Int) :
        x = d \o SubSeq(b.data[b.current], Len(d) + 1, Len(b.data[b.current]))
  <2>1. PICK old \in Seq(Int) : old = b.data[b.current]
    BY BufferTypes
  <2>2. SubSeq(old, Len(d) + 1, Len(old)) \in Seq(Int)
    OBVIOUS
  <2>3. d \o SubSeq(old, Len(d) + 1, Len(old)) \in Seq(Int)
    BY <2>2
  <2>4. QED
    BY <2>1, <2>3
<1>2. PICK e \in [{0, 1} -> Seq(Int)] : e = [b.data EXCEPT ![b.current] = x]
  BY BufferTypes
<1>3. RecvInto(b, d) = [b EXCEPT !.data = e]
  BY <1>1, <1>2, Zenon DEF RecvInto
<1>4. e[b.current] = x
  BY <1>2, BufferTypes
<1>5. PICK r : r = RecvInto(b, d)
  OBVIOUS
<1>6. r = [b EXCEPT !.data = e]
  BY <1>3, <1>5
<1>7. /\ r \in Buffers /\ r.counter = b.counter /\ r.data = e
      /\ r.current = b.current /\ r.nextone = b.nextone
  BY <1>6, DataChanged
<1>8. QED
  BY <1>1, <1>4, <1>5, <1>7, Zenon

LEMMA SubmitFields ==
    ASSUME NEW b \in Buffers, NEW ct \in Int
    PROVE  /\ Submit(b, ct) \in Buffers
           /\ Submit(b, ct).counter = [b.counter EXCEPT ![b.current] = ct]
           /\ Submit(b, ct).data = b.data
           /\ Submit(b, ct).current = Other(b.current)
           /\ Submit(b, ct).nextone = b.nextone
<1>1. PICK c \in [{0, 1} -> Int] : c = [b.counter EXCEPT ![b.current] = ct]
  BY BufferTypes
<1>2. PICK k \in {0, 1} : k = Other(b.current)
  BY BufferTypes
<1>3. Submit(b, ct) = [b EXCEPT !.counter = c, !.current = k]
  BY <1>1, <1>2, Zenon DEF Submit
<1>4. PICK r : r = Submit(b, ct)
  OBVIOUS
<1>5. r = [b EXCEPT !.counter = c, !.current = k]
  BY <1>3, <1>4
<1>6. /\ r \in Buffers /\ r.counter = c /\ r.data = b.data
      /\ r.current = k /\ r.nextone = b.nextone
  BY <1>5 DEF Buffers
<1>7. QED
  BY <1>1, <1>2, <1>4, <1>6, Zenon

LEMMA HandOutFields ==
    ASSUME NEW b \in Buffers
    PROVE  /\ HandOut(b) \in Buffers
           /\ HandOut(b).counter = [b.counter EXCEPT ![b.current] = BF_ALLOC]
           /\ HandOut(b).data = b.data
           /\ HandOut(b).current = b.current
           /\ HandOut(b).nextone = b.nextone
<1>1. PICK c \in [{0, 1} -> Int] : c = [b.counter EXCEPT ![b.current] = BF_ALLOC]
  BY BufferTypes, -3 \in Int DEF BF_ALLOC
<1>2. HandOut(b) = [b EXCEPT !.counter = c]
  BY <1>1, Zenon DEF HandOut
<1>3. PICK r : r = HandOut(b)
  OBVIOUS
<1>4. r = [b EXCEPT !.counter = c]
  BY <1>2, <1>3
<1>5. /\ r \in Buffers /\ r.counter = c /\ r.data = b.data
      /\ r.current = b.current /\ r.nextone = b.nextone
  BY <1>4, CounterChanged
<1>6. QED
  BY <1>1, <1>3, <1>5, Zenon

(* What is flushed are octets.                                             *)
LEMMA FlushedType ==
    ASSUME NEW b \in Buffers
    PROVE  Flushed(b) \in Seq(Int)
<1>1. CASE ~(Flushable(b) /\ b.counter[b.nextone] > 0)
  BY <1>1 DEF Flushed
<1>2. CASE Flushable(b) /\ b.counter[b.nextone] > 0
  <2>1. PICK c \in Nat, d \in Seq(Int) : c = b.counter[b.nextone] /\ d = b.data[b.nextone]
    BY <1>2, BufferTypes
  <2>2. Flushed(b) = [i \in 1..c |-> IF i <= Len(d) THEN d[i] ELSE ZERO]
    BY <1>2, <2>1 DEF Flushed
  <2>3. \A i \in 1..c : (IF i <= Len(d) THEN d[i] ELSE ZERO) \in Int
    BY <2>1 DEF ZERO
  <2>4. QED
    BY <2>2, <2>3
<1>3. QED
  BY <1>1, <1>2

LEMMA WriteItType ==
    ASSUME NEW b \in Buffers, NEW ct \in Int
    PROVE  /\ WriteIt(b, ct) \in Buffers
           /\ WriteItFlushes(b, ct) \in Seq(Int)
<1>1. Submit(b, ct) \in Buffers
  BY SubmitFields
<1>2. WriteBehind(Submit(b, ct)) \in Buffers /\ Flushed(Submit(b, ct)) \in Seq(Int)
  BY <1>1, WriteBehindFields, FlushedType
<1>3. << >> \in Seq(Int)
  OBVIOUS
<1>4. WriteItFlushes(b, ct) \in Seq(Int)
  BY <1>2, <1>3, Zenon DEF WriteItFlushes
<1>5. WriteIt(b, ct) \in Buffers
  BY <1>1, <1>2, HandOutFields, Zenon DEF WriteIt
<1>6. QED
  BY <1>4, <1>5

(* With nothing pending write_behind() does nothing, with something it     *)
(* leaves nothing.                                                         *)
LEMMA NothingPending ==
    ASSUME NEW b \in Buffers, Alloc(b), Clean(b)
    PROVE  Flushed(b) = << >> /\ WriteBehind(b) = b
<1>1. ~Flushable(b)
  BY BufferTypes DEF Alloc, Clean, Flushable, BF_ALLOC
<1>2. QED
  BY <1>1, WriteBehindFields DEF Flushed

LEMMA SomethingPending ==
    ASSUME NEW b \in Buffers, Alloc(b), Pending(b), NEW w, w = WriteBehind(b)
    PROVE  w \in Buffers /\ Alloc(w) /\ Clean(w)
<1>1. Flushable(b)
  BY BufferTypes DEF Pending, Flushable
<1>2. /\ w \in Buffers
      /\ w.counter = [b.counter EXCEPT ![b.nextone] = BF_FREE]
      /\ w.current = b.current /\ w.nextone = Other(b.nextone)
  BY <1>1, WriteBehindFields
<1>3. /\ b.current \in {0, 1} /\ b.nextone = Other(b.current) /\ b.nextone # b.current
      /\ Other(b.nextone) = b.current
  BY BufferTypes DEF Pending, Other
<1>4. w.counter[b.current] = b.counter[b.current] /\ w.counter[b.nextone] = BF_FREE
  BY <1>2, <1>3, BufferTypes
<1>5. QED
  BY <1>2, <1>3, <1>4 DEF Alloc, Clean

(* writeit() with the other buffer free hands that one out; nothing is     *)
(* written.                                                                *)
LEMMA TurnOver ==
    ASSUME NEW b \in Buffers, Alloc(b), Clean(b), NEW ct \in Int,
           NEW w, w = WriteIt(b, ct)
    PROVE  /\ WriteItFlushes(b, ct) = << >>
           /\ w \in Buffers /\ w.data = b.data
           /\ w.current = Other(b.current) /\ w.nextone = b.current
           /\ w.counter[b.current] = ct /\ Alloc(w)
<1>1. PICK s : s = Submit(b, ct)
  OBVIOUS
<1>2. /\ s \in Buffers
      /\ s.counter = [b.counter EXCEPT ![b.current] = ct]
      /\ s.data = b.data /\ s.current = Other(b.current) /\ s.nextone = b.nextone
  BY <1>1, SubmitFields
<1>3. /\ b.current \in {0, 1} /\ Other(b.current) \in {0, 1} /\ Other(b.current) # b.current
      /\ b.nextone = b.current /\ b.counter[Other(b.current)] = BF_FREE
  BY BufferTypes DEF Clean, Other
<1>4. s.counter[Other(b.current)] = BF_FREE /\ s.counter[b.current] = ct
  BY <1>2, <1>3, BufferTypes
<1>5. ~MustFlush(s)
  BY <1>2, <1>4 DEF MustFlush
<1>6. w = HandOut(s) /\ WriteItFlushes(b, ct) = << >>
  BY <1>1, <1>5, Zenon DEF WriteIt, WriteItFlushes
<1>7. /\ w \in Buffers /\ w.data = b.data
      /\ w.counter = [s.counter EXCEPT ![s.current] = BF_ALLOC]
      /\ w.current = s.current /\ w.nextone = s.nextone
  BY <1>2, <1>6, HandOutFields
<1>8. w.counter[Other(b.current)] = BF_ALLOC /\ w.counter[b.current] = ct
  BY <1>2, <1>3, <1>4, <1>7, BufferTypes
<1>9. QED
  BY <1>2, <1>3, <1>6, <1>7, <1>8 DEF Alloc

(* A block received and submitted is what will be written next.            *)
LEMMA BlockSubmitted ==
    ASSUME NEW b \in Buffers, Alloc(b), Clean(b), NEW d \in Seq(Int),
           NEW v, v = RecvInto(b, d), NEW w, w = WriteIt(v, Len(d))
    PROVE  /\ WriteItFlushes(v, Len(d)) = << >>
           /\ w \in Buffers /\ Alloc(w) /\ Pending(w) /\ Flushed(w) = d
<1>1. PICK x \in Seq(Int), old \in Seq(Int) :
        old = b.data[b.current] /\ x = d \o SubSeq(old, Len(d) + 1, Len(old))
  <2>1. PICK old \in Seq(Int) : old = b.data[b.current]
    BY BufferTypes
  <2>2. SubSeq(old, Len(d) + 1, Len(old)) \in Seq(Int)
    OBVIOUS
  <2>3. d \o SubSeq(old, Len(d) + 1, Len(old)) \in Seq(Int)
    BY <2>2
  <2>4. QED
    BY <2>1, <2>3
<1>2. /\ v \in Buffers /\ v.counter = b.counter /\ v.current = b.current
      /\ v.nextone = b.nextone /\ v.data[b.current] = x
  BY <1>1, RecvIntoFields
<1>3. Alloc(v) /\ Clean(v)
  BY <1>2 DEF Alloc, Clean
<1>4. Len(d) \in Nat
  OBVIOUS
<1>5. /\ WriteItFlushes(v, Len(d)) = << >>
      /\ w \in Buffers /\ w.data = v.data
      /\ w.current = Other(b.current) /\ w.nextone = b.current
      /\ w.counter[b.current] = Len(d) /\ Alloc(w)
  BY <1>2, <1>3, <1>4, TurnOver
<1>6. Other(Other(b.current)) = b.current
  <2>1. b.current = 0 \/ b.current = 1
    BY BufferTypes
  <2>2. QED
    BY <2>1 DEF Other
<1>7. Pending(w)
  BY <1>4, <1>5, <1>6 DEF Pending
<1>8. \A i \in 1..Len(d) : i <= Len(x) /\ x[i] = d[i]
  BY <1>1
<1>9. Flushed(w) = d
  <2>1. CASE Len(d) = 0
    <3>1. Flushed(w) = << >>
      BY <1>5, <2>1 DEF Flushed
    <3>2. d = << >>
      BY <2>1
    <3>3. QED
      BY <3>1, <3>2
  <2>2. CASE Len(d) > 0
    <3>1. Flushable(w)
      BY <1>4, <1>5 DEF Flushable
    <3>2. Flushed(w) = [i \in 1..Len(d) |-> IF i <= Len(x) THEN x[i] ELSE ZERO]
      BY <1>2, <1>5, <2>2, <3>1 DEF Flushed
    <3>3. Flushed(w) = [i \in 1..Len(d) |-> d[i]]
      BY <1>8, <3>2
    <3>4. d = [i \in 1..Len(d) |-> d[i]]
      OBVIOUS
    <3>5. QED
      BY <3>3, <3>4
  <2>3. QED
    BY <1>4, <2>1, <2>2
<1>10. QED
  BY <1>5, <1>7, <1>9

(* Submitting a packet too short to have a header writes nothing.          *)
LEMMA NothingSubmitted ==
    ASSUME NEW b \in Buffers, Alloc(b), Clean(b), NEW w, w = WriteIt(b, -4)
    PROVE  WriteItFlushes(b, -4) = << >> /\ Flushed(w) = << >>
<1>1. -4 \in Int
  OBVIOUS
<1>2. /\ WriteItFlushes(b, -4) = << >>
      /\ w \in Buffers /\ w.nextone = b.current /\ w.counter[b.current] = -4
  BY <1>1, TurnOver
<1>3. ~Flushable(w)
  BY <1>2 DEF Flushable
<1>4. QED
  BY <1>2, <1>3 DEF Flushed

-----------------------------------------------------------------------------
(* Type correctness                                                        *)

LEMMA SockFacts ==
    ASSUME TypeInv, sock # << >>
    PROVE  /\ Head(sock) \in DownPackets
           /\ Tail(sock) \in Seq(DownPackets)
BY HeadTailProperties DEF TypeInv

LEMMA WrittenType ==
    ASSUME NEW d \in Seq(Int), NEW w \in Written(d)
    PROVE  w \in Seq(Int)
<1>1. \A k \in 0..Len(d) : SubSeq(d, 1, k) \in Seq(Int)
  OBVIOUS
<1>2. QED
  BY <1>1 DEF Written

LEMMA PacketTypes ==
    ASSUME NEW q \in Ports \cup {Listener}, NEW k \in Nat
    PROVE  /\ Ack(q, k) \in UpPackets /\ Ack(q, k).op = "ACK"
           /\ Ack(q, k).port = q /\ Ack(q, k).num = k
           /\ Error(q) \in UpPackets /\ Error(q).op = "ERROR"
<1>1. << >> \in Seq(Int) /\ 0 \in Nat
  OBVIOUS
<1>2. QED
  BY <1>1 DEF Ack, Error, Packet, UpPackets

LEMMA TypeInit == Init => TypeInv
<1>1. ASSUME Init
      PROVE  TypeInv
  <2>1. 1 \in Jobs /\ "none" \in Reports
    BY RecvAssumption DEF Jobs, Reports
  <2>2. TypeOK
    <3>1. block \in 0..(BlockMod - 1) /\ segment_size \in Nat \ {0}
      BY <1>1, RecvAssumption, WireAssumption DEF Init
    <3>2. report \in [Jobs -> Reports]
      BY <1>1, <2>1 DEF Init
    <3>3. /\ firsttrip \in BOOLEAN /\ error \in BOOLEAN /\ intrflag \in BOOLEAN
          /\ n \in Nat /\ amount \in Nat /\ timeouts \in Nat
      BY <1>1 DEF Init
    <3>4. serv \in Ports \cup {NoPort} /\ peer \in Ports \cup {Listener}
      BY <1>1 DEF Init
    <3>5. job \in Jobs /\ pc = "top"
      BY <1>1, <2>1 DEF Init
    <3>6. QED
      BY <3>1, <3>2, <3>3, <3>4, <3>5 DEF TypeOK
  <2>3. bufs \in Buffers
    BY <1>1 DEF Init, WInit, RwInit, Blank, Buffers, BF_ALLOC, BF_FREE
  <2>4. srv \in [Ports -> Instances] /\ \A p \in Ports : srv[p].st = "free"
    BY <1>1 DEF Init, Idle, Instances, Error, Packet
  <2>5. up = {} /\ down = {} /\ sock \in Seq(DownPackets) /\ dups = 0
    BY <1>1 DEF Init, WireInit
  <2>6. ap \in UpPackets /\ ap.op # "ERROR"
    <3>1. << >> \in Seq(Int) /\ 1 \in Nat /\ Listener \in Ports \cup {Listener}
      OBVIOUS
    <3>2. QED
      BY <1>1, <2>1, <3>1 DEF Init, Request, Packet, UpPackets
  <2>7. out \in [Jobs -> Seq(Int)]
    BY <1>1 DEF Init
  <2>8. QED
    BY <2>2, <2>3, <2>4, <2>5, <2>6, <2>7 DEF TypeInv
<1>2. QED
  BY <1>1

(* What the abort label keeps.                                             *)
LEMMA AbortType ==
    ASSUME TypeInv, NEW chs \in SUBSET (SUBSET UpPackets), NEW r \in Reports,
           NEW to \in Ports \cup {Listener}, NEW b \in Buffers, NEW f \in Seq(Int),
           AbortAfter(chs, r, to, b, f)
    PROVE  /\ up' \in SUBSET UpPackets
           /\ out' \in [Jobs -> Seq(Int)]
           /\ bufs' \in Buffers
           /\ pc' = "done"
           /\ report' \in [Jobs -> Reports]
<1>1. block \in Nat /\ job \in Jobs /\ out \in [Jobs -> Seq(Int)] /\ report \in [Jobs -> Reports]
  BY WireAssumption DEF TypeInv, TypeOK
<1>2. up' \in SUBSET UpPackets
  <2>1. PICK ch \in chs : up' \in Sent(ch, Ack(to, block))
    BY DEF AbortAfter
  <2>2. up' \subseteq ch \cup {Ack(to, block)}
    BY <2>1, SentKeeps
  <2>3. QED
    BY <1>1, <2>2, PacketTypes
<1>3. out' \in [Jobs -> Seq(Int)]
  <2>1. PICK w \in Written(Flushed(b)) : Append2File(f \o w)
    BY DEF AbortAfter
  <2>2. w \in Seq(Int)
    BY FlushedType, WrittenType
  <2>3. f \o w \in Seq(Int)
    BY <2>2
  <2>4. QED
    BY <1>1, <2>1, <2>3 DEF Append2File
<1>4. bufs' \in Buffers
  BY WriteBehindFields DEF AbortAfter
<1>5. pc' = "done" /\ report' = [report EXCEPT ![job] = r]
  BY DEF AbortAfter
<1>6. QED
  BY <1>1, <1>2, <1>3, <1>4, <1>5

(* And what the end of a trip keeps.                                       *)
LEMMA EndTripType ==
    ASSUME TypeInv, NEW b \in Buffers, NEW n2 \in Nat,
           NEW to \in Ports \cup {Listener}, EndTrip(b, n2, to)
    PROVE  /\ up' \in SUBSET UpPackets
           /\ out' \in [Jobs -> Seq(Int)]
           /\ bufs' \in Buffers
           /\ pc' \in {"top", "done"}
           /\ report' \in [Jobs -> Reports]
           /\ amount' \in Nat
<1>1. PICK ct \in Int, b2 \in Buffers, x \in Seq(Int) :
        ct = n2 - 4 /\ b2 = WriteIt(b, ct) /\ x = WriteItFlushes(b, ct)
  <2>1. PICK ct \in Int : ct = n2 - 4
    OBVIOUS
  <2>2. WriteIt(b, ct) \in Buffers /\ WriteItFlushes(b, ct) \in Seq(Int)
    BY WriteItType
  <2>3. QED
    BY <2>1, <2>2, Zenon
<1>2. PICK w \in Written(x) :
        LET f == out[job] \o w
        IN  IF ct < 0
            THEN /\ AbortAfter(Sent(up, Error(to)), "nak", to, b2, f)
                 /\ UNCHANGED amount
            ELSE /\ amount' = amount + ct
                 /\ IF ct = segment_size /\ ~intrflag
                    THEN /\ pc' = "top" /\ bufs' = b2 /\ Append2File(f)
                         /\ UNCHANGED << report, up >>
                    ELSE Abort(IF intrflag THEN "interrupted"
                                           ELSE "received", to, b2, f)
  BY <1>1, Zenon DEF EndTrip
<1>3. /\ job \in Jobs /\ out \in [Jobs -> Seq(Int)] /\ report \in [Jobs -> Reports]
      /\ amount \in Nat /\ up \in SUBSET UpPackets
  BY DEF TypeInv, TypeOK
<1>4. PICK f \in Seq(Int) : f = out[job] \o w
  <2>1. PICK o \in Seq(Int) : o = out[job]
    BY <1>3
  <2>2. w \in Seq(Int)
    BY WrittenType
  <2>3. o \o w \in Seq(Int)
    BY <2>2
  <2>4. QED
    BY <2>1, <2>3
<1>5. CASE ct < 0
  <2>1. Sent(up, Error(to)) \in SUBSET (SUBSET UpPackets)
    <3>1. Error(to) \in UpPackets
      BY PacketTypes, 0 \in Nat
    <3>2. QED
      BY <1>3, <3>1, SentKeeps
  <2>2. AbortAfter(Sent(up, Error(to)), "nak", to, b2, f) /\ amount' = amount
    BY <1>2, <1>4, <1>5
  <2>3. "nak" \in Reports
    BY DEF Reports
  <2>4. QED
    BY <1>3, <2>1, <2>2, <2>3, AbortType
<1>6. CASE ~(ct < 0) /\ ct = segment_size /\ ~intrflag
  <2>1. /\ amount' = amount + ct /\ pc' = "top" /\ bufs' = b2 /\ Append2File(f)
        /\ UNCHANGED << report, up >>
    BY <1>2, <1>4, <1>6
  <2>2. amount' \in Nat
    BY <1>3, <1>6, <2>1
  <2>3. QED
    BY <1>3, <2>1, <2>2 DEF Append2File
<1>7. CASE ~(ct < 0) /\ ~(ct = segment_size /\ ~intrflag)
  <2>1. PICK r \in Reports : AbortAfter({up}, r, to, b2, f)
    BY <1>2, <1>4, <1>7 DEF Abort, Reports
  <2>2. {up} \in SUBSET (SUBSET UpPackets)
    BY <1>3
  <2>3. amount' \in Nat
    BY <1>2, <1>3, <1>7
  <2>4. QED
    BY <2>1, <2>2, <2>3, AbortType
<1>8. QED
  BY <1>5, <1>6, <1>7

(* What is received fits the packet it came in.                            *)
LEMMA RecvTypes ==
    ASSUME TypeInv, sock # << >>, NEW p, p = Head(sock)
    PROVE  /\ p \in DownPackets /\ p.port \in Ports
           /\ Payload(p) \in Seq(Int) /\ 4 + Len(Payload(p)) \in Nat
           /\ InBuffer(p) \in Buffers
<1>1. p \in DownPackets
  BY SockFacts
<1>2. p.port \in Ports /\ p.data \in Seq(Int) /\ segment_size \in Nat
  BY <1>1 DEF DownPackets, TypeInv, TypeOK
<1>3. PICK k \in Nat : k = Least(Len(p.data), segment_size) /\ k <= Len(p.data)
  BY <1>2 DEF Least
<1>4. SubSeq(p.data, 1, k) \in Seq(Int)
  BY <1>2, <1>3
<1>5. Payload(p) \in Seq(Int)
  BY <1>3, <1>4 DEF Payload
<1>6. Len(Payload(p)) \in Nat
  BY <1>5
<1>7. InBuffer(p) \in Buffers
  BY <1>5, RecvIntoFields DEF InBuffer, TypeInv
<1>8. QED
  BY <1>1, <1>2, <1>5, <1>6, <1>7

LEMMA TypeClient ==
    ASSUME TypeInv, ClientStep
    PROVE  TypeInv'
<1> USE RecvAssumption, WireAssumption
<1> USE DEF TypeInv, TypeOK
<1>1. CASE NextFile
  <2>1. bufs' \in Buffers
    BY <1>1 DEF NextFile, WInit, RwInit, Buffers, BF_ALLOC, BF_FREE
  <2>2. job' \in Jobs
    BY <1>1 DEF NextFile, Jobs
  <2>3. 1 \in 0..(BlockMod - 1)
    OBVIOUS
  <2>4. TypeOK'
    <3>1. /\ pc' = "top" /\ block' = 1 /\ firsttrip' = TRUE /\ n' = 0 /\ amount' = 0
          /\ timeouts' = 0 /\ error' = FALSE /\ serv' = NoPort /\ peer' = Listener
          /\ UNCHANGED << report, segment_size, intrflag >>
      BY <1>1 DEF NextFile
    <3>2. QED
      BY <2>2, <2>3, <3>1 DEF Jobs
  <2>5. QED
    BY <1>1, <2>1, <2>4 DEF NextFile, Jobs, wire, UpPackets
<1>2. CASE NewAck
  <2>1. ap' \in UpPackets /\ ap'.op # "ERROR"
    <3>1. CASE firsttrip
      <4>1. ap' = Request("RRQ", job)
        BY <1>2, <3>1 DEF NewAck
      <4>2. << >> \in Seq(Int) /\ job \in Nat /\ job \in Jobs /\ Listener \in Ports \cup {Listener}
        BY DEF Jobs
      <4>3. QED
        BY <4>1, <4>2 DEF Request, Packet, UpPackets
    <3>2. CASE ~firsttrip
      <4>1. ap' = Ack(peer, block)
        BY <1>2, <3>2 DEF NewAck
      <4>2. block \in Nat
        OBVIOUS
      <4>3. QED
        BY <4>1, <4>2, PacketTypes
    <3>3. QED
      BY <3>1, <3>2
  <2>2. block' \in 0..(BlockMod - 1)
    <3>1. block + 1 \in Nat /\ BlockMod \in Nat /\ BlockMod > 0
      OBVIOUS
    <3>2. QED
      BY <1>2, <3>1 DEF NewAck, NextBlock
  <2>3. /\ firsttrip' = FALSE /\ pc' = "loop" /\ timeouts' = 0 /\ error' = FALSE
        /\ UNCHANGED << job, report, n, amount, serv, peer, segment_size, bufs,
                        out, intrflag, srv, up, down, sock, dups >>
    BY <1>2 DEF NewAck, wire
  <2>4. QED
    BY <2>1, <2>2, <2>3 DEF Jobs, UpPackets
<1>3. CASE Transmit
  <2>1. bufs' \in Buffers
    BY <1>3, WriteBehindFields DEF Transmit
  <2>2. up' \in SUBSET UpPackets
    <3>1. PICK a : a = [ap EXCEPT !.port = peer]
      OBVIOUS
    <3>2. a \in UpPackets
      BY <3>1 DEF UpPackets
    <3>3. up' \subseteq up \cup {a}
      <4>1. up' \in Sent(up, a)
        BY <1>3, <3>1, Zenon DEF Transmit, SendUp
      <4>2. QED
        BY <4>1, SentKeeps
    <3>4. QED
      BY <3>2, <3>3
  <2>3. out' \in [Jobs -> Seq(Int)]
    <3>1. PICK w \in Written(Flushed(bufs)) : Append2File(out[job] \o w)
      BY <1>3 DEF Transmit
    <3>2. w \in Seq(Int)
      BY FlushedType, WrittenType
    <3>3. PICK o \in Seq(Int) : o = out[job]
      OBVIOUS
    <3>4. o \o w \in Seq(Int)
      BY <3>2
    <3>5. QED
      BY <3>1, <3>3, <3>4 DEF Append2File
  <2>4. QED
    BY <1>3, <2>1, <2>2, <2>3 DEF Transmit, Jobs, UpPackets
<1>4. CASE Skip
  BY <1>4 DEF Skip, InTime, wire, Jobs, UpPackets
<1>5. CASE PollTimeout
  BY <1>5 DEF PollTimeout, wire, Jobs, UpPackets
<1>6. CASE PollInterrupted
  BY <1>6 DEF PollInterrupted, wire, Jobs, UpPackets
<1> DEFINE Aborts(r, b) == AbortAfter({up}, r, peer, b, out[job])
<1>7. {up} \in SUBSET (SUBSET UpPackets) /\ out[job] \in Seq(Int)
  OBVIOUS
<1>8. CASE GiveUp
  <2>1. Aborts("timeout", bufs) /\ "timeout" \in Reports
    BY <1>8 DEF GiveUp, Abort, Reports
  <2>2. /\ up' \in SUBSET UpPackets /\ out' \in [Jobs -> Seq(Int)] /\ bufs' \in Buffers
        /\ pc' = "done" /\ report' \in [Jobs -> Reports]
    BY <1>7, <2>1, AbortType
  <2>3. QED
    BY <1>8, <2>2 DEF GiveUp, Jobs, UpPackets
<1>9. CASE SocketFails
  <2>1. Aborts("failed", bufs) /\ "failed" \in Reports
    BY <1>9 DEF SocketFails, Abort, Reports
  <2>2. /\ up' \in SUBSET UpPackets /\ out' \in [Jobs -> Seq(Int)] /\ bufs' \in Buffers
        /\ pc' = "done" /\ report' \in [Jobs -> Reports]
    BY <1>7, <2>1, AbortType
  <2>3. QED
    BY <1>9, <2>2 DEF SocketFails, Jobs, UpPackets
<1>10. CASE Interrupted
  <2>1. /\ up' \in SUBSET UpPackets /\ out' \in [Jobs -> Seq(Int)] /\ bufs' \in Buffers
        /\ pc' \in {"top", "done"} /\ report' \in [Jobs -> Reports] /\ amount' \in Nat
    BY <1>10, EndTripType DEF Interrupted
  <2>2. QED
    BY <1>10, <2>1 DEF Interrupted, Jobs, UpPackets
<1>11. CASE PortMismatch
  <2>1. PICK p : p = Head(sock)
    OBVIOUS
  <2>2. /\ p \in DownPackets /\ InBuffer(p) \in Buffers /\ Tail(sock) \in Seq(DownPackets)
        /\ 4 + Len(Payload(p)) \in Nat
    BY <1>11, <2>1, RecvTypes, SockFacts DEF PortMismatch
  <2>3. Aborts("port mismatch", InBuffer(p)) /\ "port mismatch" \in Reports
    BY <1>11, <2>1 DEF PortMismatch, Abort, Reports
  <2>4. /\ up' \in SUBSET UpPackets /\ out' \in [Jobs -> Seq(Int)] /\ bufs' \in Buffers
        /\ pc' = "done" /\ report' \in [Jobs -> Reports]
    BY <1>7, <2>2, <2>3, AbortType
  <2>5. n' \in Nat
    BY <1>11, <2>1, <2>2 DEF PortMismatch
  <2>6. QED
    BY <1>11, <2>2, <2>4, <2>5 DEF PortMismatch, Jobs, UpPackets
<1>12. CASE sock # << >> /\ (GotOack \/ GotError \/ GotData \/ GotOtherData)
  <2>1. PICK p : p = Head(sock)
    OBVIOUS
  <2>2. /\ p \in DownPackets /\ InBuffer(p) \in Buffers /\ Tail(sock) \in Seq(DownPackets)
        /\ 4 + Len(Payload(p)) \in Nat /\ p.port \in Ports
    BY <1>12, <2>1, RecvTypes, SockFacts
  <2>3. RecvFrom(p)
    BY <1>12, <2>1 DEF GotOack, GotError, GotData, GotOtherData
  <2>4. n' = 4 + Len(Payload(p)) /\ n' \in Nat /\ serv' = p.port /\ peer' = p.port
    BY <2>2, <2>3 DEF RecvFrom
  <2>5. CASE GotOack
    <3>1. /\ OackSet(p.num) /\ block' = 0 /\ pc' = "top" /\ bufs' = InBuffer(p)
          /\ sock' = Tail(sock)
          /\ UNCHANGED << job, report, firsttrip, ap, amount, timeouts, error,
                          out, srv, down, dups >>
      BY <2>1, <2>5 DEF GotOack
    <3>2. segment_size' \in Nat \ {0} /\ intrflag' \in BOOLEAN
      <4>1. p.num \in Nat
        BY <2>2 DEF DownPackets
      <4>2. QED
        BY <3>1, <4>1 DEF OackSet
    <3>3. up' \in SUBSET UpPackets
      <4>1. Error(Listener) \in UpPackets
        BY PacketTypes, 0 \in Nat
      <4>2. up' \subseteq up \cup {Error(Listener)}
        BY <3>1, SentKeeps DEF OackSet, SendUp
      <4>3. QED
        BY <4>1, <4>2
    <3>4. QED
      BY <2>2, <2>4, <3>1, <3>2, <3>3 DEF Jobs, UpPackets
  <2>6. CASE GotError
    <3>1. /\ AbortAfter({up}, "failed", p.port, InBuffer(p), out[job])
          /\ sock' = Tail(sock)
          /\ UNCHANGED << job, block, firsttrip, ap, amount, timeouts, error,
                          segment_size, intrflag, srv, down, dups >>
      BY <2>1, <2>6 DEF GotError, Abort
    <3>2. "failed" \in Reports
      BY DEF Reports
    <3>3. /\ up' \in SUBSET UpPackets /\ out' \in [Jobs -> Seq(Int)] /\ bufs' \in Buffers
          /\ pc' = "done" /\ report' \in [Jobs -> Reports]
      BY <1>7, <2>2, <3>1, <3>2, AbortType
    <3>4. QED
      BY <2>2, <2>4, <3>1, <3>3 DEF Jobs, UpPackets
  <2>7. CASE GotData
    <3>1. /\ EndTrip(InBuffer(p), n', p.port)
          /\ sock' = Tail(sock)
          /\ UNCHANGED << job, block, firsttrip, ap, timeouts, error,
                          segment_size, intrflag, srv, down, dups >>
      BY <2>1, <2>7 DEF GotData
    <3>2. /\ up' \in SUBSET UpPackets /\ out' \in [Jobs -> Seq(Int)] /\ bufs' \in Buffers
          /\ pc' \in {"top", "done"} /\ report' \in [Jobs -> Reports] /\ amount' \in Nat
      BY <2>2, <2>4, <3>1, EndTripType
    <3>3. QED
      BY <2>2, <2>4, <3>1, <3>2 DEF Jobs, UpPackets
  <2>8. CASE GotOtherData
    <3>1. /\ error' \in BOOLEAN /\ pc' = "loop" /\ bufs' = InBuffer(p) /\ sock' = << >>
          /\ UNCHANGED << job, report, block, firsttrip, ap, amount, timeouts,
                          segment_size, out, intrflag, srv, up, down, dups >>
      BY <2>1, <2>8 DEF GotOtherData, Synchnet
    <3>2. << >> \in Seq(DownPackets)
      OBVIOUS
    <3>3. QED
      BY <2>2, <2>4, <3>1, <3>2 DEF Jobs, UpPackets
  <2>9. QED
    BY <1>12, <2>5, <2>6, <2>7, <2>8
<1>13. QED
  BY <1>1, <1>2, <1>3, <1>4, <1>5, <1>6, <1>8, <1>9, <1>10, <1>11, <1>12
     DEF ClientStep

LEMMA TakeUpKeeps ==
    ASSUME TypeInv, NEW q \in up, TakeUp(q)
    PROVE  /\ up' \subseteq up
           /\ dups' \in Nat
BY DEF TakeUp, TypeInv

(* What a server sends joins the packets under way.                        *)
LEMMA AnswerSends ==
    ASSUME NEW p \in Ports, NEW s, Answer(p, s)
    PROVE  /\ srv' = [srv EXCEPT ![p] = s]
           /\ \A q \in down' : q \in down \/ q = s.pkt
<1>1. down' \subseteq down \cup {s.pkt}
  BY SentKeeps DEF Answer, SendDown
<1>2. QED
  BY <1>1 DEF Answer

LEMMA AnswerType ==
    ASSUME TypeInv, NEW p \in Ports, NEW s \in Instances, Answer(p, s),
           s.pkt \in DownPackets,
           s.st = "open" => s.pkt.port = p /\ s.file \in Jobs
    PROVE  /\ down' \in SUBSET DownPackets
           /\ srv' \in [Ports -> Instances]
           /\ \A x \in Ports : srv'[x].st = "open" =>
                srv'[x].pkt.port = x /\ srv'[x].file \in Jobs
<1>1. /\ srv' = [srv EXCEPT ![p] = s]
      /\ \A q \in down' : q \in down \/ q = s.pkt
  BY AnswerSends
<1>2. QED
  BY <1>1 DEF TypeInv

(* The packet of an instance, with its block.                              *)
LEMMA DataType ==
    ASSUME NEW p \in Ports, NEW f \in Jobs, NEW a \in Nat, NEW k \in Nat, NEW g \in Nat,
           NEW d, d = DataAt(p, f, a, k, g)
    PROVE  /\ d \in DownPackets /\ d.port = p /\ d.op = "DATA" /\ d.num = k
           /\ d.data = Chunk(Files[f], a, g)
<1>1. Files[f] \in Seq(Int)
  BY RecvAssumption DEF Jobs
<1>2. Chunk(Files[f], a, g) \in Seq(Int)
  BY <1>1, ChunkFacts
<1>3. QED
  BY <1>2 DEF DataAt, Data, Packet, DownPackets

(* The instance a request starts.                                          *)
Fresh(p, file) ==
    [st |-> "open", file |-> file, off |-> 0, num |-> NextBlock(0), seg |-> SegSize,
     pkt |-> DataAt(p, file, 0, NextBlock(0), SegSize), tries |-> 0]

FreshOack(p, file, k) ==
    [st |-> "open", file |-> file, off |-> 0, num |-> 0, seg |-> k,
     pkt |-> Oack(p, k), tries |-> 0]

(* What an instance keeps when it retransmits, fails or ends.               *)
LEMMA RetriedFields ==
    ASSUME NEW s \in Instances, NEW r, r = [s EXCEPT !.tries = @ + 1]
    PROVE  /\ r \in Instances /\ r.st = s.st /\ r.file = s.file /\ r.seg = s.seg
           /\ r.off = s.off /\ r.num = s.num /\ r.pkt = s.pkt
<1>1. s.tries + 1 \in Nat
  BY DEF Instances
<1>2. PICK k \in Nat : k = s.tries + 1
  BY <1>1
<1>3. r = [s EXCEPT !.tries = k]
  BY <1>2
<1>4. QED
  BY <1>3 DEF Instances

LEMMA FailedFields ==
    ASSUME TypeInv, NEW p \in Ports, NEW r,
           r = [srv[p] EXCEPT !.st = "dead", !.pkt = Error(p)]
    PROVE  /\ r \in Instances /\ r.st = "dead" /\ r.file = srv[p].file
           /\ r.seg = srv[p].seg /\ r.off = srv[p].off /\ r.num = srv[p].num
           /\ r.pkt = Error(p)
<1>1. PICK e \in [op: {"DATA", "OACK", "ERROR"}, port: Ports \cup {NoPort},
                  num: Nat, data: Seq(Int)] : e = Error(p)
  <2>1. << >> \in Seq(Int) /\ 0 \in Nat
    OBVIOUS
  <2>2. QED
    BY <2>1 DEF Error, Packet
<1>2. PICK s \in Instances : s = srv[p]
  BY DEF TypeInv
<1>3. r = [s EXCEPT !.st = "dead", !.pkt = e]
  BY <1>1, <1>2
<1>4. /\ r \in Instances /\ r.st = "dead" /\ r.file = s.file /\ r.seg = s.seg
      /\ r.off = s.off /\ r.num = s.num /\ r.pkt = e
  BY <1>3 DEF Instances
<1>5. QED
  BY <1>1, <1>2, <1>4, Zenon

LEMMA ClosedFields ==
    ASSUME NEW s \in Instances, NEW a \in Nat, NEW r,
           r = [s EXCEPT !.st = "closed", !.off = a]
    PROVE  /\ r \in Instances /\ r.st = "closed"
BY DEF Instances

(* What an instance does with the ACK it waits for.                        *)
LEMMA AdvanceCases ==
    ASSUME TypeInv, NEW p \in Ports, ServerAdvance(p)
    PROVE  \E pkt \in up, a \in Nat, r \in Instances :
             /\ pkt.op = "ACK" /\ pkt.port = p
             /\ srv[p].st = "open" /\ pkt.num = srv[p].num
             /\ TakeUp(pkt) /\ UNCHANGED << client, intrflag, sock >>
             /\ a = IF srv[p].pkt.op = "DATA" THEN srv[p].off + Len(srv[p].pkt.data) ELSE 0
             /\ \/ /\ srv[p].pkt.op = "DATA" /\ Len(srv[p].pkt.data) < srv[p].seg
                   /\ srv' = [srv EXCEPT ![p] = r] /\ r.st = "closed" /\ UNCHANGED down
                \/ /\ ~(srv[p].pkt.op = "DATA" /\ Len(srv[p].pkt.data) < srv[p].seg)
                   /\ Answer(p, r)
                   /\ r.st = "open" /\ r.file = srv[p].file /\ r.seg = srv[p].seg
                   /\ r.off = a /\ r.num = NextBlock(srv[p].num)
                   /\ r.pkt = DataAt(p, srv[p].file, a, NextBlock(srv[p].num), srv[p].seg)
<1>0. PICK pkt \in up :
        /\ pkt.op = "ACK" /\ pkt.port = p
        /\ srv[p].st = "open" /\ pkt.num = srv[p].num
        /\ TakeUp(pkt) /\ UNCHANGED << client, intrflag, sock >>
        /\ LET s    == srv[p]
               off2 == IF s.pkt.op = "DATA" THEN s.off + Len(s.pkt.data) ELSE 0
           IN  IF s.pkt.op = "DATA" /\ Len(s.pkt.data) < s.seg
               THEN /\ srv' = [srv EXCEPT ![p].st = "closed", ![p].off = off2]
                    /\ UNCHANGED down
               ELSE Answer(p, [s EXCEPT
                        !.off = off2, !.num = NextBlock(@), !.tries = 0,
                        !.pkt = DataAt(p, s.file, off2, NextBlock(s.num), s.seg)])
  BY DEF ServerAdvance
<1>1. PICK s \in Instances : s = srv[p]
  BY DEF TypeInv
<1>2. /\ s.file \in Jobs /\ s.off \in Nat /\ s.num \in Nat /\ s.seg \in Nat
      /\ s.pkt.data \in Seq(Int) /\ NextBlock(s.num) \in Nat
  <2>1. s.file \in Jobs
    BY <1>0, <1>1 DEF TypeInv
  <2>2. s.num \in Nat
    BY DEF Instances
  <2>3. NextBlock(s.num) \in Nat
    BY <2>2, WireAssumption DEF NextBlock
  <2>4. QED
    BY <2>1, <2>2, <2>3 DEF Instances
<1>3. PICK a \in Nat : a = IF s.pkt.op = "DATA" THEN s.off + Len(s.pkt.data) ELSE 0
  BY <1>2
<1>4. CASE s.pkt.op = "DATA" /\ Len(s.pkt.data) < s.seg
  <2>1. srv' = [srv EXCEPT ![p].st = "closed", ![p].off = a] /\ UNCHANGED down
    BY <1>0, <1>1, <1>3, <1>4
  <2>2. PICK r : r = [s EXCEPT !.st = "closed", !.off = a]
    OBVIOUS
  <2>3. r \in Instances /\ r.st = "closed"
    BY <2>2, ClosedFields
  <2>4. srv' = [srv EXCEPT ![p] = r]
    BY <1>1, <2>1, <2>2 DEF TypeInv, Instances
  <2>5. srv[p].pkt.op = "DATA" /\ Len(srv[p].pkt.data) < srv[p].seg
    BY <1>1, <1>4
  <2>6. a = IF srv[p].pkt.op = "DATA" THEN srv[p].off + Len(srv[p].pkt.data) ELSE 0
    BY <1>1, <1>3
  <2>7. r \in Instances /\ r.st = "closed" /\ UNCHANGED down
    BY <2>1, <2>3
  <2>8. QED
    BY <1>0, <2>4, <2>5, <2>6, <2>7, Zenon
<1>5. CASE ~(s.pkt.op = "DATA" /\ Len(s.pkt.data) < s.seg)
  <2>1. PICK k \in Nat, d \in DownPackets :
          k = NextBlock(s.num) /\ d = DataAt(p, s.file, a, k, s.seg)
    <3>1. PICK k \in Nat : k = NextBlock(s.num)
      BY <1>2
    <3>2. PICK d : d = DataAt(p, s.file, a, k, s.seg)
      OBVIOUS
    <3>3. d \in DownPackets
      BY <1>2, <3>2, DataType
    <3>4. QED
      BY <3>1, <3>2, <3>3
  <2>2. PICK r : r = [s EXCEPT !.off = a, !.num = k, !.tries = 0, !.pkt = d]
    OBVIOUS
  <2>3. Answer(p, r)
    BY <1>0, <1>1, <1>3, <1>5, <2>1, <2>2
  <2>4. /\ r \in Instances /\ r.st = s.st /\ r.file = s.file /\ r.seg = s.seg
        /\ r.off = a /\ r.num = k /\ r.pkt = d
    BY <2>2 DEF Instances, DownPackets
  <2>5. s.st = "open"
    BY <1>0, <1>1
  <2>6. /\ ~(srv[p].pkt.op = "DATA" /\ Len(srv[p].pkt.data) < srv[p].seg)
        /\ r.st = "open" /\ r.file = srv[p].file /\ r.seg = srv[p].seg
        /\ r.off = a /\ r.num = NextBlock(srv[p].num)
        /\ r.pkt = DataAt(p, srv[p].file, a, NextBlock(srv[p].num), srv[p].seg)
    BY <1>1, <1>5, <2>1, <2>4, <2>5
  <2>7. a = IF srv[p].pkt.op = "DATA" THEN srv[p].off + Len(srv[p].pkt.data) ELSE 0
    BY <1>1, <1>3
  <2>8. r \in Instances
    BY <2>4
  <2>9. QED
    BY <1>0, <2>3, <2>6, <2>7, <2>8, Zenon
<1>6. QED
  BY <1>4, <1>5

LEMMA TypeServer ==
    ASSUME TypeInv, ServerStep
    PROVE  TypeInv'
<1> USE RecvAssumption, WireAssumption
<1>0. PICK p \in Ports : \/ ServerStart(p) \/ ServerAdvance(p) \/ ServerDrop(p)
                         \/ ServerRetransmit(p) \/ ServerFails(p)
  BY DEF ServerStep
<1>a. srv[p] \in Instances
  BY DEF TypeInv
<1>b. /\ up' \subseteq up /\ dups' \in Nat
      /\ down' \in SUBSET DownPackets
      /\ srv' \in [Ports -> Instances]
      /\ \A x \in Ports : srv'[x].st = "open" =>
           srv'[x].pkt.port = x /\ srv'[x].file \in Jobs
      /\ UNCHANGED << client, intrflag, sock >>
  <2>1. CASE ServerStart(p)
    <3>1. PICK pkt \in up :
            /\ pkt.op = "RRQ" /\ TakeUp(pkt)
            /\ \/ Answer(p, Fresh(p, pkt.num))
               \/ \E k \in {OptBlksize, OptBlksize - 1} :
                    k > 0 /\ Answer(p, FreshOack(p, pkt.num, k))
            /\ UNCHANGED << client, intrflag, sock >>
      BY <2>1 DEF ServerStart, Fresh, FreshOack
    <3>2. pkt.num \in Jobs /\ pkt.num \in Nat
      BY <3>1 DEF TypeInv, UpPackets
    <3>3. NextBlock(0) \in Nat
      BY DEF NextBlock
    <3>4. CASE Answer(p, Fresh(p, pkt.num))
      <4>1. PICK d \in DownPackets :
              d = DataAt(p, pkt.num, 0, NextBlock(0), SegSize) /\ d.port = p
        <5>1. PICK k \in Nat : k = NextBlock(0)
          BY <3>3
        <5>2. PICK f \in Jobs, z \in Nat, g \in Nat : f = pkt.num /\ z = 0 /\ g = SegSize
          BY <3>2
        <5>3. PICK d : d = DataAt(p, f, z, k, g)
          OBVIOUS
        <5>4. d \in DownPackets /\ d.port = p
          BY <5>1, <5>2, <5>3, DataType
        <5>5. QED
          BY <5>1, <5>2, <5>3, <5>4
      <4>2. PICK s : s = Fresh(p, pkt.num)
        OBVIOUS
      <4>3. s \in Instances /\ s.st = "open" /\ s.pkt = d /\ s.file = pkt.num
        BY <3>2, <3>3, <4>1, <4>2 DEF Fresh, Instances, DownPackets
      <4>4. QED
        BY <3>1, <3>2, <3>4, <4>1, <4>2, <4>3, AnswerType, TakeUpKeeps
    <3>5. CASE \E k \in {OptBlksize, OptBlksize - 1} :
                 k > 0 /\ Answer(p, FreshOack(p, pkt.num, k))
      <4>1. PICK k \in Nat : Answer(p, FreshOack(p, pkt.num, k))
        BY <3>5
      <4>2. PICK s : s = FreshOack(p, pkt.num, k)
        OBVIOUS
      <4>3. Oack(p, k) \in DownPackets /\ Oack(p, k).port = p
        BY DEF Oack, Packet, DownPackets, OPTION_TEXT
      <4>4. s \in Instances /\ s.st = "open" /\ s.pkt = Oack(p, k) /\ s.file = pkt.num
        BY <3>2, <4>2, <4>3 DEF FreshOack, Instances, DownPackets
      <4>5. QED
        BY <3>1, <3>2, <4>1, <4>2, <4>3, <4>4, AnswerType, TakeUpKeeps
    <3>6. QED
      BY <3>1, <3>4, <3>5
  <2>2. CASE ServerAdvance(p)
    <3>1. PICK pkt \in up, a \in Nat, r \in Instances :
            /\ srv[p].st = "open"
            /\ TakeUp(pkt) /\ UNCHANGED << client, intrflag, sock >>
            /\ \/ srv' = [srv EXCEPT ![p] = r] /\ r.st = "closed" /\ UNCHANGED down
               \/ /\ Answer(p, r)
                  /\ r.st = "open" /\ r.file = srv[p].file
                  /\ r.pkt = DataAt(p, srv[p].file, a, NextBlock(srv[p].num), srv[p].seg)
      BY <2>2, AdvanceCases
    <3>3. srv[p].st = "open" /\ srv[p].file \in Jobs
      BY <3>1 DEF TypeInv
    <3>4. CASE srv' = [srv EXCEPT ![p] = r] /\ r.st = "closed" /\ UNCHANGED down
      BY <3>1, <3>4, TakeUpKeeps DEF TypeInv
    <3>5. CASE /\ Answer(p, r)
               /\ r.st = "open" /\ r.file = srv[p].file
               /\ r.pkt = DataAt(p, srv[p].file, a, NextBlock(srv[p].num), srv[p].seg)
      <4>1. NextBlock(srv[p].num) \in Nat /\ srv[p].seg \in Nat
        <5>1. srv[p].num \in Nat /\ srv[p].seg \in Nat
          BY <1>a DEF Instances
        <5>2. QED
          BY <5>1 DEF NextBlock
      <4>2. r.pkt \in DownPackets /\ r.pkt.port = p
        <5>1. PICK k \in Nat, g \in Nat, f \in Jobs :
                k = NextBlock(srv[p].num) /\ g = srv[p].seg /\ f = srv[p].file
          BY <3>3, <4>1
        <5>2. r.pkt = DataAt(p, f, a, k, g)
          BY <3>5, <5>1
        <5>3. QED
          BY <5>2, DataType
      <4>3. QED
        BY <3>1, <3>3, <3>5, <4>2, AnswerType, TakeUpKeeps
    <3>6. QED
      BY <3>1, <3>4, <3>5
  <2>3. CASE ServerDrop(p)
    BY <2>3, TakeUpKeeps DEF ServerDrop, TypeInv
  <2>4. CASE ServerRetransmit(p)
    <3>1. PICK s : s = [srv[p] EXCEPT !.tries = @ + 1]
      OBVIOUS
    <3>2. s \in Instances /\ s.st = "open" /\ s.pkt = srv[p].pkt /\ s.file = srv[p].file
      BY <1>a, <2>4, <3>1, RetriedFields DEF ServerRetransmit
    <3>3. srv[p].pkt \in DownPackets /\ srv[p].pkt.port = p /\ srv[p].file \in Jobs
      <4>1. PICK q : q = srv[p].pkt
        OBVIOUS
      <4>2. q.port = p /\ srv[p].file \in Jobs
        BY <2>4, <4>1 DEF ServerRetransmit, TypeInv
      <4>3. q \in [op: {"DATA", "OACK", "ERROR"}, port: Ports \cup {NoPort},
                   num: Nat, data: Seq(Int)]
        BY <1>a, <4>1 DEF Instances
      <4>4. q \in DownPackets
        BY <4>2, <4>3 DEF DownPackets
      <4>5. QED
        BY <4>1, <4>2, <4>4
    <3>4. Answer(p, s) /\ UNCHANGED << client, intrflag, up, sock, dups >>
      BY <2>4, <3>1 DEF ServerRetransmit
    <3>5. QED
      BY <3>2, <3>3, <3>4, AnswerType DEF TypeInv
  <2>5. CASE ServerFails(p)
    <3>1. PICK s : s = [srv[p] EXCEPT !.st = "dead", !.pkt = Error(p)]
      OBVIOUS
    <3>2. s \in Instances /\ s.st = "dead" /\ s.pkt = Error(p)
      BY <3>1, FailedFields, Zenon
    <3>3. Error(p) \in DownPackets
      BY DEF Error, Packet, DownPackets
    <3>4. Answer(p, s) /\ UNCHANGED << client, intrflag, up, sock, dups >>
      BY <2>5, <3>1 DEF ServerFails
    <3>5. QED
      BY <3>2, <3>3, <3>4, AnswerType DEF TypeInv
  <2>6. QED
    BY <1>0, <2>1, <2>2, <2>3, <2>4, <2>5
<1>c. QED
  BY <1>b DEF TypeInv, TypeOK, Jobs, client

LEMMA TypeStep ==
    ASSUME TypeInv, [Next]_vars
    PROVE  TypeInv'
<1>1. CASE ClientStep
  BY <1>1, TypeClient
<1>2. CASE ServerStep
  BY <1>2, TypeServer
<1>3. CASE NetworkStep
  <2>1. PICK p \in down : /\ sock' = Append(sock, p)
                          /\ down' \subseteq down /\ dups' \in Nat
                          /\ UNCHANGED up
    BY <1>3 DEF NetworkStep, Deliver, TypeInv
  <2>2. sock' \in Seq(DownPackets)
    BY <2>1, AppendProperties DEF TypeInv
  <2>3. QED
    BY <1>3, <2>1, <2>2 DEF NetworkStep, TypeInv, TypeOK, Jobs, client, UpPackets
<1>4. CASE Interrupt
  BY <1>4 DEF Interrupt, TypeInv, TypeOK, Jobs, client, wire, UpPackets
<1>5. CASE UNCHANGED vars
  BY <1>5 DEF vars, TypeInv, TypeOK, Jobs, client, wire, UpPackets
<1>6. QED
  BY <1>1, <1>2, <1>3, <1>4, <1>5 DEF Next, Finished

LEMMA TypeInvariant == Spec => []TypeInv
<1>1. TypeInv /\ [Next]_vars => TypeInv'
  BY TypeStep
<1>2. QED
  BY TypeInit, <1>1, PTL DEF Spec

(* Every variable keeps its type, for any number of files, any options and *)
(* all faults.                                                             *)
THEOREM TypeCorrect == Spec => []TypeOK
<1>1. TypeInv => TypeOK
  BY DEF TypeInv
<1>2. QED
  BY TypeInvariant, <1>1, PTL

-----------------------------------------------------------------------------
(* The file and its blocks                                                 *)

(* What is known while the first file is received.                         *)
LEMMA FirstFacts ==
    ASSUME FirstTransfer, job = 1, TypeInv
    PROVE  /\ 1 \in Jobs
           /\ Files[1] = Whole /\ Whole \in Seq(Int) /\ Len(Whole) \in Nat
           /\ SegSize \in Nat \ {0}
           /\ \A d : Written(d) = {d}
           /\ block \in Nat /\ amount \in Nat /\ n \in Nat
           /\ out \in [Jobs -> Seq(Int)] /\ out[1] \in Seq(Int)
           /\ bufs \in Buffers
<1>1. Files \in Seq(Seq(Int)) /\ SegSize \in Nat \ {0} /\ 1 \in Jobs
  BY RecvAssumption DEF Jobs
<1>2. Files[1] \in Seq(Int)
  BY <1>1 DEF Jobs
<1>3. block \in Nat
  BY WireAssumption DEF TypeInv, TypeOK
<1>4. QED
  BY <1>1, <1>2, <1>3 DEF Whole, TypeInv, TypeOK, FirstTransfer, Written

LEMMA OffFacts ==
    /\ Off(1) = 0
    /\ \A k \in Nat \ {0} : Off(k) \in Nat /\ Off(k + 1) = Off(k) + SegSize
    /\ \A k, m \in Nat \ {0} : k <= m => Off(k) <= Off(m)
<1>1. SegSize \in Nat \ {0}
  BY RecvAssumption
<1>2. /\ \A k \in Nat \ {0} : (k - 1) * SegSize \in Nat
                              /\ k * SegSize = (k - 1) * SegSize + SegSize
      /\ \A k, m \in Nat \ {0} : k <= m => (k - 1) * SegSize <= (m - 1) * SegSize
  BY <1>1, Offsets
<1>3. ASSUME NEW k \in Nat \ {0}
      PROVE  Off(k + 1) = Off(k) + SegSize
  <2>1. (k + 1) - 1 = k
    OBVIOUS
  <2>2. QED
    BY <1>2, <2>1 DEF Off
<1>4. Off(1) = 0
  BY <1>1 DEF Off
<1>5. QED
  BY <1>2, <1>3, <1>4 DEF Off

(* The block numbers of the file, and the next one, do not wrap around.    *)
LEMMA BlockBound ==
    ASSUME FirstTransfer, job = 1, TypeInv, NEW k \in Nat \ {0}, Off(k) <= Len(Whole)
    PROVE  k + 1 < BlockMod /\ NextBlock(k) = k + 1
<1>1. SegSize \in Nat \ {0} /\ Len(Whole) \in Nat /\ BlockMod \in Nat /\ BlockMod > 1
  BY FirstFacts, WireAssumption
<1>2. Len(Whole) < (BlockMod - 2) * SegSize
  BY DEF FirstTransfer, Whole
<1>3. PICK m \in Nat \ {0} : m = BlockMod - 1
  BY <1>1
<1>4. Off(m) = (BlockMod - 2) * SegSize
  <2>1. m - 1 = BlockMod - 2
    BY <1>1, <1>3
  <2>2. QED
    BY <2>1 DEF Off
<1>5. Off(m) \in Nat /\ Off(k) \in Nat
  BY OffFacts
<1>6. k < m
  <2>1. CASE m <= k
    <3>1. Off(m) <= Off(k)
      BY <2>1, OffFacts
    <3>2. QED
      BY <1>1, <1>2, <1>4, <1>5, <3>1
  <2>2. QED
    BY <2>1
<1>7. k + 1 < BlockMod
  BY <1>1, <1>3, <1>6
<1>8. QED
  BY <1>7, NextBlockFacts

(* A block of the file, and the file up to its end.                        *)
LEMMA BlockFacts ==
    ASSUME FirstTransfer, job = 1, TypeInv, NEW k \in Nat \ {0}, Off(k) <= Len(Whole)
    PROVE  /\ BlockData(k) \in Seq(Int)
           /\ Len(BlockData(k)) \in Nat /\ Len(BlockData(k)) <= SegSize
           /\ Off(k) + Len(BlockData(k)) <= Len(Whole)
           /\ Len(BlockData(k)) = SegSize <=> Off(k + 1) <= Len(Whole)
           /\ Len(BlockData(k)) # SegSize => Off(k) + Len(BlockData(k)) = Len(Whole)
           /\ SubSeq(Whole, 1, Off(k)) \o BlockData(k)
                = SubSeq(Whole, 1, Off(k) + Len(BlockData(k)))
<1>1. PICK a \in Nat, g \in Nat, f \in Seq(Int) : a = Off(k) /\ g = SegSize /\ f = Whole
  BY FirstFacts, OffFacts
<1>2. g > 0 /\ a <= Len(f) /\ Len(f) \in Nat
  BY <1>1, FirstFacts
<1>3. PICK d \in Seq(Int) : d = Chunk(f, a, g)
  BY ChunkFacts
<1>4. Len(d) = IF a >= Len(f) THEN 0 ELSE Least(a + g, Len(f)) - a
  BY <1>3, ChunkFacts
<1>5. SubSeq(f, 1, Least(a, Len(f))) \o d = SubSeq(f, 1, Least(a + g, Len(f)))
  BY <1>3, ChunkExtends
<1>6. Least(a, Len(f)) = a
  BY <1>2 DEF Least
<1>7. Least(a + g, Len(f)) = a + Len(d)
  BY <1>2, <1>4 DEF Least
<1>8. /\ Len(d) \in Nat /\ Len(d) <= g /\ a + Len(d) <= Len(f)
      /\ Len(d) = g <=> a + g <= Len(f)
      /\ Len(d) # g => a + Len(d) = Len(f)
  BY <1>2, <1>4 DEF Least
<1>9. Off(k + 1) = a + g
  BY <1>1, OffFacts
<1>10. d = BlockData(k)
  BY <1>1, <1>3 DEF BlockData
<1>11. SubSeq(f, 1, a) \o d = SubSeq(f, 1, a + Len(d))
  BY <1>5, <1>6, <1>7
<1>12. QED
  BY <1>1, <1>8, <1>9, <1>10, <1>11

(* What recvfile() has been told while it runs.                            *)
LEMMA RunFacts ==
    ASSUME FirstTransfer, job = 1, TypeInv, RunOK
    PROVE  /\ block \in Nat \ {0} /\ Awaited \in Nat \ {0}
           /\ Off(Awaited) = amount /\ amount \in Nat /\ amount <= Len(Whole)
           /\ Awaited + 1 < BlockMod
           /\ \A k \in 1..Awaited : Off(k) \in Nat /\ Off(k) <= Len(Whole)
<1>1. block \in Nat \ {0} /\ Awaited \in Nat \ {0}
  BY FirstFacts DEF RunOK, ClientOK, Awaited
<1>2. Off(Awaited) = amount /\ amount \in Nat /\ amount <= Len(Whole) /\ Len(Whole) \in Nat
  BY FirstFacts DEF RunOK, ClientOK
<1>3. Awaited + 1 < BlockMod
  BY <1>1, <1>2, BlockBound
<1>4. ASSUME NEW k \in 1..Awaited
      PROVE  Off(k) \in Nat /\ Off(k) <= Len(Whole)
  <2>1. k \in Nat \ {0} /\ k <= Awaited
    BY <1>1
  <2>2. Off(k) <= Off(Awaited) /\ Off(k) \in Nat /\ Off(Awaited) \in Nat
    BY <1>1, <2>1, OffFacts
  <2>3. QED
    BY <1>2, <2>2
<1>5. QED
  BY <1>1, <1>2, <1>3, <1>4

-----------------------------------------------------------------------------
(* The invariant holds initially                                           *)

LEMMA RecvInit ==
    ASSUME FirstTransfer, Init
    PROVE  RecvInv
<1>0. TypeInv /\ job = 1
  BY TypeInit DEF Init
<1> USE FirstFacts, OffFacts, <1>0
<1>1. /\ pc = "top" /\ block = 1 /\ firsttrip = TRUE /\ n = 0 /\ amount = 0
      /\ error = FALSE /\ serv = NoPort /\ peer = Listener /\ intrflag = FALSE
      /\ segment_size = SegSize /\ up = {} /\ down = {} /\ sock = << >>
      /\ ap = Request("RRQ", 1)
  BY DEF Init, WireInit
<1>2. Awaited = 1
  BY <1>1 DEF Awaited
<1>3. report[1] = "none" /\ out[1] = << >>
  BY DEF Init
<1>4. SrvOK
  <2>1. \A p \in Ports : srv[p].st = "free"
    BY DEF Init, Idle
  <2>2. QED
    BY <2>1 DEF SrvOK
<1>5. UpOK /\ DownOK
  BY <1>1 DEF UpOK, DownOK
<1>6. BufOK
  <2>1. Alloc(bufs) /\ Clean(bufs)
    BY DEF Init, WInit, RwInit, Alloc, Clean, Other
  <2>2. Flushed(bufs) = << >>
    BY <2>1, NothingPending
  <2>3. SubSeq(Whole, 1, 0) = << >>
    OBVIOUS
  <2>4. << >> \o << >> = << >>
    OBVIOUS
  <2>5. QED
    BY <1>1, <1>3, <2>1, <2>2, <2>3, <2>4 DEF BufOK
<1>7. ClientOK
  BY <1>1, <1>2, <1>3 DEF ClientOK, Request, Packet
<1>8. QED
  BY <1>1, <1>4, <1>5, <1>6, <1>7 DEF RecvInv, RunOK

-----------------------------------------------------------------------------
(* The servers and the network                                             *)

(* While the client and its socket are left alone, packets may vanish, and *)
(* one instance may move on, as far as the client lets it.                 *)
LEMMA Others ==
    ASSUME TypeInv, RunOK, UNCHANGED << client, intrflag >>,
           up' \subseteq up, NEW p \in Ports, NEW s \in Instances,
           srv' = [srv EXCEPT ![p] = s], InstOK(p, s),
           srv[p].st # "free" => s.num >= srv[p].num,
           \A q \in down' : q \in down \/ (q.port = p /\ q.op # "OACK"
               /\ (q.op = "DATA" =>
                     q.num \in 1..s.num /\ q.data = BlockData(q.num))),
           \A i \in 1..Len(sock') : \/ \E j \in 1..Len(sock) : sock'[i] = sock[j]
                                    \/ sock'[i] \in down
    PROVE  RunOK'
<1>1. Awaited' = Awaited
  BY DEF client, Awaited
<1>2. BufOK'
  BY DEF client, RunOK, BufOK
<1>3. UpOK'
  BY <1>1 DEF client, RunOK, UpOK
<1>4. /\ \A x \in Ports : srv'[x] = IF x = p THEN s ELSE srv[x]
      /\ s.st # "free" /\ s.num \in Nat
      /\ \A x \in Ports : srv[x].num \in Nat
  BY DEF TypeInv, InstOK, Instances
<1>5. SrvOK'
  <2>1. ASSUME NEW x \in Ports, srv'[x].st # "free"
        PROVE  InstOK(x, srv[x])'
    <3>1. PICK y : y = srv'[x]
      OBVIOUS
    <3>2. InstOK(x, y)
      BY <1>4, <2>1, <3>1 DEF RunOK, SrvOK
    <3>3. serv' = serv
      BY DEF client
    <3>4. QED
      BY <1>1, <3>1, <3>2, <3>3 DEF InstOK
  <2>2. QED
    BY <2>1 DEF SrvOK
<1>6. ASSUME NEW q \in DownPackets, Genuine(q)
      PROVE  Genuine(q)'
  <2>1. q.port \in Ports /\ q.num \in Nat
    BY DEF DownPackets
  <2>2. srv[q.port].st # "free" => srv'[q.port].num >= srv[q.port].num /\ srv'[q.port].st # "free"
    BY <1>4, <2>1
  <2>3. QED
    BY <1>4, <1>6, <2>1, <2>2 DEF Genuine
<1>7. DownOK'
  <2>1. ASSUME NEW q \in down'
        PROVE  Genuine(q)'
    BY <1>4, <1>6 DEF Genuine, TypeInv, RunOK, DownOK
  <2>2. ASSUME NEW i \in 1..Len(sock')
        PROVE  Genuine(sock[i])'
    <3>1. CASE \E j \in 1..Len(sock) : sock'[i] = sock[j]
      <4>1. PICK j \in 1..Len(sock) : sock'[i] = sock[j]
        BY <3>1
      <4>2. sock[j] \in DownPackets /\ Genuine(sock[j])
        BY DEF TypeInv, RunOK, DownOK
      <4>3. QED
        BY <1>6, <4>1, <4>2
    <3>2. CASE sock'[i] \in down
      BY <1>6, <3>2 DEF TypeInv, RunOK, DownOK
    <3>3. QED
      BY <3>1, <3>2
  <2>3. QED
    BY <2>1, <2>2 DEF DownOK
<1>8. ClientOK'
  <2>1. serv # NoPort => serv \in Ports /\ srv'[serv].st # "free"
    BY <1>4 DEF TypeInv, TypeOK, RunOK, ClientOK
  <2>2. QED
    BY <1>1, <2>1 DEF client, RunOK, ClientOK
<1>9. QED
  BY <1>2, <1>3, <1>5, <1>7, <1>8 DEF RunOK

(* The same when no instance moves.                                        *)
LEMMA Quiet ==
    ASSUME TypeInv, RunOK, UNCHANGED << client, intrflag, srv >>,
           up' \subseteq up, down' \subseteq down,
           \A i \in 1..Len(sock') : \/ \E j \in 1..Len(sock) : sock'[i] = sock[j]
                                    \/ sock'[i] \in down
    PROVE  RunOK'
<1>1. Awaited' = Awaited
  BY DEF client, Awaited
<1>2. BufOK'
  BY DEF client, RunOK, BufOK
<1>3. UpOK'
  BY <1>1 DEF client, RunOK, UpOK
<1>4. SrvOK'
  BY <1>1 DEF client, RunOK, SrvOK, InstOK
<1>5. ASSUME NEW q, Genuine(q)
      PROVE  Genuine(q)'
  BY <1>5 DEF Genuine
<1>6. DownOK'
  <2>1. ASSUME NEW q \in down'
        PROVE  Genuine(q)'
    BY <1>5 DEF RunOK, DownOK
  <2>2. ASSUME NEW i \in 1..Len(sock')
        PROVE  Genuine(sock[i])'
    <3>1. CASE \E j \in 1..Len(sock) : sock'[i] = sock[j]
      BY <1>5, <3>1 DEF RunOK, DownOK
    <3>2. CASE sock'[i] \in down
      BY <1>5, <3>2 DEF RunOK, DownOK
    <3>3. QED
      BY <3>1, <3>2
  <2>3. QED
    BY <2>1, <2>2 DEF DownOK
<1>7. ClientOK'
  BY <1>1 DEF client, RunOK, ClientOK
<1>8. QED
  BY <1>2, <1>3, <1>4, <1>6, <1>7 DEF RunOK

LEMMA RunServer ==
    ASSUME FirstTransfer, job = 1, TypeInv, RunOK, ServerStep
    PROVE  RunOK'
<1>0. PICK p \in Ports : \/ ServerStart(p) \/ ServerAdvance(p) \/ ServerDrop(p)
                         \/ ServerRetransmit(p) \/ ServerFails(p)
  BY DEF ServerStep
<1>1. srv[p] \in Instances /\ srv[p].num \in Nat
  BY DEF TypeInv, Instances
<1>2. srv[p].st # "free" => InstOK(p, srv[p])
  BY DEF RunOK, SrvOK
<1>3. CASE ServerStart(p)
  <2>1. PICK pkt \in up :
          /\ pkt.op = "RRQ" /\ srv[p].st = "free" /\ TakeUp(pkt)
          /\ \/ Answer(p, Fresh(p, pkt.num))
             \/ \E k \in {OptBlksize, OptBlksize - 1} :
                  k > 0 /\ Answer(p, FreshOack(p, pkt.num, k))
          /\ UNCHANGED << client, intrflag, sock >>
    BY <1>3 DEF ServerStart, Fresh, FreshOack
  <2>2. pkt.num = 1
    BY <2>1 DEF RunOK, UpOK
  <2>3. OptBlksize = 0
    BY DEF FirstTransfer
  <2>4. Answer(p, Fresh(p, 1))
    BY <2>1, <2>2, <2>3
  <2>5. NextBlock(0) = 1
    BY WireAssumption, NextBlockFacts, 0 \in Nat
  <2>6. PICK d : d = DataAt(p, 1, 0, 1, SegSize)
    OBVIOUS
  <2>7. /\ d \in DownPackets /\ d.port = p /\ d.op = "DATA" /\ d.num = 1
        /\ d.data = BlockData(1)
    <3>1. PICK f \in Jobs, a \in Nat, k \in Nat, g \in Nat :
            f = 1 /\ a = 0 /\ k = 1 /\ g = SegSize
      BY FirstFacts
    <3>2. d = DataAt(p, f, a, k, g)
      BY <2>6, <3>1
    <3>3. /\ d \in DownPackets /\ d.port = p /\ d.op = "DATA" /\ d.num = k
          /\ d.data = Chunk(Files[f], a, g)
      BY <3>2, DataType
    <3>4. QED
      BY <3>1, <3>3, FirstFacts, OffFacts DEF BlockData
  <2>8. PICK s : s = Fresh(p, 1)
    OBVIOUS
  <2>9. /\ s \in Instances /\ s.st = "open" /\ s.file = 1 /\ s.off = 0 /\ s.num = 1
        /\ s.seg = SegSize /\ s.pkt = d
    BY <2>5, <2>6, <2>7, <2>8, FirstFacts DEF Fresh, Instances, DownPackets
  <2>10. InstOK(p, s)
    BY <2>7, <2>9, RunFacts, OffFacts DEF InstOK
  <2>11. Answer(p, s)
    BY <2>4, <2>8
  <2>12. /\ srv' = [srv EXCEPT ![p] = s]
         /\ \A q \in down' : q \in down \/ q = d
    BY <2>9, <2>11, AnswerSends
  <2>13. up' \subseteq up
    BY <2>1, TakeUpKeeps
  <2>14. \A q \in down' : q \in down \/ (q.port = p /\ q.op # "OACK"
               /\ (q.op = "DATA" => q.num \in 1..s.num /\ q.data = BlockData(q.num)))
    BY <2>7, <2>9, <2>12
  <2>15. sock' = sock /\ UNCHANGED << client, intrflag >>
    BY <2>1
  <2>16. srv[p].st = "free"
    BY <2>1
  <2>17. QED
    BY <2>9, <2>10, <2>12, <2>13, <2>14, <2>15, <2>16, Others
<1>4. CASE ServerAdvance(p)
  <2>1. PICK pkt \in up, a \in Nat, r \in Instances :
             /\ pkt.op = "ACK" /\ pkt.port = p
             /\ srv[p].st = "open" /\ pkt.num = srv[p].num
             /\ TakeUp(pkt) /\ UNCHANGED << client, intrflag, sock >>
             /\ a = IF srv[p].pkt.op = "DATA" THEN srv[p].off + Len(srv[p].pkt.data) ELSE 0
             /\ \/ /\ srv[p].pkt.op = "DATA" /\ Len(srv[p].pkt.data) < srv[p].seg
                   /\ srv' = [srv EXCEPT ![p] = r] /\ r.st = "closed" /\ UNCHANGED down
                \/ /\ ~(srv[p].pkt.op = "DATA" /\ Len(srv[p].pkt.data) < srv[p].seg)
                   /\ Answer(p, r)
                   /\ r.st = "open" /\ r.file = srv[p].file /\ r.seg = srv[p].seg
                   /\ r.off = a /\ r.num = NextBlock(srv[p].num)
                   /\ r.pkt = DataAt(p, srv[p].file, a, NextBlock(srv[p].num), srv[p].seg)
    BY <1>4, AdvanceCases
  <2>2. PICK k \in Nat : k = srv[p].num
    BY <1>1
  <2>3. /\ srv[p].file = 1 /\ srv[p].seg = SegSize /\ srv[p].off = Off(k)
        /\ srv[p].pkt.op = "DATA" /\ srv[p].pkt.data = BlockData(k)
    BY <1>2, <2>1, <2>2 DEF InstOK
  <2>4. p = serv /\ k \in 1..(Awaited - 1)
    BY <2>1, <2>2 DEF RunOK, UpOK
  <2>5. /\ k \in Nat \ {0} /\ k + 1 \in 1..Awaited
        /\ Off(k) <= Len(Whole) /\ Off(k + 1) <= Len(Whole) /\ Off(k + 1) \in Nat
        /\ Off(k + 1) = Off(k) + SegSize
    <3>1. k \in 1..Awaited /\ k + 1 \in 1..Awaited /\ k \in Nat \ {0}
      BY <2>4, RunFacts
    <3>2. QED
      BY <3>1, RunFacts, OffFacts
  <2>6. Len(BlockData(k)) = SegSize
    BY <2>5, BlockFacts
  <2>7. NextBlock(k) = k + 1
    BY <2>5, BlockBound
  <2>8. SegSize \in Nat
    BY FirstFacts
  <2>9. a = Off(k + 1)
    BY <2>1, <2>3, <2>5, <2>6
  <2>10. /\ Answer(p, r)
         /\ r.st = "open" /\ r.file = 1 /\ r.seg = SegSize
         /\ r.off = a /\ r.num = k + 1
         /\ r.pkt = DataAt(p, 1, a, k + 1, SegSize)
    BY <2>1, <2>2, <2>3, <2>6, <2>7, <2>8
  <2>11. PICK d : d = DataAt(p, 1, a, k + 1, SegSize)
    OBVIOUS
  <2>12. /\ d \in DownPackets /\ d.port = p /\ d.op = "DATA" /\ d.num = k + 1
         /\ d.data = BlockData(k + 1)
    <3>1. 1 \in Jobs /\ k + 1 \in Nat /\ SegSize \in Nat
      BY <2>5, <2>8, FirstFacts
    <3>2. PICK f \in Jobs, m \in Nat, g \in Nat : f = 1 /\ m = k + 1 /\ g = SegSize
      BY <3>1
    <3>5. d = DataAt(p, f, a, m, g)
      BY <2>11, <3>2
    <3>3. /\ d \in DownPackets /\ d.port = p /\ d.op = "DATA" /\ d.num = m
          /\ d.data = Chunk(Files[f], a, g)
      BY <3>5, DataType
    <3>4. QED
      BY <2>9, <3>2, <3>3, FirstFacts DEF BlockData
  <2>13. InstOK(p, r)
    BY <2>4, <2>5, <2>9, <2>10, <2>11, <2>12 DEF InstOK
  <2>14. /\ srv' = [srv EXCEPT ![p] = r]
         /\ \A q \in down' : q \in down \/ q = d
    BY <2>10, <2>11, AnswerSends
  <2>15. up' \subseteq up
    BY <2>1, TakeUpKeeps
  <2>16. r.num >= srv[p].num /\ k + 1 \in 1..r.num
    BY <2>2, <2>5, <2>10
  <2>17. \A q \in down' : q \in down \/ (q.port = p /\ q.op # "OACK"
               /\ (q.op = "DATA" => q.num \in 1..r.num /\ q.data = BlockData(q.num)))
    BY <2>12, <2>14, <2>16
  <2>18. sock' = sock /\ UNCHANGED << client, intrflag >>
    BY <2>1
  <2>19. QED
    BY <2>13, <2>14, <2>15, <2>16, <2>17, <2>18, Others
<1>5. CASE ServerDrop(p)
  <2>1. PICK pkt \in up : TakeUp(pkt)
    BY <1>5 DEF ServerDrop
  <2>2. up' \subseteq up
    BY <2>1, TakeUpKeeps
  <2>3. UNCHANGED << client, intrflag, srv, down, sock >>
    BY <1>5 DEF ServerDrop
  <2>4. QED
    BY <2>2, <2>3, Quiet
<1>6. CASE ServerRetransmit(p)
  <2>1. PICK s : s = [srv[p] EXCEPT !.tries = @ + 1]
    OBVIOUS
  <2>2. /\ s \in Instances /\ s.st = srv[p].st /\ s.file = srv[p].file /\ s.seg = srv[p].seg
        /\ s.off = srv[p].off /\ s.num = srv[p].num /\ s.pkt = srv[p].pkt
    BY <1>1, <2>1, RetriedFields
  <2>3. srv[p].st = "open" /\ Answer(p, s) /\ UNCHANGED << client, intrflag, up, sock >>
    BY <1>6, <2>1 DEF ServerRetransmit
  <2>4. InstOK(p, s) /\ s.pkt.port = p
    BY <1>2, <2>2, <2>3 DEF InstOK, TypeInv
  <2>5. s.pkt.op = "DATA" /\ s.pkt.num = s.num /\ s.pkt.data = BlockData(s.num) /\ s.num \in 1..s.num
    BY <2>2, <2>3, <2>4, RunFacts DEF InstOK
  <2>6. /\ srv' = [srv EXCEPT ![p] = s]
        /\ \A q \in down' : q \in down \/ q = s.pkt
    BY <2>3, AnswerSends
  <2>7. s.num >= srv[p].num
    BY <1>1, <2>2
  <2>8. \A q \in down' : q \in down \/ (q.port = p /\ q.op # "OACK"
               /\ (q.op = "DATA" => q.num \in 1..s.num /\ q.data = BlockData(q.num)))
    BY <2>4, <2>5, <2>6
  <2>9. sock' = sock /\ up' = up /\ UNCHANGED << client, intrflag >>
    BY <2>3
  <2>10. QED
    BY <2>2, <2>4, <2>6, <2>7, <2>8, <2>9, Others
<1>7. CASE ServerFails(p)
  <2>1. PICK s : s = [srv[p] EXCEPT !.st = "dead", !.pkt = Error(p)]
    OBVIOUS
  <2>2. /\ s \in Instances /\ s.st = "dead" /\ s.file = srv[p].file /\ s.seg = srv[p].seg
        /\ s.off = srv[p].off /\ s.num = srv[p].num /\ s.pkt = Error(p)
    BY <2>1, FailedFields, Zenon
  <2>3. srv[p].st = "open" /\ Answer(p, s) /\ UNCHANGED << client, intrflag, up, sock >>
    BY <1>7, <2>1 DEF ServerFails
  <2>4. InstOK(p, s)
    BY <1>2, <2>2, <2>3 DEF InstOK
  <2>5. Error(p).op = "ERROR" /\ Error(p).port = p
    BY DEF Error, Packet
  <2>6. /\ srv' = [srv EXCEPT ![p] = s]
        /\ \A q \in down' : q \in down \/ q = s.pkt
    BY <2>3, AnswerSends
  <2>7. s.num >= srv[p].num
    BY <1>1, <2>2
  <2>8. \A q \in down' : q \in down \/ (q.port = p /\ q.op # "OACK"
               /\ (q.op = "DATA" => q.num \in 1..s.num /\ q.data = BlockData(q.num)))
    BY <2>2, <2>5, <2>6
  <2>9. sock' = sock /\ up' = up /\ UNCHANGED << client, intrflag >>
    BY <2>3
  <2>10. QED
    BY <2>2, <2>4, <2>6, <2>7, <2>8, <2>9, Others
<1>8. QED
  BY <1>0, <1>3, <1>4, <1>5, <1>6, <1>7

LEMMA RunNetwork ==
    ASSUME TypeInv, RunOK, NetworkStep
    PROVE  RunOK'
<1>1. PICK p \in down : /\ sock' = Append(sock, p)
                        /\ down' \subseteq down /\ UNCHANGED up
                        /\ UNCHANGED << client, intrflag, srv >>
  BY DEF NetworkStep, Deliver
<1>2. \A i \in 1..Len(sock') : \/ \E j \in 1..Len(sock) : sock'[i] = sock[j]
                               \/ sock'[i] \in down
  <2>1. PICK s \in Seq(DownPackets) : s = sock
    BY DEF TypeInv
  <2>2. p \in DownPackets
    BY DEF TypeInv
  <2>3. \A i \in 1..Len(Append(s, p)) : \/ i \in 1..Len(s) /\ Append(s, p)[i] = s[i]
                                        \/ Append(s, p)[i] = p
    BY <2>2
  <2>4. QED
    BY <1>1, <2>1, <2>3
<1>3. QED
  BY <1>1, <1>2, Quiet

-----------------------------------------------------------------------------
(* The client                                                              *)

(* What its steps leave of what holds about the servers: they only await   *)
(* later blocks, and choose a server once.                                 *)
LEMMA Later ==
    ASSUME TypeInv, RunOK, UNCHANGED srv, serv' = serv \/ serv = NoPort,
           Awaited \in Nat, Awaited' \in Nat, Awaited' >= Awaited
    PROVE  /\ SrvOK'
           /\ \A pkt \in up :
                /\ pkt.op = "RRQ" => pkt.num = 1
                /\ pkt.op = "ACK" => /\ pkt.port = serv /\ serv' = serv
                                     /\ pkt.num \in 1..(Awaited' - 1)
<1>1. \A x \in Ports : x # NoPort
  BY WireAssumption
<1>2. SrvOK'
  <2>1. ASSUME NEW x \in Ports, srv[x].st # "free"
        PROVE  InstOK(x, srv[x])'
    <3>1. InstOK(x, srv[x])
      BY <2>1 DEF RunOK, SrvOK
    <3>2. \A k \in 1..Awaited : k \in 1..Awaited'
      OBVIOUS
    <3>3. x # serv' => srv[x].num = 1
      BY <1>1, <3>1 DEF InstOK
    <3>4. QED
      BY <3>1, <3>2, <3>3 DEF InstOK
  <2>2. QED
    BY <2>1 DEF SrvOK
<1>3. ASSUME NEW pkt \in up, pkt.op = "ACK"
      PROVE  pkt.port = serv /\ serv' = serv /\ pkt.num \in 1..(Awaited' - 1)
  <2>1. pkt.port \in Ports \cup {Listener}
    BY DEF TypeInv, UpPackets
  <2>2. pkt.port = serv /\ pkt.num \in 1..(Awaited - 1)
    BY <1>3 DEF RunOK, UpOK
  <2>3. serv # NoPort
    BY <2>1, <2>2, WireAssumption
  <2>4. QED
    BY <2>2, <2>3
<1>4. QED
  BY <1>2, <1>3 DEF RunOK, UpOK

(* They send nothing to themselves.                                        *)
LEMMA DownKept ==
    ASSUME TypeInv, RunOK, UNCHANGED << srv, down >>,
           \/ sock' = sock
           \/ sock # << >> /\ sock' = Tail(sock)
           \/ sock' = << >>
    PROVE  DownOK'
<1>1. ASSUME NEW q, Genuine(q)
      PROVE  Genuine(q)'
  BY <1>1 DEF Genuine
<1>2. ASSUME NEW i \in 1..Len(sock')
      PROVE  Genuine(sock[i])'
  <2>1. PICK s \in Seq(DownPackets) : s = sock
    BY DEF TypeInv
  <2>2. \E j \in 1..Len(s) : sock'[i] = s[j]
    <3>1. CASE sock' = sock
      BY <2>1, <3>1
    <3>2. CASE sock # << >> /\ sock' = Tail(sock)
      <4>1. Len(Tail(s)) = Len(s) - 1 /\ \A k \in 1..Len(Tail(s)) : Tail(s)[k] = s[k + 1]
        BY <2>1, <3>2
      <4>2. i \in 1..Len(Tail(s)) /\ sock'[i] = Tail(s)[i]
        BY <2>1, <3>2
      <4>3. i + 1 \in 1..Len(s) /\ Tail(s)[i] = s[i + 1]
        BY <4>1, <4>2
      <4>4. QED
        BY <4>2, <4>3
    <3>3. CASE sock' = << >>
      BY <3>3
    <3>4. QED
      BY <3>1, <3>2, <3>3
  <2>3. QED
    BY <1>1, <2>1, <2>2 DEF RunOK, DownOK
<1>3. QED
  BY <1>1, <1>2 DEF RunOK, DownOK

(* The abort label leaves the beginning of the file that has been          *)
(* received, unless the user interrupted.                                  *)
LEMMA AbortDone ==
    ASSUME FirstTransfer, job = 1, TypeInv, NEW chs, NEW r, NEW to, NEW b, NEW f,
           AbortAfter(chs, r, to, b, f),
           r \notin {"none", "interrupted"},
           NEW k \in 0..Len(Whole), f \o Flushed(b) = SubSeq(Whole, 1, k),
           r = "received" => k = Len(Whole) /\ amount' = k
    PROVE  RecvInv'
<1>1. pc' = "done" /\ report' = [report EXCEPT ![job] = r]
  BY DEF AbortAfter
<1>2. report'[1] = r
  BY <1>1, FirstFacts DEF TypeInv, TypeOK
<1>3. out'[1] = SubSeq(Whole, 1, k)
  <2>1. PICK w \in Written(Flushed(b)) : Append2File(f \o w)
    BY DEF AbortAfter
  <2>2. w = Flushed(b)
    BY FirstFacts
  <2>3. out' = [out EXCEPT ![1] = f \o Flushed(b)]
    BY <2>1, <2>2, FirstFacts, Zenon DEF Append2File
  <2>4. QED
    BY <2>3, FirstFacts
<1>4. Len(SubSeq(Whole, 1, k)) = k /\ SubSeq(Whole, 1, Len(Whole)) = Whole
  BY FirstFacts
<1>5. k \in Nat /\ k <= Len(Whole)
  BY FirstFacts
<1>6. IsPrefix2(SubSeq(Whole, 1, k), Whole)
  BY <1>4, <1>5 DEF IsPrefix2
<1>7. r = "received" => SubSeq(Whole, 1, k) = Whole
  BY <1>4
<1>8. DoneOK'
  BY <1>2, <1>3, <1>6, <1>7 DEF DoneOK
<1>9. QED
  BY <1>1, <1>8 DEF RecvInv

LEMMA AbortInterrupted ==
    ASSUME FirstTransfer, job = 1, TypeInv, NEW chs, NEW to, NEW b, NEW f,
           AbortAfter(chs, "interrupted", to, b, f), MayInterrupt
    PROVE  RecvInv'
<1>1. pc' = "done" /\ report' = [report EXCEPT ![job] = "interrupted"]
  BY DEF AbortAfter
<1>2. report'[1] = "interrupted"
  BY <1>1, FirstFacts DEF TypeInv, TypeOK
<1>3. DoneOK'
  BY <1>2 DEF DoneOK
<1>4. QED
  BY <1>1, <1>3 DEF RecvInv

(* With a clean buffer the file is what has been received.                 *)
LEMMA CleanFile ==
    ASSUME FirstTransfer, job = 1, TypeInv, RunOK, Clean(bufs)
    PROVE  /\ out[1] = SubSeq(Whole, 1, amount)
           /\ out[1] \in Seq(Int) /\ amount \in 0..Len(Whole)
<1>1. Flushed(bufs) = << >>
  BY FirstFacts, NothingPending DEF RunOK, BufOK
<1>2. PICK o \in Seq(Int) : o = out[1]
  BY FirstFacts
<1>3. o \o << >> = o
  OBVIOUS
<1>4. QED
  BY <1>1, <1>2, <1>3, RunFacts, FirstFacts DEF RunOK, BufOK

(* The first packet of the socket while recvfile() waits for one.          *)
LEMMA Received ==
    ASSUME FirstTransfer, job = 1, TypeInv, RunOK, pc = "poll", sock # << >>,
           NEW p, p = Head(sock)
    PROVE  /\ p \in DownPackets /\ p.port \in Ports /\ Genuine(p)
           /\ Payload(p) \in Seq(Int)
           /\ p.op = "DATA" => Payload(p) = p.data
           /\ Alloc(bufs) /\ Clean(bufs) /\ ~error /\ ~firsttrip /\ Awaited = block
           /\ InBuffer(p) \in Buffers /\ Alloc(InBuffer(p)) /\ Clean(InBuffer(p))
           /\ InBuffer(p) = RecvInto(bufs, Payload(p))
           /\ Flushed(InBuffer(p)) = << >>
<1>1. /\ p \in DownPackets /\ p.port \in Ports /\ Payload(p) \in Seq(Int)
      /\ InBuffer(p) \in Buffers
  BY RecvTypes
<1>2. Genuine(p)
  <2>1. PICK s \in Seq(DownPackets) : s = sock
    BY DEF TypeInv
  <2>2. 1 \in 1..Len(s) /\ p = s[1]
    BY <2>1
  <2>3. QED
    BY <2>1, <2>2 DEF RunOK, DownOK
<1>3. Alloc(bufs) /\ Clean(bufs) /\ ~error /\ ~firsttrip /\ Awaited = block
  BY DEF RunOK, BufOK, ClientOK, Awaited
<1>4. InBuffer(p) = RecvInto(bufs, Payload(p))
  BY DEF InBuffer
<1>5. Alloc(InBuffer(p)) /\ Clean(InBuffer(p))
  <2>1. PICK v \in Buffers, d \in Seq(Int) : d = Payload(p) /\ v = RecvInto(bufs, d)
    BY <1>1, <1>4
  <2>2. v.counter = bufs.counter /\ v.current = bufs.current /\ v.nextone = bufs.nextone
    BY <2>1, FirstFacts, RecvIntoFields
  <2>3. Alloc(v) /\ Clean(v)
    BY <1>3, <2>2 DEF Alloc, Clean
  <2>4. QED
    BY <1>4, <2>1, <2>3
<1>6. Flushed(InBuffer(p)) = << >>
  BY <1>1, <1>5, NothingPending
<1>7. ASSUME p.op = "DATA"
      PROVE  Payload(p) = p.data
  <2>1. PICK k \in Nat \ {0}, d \in Seq(Int) : k = p.num /\ d = p.data /\ d = BlockData(k)
    BY <1>1, <1>2, <1>7 DEF Genuine, DownPackets, TypeInv, Instances
  <2>2. k \in 1..Awaited
    <3>1. srv[p.port].st # "free" /\ k \in 1..srv[p.port].num
      BY <1>2, <1>7, <2>1 DEF Genuine
    <3>2. srv[p.port].num \in 1..Awaited
      BY <1>1, <3>1 DEF RunOK, SrvOK, InstOK
    <3>3. QED
      BY <3>1, <3>2, RunFacts
  <2>3. Len(d) <= SegSize /\ Len(d) \in Nat
    BY <2>1, <2>2, RunFacts, BlockFacts
  <2>4. Least(Len(d), SegSize) = Len(d)
    BY <2>3, FirstFacts DEF Least
  <2>5. SubSeq(d, 1, Len(d)) = d
    OBVIOUS
  <2>6. segment_size = SegSize
    BY DEF RunOK, ClientOK
  <2>7. QED
    BY <2>1, <2>4, <2>5, <2>6 DEF Payload
<1>8. QED
  BY <1>1, <1>2, <1>3, <1>4, <1>5, <1>6, <1>7

(* A step within the transfer: what each client action that does not end   *)
(* it leaves to show.                                                      *)
LEMMA RunQuietClient ==
    ASSUME FirstTransfer, job = 1, TypeInv, RunOK,
           NewAck \/ Skip \/ PollTimeout \/ PollInterrupted
    PROVE  RunOK'
<1>1. UNCHANGED << srv, up, down, sock, serv, peer, bufs, out, amount, n,
                   segment_size, report, intrflag >>
  BY DEF NewAck, Skip, PollTimeout, PollInterrupted, wire
<1>2. /\ block \in Nat \ {0} /\ Awaited \in Nat \ {0} /\ Awaited + 1 < BlockMod
      /\ Off(Awaited) = amount /\ amount \in Nat /\ amount <= Len(Whole)
  BY RunFacts
<1>3. Awaited' = Awaited /\ block' \in Nat \ {0}
  <2>1. CASE NewAck
    <3>1. CASE firsttrip
      BY <1>2, <2>1, <3>1 DEF NewAck, Awaited
    <3>2. CASE ~firsttrip
      <4>1. Awaited = block + 1 /\ block' = NextBlock(block) /\ pc' = "loop"
        BY <2>1, <3>2 DEF NewAck, Awaited
      <4>2. NextBlock(block) = block + 1
        <5>1. block \in Nat /\ block + 1 < BlockMod
          BY <1>2, <4>1, WireAssumption
        <5>2. QED
          BY <5>1, NextBlockFacts
      <4>3. QED
        BY <1>2, <4>1, <4>2 DEF Awaited
    <3>3. QED
      BY <3>1, <3>2
  <2>2. CASE Skip \/ PollTimeout \/ PollInterrupted
    BY <1>2, <2>2 DEF Skip, PollTimeout, PollInterrupted, InTime, Awaited
  <2>3. QED
    BY <2>1, <2>2
<1>4. SrvOK' /\ UpOK'
  <2>1. /\ SrvOK'
        /\ \A pkt \in up :
             /\ pkt.op = "RRQ" => pkt.num = 1
             /\ pkt.op = "ACK" => /\ pkt.port = serv /\ serv' = serv
                                  /\ pkt.num \in 1..(Awaited' - 1)
    BY <1>1, <1>2, <1>3, Later
  <2>2. QED
    BY <1>1, <2>1 DEF UpOK
<1>5. DownOK'
  BY <1>1, DownKept
<1>6. BufOK'
  <2>1. CASE NewAck
    BY <1>1, <2>1 DEF NewAck, RunOK, BufOK, ClientOK
  <2>2. CASE Skip \/ PollTimeout \/ PollInterrupted
    BY <1>1, <2>2 DEF Skip, PollTimeout, PollInterrupted, InTime, RunOK, BufOK
  <2>3. QED
    BY <2>1, <2>2
<1>7. ClientOK'
  <2>1. CASE NewAck
    <3>1. ap'.op = "ACK" => block' > 1 /\ ap'.num = block' - 1
      <4>1. CASE firsttrip
        BY <2>1, <4>1 DEF NewAck, Request, Packet
      <4>2. CASE ~firsttrip
        <5>1. ap'.num = block /\ Awaited = block + 1 /\ pc' = "loop"
          BY <2>1, <4>2 DEF NewAck, Ack, Packet, Awaited
        <5>2. block' = block + 1
          BY <1>3, <5>1 DEF Awaited
        <5>3. QED
          BY <1>2, <5>1, <5>2
      <4>3. QED
        BY <4>1, <4>2
    <3>2. pc' = "loop" /\ firsttrip' = FALSE
      BY <2>1 DEF NewAck
    <3>3. ap'.op = "RRQ" => ap'.num = 1
      BY <2>1 DEF NewAck, Request, Ack, Packet
    <3>4. QED
      BY <1>1, <1>2, <1>3, <3>1, <3>2, <3>3 DEF RunOK, ClientOK
  <2>2. CASE Skip \/ PollTimeout \/ PollInterrupted
    <3>1. /\ pc \in {"loop", "poll"} /\ pc' \in {"loop", "poll"}
          /\ pc' # "loop" => ~error'
          /\ UNCHANGED << block, firsttrip, ap >>
      BY <2>2 DEF Skip, PollTimeout, PollInterrupted, InTime
    <3>2. QED
      BY <1>1, <1>2, <1>3, <3>1 DEF RunOK, ClientOK
  <2>3. QED
    BY <2>1, <2>2
<1>8. QED
  BY <1>4, <1>5, <1>6, <1>7 DEF RunOK

(* The packet is sent, and the last block goes to the file.                *)
LEMMA RunTransmit ==
    ASSUME FirstTransfer, job = 1, TypeInv, RunOK, Transmit
    PROVE  RunOK'
<1>1. /\ pc = "loop" /\ pc' = "poll" /\ ~error
      /\ bufs' = WriteBehind(bufs)
      /\ UNCHANGED << block, firsttrip, ap, n, amount, error, serv, peer,
                      segment_size, intrflag, report, srv, down, sock >>
  BY DEF Transmit, InTime
<1>2. /\ block \in Nat \ {0} /\ Awaited = block
      /\ Off(Awaited) = amount /\ amount \in Nat /\ amount <= Len(Whole)
  BY <1>1, RunFacts DEF Awaited
<1>3. Awaited' = Awaited
  BY <1>1, <1>2 DEF Awaited
<1>4. /\ SrvOK'
      /\ \A pkt \in up :
           /\ pkt.op = "RRQ" => pkt.num = 1
           /\ pkt.op = "ACK" => /\ pkt.port = serv /\ serv' = serv
                                /\ pkt.num \in 1..(Awaited' - 1)
  BY <1>1, <1>2, <1>3, Later
<1>5. UpOK'
  <2>1. PICK a : a = [ap EXCEPT !.port = peer]
    OBVIOUS
  <2>2. up' \subseteq up \cup {a}
    <3>1. up' \in Sent(up, a)
      BY <2>1, Zenon DEF Transmit, SendUp
    <3>2. QED
      BY <3>1, SentKeeps
  <2>3. a.op = ap.op /\ a.num = ap.num /\ a.port = peer
    BY <2>1 DEF TypeInv, UpPackets
  <2>4. ap.op = "ACK" => ap.num \in 1..(Awaited' - 1) /\ peer = serv /\ serv' = serv
    <3>1. ASSUME ap.op = "ACK"
          PROVE  ap.num \in 1..(Awaited' - 1) /\ peer = serv /\ serv' = serv
      <4>1. block > 1 /\ ap.num = block - 1
        BY <1>1, <3>1 DEF RunOK, ClientOK
      <4>2. serv # NoPort
        BY <1>2, <4>1 DEF RunOK, ClientOK
      <4>3. QED
        BY <1>1, <1>2, <1>3, <4>1, <4>2 DEF RunOK, ClientOK
    <3>2. QED
      BY <3>1
  <2>5. ap.op = "RRQ" => ap.num = 1
    BY DEF RunOK, ClientOK
  <2>6. QED
    BY <1>1, <1>4, <2>2, <2>3, <2>4, <2>5 DEF UpOK
<1>6. DownOK'
  BY <1>1, DownKept
<1>7. BufOK'
  <2>1. PICK b \in Buffers : b = bufs
    BY DEF TypeInv
  <2>2. Alloc(b) /\ (Clean(b) \/ Pending(b))
    BY <2>1 DEF RunOK, BufOK
  <2>3. PICK w : w = WriteBehind(b)
    OBVIOUS
  <2>4. w \in Buffers /\ Alloc(w) /\ Clean(w)
    BY <2>2, <2>3, NothingPending, SomethingPending
  <2>5. Flushed(w) = << >>
    BY <2>4, NothingPending
  <2>6. bufs' = w
    BY <1>1, <2>1, <2>3
  <2>7. PICK o \in Seq(Int), d \in Seq(Int) : o = out[1] /\ d = Flushed(b)
    BY <2>1, FirstFacts, FlushedType
  <2>8. o \o d = SubSeq(Whole, 1, amount) /\ o \o d \in Seq(Int)
    <3>1. o \o d = SubSeq(Whole, 1, amount)
      BY <2>1, <2>7, Zenon DEF RunOK, BufOK
    <3>2. o \o d \in Seq(Int)
      OBVIOUS
    <3>3. QED
      BY <3>1, <3>2
  <2>9. out'[1] = o \o d
    <3>1. PICK x \in Written(Flushed(bufs)) : Append2File(out[job] \o x)
      BY DEF Transmit
    <3>2. x = Flushed(bufs)
      BY FirstFacts
    <3>3. out' = [out EXCEPT ![1] = o \o d]
      BY <2>1, <2>7, <3>1, <3>2, FirstFacts DEF Append2File
    <3>4. QED
      BY <3>3, FirstFacts
  <2>10. (o \o d) \o << >> = o \o d
    BY <2>8
  <2>11. QED
    BY <1>1, <2>4, <2>5, <2>6, <2>8, <2>9, <2>10 DEF BufOK
<1>8. ClientOK'
  BY <1>1, <1>2, <1>3 DEF RunOK, ClientOK
<1>9. QED
  BY <1>4, <1>5, <1>6, <1>7, <1>8 DEF RunOK

(* A block other than the one awaited leaves everything but the buffer.    *)
LEMMA RunOtherData ==
    ASSUME FirstTransfer, job = 1, TypeInv, RunOK, sock # << >>, GotOtherData
    PROVE  RunOK'
<1>1. PICK p : p = Head(sock)
  OBVIOUS
<1>2. /\ pc = "poll" /\ pc' = "loop" /\ KnownPort(p)
      /\ serv' = p.port /\ peer' = p.port /\ n' = 4 + Len(Payload(p))
      /\ bufs' = InBuffer(p) /\ sock' = << >>
      /\ UNCHANGED << job, report, block, firsttrip, ap, amount,
                      segment_size, out, intrflag, srv, up, down >>
  BY <1>1 DEF GotOtherData, RecvFrom, Synchnet
<1>3. /\ p \in DownPackets /\ p.port \in Ports /\ Genuine(p) /\ Payload(p) \in Seq(Int)
      /\ Clean(bufs) /\ ~firsttrip /\ Awaited = block
      /\ Alloc(InBuffer(p)) /\ Clean(InBuffer(p)) /\ Flushed(InBuffer(p)) = << >>
  BY <1>1, <1>2, Received
<1>4. /\ block \in Nat \ {0} /\ Off(Awaited) = amount /\ amount \in Nat
      /\ amount <= Len(Whole)
  BY RunFacts
<1>5. Awaited' = Awaited
  BY <1>2, <1>3 DEF Awaited
<1>6. SrvOK' /\ UpOK'
  <2>1. serv' = serv \/ serv = NoPort
    BY <1>2 DEF KnownPort
  <2>2. /\ SrvOK'
        /\ \A pkt \in up :
             /\ pkt.op = "RRQ" => pkt.num = 1
             /\ pkt.op = "ACK" => /\ pkt.port = serv /\ serv' = serv
                                  /\ pkt.num \in 1..(Awaited' - 1)
    BY <1>2, <1>3, <1>4, <1>5, <2>1, Later
  <2>3. QED
    BY <1>2, <2>2 DEF UpOK
<1>7. DownOK'
  BY <1>2, DownKept
<1>8. BufOK'
  <2>1. PICK o \in Seq(Int) : o = out[1] /\ o = SubSeq(Whole, 1, amount)
    BY <1>3, CleanFile
  <2>2. o \o << >> = o
    OBVIOUS
  <2>3. QED
    BY <1>2, <1>3, <2>1, <2>2 DEF BufOK
<1>9. ClientOK'
  <2>1. n' >= 4 /\ p.port # NoPort
    BY <1>2, <1>3, WireAssumption
  <2>2. srv'[serv'].st # "free"
    BY <1>2, <1>3 DEF Genuine
  <2>3. QED
    BY <1>2, <1>3, <1>4, <1>5, <2>1, <2>2 DEF RunOK, ClientOK
<1>10. QED
  BY <1>6, <1>7, <1>8, <1>9 DEF RunOK

(* The block awaited: the next one is asked for after a full block, and    *)
(* the transfer is over after a short one.                                 *)
LEMMA RunData ==
    ASSUME FirstTransfer, job = 1, TypeInv, RunOK, sock # << >>, GotData
    PROVE  RecvInv'
<1>1. PICK p : p = Head(sock)
  OBVIOUS
<1>2. /\ pc = "poll" /\ KnownPort(p) /\ p.op = "DATA" /\ p.num = block
      /\ serv' = p.port /\ peer' = p.port /\ n' = 4 + Len(Payload(p))
      /\ EndTrip(InBuffer(p), n', p.port) /\ sock' = Tail(sock)
      /\ UNCHANGED << job, block, firsttrip, ap, error,
                      segment_size, intrflag, srv, down >>
  BY <1>1 DEF GotData, RecvFrom
<1>3. /\ p \in DownPackets /\ p.port \in Ports /\ Genuine(p)
      /\ Payload(p) = p.data /\ Payload(p) \in Seq(Int)
      /\ Alloc(bufs) /\ Clean(bufs) /\ ~error /\ ~firsttrip /\ Awaited = block
      /\ InBuffer(p) \in Buffers /\ InBuffer(p) = RecvInto(bufs, Payload(p))
  BY <1>1, <1>2, Received
<1>4. /\ block \in Nat \ {0} /\ Off(block) = amount /\ amount \in Nat
      /\ amount <= Len(Whole) /\ Len(Whole) \in Nat
  BY <1>3, RunFacts, FirstFacts
<1>5. PICK d \in Seq(Int), ct \in Nat, v \in Buffers,
             w \in {WriteIt(InBuffer(p), Len(Payload(p)))} :
        /\ d = Payload(p) /\ ct = Len(d) /\ v = InBuffer(p) /\ w = WriteIt(v, ct)
  BY <1>3
<1>6. /\ d = BlockData(block) /\ ct <= SegSize /\ amount + ct <= Len(Whole)
      /\ ct = SegSize => amount + ct = Off(block + 1)
      /\ ct # SegSize => amount + ct = Len(Whole)
      /\ SubSeq(Whole, 1, amount) \o d = SubSeq(Whole, 1, amount + ct)
  <2>1. d = BlockData(block)
    BY <1>2, <1>3, <1>5 DEF Genuine
  <2>2. Off(block + 1) = Off(block) + SegSize
    BY <1>4, OffFacts
  <2>3. QED
    BY <1>4, <1>5, <2>1, <2>2, BlockFacts
<1>7. /\ WriteItFlushes(v, ct) = << >>
      /\ w \in Buffers /\ Alloc(w) /\ Pending(w) /\ Flushed(w) = d
  <2>1. PICK b \in Buffers : b = bufs
    BY DEF TypeInv
  <2>2. v = RecvInto(b, d) /\ w = WriteIt(v, Len(d)) /\ Alloc(b) /\ Clean(b)
    BY <1>3, <1>5, <2>1
  <2>3. /\ WriteItFlushes(v, Len(d)) = << >>
        /\ w \in Buffers /\ Alloc(w) /\ Pending(w) /\ Flushed(w) = d
    BY <2>2, BlockSubmitted
  <2>4. QED
    BY <1>5, <2>3
<1>8. PICK o \in Seq(Int) : o = out[job] /\ o = out[1] /\ o = SubSeq(Whole, 1, amount)
  BY <1>3, CleanFile, FirstFacts
<1>9. o \o << >> = o /\ o \o d = SubSeq(Whole, 1, amount + ct)
  BY <1>6, <1>8
<1>10. segment_size = SegSize /\ SegSize \in Nat \ {0}
  BY FirstFacts DEF RunOK, ClientOK
<1>11. /\ amount' = amount + ct
       /\ IF ct = SegSize /\ ~intrflag
          THEN /\ pc' = "top" /\ bufs' = w /\ Append2File(o)
               /\ UNCHANGED << report, up >>
          ELSE Abort(IF intrflag THEN "interrupted" ELSE "received", p.port, w, o)
  <2>1. n' - 4 = ct
    BY <1>2, <1>5
  <2>2. \E x \in Written(WriteItFlushes(v, ct)) :
          LET f == out[job] \o x
          IN  IF ct < 0
              THEN /\ AbortAfter(Sent(up, Error(p.port)), "nak", p.port, w, f)
                   /\ UNCHANGED amount
              ELSE /\ amount' = amount + ct
                   /\ IF ct = segment_size /\ ~intrflag
                      THEN /\ pc' = "top" /\ bufs' = w /\ Append2File(f)
                           /\ UNCHANGED << report, up >>
                      ELSE Abort(IF intrflag THEN "interrupted"
                                             ELSE "received", p.port, w, f)
    BY <1>2, <1>5, <2>1, Zenon DEF EndTrip
  <2>3. Written(WriteItFlushes(v, ct)) = {<< >>}
    BY <1>7, FirstFacts
  <2>4. ~(ct < 0)
    BY <1>5
  <2>5. /\ amount' = amount + ct
        /\ IF ct = segment_size /\ ~intrflag
           THEN /\ pc' = "top" /\ bufs' = w /\ Append2File(out[job] \o << >>)
                /\ UNCHANGED << report, up >>
           ELSE Abort(IF intrflag THEN "interrupted"
                                  ELSE "received", p.port, w, out[job] \o << >>)
    BY <2>2, <2>3, <2>4, Zenon
  <2>6. QED
    BY <1>8, <1>9, <1>10, <2>5, Zenon
<1>12. CASE ct = SegSize /\ ~intrflag
  <2>1. /\ pc' = "top" /\ bufs' = w /\ Append2File(o) /\ UNCHANGED << report, up >>
        /\ amount' = amount + ct
    BY <1>11, <1>12
  <2>2. out'[1] = o
    BY <2>1, FirstFacts DEF Append2File
  <2>3. Awaited' = block + 1
    BY <1>2, <1>3, <2>1 DEF Awaited
  <2>4. SrvOK' /\ UpOK'
    <3>1. serv' = serv \/ serv = NoPort
      BY <1>2 DEF KnownPort
    <3>2. /\ SrvOK'
          /\ \A pkt \in up :
               /\ pkt.op = "RRQ" => pkt.num = 1
               /\ pkt.op = "ACK" => /\ pkt.port = serv /\ serv' = serv
                                    /\ pkt.num \in 1..(Awaited' - 1)
      BY <1>2, <1>3, <1>4, <2>3, <3>1, Later
    <3>3. QED
      BY <2>1, <3>2 DEF UpOK
  <2>5. DownOK'
    BY <1>2, DownKept
  <2>6. n' >= 4
    BY <1>2, <1>5
  <2>7. BufOK'
    <3>1. (out[1] \o Flushed(bufs))' = SubSeq(Whole, 1, amount')
      BY <1>7, <1>9, <1>11, <2>1, <2>2, Zenon
    <3>2. Alloc(bufs)' /\ Pending(bufs)'
      BY <1>7, <2>1, Zenon
    <3>3. pc' = "top" /\ ~error' /\ ~firsttrip' /\ n' # 0
      BY <1>2, <1>3, <2>1, <2>6
    <3>4. QED
      BY <3>1, <3>2, <3>3, Zenon DEF BufOK
  <2>8. ClientOK'
    <3>1. srv'[serv'].st # "free" /\ serv' # NoPort
      BY <1>2, <1>3, WireAssumption DEF Genuine
    <3>2. amount' = Off(Awaited') /\ amount' <= Len(Whole) /\ block' >= 1
      BY <1>2, <1>4, <1>6, <1>12, <2>1, <2>3
    <3>3. QED
      BY <1>2, <1>3, <2>1, <2>6, <3>1, <3>2 DEF RunOK, ClientOK
  <2>9. QED
    BY <2>1, <2>4, <2>5, <2>7, <2>8 DEF RecvInv, RunOK
<1>13. CASE ~(ct = SegSize /\ ~intrflag) /\ ~intrflag
  <2>1. AbortAfter({up}, "received", p.port, w, o) /\ amount' = amount + ct
    BY <1>11, <1>13 DEF Abort
  <2>2. PICK k \in 0..Len(Whole) : k = amount + ct /\ k = Len(Whole)
    BY <1>4, <1>5, <1>6, <1>13
  <2>3. o \o Flushed(w) = SubSeq(Whole, 1, k) /\ amount' = k
    BY <1>7, <1>9, <2>1, <2>2, Zenon
  <2>4. PICK chs, r : chs = {up} /\ r = "received"
    OBVIOUS
  <2>5. AbortAfter(chs, r, p.port, w, o) /\ r \notin {"none", "interrupted"}
    BY <2>1, <2>4
  <2>6. QED
    BY <2>2, <2>3, <2>5, AbortDone, Zenon
<1>14. CASE intrflag
  <2>1. AbortAfter({up}, "interrupted", p.port, w, o)
    BY <1>11, <1>14 DEF Abort
  <2>2. MayInterrupt
    BY <1>14 DEF RunOK, ClientOK
  <2>3. QED
    BY <2>1, <2>2, AbortInterrupted
<1>15. QED
  BY <1>12, <1>13, <1>14

(* The other ways a transfer ends.                                         *)
LEMMA RunEnds ==
    ASSUME FirstTransfer, job = 1, TypeInv, RunOK,
           \/ GiveUp \/ SocketFails \/ PortMismatch
           \/ sock # << >> /\ GotError
    PROVE  RecvInv'
<1>1. CASE GiveUp \/ SocketFails
  <2>1. PICK r \in {"timeout", "failed"} : AbortAfter({up}, r, peer, bufs, out[1])
    BY <1>1, FirstFacts DEF GiveUp, SocketFails, Abort
  <2>2. out[1] \o Flushed(bufs) = SubSeq(Whole, 1, amount)
    BY DEF RunOK, BufOK
  <2>3. amount \in 0..Len(Whole)
    BY RunFacts, FirstFacts
  <2>4. QED
    BY <2>1, <2>2, <2>3, AbortDone
<1>2. CASE PortMismatch \/ (sock # << >> /\ GotError)
  <2>1. PICK p : p = Head(sock)
    OBVIOUS
  <2>2. PICK r, to :
          /\ AbortAfter({up}, r, to, InBuffer(p), out[1])
          /\ r \notin {"none", "interrupted", "received"}
          /\ pc = "poll" /\ sock # << >>
    <3>1. CASE PortMismatch
      <4>1. /\ AbortAfter({up}, "port mismatch", peer, InBuffer(p), out[job])
            /\ pc = "poll" /\ sock # << >>
        BY <2>1, <3>1, Zenon DEF PortMismatch, Abort
      <4>2. out[job] = out[1]
        BY FirstFacts, Zenon
      <4>3. "port mismatch" \notin {"none", "interrupted", "received"}
        BY Zenon
      <4>4. QED
        BY <4>1, <4>2, <4>3, Zenon
    <3>2. CASE sock # << >> /\ GotError
      <4>1. AbortAfter({up}, "failed", p.port, InBuffer(p), out[job]) /\ pc = "poll"
        BY <2>1, <3>2, Zenon DEF GotError, RecvFrom, Abort
      <4>2. out[job] = out[1]
        BY FirstFacts, Zenon
      <4>3. "failed" \notin {"none", "interrupted", "received"}
        BY Zenon
      <4>4. QED
        BY <3>2, <4>1, <4>2, <4>3, Zenon
    <3>3. QED
      BY <1>2, <3>1, <3>2
  <2>3. Clean(bufs) /\ Flushed(InBuffer(p)) = << >>
    BY <2>1, <2>2, Received
  <2>4. PICK o \in Seq(Int) : o = out[1] /\ o = SubSeq(Whole, 1, amount)
    BY <2>3, CleanFile
  <2>5. o \o << >> = o
    OBVIOUS
  <2>6. out[1] \o Flushed(InBuffer(p)) = SubSeq(Whole, 1, amount)
    BY <2>3, <2>4, <2>5
  <2>7. amount \in 0..Len(Whole)
    BY RunFacts, FirstFacts
  <2>8. QED
    BY <2>2, <2>6, <2>7, AbortDone
<1>3. QED
  BY <1>1, <1>2

(* The user's interrupt, seen in the wait: with nothing received yet it    *)
(* makes a nak and leaves the file empty.                                  *)
LEMMA RunInterrupted ==
    ASSUME FirstTransfer, job = 1, TypeInv, RunOK, Interrupted
    PROVE  RecvInv'
<1>1. pc = "loop" /\ intrflag /\ EndTrip(bufs, n, peer)
  BY DEF Interrupted
<1>2. MayInterrupt /\ (n = 0 \/ n >= 4) /\ n \in Nat
  BY <1>1, FirstFacts DEF RunOK, ClientOK
<1>3. PICK ct \in Int, w \in {WriteIt(bufs, n - 4)} : ct = n - 4 /\ w = WriteIt(bufs, ct)
  BY <1>2
<1>4. PICK x \in Written(WriteItFlushes(bufs, ct)) :
        LET f == out[job] \o x
        IN  IF ct < 0
            THEN /\ AbortAfter(Sent(up, Error(peer)), "nak", peer, w, f)
                 /\ UNCHANGED amount
            ELSE /\ amount' = amount + ct
                 /\ IF ct = segment_size /\ ~intrflag
                    THEN /\ pc' = "top" /\ bufs' = w /\ Append2File(f)
                         /\ UNCHANGED << report, up >>
                    ELSE Abort(IF intrflag THEN "interrupted"
                                           ELSE "received", peer, w, f)
  BY <1>1, <1>3, Zenon DEF EndTrip
<1>5. CASE n = 0
  <2>1. ct = -4 /\ ct < 0
    BY <1>3, <1>5
  <2>2. AbortAfter(Sent(up, Error(peer)), "nak", peer, w, out[job] \o x)
    BY <1>4, <2>1
  <2>3. PICK b \in Buffers : b = bufs /\ Alloc(b) /\ Clean(b) /\ w = WriteIt(b, -4)
    BY <1>3, <1>5, <2>1 DEF TypeInv, RunOK, BufOK
  <2>4. WriteItFlushes(b, -4) = << >> /\ Flushed(w) = << >>
    BY <2>3, NothingSubmitted
  <2>5. x = << >>
    BY <2>1, <2>3, <2>4, FirstFacts
  <2>6. PICK o \in Seq(Int) : o = out[1] /\ o = SubSeq(Whole, 1, amount)
    BY <2>3, CleanFile
  <2>7. (o \o << >>) \o << >> = o
    OBVIOUS
  <2>8. (out[job] \o x) \o Flushed(w) = SubSeq(Whole, 1, amount)
    BY <2>4, <2>5, <2>6, <2>7, FirstFacts
  <2>9. amount \in 0..Len(Whole)
    BY RunFacts, FirstFacts
  <2>10. PICK chs, r, f : chs = Sent(up, Error(peer)) /\ r = "nak" /\ f = out[job] \o x
    OBVIOUS
  <2>11. r \notin {"none", "interrupted"} /\ r # "received"
    BY <2>10
  <2>12. AbortAfter(chs, r, peer, w, f) /\ f \o Flushed(w) = SubSeq(Whole, 1, amount)
    BY <2>2, <2>8, <2>10, Zenon
  <2>13. QED
    BY <2>9, <2>11, <2>12, AbortDone, Zenon
<1>6. CASE n >= 4
  <2>1. ~(ct < 0)
    BY <1>2, <1>3, <1>6
  <2>2. AbortAfter({up}, "interrupted", peer, w, out[job] \o x)
    BY <1>1, <1>4, <2>1 DEF Abort
  <2>3. QED
    BY <1>2, <2>2, AbortInterrupted
<1>7. QED
  BY <1>2, <1>5, <1>6

-----------------------------------------------------------------------------
(* The invariant is inductive                                              *)

LEMMA RunStep ==
    ASSUME FirstTransfer, job = 1, TypeInv, RunOK, pc # "done", [Next]_vars
    PROVE  RecvInv'
<1>1. CASE NewAck \/ Skip \/ PollTimeout \/ PollInterrupted
  <2>1. pc' # "done"
    BY <1>1 DEF NewAck, Skip, PollTimeout, PollInterrupted
  <2>2. QED
    BY <1>1, <2>1, RunQuietClient DEF RecvInv
<1>2. CASE Transmit
  <2>1. pc' # "done"
    BY <1>2 DEF Transmit
  <2>2. QED
    BY <1>2, <2>1, RunTransmit DEF RecvInv
<1>3. CASE GiveUp \/ SocketFails \/ PortMismatch \/ (sock # << >> /\ GotError)
  BY <1>3, RunEnds
<1>4. CASE Interrupted
  BY <1>4, RunInterrupted
<1>5. CASE sock # << >> /\ GotData
  BY <1>5, RunData
<1>6. CASE sock # << >> /\ GotOtherData
  <2>1. pc' # "done"
    BY <1>6 DEF GotOtherData
  <2>2. QED
    BY <1>6, <2>1, RunOtherData DEF RecvInv
<1>7. ASSUME sock # << >>, GotOack
      PROVE  FALSE
  <2>1. PICK p : p = Head(sock) /\ pc = "poll" /\ p.op = "OACK"
    BY <1>7 DEF GotOack, RecvFrom
  <2>2. QED
    BY <1>7, <2>1, Received DEF Genuine
<1>8. ~NextFile
  BY DEF NextFile
<1>9. CASE ServerStep
  <2>1. pc' # "done"
    BY <1>9 DEF ServerStep, ServerStart, ServerAdvance, ServerDrop,
                ServerRetransmit, ServerFails, client
  <2>2. QED
    BY <1>9, <2>1, RunServer DEF RecvInv
<1>10. CASE NetworkStep
  <2>1. pc' # "done"
    BY <1>10 DEF NetworkStep, client
  <2>2. QED
    BY <1>10, <2>1, RunNetwork DEF RecvInv
<1>11. CASE Interrupt
  <2>1. /\ UNCHANGED << client, srv, up, down, sock >> /\ MayInterrupt
    BY <1>11 DEF Interrupt, wire
  <2>2. Awaited' = Awaited
    BY <2>1 DEF client, Awaited
  <2>3. UpOK' /\ SrvOK' /\ BufOK'
    BY <2>1, <2>2 DEF client, RunOK, UpOK, SrvOK, InstOK, BufOK
  <2>4. DownOK'
    BY <2>1, DownKept
  <2>5. ClientOK'
    BY <2>1, <2>2 DEF client, RunOK, ClientOK
  <2>6. pc' # "done"
    BY <2>1 DEF client
  <2>7. QED
    BY <2>3, <2>4, <2>5, <2>6 DEF RecvInv, RunOK
<1>12. CASE UNCHANGED vars
  <2>1. UNCHANGED << client, intrflag, srv, up, down, sock >>
    BY <1>12 DEF vars, wire
  <2>2. RunOK'
    BY <2>1, Quiet
  <2>3. pc' # "done"
    BY <2>1 DEF client
  <2>4. QED
    BY <2>2, <2>3 DEF RecvInv
<1>13. QED
  BY <1>1, <1>2, <1>3, <1>4, <1>5, <1>6, <1>7, <1>8, <1>9, <1>10, <1>11, <1>12
     DEF Next, ClientStep, Finished

(* Once recvfile() has returned nothing touches the file any more.         *)
LEMMA DoneStep ==
    ASSUME pc = "done", [Next]_vars, job \in Nat, job' = job
    PROVE  UNCHANGED << pc, report, out, amount >>
<1>1. ~NextFile
  BY DEF NextFile
<1>2. ~ClientStep
  BY <1>1 DEF ClientStep, NewAck, Transmit, Skip, GiveUp, PollTimeout, PollInterrupted,
     SocketFails, Interrupted, PortMismatch, GotOack, GotError, GotData,
     GotOtherData, RecvFrom, InTime
<1>3. CASE ServerStep
  BY <1>3 DEF ServerStep, ServerStart, ServerAdvance, ServerDrop,
              ServerRetransmit, ServerFails, client
<1>4. CASE NetworkStep
  BY <1>4 DEF NetworkStep, client
<1>5. CASE Interrupt
  BY <1>5 DEF Interrupt, client
<1>6. CASE UNCHANGED vars
  BY <1>6 DEF vars, client
<1>7. QED
  BY <1>2, <1>3, <1>4, <1>5, <1>6 DEF Next, Finished

LEMMA RecvStep ==
    ASSUME FirstTransfer, job = 1, job' = 1, TypeInv, RecvInv, [Next]_vars
    PROVE  RecvInv'
<1>1. CASE pc = "done"
  <2>1. UNCHANGED << pc, report, out, amount >> /\ DoneOK
    BY <1>1, DoneStep DEF RecvInv
  <2>2. QED
    BY <1>1, <2>1 DEF RecvInv, DoneOK
<1>2. CASE pc # "done"
  BY <1>2, RunStep DEF RecvInv
<1>3. QED
  BY <1>1, <1>2

-----------------------------------------------------------------------------
(* The next files                                                          *)

(* A step writes the file and the report of the current transfer only.     *)
LEMMA OthersKept ==
    ASSUME TypeInv, [Next]_vars, NEW j \in Jobs, j # job
    PROVE  report'[j] = report[j] /\ out'[j] = out[j]
<1>1. CASE UNCHANGED << report, out >>
  BY <1>1
<1>2. ASSUME NEW f, Append2File(f)
      PROVE  out'[j] = out[j]
  BY <1>2 DEF Append2File, TypeInv
<1>3. ASSUME NEW chs, NEW r, NEW to, NEW b, NEW f, AbortAfter(chs, r, to, b, f)
      PROVE  report'[j] = report[j] /\ out'[j] = out[j]
  <2>1. PICK w \in Written(Flushed(b)) : Append2File(f \o w)
    BY <1>3 DEF AbortAfter
  <2>2. report' = [report EXCEPT ![job] = r]
    BY <1>3 DEF AbortAfter
  <2>3. QED
    BY <1>2, <2>1, <2>2 DEF TypeInv, TypeOK
<1>4. ASSUME NEW b, NEW n2, NEW to, EndTrip(b, n2, to)
      PROVE  report'[j] = report[j] /\ out'[j] = out[j]
  <2>1. \/ \E chs, r, b2, f : AbortAfter(chs, r, to, b2, f)
        \/ \E f : Append2File(f) /\ UNCHANGED report
    BY <1>4, Zenon DEF EndTrip, Abort
  <2>2. QED
    BY <1>2, <1>3, <2>1
<1>5. CASE Transmit
  BY <1>2, <1>5 DEF Transmit
<1>6. CASE GiveUp \/ SocketFails \/ PortMismatch \/ GotError
  <2>1. \E chs, r, to, b, f : AbortAfter(chs, r, to, b, f)
    BY <1>6, Zenon DEF GiveUp, SocketFails, PortMismatch, GotError, Abort
  <2>2. QED
    BY <1>3, <2>1
<1>7. CASE Interrupted \/ GotData
  <2>1. \E b, n2, to : EndTrip(b, n2, to)
    BY <1>7, Zenon DEF Interrupted, GotData
  <2>2. QED
    BY <1>4, <2>1
<1>8. ASSUME NewAck \/ Skip \/ PollTimeout \/ PollInterrupted \/ NextFile
             \/ GotOack \/ GotOtherData \/ ServerStep \/ NetworkStep
             \/ Interrupt \/ UNCHANGED vars
      PROVE  UNCHANGED << report, out >>
  BY <1>8 DEF NewAck, Skip, PollTimeout, PollInterrupted, NextFile, GotOack,
     GotOtherData, ServerStep, ServerStart, ServerAdvance, ServerDrop,
     ServerRetransmit, ServerFails, NetworkStep, Interrupt, vars, client
<1>9. QED
  BY <1>1, <1>5, <1>6, <1>7, <1>8 DEF Next, ClientStep, Finished

(* The files are received in order.                                        *)
LEMMA JobsGoOn ==
    ASSUME TypeInv, [Next]_vars, job' = 1
    PROVE  job = 1
<1>1. job \in Nat \ {0}
  BY DEF TypeInv, TypeOK, Jobs
<1>2. job' = job \/ job' = job + 1
  BY DEF Next, ClientStep, NextFile, NewAck, Transmit, Skip, GiveUp, PollTimeout,
     PollInterrupted, SocketFails, Interrupted, PortMismatch, GotOack, GotError,
     GotData, GotOtherData, ServerStep, ServerStart, ServerAdvance, ServerDrop,
     ServerRetransmit, ServerFails, NetworkStep, Interrupt, Finished, client, vars
<1>3. QED
  BY <1>1, <1>2

(* The later files are received into files of their own.                   *)
LEMMA KeptStep ==
    ASSUME FirstTransfer, TypeInv, FirstInv, [Next]_vars, job' # 1
    PROVE  FirstKept'
<1>1. job \in Nat \ {0} /\ 1 \in Jobs /\ job \in Jobs
  BY RecvAssumption DEF TypeInv, TypeOK, Jobs
<1>2. CASE job = 1
  <2>1. NextFile
    BY <1>2 DEF Next, ClientStep, NewAck, Transmit, Skip, GiveUp, PollTimeout, PollInterrupted,
       SocketFails, Interrupted, PortMismatch, GotOack, GotError, GotData, GotOtherData,
       ServerStep, ServerStart, ServerAdvance, ServerDrop, ServerRetransmit, ServerFails,
       NetworkStep, Interrupt, Finished, client, vars
  <2>2. pc = "done" /\ UNCHANGED << report, out >>
    BY <2>1 DEF NextFile
  <2>3. DoneOK
    BY <1>2, <2>2 DEF FirstInv, RecvInv
  <2>4. QED
    BY <2>2, <2>3 DEF DoneOK, FirstKept
<1>3. CASE job # 1
  <2>1. report'[1] = report[1] /\ out'[1] = out[1]
    BY <1>1, <1>3, OthersKept
  <2>2. FirstKept
    BY <1>3 DEF FirstInv
  <2>3. QED
    BY <2>1, <2>2 DEF FirstKept
<1>4. QED
  BY <1>2, <1>3

LEMMA FirstStep ==
    ASSUME FirstTransfer, TypeInv, FirstInv, [Next]_vars
    PROVE  FirstInv'
<1>1. CASE job' = 1
  <2>1. job = 1
    BY <1>1, JobsGoOn
  <2>2. RecvInv'
    BY <1>1, <2>1, RecvStep DEF FirstInv
  <2>3. QED
    BY <1>1, <2>2 DEF FirstInv
<1>2. CASE job' # 1
  BY <1>2, KeptStep DEF FirstInv
<1>3. QED
  BY <1>1, <1>2

(* The inductive invariant of the first transfer of a command: what is     *)
(* under way carries the blocks its numbers say, no instance is ahead of   *)
(* the client, and the file and the buffer behind it are what has been     *)
(* received; the later transfers leave that file alone.                    *)
THEOREM FirstInvariant ==
    ASSUME FirstTransfer
    PROVE  Spec => [](TypeInv /\ FirstInv)
<1>1. Init => TypeInv /\ FirstInv
  <2>1. ASSUME Init
        PROVE  TypeInv /\ FirstInv
    <3>1. job = 1
      BY <2>1 DEF Init
    <3>2. QED
      BY <2>1, <3>1, TypeInit, RecvInit DEF FirstInv
  <2>2. QED
    BY <2>1
<1>2. TypeInv /\ FirstInv /\ [Next]_vars => TypeInv' /\ FirstInv'
  BY TypeStep, FirstStep
<1>3. QED
  BY <1>1, <1>2, PTL DEF Spec

(* With no blksize option a first file that is reported received is all    *)
(* there, whatever is repeated, and stays so.                              *)
THEOREM FirstIsReceivedAlways ==
    ASSUME FirstTransfer
    PROVE  Spec => []FirstIsReceived
<1>1. TypeInv /\ FirstInv => FirstIsReceived
  <2>1. CASE job = 1 /\ pc # "done"
    BY <2>1 DEF FirstInv, RecvInv, RunOK, ClientOK, FirstIsReceived
  <2>2. CASE job = 1 /\ pc = "done"
    BY <2>2 DEF FirstInv, RecvInv, DoneOK, FirstIsReceived, Whole
  <2>3. CASE job # 1
    BY <2>3 DEF FirstInv, FirstKept, FirstIsReceived, Whole
  <2>4. QED
    BY <2>1, <2>2, <2>3
<1>2. QED
  BY <1>1, FirstInvariant, PTL

-----------------------------------------------------------------------------
(* A command of one file                                                   *)

LEMMA OneFacts ==
    ASSUME OneTransfer, TypeInv
    PROVE  /\ FirstTransfer /\ job = 1 /\ Jobs = {1} /\ Len(Files) = 1
           /\ Files[1] = Whole /\ Whole \in Seq(Int) /\ Len(Whole) \in Nat
           /\ SegSize \in Nat \ {0}
           /\ \A d : Written(d) = {d}
           /\ block \in Nat /\ amount \in Nat /\ n \in Nat
           /\ out \in [{1} -> Seq(Int)] /\ bufs \in Buffers
<1>1. FirstTransfer /\ Len(Files) = 1
  BY DEF OneTransfer
<1>2. Jobs = {1} /\ job = 1
  BY <1>1 DEF Jobs, TypeInv, TypeOK
<1>3. QED
  BY <1>1, <1>2, FirstFacts

LEMMA OneStep ==
    ASSUME OneTransfer, TypeInv, RecvInv, [Next]_vars
    PROVE  TypeInv' /\ RecvInv'
<1>1. TypeInv'
  BY TypeStep
<1>2. job = 1 /\ job' = 1 /\ FirstTransfer
  BY <1>1, OneFacts DEF TypeInv, TypeOK, Jobs, OneTransfer
<1>3. QED
  BY <1>1, <1>2, RecvStep

LEMMA OneDone ==
    ASSUME OneTransfer, TypeInv, TypeInv', pc = "done", [Next]_vars
    PROVE  UNCHANGED << pc, report, out, amount >>
<1>1. job = 1 /\ job' = 1
  BY OneFacts DEF TypeInv, TypeOK, Jobs, OneTransfer
<1>2. QED
  BY <1>1, DoneStep

(* The inductive invariant of one transfer: what is under way carries the  *)
(* blocks its numbers say, no instance is ahead of the client, and the     *)
(* file and the buffer behind it are what has been received.               *)
THEOREM RecvInvariant ==
    ASSUME OneTransfer
    PROVE  Spec => []RecvIInv
<1>1. Init => RecvIInv
  BY TypeInit, RecvInit DEF RecvIInv, OneTransfer
<1>2. RecvIInv /\ [Next]_vars => RecvIInv'
  <2>1. ASSUME RecvIInv, [Next]_vars
        PROVE  RecvIInv'
    <3>1. TypeInv /\ RecvInv
      BY <2>1 DEF RecvIInv
    <3>2. TypeInv' /\ RecvInv'
      BY <2>1, <3>1, OneStep
    <3>3. QED
      BY <3>2 DEF RecvIInv
  <2>2. QED
    BY <2>1
<1>3. QED
  BY <1>1, <1>2, PTL DEF Spec

-----------------------------------------------------------------------------
(* What it implies                                                         *)

(* The first part of a beginning of a file is a beginning of it.           *)
LEMMA FirstPart ==
    ASSUME NEW f \in Seq(Int), NEW o \in Seq(Int), NEW d \in Seq(Int),
           NEW k \in 0..Len(f), o \o d = SubSeq(f, 1, k)
    PROVE  IsPrefix2(o, f) /\ Len(o) + Len(d) = k
<1>1. /\ Len(o) \in Nat /\ Len(d) \in Nat /\ k \in Nat /\ k <= Len(f)
      /\ Len(SubSeq(f, 1, k)) = k
  OBVIOUS
<1>2. Len(o \o d) = Len(o) + Len(d)
  OBVIOUS
<1>3. Len(o) + Len(d) = k
  BY <1>1, <1>2
<1>4. Len(o) <= Len(f)
  BY <1>1, <1>3
<1>5. ASSUME NEW i \in 1..Len(o)
      PROVE  o[i] = f[i]
  <2>1. (o \o d)[i] = o[i]
    OBVIOUS
  <2>2. SubSeq(f, 1, k)[i] = f[i]
    BY <1>1, <1>3
  <2>3. QED
    BY <2>1, <2>2
<1>6. SubSeq(f, 1, Len(o)) \in Seq(Int) /\ Len(SubSeq(f, 1, Len(o))) = Len(o)
  BY <1>4
<1>7. \A i \in 1..Len(o) : SubSeq(f, 1, Len(o))[i] = f[i]
  BY <1>4
<1>8. o = SubSeq(f, 1, Len(o))
  BY <1>5, <1>6, <1>7, SeqEqual
<1>9. QED
  BY <1>3, <1>4, <1>8 DEF IsPrefix2

LEMMA RunPrefix ==
    ASSUME OneTransfer, TypeInv, RunOK
    PROVE  IsPrefix2(out[1], Whole) /\ Len(out[1]) + Held = amount
<1>1. PICK o \in Seq(Int), d \in Seq(Int), f \in Seq(Int) :
        o = out[1] /\ d = Flushed(bufs) /\ f = Whole
  BY OneFacts, FlushedType
<1>2. PICK k \in 0..Len(f) : k = amount
  BY <1>1, RunFacts, OneFacts
<1>3. o \o d = SubSeq(f, 1, k)
  BY <1>1, <1>2 DEF RunOK, BufOK
<1>4. IsPrefix2(o, f) /\ Len(o) + Len(d) = k
  BY <1>3, FirstPart
<1>5. QED
  BY <1>1, <1>2, <1>4 DEF Held

LEMMA RecvImplies ==
    ASSUME OneTransfer, TypeInv, RecvInv
    PROVE  ReceivedIsFile /\ FileIsPrefix /\ AckedIsKept
<1>1. ReceivedIsFile
  <2>1. CASE pc = "done"
    <3>1. DoneOK
      BY <2>1 DEF RecvInv
    <3>2. QED
      BY <3>1, OneFacts DEF DoneOK, ReceivedIsFile
  <2>2. CASE pc # "done"
    <3>1. report[1] = "none"
      BY <2>2 DEF RecvInv, RunOK, ClientOK
    <3>2. QED
      BY <3>1, OneFacts DEF ReceivedIsFile
  <2>3. QED
    BY <2>1, <2>2
<1>2. FileIsPrefix
  <2>1. report[1] # "interrupted" => IsPrefix2(out[1], Whole)
    BY RunPrefix DEF RecvInv, DoneOK
  <2>2. QED
    BY <2>1, OneFacts DEF FileIsPrefix
<1>3. AckedIsKept
  <2>1. ASSUME pc # "done", serv # NoPort
        PROVE  srv[serv].off <= Len(out[job]) + Held
    <3>1. RunOK
      BY <2>1 DEF RecvInv
    <3>2. serv \in Ports /\ srv[serv].st # "free"
      BY <2>1, <3>1 DEF TypeInv, TypeOK, RunOK, ClientOK
    <3>3. srv[serv].num \in 1..Awaited /\ srv[serv].off = Off(srv[serv].num)
      BY <3>1, <3>2 DEF RunOK, SrvOK, InstOK
    <3>4. PICK k \in Nat \ {0} : k = srv[serv].num /\ k <= Awaited
      BY <3>1, <3>3, RunFacts
    <3>5. Off(k) <= Off(Awaited) /\ Off(Awaited) = amount
      BY <3>1, <3>4, RunFacts, OffFacts, OneFacts
    <3>6. Len(out[1]) + Held = amount
      BY <3>1, RunPrefix
    <3>7. QED
      BY <3>3, <3>4, <3>5, <3>6, OneFacts
  <2>2. QED
    BY <2>1 DEF AckedIsKept
<1>4. QED
  BY <1>1, <1>2, <1>3

(* A file reported received is all there and its size is what is reported, *)
(* whatever the network does to the packets.                               *)
THEOREM ReceivedIsFileAlways ==
    ASSUME OneTransfer
    PROVE  Spec => []ReceivedIsFile
<1>1. RecvIInv => ReceivedIsFile
  BY RecvImplies DEF RecvIInv
<1>2. QED
  BY <1>1, RecvInvariant, PTL

(* Until the user interrupts, the local file is the beginning of the       *)
(* remote one: repeated, late and stray packets never reach it.            *)
THEOREM FileIsPrefixAlways ==
    ASSUME OneTransfer
    PROVE  Spec => []FileIsPrefix
<1>1. RecvIInv => FileIsPrefix
  BY RecvImplies DEF RecvIInv
<1>2. QED
  BY <1>1, RecvInvariant, PTL

(* recvfile() acknowledges no block that is neither in the file nor in the *)
(* buffer write_behind() is to flush.                                      *)
THEOREM AckedIsKeptAlways ==
    ASSUME OneTransfer
    PROVE  Spec => []AckedIsKept
<1>1. RecvIInv => AckedIsKept
  BY RecvImplies DEF RecvIInv
<1>2. QED
  BY <1>1, RecvInvariant, PTL

-----------------------------------------------------------------------------
(* recvfile() implements FileTransfer                                      *)

LEMMA VerdictOf ==
    ASSUME OneTransfer, TypeInv, RecvInv
    PROVE  /\ Verdict \in {"none", "complete", "incomplete"}
           /\ Verdict = "none" <=> report[1] = "none"
           /\ Verdict # "none" => pc = "done"
           /\ Verdict = "complete" => out[1] = Whole
<1>1. pc # "done" => report[1] = "none"
  BY DEF RecvInv, RunOK, ClientOK
<1>2. report[1] = "received" => out[1] = Whole
  BY <1>1 DEF RecvInv, DoneOK
<1>3. QED
  BY <1>1, <1>2 DEF Verdict

LEMMA DestPrefix ==
    ASSUME OneTransfer, ~MayInterrupt, TypeInv, RecvInv
    PROVE  out[1] \in FT!Prefixes /\ out[1] \in Seq(Int)
<1>1. IsPrefix2(out[1], Whole)
  BY RunPrefix DEF RecvInv, DoneOK
<1>2. PICK o \in Seq(Int) : o = out[1]
  BY OneFacts
<1>3. Len(o) \in 0..Len(Whole) /\ o = SubSeq(Whole, 1, Len(o))
  BY <1>1, <1>2, OneFacts DEF IsPrefix2
<1>4. QED
  BY <1>2, <1>3, OneFacts DEF FT!Prefixes

(* Both, of the state after a step.                                        *)
LEMMA NextVerdict ==
    ASSUME OneTransfer, ~MayInterrupt
    PROVE  (TypeInv /\ RecvInv =>
              /\ Verdict \in {"none", "complete", "incomplete"}
              /\ Verdict = "complete" => out[1] = Whole
              /\ out[1] \in FT!Prefixes /\ out[1] \in Seq(Int))'
<1>1. TypeInv /\ RecvInv =>
        /\ Verdict \in {"none", "complete", "incomplete"}
        /\ Verdict = "complete" => out[1] = Whole
        /\ out[1] \in FT!Prefixes /\ out[1] \in Seq(Int)
  BY VerdictOf, DestPrefix
<1>2. QED
  BY <1>1, PTL

(* The client only ever appends to the file.                               *)
LEMMA Longer ==
    ASSUME NEW o \in Seq(Int), NEW w \in Seq(Int), NEW x \in Seq(Int)
    PROVE  Len(o \o w) >= Len(o) /\ Len((o \o w) \o x) >= Len(o) /\ o \o w \in Seq(Int)
<1>1. o \o w \in Seq(Int) /\ Len(o \o w) = Len(o) + Len(w)
  OBVIOUS
<1>2. PICK v \in Seq(Int) : v = o \o w
  BY <1>1
<1>3. Len(v \o x) = Len(v) + Len(x)
  OBVIOUS
<1>4. Len(o) \in Nat /\ Len(w) \in Nat /\ Len(x) \in Nat
  OBVIOUS
<1>5. QED
  BY <1>1, <1>2, <1>3, <1>4

LEMMA AbortAppends ==
    ASSUME OneTransfer, TypeInv, NEW chs, NEW r, NEW to, NEW b \in Buffers,
           NEW f \in Seq(Int), AbortAfter(chs, r, to, b, f), Len(f) >= Len(out[1])
    PROVE  Len(out'[1]) >= Len(out[1])
<1>1. PICK w \in Seq(Int) : out' = [out EXCEPT ![1] = f \o w]
  <2>1. PICK w \in Written(Flushed(b)) : Append2File(f \o w)
    BY DEF AbortAfter
  <2>2. w \in Seq(Int)
    BY FlushedType, WrittenType
  <2>3. QED
    BY <2>1, <2>2, OneFacts, Zenon DEF Append2File
<1>2. out'[1] = f \o w
  BY <1>1, OneFacts
<1>3. PICK o \in Seq(Int) : o = out[1]
  BY OneFacts
<1>4. Len(f \o w) = Len(f) + Len(w) /\ Len(f) \in Nat /\ Len(w) \in Nat /\ Len(o) \in Nat
  OBVIOUS
<1>5. QED
  BY <1>2, <1>3, <1>4

LEMMA TripAppends ==
    ASSUME OneTransfer, TypeInv, NEW b \in Buffers, NEW n2 \in Nat, NEW to,
           EndTrip(b, n2, to)
    PROVE  Len(out'[1]) >= Len(out[1])
<1>1. PICK ct \in Int, b2 \in Buffers, x \in Seq(Int) :
        ct = n2 - 4 /\ b2 = WriteIt(b, ct) /\ x = WriteItFlushes(b, ct)
  <2>1. PICK ct \in Int : ct = n2 - 4
    OBVIOUS
  <2>2. WriteIt(b, ct) \in Buffers /\ WriteItFlushes(b, ct) \in Seq(Int)
    BY WriteItType
  <2>3. QED
    BY <2>1, <2>2, Zenon
<1>2. PICK w \in Written(x) :
        LET f == out[job] \o w
        IN  IF ct < 0
            THEN /\ AbortAfter(Sent(up, Error(to)), "nak", to, b2, f)
                 /\ UNCHANGED amount
            ELSE /\ amount' = amount + ct
                 /\ IF ct = segment_size /\ ~intrflag
                    THEN /\ pc' = "top" /\ bufs' = b2 /\ Append2File(f)
                         /\ UNCHANGED << report, up >>
                    ELSE Abort(IF intrflag THEN "interrupted"
                                           ELSE "received", to, b2, f)
  BY <1>1, Zenon DEF EndTrip
<1>3. PICK o \in Seq(Int), f \in Seq(Int) :
        o = out[job] /\ o = out[1] /\ f = out[job] \o w /\ Len(f) >= Len(o)
  <2>1. PICK o \in Seq(Int) : o = out[job] /\ o = out[1]
    BY OneFacts
  <2>2. w \in Seq(Int)
    BY WrittenType
  <2>3. Len(o \o w) >= Len(o) /\ o \o w \in Seq(Int)
    BY <2>2, Longer
  <2>4. QED
    BY <2>1, <2>3
<1>4. \/ Append2File(f)
      \/ \E chs, r : AbortAfter(chs, r, to, b2, f)
  BY <1>2, <1>3, Zenon DEF Abort
<1>5. CASE Append2File(f)
  <2>1. out' = [out EXCEPT ![1] = f]
    BY <1>5, OneFacts DEF Append2File
  <2>2. QED
    BY <1>3, <2>1, OneFacts
<1>6. CASE \E chs, r : AbortAfter(chs, r, to, b2, f)
  BY <1>3, <1>6, AbortAppends
<1>7. QED
  BY <1>4, <1>5, <1>6

LEMMA FileGrows ==
    ASSUME OneTransfer, TypeInv, [Next]_vars
    PROVE  Len(out'[1]) >= Len(out[1])
<1>0. PICK o \in Seq(Int) : o = out[1] /\ o = out[job]
  BY OneFacts
<1>1. CASE out' = out
  <2>1. Len(o) >= Len(o)
    OBVIOUS
  <2>2. QED
    BY <1>0, <1>1, <2>1
<1>2. CASE Transmit
  <2>1. PICK w \in Written(Flushed(bufs)) : Append2File(out[job] \o w)
    BY <1>2 DEF Transmit
  <2>2. w \in Seq(Int)
    BY OneFacts, FlushedType
  <2>3. out' = [out EXCEPT ![1] = o \o w]
    BY <1>0, <2>1, OneFacts DEF Append2File
  <2>4. out'[1] = o \o w
    BY <2>3, OneFacts
  <2>5. QED
    BY <1>0, <2>2, <2>4, Longer
<1>3. CASE GiveUp \/ SocketFails
  <2>1. PICK r : AbortAfter({up}, r, peer, bufs, o)
    BY <1>0, <1>3 DEF GiveUp, SocketFails, Abort
  <2>2. Len(o) >= Len(o)
    OBVIOUS
  <2>3. QED
    BY <1>0, <2>1, <2>2, OneFacts, AbortAppends
<1>4. CASE PortMismatch \/ (sock # << >> /\ GotError)
  <2>1. PICK p, r, to : p = Head(sock) /\ AbortAfter({up}, r, to, InBuffer(p), o) /\ sock # << >>
    BY <1>0, <1>4, Zenon DEF PortMismatch, GotError, Abort
  <2>2. InBuffer(p) \in Buffers /\ Len(o) >= Len(o)
    BY <2>1, RecvTypes
  <2>3. QED
    BY <1>0, <2>1, <2>2, AbortAppends
<1>5. CASE Interrupted
  BY <1>5, OneFacts, TripAppends DEF Interrupted
<1>6. CASE sock # << >> /\ GotData
  <2>1. PICK p : /\ p = Head(sock) /\ EndTrip(InBuffer(p), n', p.port)
                 /\ n' = 4 + Len(Payload(p))
    BY <1>6 DEF GotData, RecvFrom
  <2>2. InBuffer(p) \in Buffers /\ n' \in Nat
    BY <1>6, <2>1, RecvTypes
  <2>3. QED
    BY <2>1, <2>2, TripAppends
<1>7. ASSUME NewAck \/ Skip \/ PollTimeout \/ PollInterrupted \/ NextFile
             \/ GotOack \/ GotOtherData \/ ServerStep \/ NetworkStep
             \/ Interrupt \/ UNCHANGED vars
      PROVE  out' = out
  BY <1>7 DEF NewAck, Skip, PollTimeout, PollInterrupted, NextFile, GotOack,
     GotOtherData, ServerStep, ServerStart, ServerAdvance, ServerDrop,
     ServerRetransmit, ServerFails, NetworkStep, Interrupt, vars, client
<1>8. QED
  BY <1>1, <1>2, <1>3, <1>4, <1>5, <1>6, <1>7 DEF Next, ClientStep, Finished

(* Every step is a step of FileTransfer or leaves its state alone.         *)
LEMMA TransferStep ==
    ASSUME OneTransfer, ~MayInterrupt, TypeInv, RecvInv, [Next]_vars
    PROVE  [FT!Next]_<< out[1], Verdict >>
<1>1. TypeInv' /\ RecvInv'
  BY OneStep
<1>2. /\ Verdict' \in {"none", "complete", "incomplete"}
      /\ Verdict' = "complete" => out'[1] = Files[1]
      /\ out'[1] \in FT!Prefixes
  BY <1>1, NextVerdict, OneFacts
<1>3. FT!Extend
  BY <1>2, FileGrows DEF FT!Extend
<1>4. CASE Verdict # "none"
  <2>1. UNCHANGED << report, out >>
    BY <1>1, <1>4, VerdictOf, OneDone
  <2>2. Verdict' = Verdict /\ out'[1] = out[1]
    BY <2>1 DEF Verdict
  <2>3. QED
    BY <2>2
<1>5. CASE Verdict = "none" /\ Verdict' = "none"
  BY <1>3, <1>5 DEF FT!Next, FT!Grow
<1>6. CASE Verdict = "none" /\ Verdict' = "complete"
  BY <1>2, <1>6 DEF FT!Next, FT!Complete
<1>7. CASE Verdict = "none" /\ Verdict' = "incomplete"
  BY <1>3, <1>7 DEF FT!Next, FT!GiveUp
<1>8. QED
  BY <1>2, <1>4, <1>5, <1>6, <1>7

LEMMA TransferInit ==
    ASSUME OneTransfer, Init
    PROVE  FT!Init
<1>1. report[1] = "none" /\ out[1] = << >>
  BY TypeInit, OneFacts DEF Init
<1>2. QED
  BY <1>1 DEF FT!Init, Verdict

(* Unless the user interrupts, what is seen of recvfile() is what          *)
(* FileTransfer allows: the local file grows along the remote one, one     *)
(* verdict is given, and "complete" only of the whole file.                *)
THEOREM RecvImplementsFileTransfer ==
    ASSUME OneTransfer, ~MayInterrupt
    PROVE  Spec => ImplementsFileTransfer
<1>1. Init => FT!Init
  BY TransferInit
<1>2. RecvIInv /\ [Next]_vars => [FT!Next]_<< out[1], Verdict >>
  BY TransferStep DEF RecvIInv
<1>3. QED
  BY RecvInvariant, <1>1, <1>2, PTL DEF Spec, ImplementsFileTransfer, FT!SafeSpec

=============================================================================
