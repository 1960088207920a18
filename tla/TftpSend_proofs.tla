-------------------------- MODULE TftpSend_proofs ---------------------------
(***************************************************************************)
(* Theorems about TftpSend, for every choice of its constants.             *)
(***************************************************************************)
EXTENDS TftpSendInv, SequenceTheorems, TLAPS

-----------------------------------------------------------------------------
(* The buffers and the wire                                                *)

(* A read returns at most the octets asked for, of those left.             *)
LEMMA ChunkFacts ==
    ASSUME NEW f \in Seq(Int), NEW a \in Nat, NEW k \in Nat
    PROVE  /\ Chunk(f, a, k) \in Seq(Int)
           /\ Len(Chunk(f, a, k)) = IF a >= Len(f) THEN 0 ELSE Least(a + k, Len(f)) - a
BY DEF Chunk, Least

(* The octets before offset a and a read at a make the octets before the   *)
(* end of that read.                                                       *)
LEMMA ChunkExtends ==
    ASSUME NEW f \in Seq(Int), NEW a \in Nat, NEW k \in Nat
    PROVE  SubSeq(f, 1, Least(a, Len(f))) \o Chunk(f, a, k)
               = SubSeq(f, 1, Least(a + k, Len(f)))
<1> DEFINE x == SubSeq(f, 1, Least(a, Len(f)))
           y == Chunk(f, a, k)
           z == SubSeq(f, 1, Least(a + k, Len(f)))
<1>1. /\ Len(x) = Least(a, Len(f)) /\ x \in Seq(Int)
      /\ \A i \in 1..Len(x) : x[i] = f[i]
  BY DEF Least
<1>2. /\ y \in Seq(Int)
      /\ Len(y) = IF a >= Len(f) THEN 0 ELSE Least(a + k, Len(f)) - a
      /\ \A i \in 1..Len(y) : y[i] = f[a + i]
  BY DEF Chunk, Least
<1>3. /\ Len(z) = Least(a + k, Len(f)) /\ z \in Seq(Int)
      /\ \A i \in 1..Len(z) : z[i] = f[i]
  BY DEF Least
<1> HIDE DEF x, y, z
<1>4. /\ x \o y \in Seq(Int) /\ Len(x \o y) = Len(x) + Len(y)
      /\ \A i \in 1..(Len(x) + Len(y)) :
             (x \o y)[i] = IF i <= Len(x) THEN x[i] ELSE y[i - Len(x)]
  BY <1>1, <1>2, ConcatProperties
<1>a. Len(f) \in Nat /\ Len(x) \in Nat /\ Len(y) \in Nat
  BY <1>1, <1>2
<1>5. Len(x \o y) = Len(z)
  <2>1. CASE a >= Len(f)
    BY <2>1, <1>1, <1>2, <1>3, <1>4, <1>a DEF Least
  <2>2. CASE a < Len(f)
    BY <2>2, <1>1, <1>2, <1>3, <1>4, <1>a DEF Least
  <2>3. QED
    BY <2>1, <2>2, <1>a
<1>6. ASSUME NEW i \in 1..Len(x \o y)
      PROVE  (x \o y)[i] = z[i]
  <2>1. CASE i <= Len(x)
    <3>1. i \in 1..Len(x) /\ i \in 1..Len(z) /\ i \in 1..(Len(x) + Len(y))
      BY <2>1, <1>4, <1>5, <1>6, <1>a
    <3>2. QED
      BY <2>1, <3>1, <1>1, <1>3, <1>4
  <2>2. CASE i > Len(x)
    <3>1. i - Len(x) \in 1..Len(y) /\ i \in 1..Len(z) /\ i \in Nat
      BY <2>2, <1>4, <1>5, <1>6, <1>a
    <3>2. a < Len(f) /\ Len(x) = a
      BY <3>1, <1>1, <1>2, <1>a DEF Least
    <3>3. y[i - Len(x)] = f[a + (i - Len(x))] /\ z[i] = f[i]
      BY <3>1, <1>2, <1>3
    <3>4. (x \o y)[i] = y[i - Len(x)]
      BY <2>2, <3>1, <1>4, <1>5, <1>6, <1>a
    <3>5. QED
      BY <3>1, <3>2, <3>3, <3>4
  <2>3. QED
    BY <2>1, <2>2, <1>1, <1>2, <1>4
<1>7. x \o y = z
  BY <1>3, <1>4, <1>5, <1>6, SeqEqual
<1>8. QED
  BY <1>7 DEF x, y, z

(* Block k of a file in segments of s octets starts at offset (k - 1) * s: *)
(* block k + 1 a segment after block k, and later blocks later.            *)
LEMMA Offsets ==
    ASSUME NEW s \in Nat \ {0}
    PROVE  /\ \A k \in Nat \ {0} : (k - 1) * s \in Nat /\ k * s = (k - 1) * s + s
           /\ \A k, m \in Nat \ {0} : k <= m => (k - 1) * s <= (m - 1) * s
<1>1. ASSUME NEW a \in Nat, NEW b \in Nat
      PROVE  a * b \in Nat
  OBVIOUS
<1>2. \A k \in Nat \ {0} : (k - 1) * s \in Nat /\ k * s = (k - 1) * s + s
  OBVIOUS
<1>3. ASSUME NEW k \in Nat \ {0}, NEW m \in Nat \ {0}, k <= m
      PROVE  (k - 1) * s <= (m - 1) * s
  <2>1. (m - k) * s \in Nat
    BY <1>1, <1>3
  <2>2. (m - 1) * s = (k - 1) * s + (m - k) * s
    OBVIOUS
  <2>3. QED
    BY <2>1, <2>2, <1>2
<1>4. QED
  BY <1>2, <1>3

(* A direction holds what it held and the packet sent, or less.            *)
LEMMA SentKeeps ==
    ASSUME NEW ch, NEW p, NEW ch2 \in Sent(ch, p)
    PROVE  ch2 \subseteq ch \cup {p}
BY DEF Sent

(* Below BlockMod the next block number is the successor.                  *)
LEMMA NextBlockFacts ==
    ASSUME NEW k \in Nat, k + 1 < BlockMod
    PROVE  NextBlock(k) = k + 1
BY WireAssumption DEF NextBlock

-----------------------------------------------------------------------------
(* Block offsets                                                           *)

(* Block k + 1 starts a segment after block k; offsets grow with blocks.   *)
LEMMA OffFacts ==
    ASSUME SegSize \in Nat \ {0}
    PROVE  /\ Off(1) = 0
           /\ \A k \in Nat \ {0} : Off(k) \in Nat /\ Off(k + 1) = Off(k) + SegSize
           /\ \A k, m \in Nat \ {0} : k <= m => Off(k) <= Off(m)
BY Offsets DEF Off

-----------------------------------------------------------------------------
(* Type correctness                                                        *)

(* Reading ahead gives buffers again.                                      *)
LEMMA FillWithType ==
    ASSUME NEW b \in Buffers, NEW ct \in Int, NEW d \in Seq(Int)
    PROVE  FillWith(b, ct, d) \in Buffers
<1>1. b.nextone \in {0, 1} /\ b.pos + Len(d) \in Nat
  BY DEF Buffers
<1>2. [b.counter EXCEPT ![b.nextone] = ct] \in [{0, 1} -> Int]
  BY DEF Buffers
<1>3. [b.data EXCEPT ![b.nextone] = d] \in [{0, 1} -> Seq(Int)]
  BY DEF Buffers
<1>4. QED
  BY <1>1, <1>2, <1>3 DEF FillWith, Buffers, Other

LEMMA ReadAheadsType ==
    ASSUME TypeInv, NEW b \in Buffers
    PROVE  ReadAheads(b) \subseteq Buffers
<1>1. File \in Seq(Int) /\ segment_size \in Nat \ {0} /\ b.pos \in Nat
  BY SendAssumption DEF TypeInv, TypeOK, Jobs, File, Buffers
<1>2. ReadAhead(b, File, segment_size) \in Buffers
  <2>1. Chunk(File, b.pos, segment_size) \in Seq(Int)
    BY <1>1, ChunkFacts
  <2>2. Len(Chunk(File, b.pos, segment_size)) \in Int
    BY <2>1
  <2>3. QED
    BY <2>1, <2>2, FillWithType DEF ReadAhead
<1>3. ReadAheadFails(b, File, segment_size, Convert) \subseteq Buffers
  <2>1. \A k \in 0..(segment_size - 1) :
            /\ Chunk(File, b.pos, k) \in Seq(Int)
            /\ Len(Chunk(File, b.pos, k)) \in Int
    <3>1. TAKE k \in 0..(segment_size - 1)
    <3>2. k \in Nat
      BY <1>1
    <3>3. Chunk(File, b.pos, k) \in Seq(Int)
      BY <1>1, <3>2, ChunkFacts
    <3>4. QED
      BY <3>3
  <2>2. << >> \in Seq(Int) /\ READ_ERROR \in Int
    BY DEF READ_ERROR
  <2>3. QED
    BY <2>1, <2>2, FillWithType DEF ReadAheadFails
<1>4. QED
  BY <1>2, <1>3 DEF ReadAheads

(* The first packet of the socket.                                         *)
LEMMA SockFacts ==
    ASSUME TypeInv, sock # << >>
    PROVE  /\ Head(sock) \in DownPackets
           /\ Tail(sock) \in Seq(DownPackets)
BY HeadTailProperties DEF TypeInv

LEMMA TypeInit == Init => TypeInv
<1>1. ASSUME Init
      PROVE  TypeInv
  <2>1. TypeOK
    <3>1. 1 \in Jobs /\ "none" \in Reports
      BY SendAssumption DEF Jobs, Reports
    <3>2. block \in 0..(BlockMod - 1) /\ segment_size \in Nat \ {0}
      BY <1>1, SendAssumption, WireAssumption DEF Init
    <3>3. report \in [Jobs -> Reports]
      BY <1>1, <3>1 DEF Init
    <3>4. QED
      <4>1. firsttrip \in BOOLEAN /\ error \in BOOLEAN /\ intrflag \in BOOLEAN
        BY <1>1 DEF Init
      <4>2. size \in Int /\ amount \in Int /\ timeouts \in Nat
        BY <1>1 DEF Init
      <4>3. serv \in Ports \cup {NoPort} /\ peer \in Ports \cup {Listener}
        BY <1>1 DEF Init
      <4>4. job \in Jobs /\ pc = "top"
        BY <1>1, <3>1 DEF Init
      <4>5. QED
        BY <3>2, <3>3, <4>1, <4>2, <4>3, <4>4 DEF TypeOK
  <2>2. bufs \in Buffers
    BY <1>1 DEF Init, RInit, RwInit, Blank, Buffers, BF_ALLOC, BF_FREE
  <2>3. srv \in [Ports -> Instances] /\ \A p \in Ports : srv[p].st = "free"
    BY <1>1 DEF Init, Idle, Instances, Error, Packet
  <2>4. up = {} /\ down = {} /\ sock \in Seq(DownPackets) /\ dups = 0
    BY <1>1 DEF Init, WireInit
  <2>5. QED
    BY <2>1, <2>2, <2>3, <2>4 DEF TypeInv
<1>2. QED
  BY <1>1

(* What ends a trip keeps the types of what it assigns.                    *)
LEMMA EndTripType ==
    ASSUME TypeInv, NEW i \in BOOLEAN, NEW g \in Nat \ {0}, EndTrip(i, g)
    PROVE  /\ size' \in Int /\ amount' \in Int
           /\ firsttrip' \in BOOLEAN
           /\ block' \in 0..(BlockMod - 1)
           /\ pc' \in {"top", "done"}
           /\ report' \in [Jobs -> Reports]
<1>1. size' \in Int /\ amount' \in Int /\ firsttrip' \in BOOLEAN
  <2>1. firsttrip' \in BOOLEAN
    BY DEF EndTrip
  <2>2. size \in Int /\ amount \in Int /\ amount + size \in Int
    BY DEF TypeInv, TypeOK
  <2>3. amount' \in {amount, amount + size} /\ size' \in {size, g}
    BY DEF EndTrip
  <2>4. QED
    BY <2>1, <2>2, <2>3
<1>2. block' \in 0..(BlockMod - 1)
  <2>1. block' = NextBlock(block)
    BY DEF EndTrip
  <2>2. block + 1 \in Nat /\ BlockMod \in Nat /\ BlockMod > 0
    BY WireAssumption DEF TypeInv, TypeOK
  <2>3. QED
    BY <2>1, <2>2 DEF NextBlock
<1>3. pc' \in {"top", "done"}
  BY DEF EndTrip, Return
<1>4. report' \in [Jobs -> Reports]
  BY DEF EndTrip, Return, Reports, TypeInv, TypeOK
<1>5. QED
  BY <1>1, <1>2, <1>3, <1>4

(* One step of the client keeps the types; what it does to the buffers and *)
(* to the counters is checked here, one action at a time.                  *)
LEMMA TypeClient ==
    ASSUME TypeInv, ClientStep
    PROVE  TypeInv'
<1> USE SendAssumption, WireAssumption
<1> USE DEF TypeInv, TypeOK
<1>1. CASE NextFile
  <2>1. bufs' \in Buffers
    BY <1>1 DEF NextFile, StartJob, RInit, RwInit, Buffers, BF_ALLOC, BF_FREE
  <2>2. job' \in Jobs
    BY <1>1 DEF NextFile, StartJob, Jobs
  <2>3. 0 \in 0..(BlockMod - 1)
    OBVIOUS
  <2>4. QED
    <3>1. TypeOK'
      <4>1. report' \in [Jobs -> Reports]
        BY <1>1 DEF NextFile, StartJob
      <4>2. segment_size' \in Nat \ {0}
        BY <1>1 DEF NextFile, StartJob
      <4>3. intrflag' \in BOOLEAN /\ firsttrip' \in BOOLEAN /\ error' \in BOOLEAN
        BY <1>1 DEF NextFile, StartJob
      <4>4. pc' \in {"top", "loop", "poll", "done"}
        BY <1>1 DEF NextFile, StartJob
      <4>5. size' \in Int /\ amount' \in Int /\ timeouts' \in Nat /\ block' \in 0..(BlockMod - 1)
        BY <1>1, <2>3 DEF NextFile, StartJob
      <4>6. serv' \in Ports \cup {NoPort} /\ peer' \in Ports \cup {Listener}
        BY <1>1 DEF NextFile, StartJob
      <4>7. QED
        BY <4>1, <4>2, <4>3, <4>4, <4>5, <4>6, <2>2 DEF Jobs
    <3>2. QED
      BY <3>1, <1>1, <2>1 DEF NextFile, StartJob, Jobs, wire
<1>2. CASE MakeRequest
  BY <1>2 DEF MakeRequest, wire
<1>3. CASE ReadIt
  <2>1. Advance(bufs) \in Buffers
    BY DEF Advance, Buffers, Other, BF_FREE
  <2>2. bufs' \in Buffers
    BY <1>3, <2>1, ReadAheadsType DEF ReadIt
  <2>3. size' \in Int
    BY <1>3, <2>2 DEF ReadIt, Buffers
  <2>4. up' \in SUBSET UpPackets /\ \A pkt \in up' : pkt.op = "WRQ" => pkt.num \in Jobs
    <3>1. Error(peer) \in UpPackets /\ Error(peer).op = "ERROR"
      BY DEF Error, Packet, UpPackets
    <3>2. up' \subseteq up \cup {Error(peer)}
      BY <1>3, SentKeeps DEF ReadIt, SendUp
    <3>3. QED
      BY <3>1, <3>2
  <2>5. pc' \in {"loop", "done"} /\ report' \in [Jobs -> Reports]
    BY <1>3 DEF ReadIt, Return, Reports
  <2>6. QED
    BY <1>3, <2>2, <2>3, <2>4, <2>5 DEF ReadIt, Jobs
<1>4. CASE Transmit
  <2>1. bufs' \in Buffers
    BY <1>4, ReadAheadsType DEF Transmit
  <2>2. CurrentData \in Seq(Int)
    BY DEF CurrentData, Buffers
  <2>3. up' \in SUBSET UpPackets /\ \A pkt \in up' : pkt.op = "WRQ" => pkt.num \in Jobs
    <3> DEFINE q == IF firsttrip THEN Packet("WRQ", peer, job, << >>)
                    ELSE Data(peer, block, CurrentData)
    <3>1. CASE firsttrip
      <4>1. q = Packet("WRQ", peer, job, << >>)
        BY <3>1
      <4>2. job \in Nat /\ << >> \in Seq(Int) /\ peer \in Ports \cup {Listener}
        BY DEF Jobs
      <4>b. Packet("WRQ", peer, job, << >>) \in UpPackets
        BY <4>2 DEF Packet, UpPackets
      <4>c. Packet("WRQ", peer, job, << >>).num = job /\ job \in Jobs
        BY DEF Packet
      <4>a. q \in UpPackets /\ q.num \in Jobs
        BY <4>1, <4>b, <4>c
      <4>3. up' \subseteq up \cup {q}
        BY <1>4, SentKeeps DEF Transmit, SendUp
      <4>4. QED
        BY <4>a, <4>3
    <3>2. CASE ~firsttrip
      <4>1. q = Data(peer, block, CurrentData)
        BY <3>2
      <4>2. q \in UpPackets /\ q.op = "DATA"
        BY <4>1, <2>2 DEF Data, Packet, UpPackets
      <4>3. up' \subseteq up \cup {q}
        BY <1>4, SentKeeps DEF Transmit, SendUp
      <4>4. QED
        BY <4>2, <4>3
    <3>3. QED
      BY <3>1, <3>2
  <2>4. QED
    BY <1>4, <2>1, <2>3 DEF Transmit, Jobs
<1>5. CASE Skip
  BY <1>5 DEF Skip, InTime, wire
<1>6. CASE GiveUp
  BY <1>6 DEF GiveUp, Return, Reports, wire
<1>7. CASE PollTimeout
  BY <1>7 DEF PollTimeout, wire
<1>8. CASE PollInterrupted
  BY <1>8 DEF PollInterrupted, wire
<1>9. CASE SocketFails
  BY <1>9 DEF SocketFails, Return, Reports, wire
<1>10. CASE Interrupted
  BY <1>10, EndTripType DEF Interrupted, wire
<1>11. CASE PortMismatch
  BY <1>11, SockFacts DEF PortMismatch, Return, Reports
<1>12. CASE sock # << >> /\ GotOack
  <2>1. PICK p \in {Head(sock)} : GotOack!(p)
    BY <1>12 DEF GotOack
  <2>2. p \in DownPackets /\ Tail(sock) \in Seq(DownPackets)
    BY <1>12, SockFacts
  <2>3. segment_size' \in Nat \ {0} /\ intrflag' \in BOOLEAN
    <3>1. p.num \in Nat /\ p.num \notin {0} => p.num \in Nat \ {0}
      BY <2>2 DEF DownPackets
    <3>2. OackSet(p.num)
      BY <2>1
    <3>3. QED
      BY <3>1, <3>2 DEF OackSet
  <2>6. up' \in SUBSET UpPackets /\ \A pkt \in up' : pkt.op = "WRQ" => pkt.num \in Jobs
    <3>1. Error(Listener) \in UpPackets /\ Error(Listener).op = "ERROR"
      BY DEF Error, Packet, UpPackets
    <3>2. up' \subseteq up \cup {Error(Listener)}
      BY <2>1, SentKeeps DEF OackSet, SendUp
    <3>3. QED
      BY <3>1, <3>2
  <2>4. serv' \in Ports /\ peer' \in Ports
    BY <2>1, <2>2 DEF RecvFrom, DownPackets
  <2>5. QED
    BY <2>1, <2>2, <2>3, <2>4, <2>6, EndTripType
<1>13. CASE sock # << >> /\ GotError
  <2>1. PICK p \in {Head(sock)} : GotError!(p)
    BY <1>13 DEF GotError
  <2>2. p \in DownPackets /\ Tail(sock) \in Seq(DownPackets)
    BY <1>13, SockFacts
  <2>3. serv' \in Ports /\ peer' \in Ports
    BY <2>1, <2>2 DEF RecvFrom, DownPackets
  <2>4. report' \in [Jobs -> Reports] /\ pc' = "done"
    BY <2>1 DEF Return, Reports
  <2>5. QED
    BY <2>1, <2>2, <2>3, <2>4
<1>14. CASE sock # << >> /\ GotAck
  <2>1. PICK p \in {Head(sock)} : GotAck!(p)
    BY <1>14 DEF GotAck
  <2>2. p \in DownPackets /\ Tail(sock) \in Seq(DownPackets)
    BY <1>14, SockFacts
  <2>3. serv' \in Ports /\ peer' \in Ports
    BY <2>1, <2>2 DEF RecvFrom, DownPackets
  <2>4. QED
    BY <2>1, <2>2, <2>3, EndTripType
<1>15. CASE sock # << >> /\ GotOtherAck
  BY <1>15, SockFacts DEF GotOtherAck, Synchnet, RecvFrom, DownPackets
<1>16. QED
  BY <1>1, <1>2, <1>3, <1>4, <1>5, <1>6, <1>7, <1>8, <1>9, <1>10, <1>11,
     <1>12, <1>13, <1>14, <1>15 DEF ClientStep

(* So do the servers, the network and the user.                            *)
LEMMA TakeUpKeeps ==
    ASSUME TypeInv, NEW q \in up, TakeUp(q)
    PROVE  /\ up' \subseteq up
           /\ dups' \in Nat
BY DEF TakeUp, TypeInv

LEMMA AnswerType ==
    ASSUME TypeInv, NEW p \in Ports, NEW pkt \in DownPackets,
           NEW s \in Instances, Answer(p, pkt, s),
           s.st = "open" => s.reply.port = p
    PROVE  /\ down' \in SUBSET DownPackets
           /\ srv' \in [Ports -> Instances]
           /\ \A x \in Ports : srv'[x].st = "open" => srv'[x].reply.port = x
<1>1. down' \subseteq down \cup {pkt}
  BY SentKeeps DEF Answer, SendDown
<1>2. srv' = [srv EXCEPT ![p] = s]
  BY DEF Answer
<1>3. QED
  BY <1>1, <1>2 DEF TypeInv

LEMMA TypeServer ==
    ASSUME TypeInv, ServerStep
    PROVE  TypeInv'
<1> USE SendAssumption, WireAssumption
<1>0. PICK p \in Ports : \/ ServerStart(p) \/ ServerStore(p) \/ ServerDrop(p)
                         \/ ServerRetransmit(p) \/ ServerFails(p)
                         \/ ServerGotError(p)
  BY DEF ServerStep
<1>a. srv[p] \in Instances
  BY DEF TypeInv
<1>b. /\ up' \subseteq up /\ dups' \in Nat
      /\ down' \in SUBSET DownPackets
      /\ srv' \in [Ports -> Instances]
      /\ \A x \in Ports : srv'[x].st = "open" => srv'[x].reply.port = x
      /\ UNCHANGED << client, intrflag, sock >>
  <2>1. CASE ServerStart(p)
    <3>1. PICK pkt \in up : ServerStart(p)!(pkt)
      BY <2>1 DEF ServerStart
    <3>2. PICK n \in Nat :
             LET reply == IF n = 0 THEN Ack(p, 0) ELSE Oack(p, n)
             IN  Answer(p, reply,
                        [st |-> "open", file |-> pkt.num, rcvd |-> << >>,
                         next |-> NextBlock(0),
                         seg |-> IF n = 0 THEN SegSize ELSE n,
                         reply |-> reply, tries |-> 0])
      BY <3>1
    <3> DEFINE reply == IF n = 0 THEN Ack(p, 0) ELSE Oack(p, n)
    <3>3. reply \in DownPackets /\ reply.port = p
      BY DEF Ack, Oack, Packet, DownPackets, OPTION_TEXT
    <3>4. NextBlock(0) \in Nat /\ pkt.num \in Nat
      BY DEF NextBlock, TypeInv, UpPackets
    <3>5. [st |-> "open", file |-> pkt.num, rcvd |-> << >>,
           next |-> NextBlock(0), seg |-> IF n = 0 THEN SegSize ELSE n,
           reply |-> reply, tries |-> 0] \in Instances
      BY <3>3, <3>4 DEF Instances, DownPackets
    <3>6. QED
      BY <3>1, <3>2, <3>3, <3>5, AnswerType, TakeUpKeeps
  <2>2. CASE ServerStore(p)
    <3>1. PICK pkt \in up : ServerStore(p)!(pkt)
      BY <2>2 DEF ServerStore
    <3>2. pkt \in UpPackets
      BY DEF TypeInv
    <3> DEFINE s == [st |-> IF Len(pkt.data) < srv[p].seg THEN "closed" ELSE "open",
                     file |-> srv[p].file, rcvd |-> srv[p].rcvd \o pkt.data,
                     next |-> NextBlock(srv[p].next), seg |-> srv[p].seg,
                     reply |-> Ack(p, pkt.num), tries |-> 0]
    <3>3. Ack(p, pkt.num) \in DownPackets /\ Ack(p, pkt.num).port = p
      BY <3>2 DEF Ack, Packet, DownPackets, UpPackets
    <3>4. NextBlock(srv[p].next) \in Nat
      BY <1>a DEF NextBlock, Instances
    <3>a. srv[p].rcvd \o pkt.data \in Seq(Int)
      BY <3>2, <1>a, ConcatProperties DEF Instances, UpPackets
    <3>5. s \in Instances /\ s.reply.port = p
      BY <3>3, <3>4, <3>a, <1>a DEF Instances, DownPackets
    <3>6. QED
      BY <3>1, <3>3, <3>5, AnswerType, TakeUpKeeps
  <2>3. CASE ServerDrop(p)
    <3>1. PICK pkt \in up : ServerDrop(p)!(pkt)
      BY <2>3 DEF ServerDrop
    <3>2. Ack(p, pkt.num) \in DownPackets
      BY DEF Ack, Packet, DownPackets, UpPackets, TypeInv
    <3>3. CASE UNCHANGED << srv, down >>
      BY <3>1, <3>3, TakeUpKeeps DEF TypeInv
    <3>4. CASE Answer(p, Ack(p, pkt.num), srv[p])
      BY <3>1, <3>2, <3>4, <1>a, AnswerType, TakeUpKeeps DEF TypeInv
    <3>5. QED
      BY <3>1, <3>3, <3>4
  <2>4. CASE ServerRetransmit(p)
    <3>1. srv[p].reply \in DownPackets
      BY <2>4, <1>a DEF ServerRetransmit, TypeInv, Instances, DownPackets
    <3> DEFINE s == [srv[p] EXCEPT !.tries = @ + 1]
    <3>2. srv[p].tries + 1 \in Nat
      BY <1>a DEF Instances
    <3>3. s \in Instances /\ s.reply.port = p
      BY <2>4, <3>2, <1>a DEF Instances, ServerRetransmit, TypeInv
    <3>4. Answer(p, srv[p].reply, s) /\ UNCHANGED << client, intrflag, up, sock, dups >>
      BY <2>4 DEF ServerRetransmit
    <3> HIDE DEF s
    <3>5. QED
      BY <3>1, <3>3, <3>4, AnswerType DEF TypeInv
  <2>5. CASE ServerFails(p)
    <3>1. Error(p) \in DownPackets
      BY DEF Error, Packet, DownPackets
    <3> DEFINE s == [srv[p] EXCEPT !.st = "dead"]
    <3>2. s \in Instances /\ s.st = "dead"
      BY <1>a DEF Instances
    <3>3. Answer(p, Error(p), s) /\ UNCHANGED << client, intrflag, up, sock, dups >>
      BY <2>5 DEF ServerFails
    <3> HIDE DEF s
    <3>4. QED
      BY <3>1, <3>2, <3>3, AnswerType DEF TypeInv
  <2>6. CASE ServerGotError(p)
    <3>1. [srv[p] EXCEPT !.st = "dead"] \in Instances
      BY <1>a DEF Instances
    <3>2. srv' = [srv EXCEPT ![p] = [srv[p] EXCEPT !.st = "dead"]]
      BY <2>6 DEF ServerGotError
    <3>3. QED
      BY <2>6, <3>1, <3>2, TakeUpKeeps DEF ServerGotError, TypeInv
  <2>7. QED
    BY <1>0, <2>1, <2>2, <2>3, <2>4, <2>5, <2>6
<1>c. QED
  BY <1>b DEF TypeInv, TypeOK, Jobs, client

LEMMA TypeStep ==
    ASSUME TypeInv, [Next]_vars
    PROVE  TypeInv'
<1>1. CASE ClientStep
  BY <1>1, TypeClient
<1>2. CASE ServerStep
  BY <1>2, TypeServer
<1>3. CASE NetworkStep
  <2>1. PICK p \in down : /\ sock' = Append(sock, p)
                          /\ down' \subseteq down /\ dups' \in Nat
                          /\ UNCHANGED up
    BY <1>3 DEF NetworkStep, Deliver, TypeInv
  <2>2. sock' \in Seq(DownPackets)
    BY <2>1, AppendProperties DEF TypeInv
  <2>3. QED
    BY <1>3, <2>1, <2>2 DEF NetworkStep, TypeInv, TypeOK, Jobs, client
<1>4. CASE Interrupt
  BY <1>4 DEF Interrupt, TypeInv, TypeOK, Jobs, client, wire
<1>5. CASE UNCHANGED vars
  BY <1>5 DEF vars, TypeInv, TypeOK, Jobs, client, wire
<1>6. QED
  BY <1>1, <1>2, <1>3, <1>4, <1>5 DEF Next, Finished

(* Every variable keeps its type, for any constants.                       *)
THEOREM TypeCorrect == Spec => []TypeInv
<1>1. TypeInv /\ [Next]_vars => TypeInv'
  BY TypeStep
<1>2. QED
  BY TypeInit, <1>1, PTL DEF Spec

-----------------------------------------------------------------------------
(* The read-ahead buffers                                                  *)

(* What is known of the file while the first one is sent.                  *)
LEMMA FirstFacts ==
    ASSUME FirstTransfer, TypeInv, job = 1
    PROVE  /\ 1 \in Jobs /\ File = Whole
           /\ Whole \in Seq(Int) /\ Len(Whole) \in Nat
           /\ SegSize \in Nat \ {0}
<1>1. 1 \in Jobs /\ 1 \in DOMAIN Files
  BY SendAssumption DEF Jobs
<1>2. Whole \in Seq(Int)
  BY <1>1, SendAssumption DEF Whole
<1>3. QED
  BY <1>1, <1>2, SendAssumption DEF File, Whole

(* read_ahead() fills the buffer that is not current, or does nothing.     *)
LEMMA FillsAhead ==
    ASSUME FirstTransfer, job = 1, TypeInv, segment_size = SegSize,
           NEW b \in Buffers, NEW at \in Nat, AheadOf(b, at),
           b.counter[b.current] # BF_FREE,
           NEW b2 \in ReadAheads(b)
    PROVE  /\ b2.current = b.current
           /\ b2.counter[b.current] = b.counter[b.current]
           /\ b2.data[b.current] = b.data[b.current]
           /\ AheadOf(b2, at)
<1> DEFINE o == Other(b.current)
           d == Chunk(Whole, at, SegSize)
<1>1. d \in Seq(Int) /\ Len(d) \in Nat
  BY FirstFacts, ChunkFacts
<1>2. o \in {0, 1} /\ o # b.current /\ Other(o) = b.current /\ b.current \in {0, 1}
  BY DEF Other, Buffers
<1>3. CASE b.counter[o] = BF_FREE /\ b.nextone = o /\ b.pos = at
  <2>1. b2 = FillWith(b, Len(d), d) \/ b2 = FillWith(b, READ_ERROR, << >>)
    BY <1>3, FirstFacts DEF ReadAheads, ReadAhead, ReadAheadFails, FirstTransfer
  <2>2. ASSUME NEW ct \in Int, NEW x, b2 = FillWith(b, ct, x)
        PROVE  /\ b2.current = b.current /\ b2.nextone = b.current
               /\ b2.counter = [b.counter EXCEPT ![o] = ct]
               /\ b2.data = [b.data EXCEPT ![o] = x]
               /\ b2.pos = at + Len(x)
    BY <1>2, <1>3, <2>2 DEF FillWith
  <2>3. CASE b2 = FillWith(b, Len(d), d)
    <3> HIDE DEF o, d
    <3>1. /\ b2.current = b.current /\ b2.nextone = b.current
          /\ b2.counter = [b.counter EXCEPT ![o] = Len(d)]
          /\ b2.data = [b.data EXCEPT ![o] = d]
          /\ b2.pos = at + Len(d)
      BY <1>1, <2>2, <2>3
    <3>2. b.counter \in [{0, 1} -> Int] /\ b.data \in [{0, 1} -> Seq(Int)]
      BY DEF Buffers
    <3>3. /\ b2.counter[o] = Len(d) /\ b2.data[o] = d
          /\ b2.counter[b.current] = b.counter[b.current]
          /\ b2.data[b.current] = b.data[b.current]
      BY <1>2, <3>1, <3>2
    <3>4. QED
      BY <3>1, <3>3 DEF AheadOf, o, d
  <2>4. CASE b2 = FillWith(b, READ_ERROR, << >>)
    <3>0. READ_ERROR \in Int
      BY DEF READ_ERROR
    <3>1. /\ b2.current = b.current /\ b2.nextone = b.current
          /\ b2.counter = [b.counter EXCEPT ![o] = READ_ERROR]
          /\ b2.data = [b.data EXCEPT ![o] = << >>]
      BY <2>2, <2>4, <3>0
    <3>2. b.counter \in [{0, 1} -> Int] /\ b.data \in [{0, 1} -> Seq(Int)]
      BY DEF Buffers
    <3> HIDE DEF o, d
    <3>3. /\ b2.counter[o] = READ_ERROR
          /\ b2.counter[b.current] = b.counter[b.current]
          /\ b2.data[b.current] = b.data[b.current]
      BY <1>2, <3>1, <3>2
    <3>4. QED
      BY <3>1, <3>3 DEF AheadOf, o
  <2>5. QED
    BY <2>1, <2>3, <2>4
<1>4. CASE b.nextone = b.current
  <2>1. b2 = b
    BY <1>4 DEF ReadAheads, ReadAhead, ReadAheadFails, FillWith
  <2>2. QED
    BY <2>1
<1>5. QED
  BY <1>3, <1>4 DEF AheadOf

(* readit() hands out the next block and leaves the other buffer free, or  *)
(* reports an error.                                                       *)
LEMMA AdvanceFacts ==
    ASSUME FirstTransfer, job = 1, TypeInv, segment_size = SegSize,
           NEW at \in Nat, AheadOf(bufs, at),
           NEW b2, b2 \in IF NeedsFill(Advance(bufs))
                          THEN ReadAheads(Advance(bufs)) ELSE {Advance(bufs)}
    PROVE  LET d == Chunk(Whole, at, SegSize)
           IN  \/ b2.counter[b2.current] = READ_ERROR
               \/ /\ b2.counter[b2.current] = Len(d)
                  /\ b2.data[b2.current] = d
                  /\ AheadOf(b2, at + Len(d))
<1> DEFINE o == Other(bufs.current)
           d == Chunk(Whole, at, SegSize)
           b == Advance(bufs)
<1>1. d \in Seq(Int) /\ Len(d) \in Nat
  BY FirstFacts, ChunkFacts
<1>2. /\ o \in {0, 1} /\ o # bufs.current /\ Other(o) = bufs.current
      /\ bufs.current \in {0, 1}
  BY DEF Other, Buffers, TypeInv
<1>3. /\ b.current = o /\ b.counter[o] = bufs.counter[o]
      /\ b.counter[bufs.current] = BF_FREE
      /\ b.data = bufs.data /\ b.nextone = bufs.nextone /\ b.pos = bufs.pos
      /\ b.counter \in [{0, 1} -> Int] /\ b.data \in [{0, 1} -> Seq(Int)]
  BY <1>2 DEF Advance, Buffers, TypeInv, BF_FREE
<1> HIDE DEF b
<1>4. CASE bufs.counter[o] = BF_FREE /\ bufs.nextone = o /\ bufs.pos = at
  <2>1. b2 = FillWith(b, Len(d), d) \/ b2 = FillWith(b, READ_ERROR, << >>)
    BY <1>3, <1>4, FirstFacts
       DEF b, ReadAheads, ReadAhead, ReadAheadFails, FirstTransfer, NeedsFill
  <2>2. ASSUME NEW ct \in Int, NEW x, b2 = FillWith(b, ct, x)
        PROVE  /\ b2.current = o /\ b2.nextone = bufs.current
               /\ b2.counter = [b.counter EXCEPT ![o] = ct]
               /\ b2.data = [b.data EXCEPT ![o] = x]
               /\ b2.pos = at + Len(x)
    BY <1>2, <1>3, <1>4, <2>2 DEF FillWith
  <2>3. CASE b2 = FillWith(b, Len(d), d)
    <3>1. /\ b2.current = o /\ b2.nextone = bufs.current
          /\ b2.counter = [b.counter EXCEPT ![o] = Len(d)]
          /\ b2.data = [b.data EXCEPT ![o] = d]
          /\ b2.pos = at + Len(d)
      BY <1>1, <2>2, <2>3
    <3> HIDE DEF o, d
    <3>2. /\ b2.counter[o] = Len(d) /\ b2.data[o] = d
          /\ b2.counter[bufs.current] = BF_FREE
      BY <1>2, <1>3, <3>1
    <3>3. AheadOf(b2, at + Len(d))
      BY <1>2, <3>1, <3>2 DEF AheadOf
    <3>4. QED
      BY <3>1, <3>2, <3>3 DEF d
  <2>4. CASE b2 = FillWith(b, READ_ERROR, << >>)
    <3>0. READ_ERROR \in Int
      BY DEF READ_ERROR
    <3>1. /\ b2.current = o
          /\ b2.counter = [b.counter EXCEPT ![o] = READ_ERROR]
      BY <2>2, <2>4, <3>0
    <3>2. b2.counter[b2.current] = READ_ERROR
      BY <1>2, <1>3, <3>1
    <3>3. QED
      BY <3>2
  <2>5. QED
    BY <2>1, <2>3, <2>4
<1>5. CASE /\ bufs.counter[o] = Len(d) /\ bufs.data[o] = d
           /\ bufs.nextone = bufs.current /\ bufs.pos = at + Len(d)
  <2>1. b2 = b
    BY <1>1, <1>3, <1>5 DEF b, NeedsFill, BF_FREE
  <2>2. QED
    BY <1>2, <1>3, <1>5, <2>1 DEF AheadOf
<1>6. CASE bufs.counter[o] = READ_ERROR
  <2>1. b2 = b
    BY <1>3, <1>6 DEF b, NeedsFill, BF_FREE, READ_ERROR
  <2>2. QED
    BY <1>3, <1>6, <2>1
<1>7. QED
  BY <1>4, <1>5, <1>6 DEF AheadOf

-----------------------------------------------------------------------------
(* The inductive invariant                                                 *)

(* A block that starts within the file is numbered below BlockMod.         *)
LEMMA BlockBound ==
    ASSUME FirstTransfer, job = 1, TypeInv, NEW k \in Nat \ {0}, Off(k) <= Len(Whole)
    PROVE  k \in 1..(BlockMod - 2)
<1>1. Len(Whole) < (BlockMod - 2) * SegSize /\ SegSize \in Nat \ {0}
      /\ Len(Whole) \in Nat /\ BlockMod \in Nat
  BY FirstFacts, WireAssumption DEF FirstTransfer, Whole
<1>2. BlockMod - 1 \in Nat \ {0}
  BY WireAssumption
<1>3. Off(BlockMod - 1) = (BlockMod - 2) * SegSize
  BY <1>1 DEF Off
<1>4. k >= BlockMod - 1 => Off(k) >= Off(BlockMod - 1)
  BY <1>1, <1>2, OffFacts
<1>5. Off(k) \in Nat /\ Off(BlockMod - 1) \in Nat
  BY <1>1, <1>2, OffFacts
<1>6. k < BlockMod - 1
  BY <1>1, <1>3, <1>4, <1>5
<1>7. QED
  BY <1>1, <1>6

LEMMA SendInit ==
    ASSUME FirstTransfer, Init
    PROVE  SendInv
<1>1. TypeInv /\ job = 1
  BY TypeInit DEF Init
<1>2. UpOK /\ DownOK
  BY DEF Init, WireInit, UpOK, DownOK
<1>3. SrvOK
  BY DEF Init, Idle, SrvOK
<1>4. ClientOK /\ CountOK
  BY FirstFacts, <1>1, WireAssumption DEF Init, ClientOK, CountOK
<1>5. BufOK
  BY DEF Init, RInit, RwInit, Blank, BufOK, AheadOf, Other, BF_ALLOC, BF_FREE
<1>6. QED
  BY <1>2, <1>3, <1>4, <1>5 DEF SendInv

(* A step that sends nothing to the servers and leaves them alone keeps    *)
(* what the invariant says of the network and of the servers.              *)
LEMMA Frame ==
    ASSUME TypeInv, UpOK, DownOK, SrvOK,
           up' \subseteq up, down' \subseteq down,
           \A i \in 1..Len(sock') : \E k \in 1..Len(sock) : sock'[i] = sock[k],
           srv' = srv, serv' = serv \/ serv = NoPort
    PROVE  UpOK' /\ DownOK' /\ SrvOK'
<1>1. UpOK'
  <2>1. serv = NoPort => \A pkt \in up : pkt.op # "DATA"
    BY WireAssumption DEF UpOK, TypeInv, UpPackets
  <2>2. QED
    BY <2>1 DEF UpOK
<1>2. DownOK'
  BY DEF DownOK, Honest
<1>3. SrvOK'
  BY WireAssumption DEF SrvOK, Honest
<1>4. QED
  BY <1>1, <1>2, <1>3

(* The first packet of the socket is honest, and comes from the server.    *)
LEMMA Received ==
    ASSUME TypeInv, DownOK, ClientOK, NEW p, RecvFrom(p)
    PROVE  /\ p \in DownPackets /\ Honest(p)
           /\ serv' = p.port /\ peer' = p.port /\ p.port \in Ports
           /\ serv' # NoPort
           /\ serv = NoPort \/ serv = serv'
           /\ ~firsttrip => serv = serv'
           /\ pc = "poll"
<1>1. sock # << >> /\ p = Head(sock) /\ 1 \in 1..Len(sock) /\ Head(sock) = sock[1]
  BY DEF RecvFrom, TypeInv
<1>2. p \in DownPackets
  BY <1>1, SockFacts
<1>3. Honest(p)
  BY <1>1 DEF DownOK
<1>4. QED
  BY <1>1, <1>2, <1>3, WireAssumption DEF RecvFrom, KnownPort, ClientOK, DownPackets

LEMMA TailFrame ==
    ASSUME TypeInv, sock # << >>
    PROVE  \A i \in 1..Len(Tail(sock)) : \E k \in 1..Len(sock) : Tail(sock)[i] = sock[k]
<1>1. /\ Len(Tail(sock)) = Len(sock) - 1
      /\ \A i \in 1..Len(Tail(sock)) : Tail(sock)[i] = sock[i + 1]
      /\ Len(sock) \in Nat
  BY HeadTailProperties DEF TypeInv
<1>2. ASSUME NEW i \in 1..Len(Tail(sock))
      PROVE  \E k \in 1..Len(sock) : Tail(sock)[i] = sock[k]
  <2>1. i + 1 \in 1..Len(sock)
    BY <1>1
  <2>2. QED
    BY <1>1, <2>1
<1>3. QED
  BY <1>2

(* An ACK of the current block ends the trip: every octet counted by then  *)
(* is stored, and after a short block that is the whole file.              *)
LEMMA AckEndsTrip ==
    ASSUME FirstTransfer, job = 1, TypeInv, TypeInv', SendInv, NEW p, RecvFrom(p),
           p.op = "ACK", p.num = block, EndTrip(intrflag, segment_size),
           srv' = srv, bufs' = bufs, segment_size' = segment_size,
           intrflag' = intrflag
    PROVE  BufOK' /\ ClientOK' /\ CountOK'
<1> USE DEF SendInv
<1>1. /\ p.port \in Ports /\ serv' = p.port /\ peer' = p.port /\ serv' # NoPort
      /\ serv = NoPort \/ serv = serv'
      /\ ~firsttrip => serv = serv'
      /\ pc = "poll"
      /\ srv[serv'].st # "free" /\ block < srv[serv'].next
  BY Received DEF Honest
<1>2. /\ job = 1 /\ Whole \in Seq(Int) /\ Len(Whole) \in Nat
      /\ SegSize \in Nat \ {0} /\ segment_size = SegSize
  BY FirstFacts DEF ClientOK
<1>3. /\ firsttrip' = FALSE
      /\ amount' = IF firsttrip THEN amount ELSE amount + size
      /\ size' = IF firsttrip THEN SegSize ELSE size
      /\ block' = NextBlock(block)
      /\ IF size' = SegSize /\ ~intrflag
         THEN pc' = "top" /\ report' = report
         ELSE /\ pc' = "done"
              /\ report' = [report EXCEPT ![1] = IF intrflag THEN "interrupted" ELSE "sent"]
  BY <1>2 DEF EndTrip, Return
<1>4. report[1] = "none" /\ report \in [Jobs -> Reports] /\ 1 \in Jobs
  BY <1>1, FirstFacts DEF ClientOK, TypeInv, TypeOK
<1>5. block \in Nat /\ srv[serv'].next \in Nat \ {0}
      /\ srv[serv'].rcvd = SubSeq(Whole, 1, Least(Off(srv[serv'].next), Len(Whole)))
  BY <1>1 DEF SrvOK, TypeInv, TypeOK
<1>6. CASE firsttrip
  <2>1. block = 0 /\ amount = 0
    BY <1>6 DEF ClientOK
  <2>2. block' = 1 /\ amount' = 0 /\ Off(1) = 0
    BY <1>2, <1>3, <1>6, <2>1, NextBlockFacts, OffFacts, WireAssumption
  <2>3. 1 \in 1..(BlockMod - 2)
    BY <1>2, <2>2, BlockBound
  <2>4. IF intrflag THEN pc' = "done" /\ report'[1] = "interrupted"
                    ELSE pc' = "top" /\ report' = report
    BY <1>3, <1>4, <1>6
  <2>5. BufOK'
    <3>1. bufs.counter[bufs.current] # BF_FREE /\ AheadOf(bufs, amount)
      BY <1>1, <1>6 DEF BufOK
    <3>2. amount' = amount
      BY <2>1, <2>2
    <3>3. QED
      BY <2>4, <3>1, <3>2 DEF BufOK, AheadOf
  <2>6. ClientOK'
    <3>1. (report'[1] = "none") <=> (pc' # "done")
      BY <1>4, <2>4
    <3>2. 1 <= srv[serv'].next /\ 0 <= Len(Whole)
      BY <1>2, <1>5
    <3>3. QED
      BY <1>1, <1>2, <1>3, <2>2, <2>3, <3>1, <3>2 DEF ClientOK
  <2>7. CountOK'
    <3>1. Len(srv[serv'].rcvd) \in Nat
      BY <1>1 DEF TypeInv, Instances
    <3>2. report'[1] # "sent" /\ (report'[1] = "interrupted" => intrflag)
      BY <1>4, <2>4
    <3>3. QED
      BY <2>2, <3>1, <3>2 DEF CountOK
  <2>8. QED
    BY <2>5, <2>6, <2>7
<1>7. CASE ~firsttrip
  <2> DEFINE d == BlockData(block)
             nx == srv[serv'].next
  <2>1. /\ block \in 1..(BlockMod - 2) /\ amount = Off(block)
        /\ amount <= Len(Whole) /\ amount \in Nat /\ block \in Nat \ {0}
    <3>1. block \in 1..(BlockMod - 2) /\ amount = Off(block) /\ amount <= Len(Whole)
      BY <1>1, <1>7 DEF ClientOK
    <3>2. block \in Nat \ {0}
      BY <3>1, WireAssumption
    <3>3. QED
      BY <1>2, <3>1, <3>2, OffFacts
  <2>2. /\ size = Len(d) /\ AheadOf(bufs, amount + size)
        /\ bufs.counter[bufs.current] # BF_FREE
    BY <1>1, <1>7 DEF BufOK
  <2>3. /\ size = IF amount >= Len(Whole) THEN 0
                  ELSE Least(amount + SegSize, Len(Whole)) - amount
    BY <1>2, <2>1, <2>2, ChunkFacts DEF BlockData
  <2>4. /\ size \in Nat /\ size <= SegSize /\ amount + size <= Len(Whole)
        /\ size # SegSize => amount + size = Len(Whole)
    <3>1. CASE amount >= Len(Whole)
      BY <1>2, <2>1, <2>3, <3>1
    <3>2. CASE amount < Len(Whole) /\ amount + SegSize < Len(Whole)
      BY <1>2, <2>1, <2>3, <3>2 DEF Least
    <3>3. CASE amount < Len(Whole) /\ amount + SegSize >= Len(Whole)
      BY <1>2, <2>1, <2>3, <3>3 DEF Least
    <3>4. QED
      BY <1>2, <2>1, <3>1, <3>2, <3>3
  <2>5. block' = block + 1
    BY <1>3, <2>1, NextBlockFacts, WireAssumption
  <2>6. amount' = amount + size /\ size' = size
    BY <1>3, <1>7
  <2>7. Off(block + 1) = amount + SegSize /\ Off(nx) \in Nat /\ Off(block + 1) <= Off(nx)
    <3>1. block + 1 \in Nat \ {0} /\ block + 1 <= nx /\ nx \in Nat \ {0}
      BY <1>1, <1>5, <2>1
    <3>2. QED
      BY <1>2, <2>1, <3>1, OffFacts
  <2>8. Len(srv[serv'].rcvd) = Least(Off(nx), Len(Whole))
    BY <1>2, <1>5, <2>7 DEF Least
  <2>9. amount' <= Len(srv[serv'].rcvd)
    BY <1>2, <2>1, <2>4, <2>6, <2>7, <2>8 DEF Least
  <2>10. CASE size = SegSize /\ ~intrflag
    <3>1. pc' = "top" /\ report' = report
      BY <1>3, <2>6, <2>10
    <3>2. BufOK'
      BY <2>2, <2>6, <3>1 DEF BufOK, AheadOf
    <3>3. amount' = Off(block + 1) /\ amount' <= Len(Whole)
      BY <2>4, <2>6, <2>7, <2>10
    <3>4. block + 1 \in 1..(BlockMod - 2)
      BY <2>1, <3>3, BlockBound
    <3>5. block + 1 <= nx
      BY <1>1, <1>5, <2>1
    <3>6. ClientOK'
      BY <1>1, <1>2, <1>3, <1>4, <2>5, <3>1, <3>3, <3>4, <3>5 DEF ClientOK
    <3>7. CountOK'
      BY <1>4, <2>9, <3>1 DEF CountOK
    <3>8. QED
      BY <3>2, <3>6, <3>7
  <2>11. CASE ~(size = SegSize /\ ~intrflag)
    <3>1. /\ pc' = "done"
          /\ report'[1] = IF intrflag THEN "interrupted" ELSE "sent"
      BY <1>3, <1>4, <2>6, <2>11
    <3>2. BufOK'
      BY <3>1 DEF BufOK
    <3>3. ClientOK'
      BY <1>1, <1>2, <1>3, <3>1 DEF ClientOK
    <3>4. CASE intrflag
      <4>1. report'[1] = "interrupted" /\ intrflag'
        BY <3>1, <3>4
      <4>2. QED
        BY <3>2, <3>3, <4>1 DEF CountOK
    <3>5. CASE ~intrflag
      <4>1. amount' = Len(Whole)
        BY <2>4, <2>6, <2>11, <3>5
      <4>2. Len(Whole) <= Off(nx)
        BY <1>2, <2>1, <2>4, <2>7, <2>11, <3>5
      <4>3. srv[serv'].rcvd = SubSeq(Whole, 1, Len(Whole))
        BY <1>2, <1>5, <2>7, <4>2 DEF Least
      <4>4. srv[serv'].rcvd = Whole
        BY <1>2, <4>3
      <4>5. report'[1] = "sent" /\ serv' # NoPort
        BY <1>1, <3>1, <3>5
      <4>6. srv'[serv'].rcvd = Whole /\ amount' <= Len(srv'[serv'].rcvd)
        BY <2>9, <4>4
      <4>7. srv'[serv'].st # "open"
        <5>1. ~(Off(nx) <= Len(Whole))
          BY <1>2, <2>1, <2>4, <2>7, <2>11, <3>5
        <5>2. QED
          BY <1>1, <5>1 DEF SrvOK
      <4>8. QED
        BY <3>2, <3>3, <4>1, <4>5, <4>6, <4>7 DEF CountOK
    <3>6. QED
      BY <3>2, <3>3, <3>4, <3>5
  <2>12. QED
    BY <2>10, <2>11
<1>8. QED
  BY <1>6, <1>7

(* A wait that the user interrupts ends the transfer.                      *)
LEMMA InterruptEndsTrip ==
    ASSUME FirstTransfer, job = 1, TypeInv, SendInv, Interrupted
    PROVE  BufOK' /\ ClientOK' /\ CountOK'
<1>1. /\ pc' = "done" /\ intrflag' /\ firsttrip' = FALSE
      /\ report' = [report EXCEPT ![1] = "interrupted"]
      /\ UNCHANGED << serv, peer, segment_size, srv >>
  BY FirstFacts DEF Interrupted, EndTrip, Return
<1>2. report'[1] = "interrupted"
  BY <1>1, FirstFacts DEF TypeInv, TypeOK
<1>3. BufOK'
  BY <1>1 DEF BufOK
<1>4. ClientOK'
  BY <1>1, <1>2 DEF SendInv, ClientOK
<1>5. CountOK'
  BY <1>1, <1>2 DEF CountOK
<1>6. QED
  BY <1>3, <1>4, <1>5

(* A transfer that is given up keeps what it has counted.                  *)
LEMMA GivingUp ==
    ASSUME FirstTransfer, job = 1, TypeInv, SendInv, NEW r \in Reports \ {"none", "sent", "interrupted"},
           Return(r), srv' = srv, UNCHANGED << firsttrip, block, amount, segment_size, intrflag >>,
           \/ UNCHANGED << serv, peer >>
           \/ \E p : RecvFrom(p)
    PROVE  BufOK' /\ ClientOK' /\ CountOK'
<1> USE DEF SendInv
<1>1. pc' = "done" /\ report'[1] = r
  BY FirstFacts DEF Return, TypeInv, TypeOK
<1>2. BufOK'
  BY <1>1 DEF BufOK
<1>3. CASE UNCHANGED << serv, peer >>
  <2>1. ClientOK'
    BY <1>1, <1>3 DEF ClientOK
  <2>2. CountOK'
    BY <1>1, <1>3 DEF CountOK
  <2>3. QED
    BY <1>2, <2>1, <2>2
<1>4. CASE \E p : RecvFrom(p)
  <2>1. PICK p : RecvFrom(p)
    BY <1>4
  <2>2. /\ serv' = p.port /\ peer' = p.port /\ serv' \in Ports /\ serv' # NoPort
        /\ serv = NoPort \/ serv = serv'
        /\ pc = "poll"
        /\ srv[serv'].st # "free"
    BY <2>1, Received DEF Honest
  <2>3. ClientOK'
    BY <1>1, <2>2 DEF ClientOK
  <2>4. serv = NoPort => amount = 0
    BY <2>2 DEF ClientOK
  <2>5. Len(srv[serv'].rcvd) \in Nat
    BY <2>2 DEF TypeInv, Instances
  <2>6. CountOK'
    BY <1>1, <2>2, <2>4, <2>5 DEF CountOK
  <2>7. QED
    BY <1>2, <2>3, <2>6
<1>5. QED
  BY <1>3, <1>4

(* readit() hands sendfile() the block it is to send.                      *)
LEMMA ReadItSafe ==
    ASSUME FirstTransfer, job = 1, TypeInv, TypeInv', SendInv, ReadIt
    PROVE  SendInv'
<1> USE DEF SendInv
<1>1. /\ pc = "top" /\ ~firsttrip
      /\ UNCHANGED << job, block, firsttrip, amount, serv, peer, segment_size,
                      intrflag, srv, down, sock, dups >>
      /\ size' = bufs'.counter[bufs'.current]
  BY DEF ReadIt
<1>2. /\ segment_size = SegSize /\ serv # NoPort /\ peer = serv
      /\ block \in 1..(BlockMod - 2) /\ amount = Off(block) /\ AheadOf(bufs, amount)
  BY <1>1 DEF ClientOK, BufOK
<1>3. SegSize \in Nat \ {0} /\ block \in Nat \ {0} /\ amount \in Nat
  <2>1. SegSize \in Nat \ {0} /\ block \in Nat \ {0}
    BY <1>2, FirstFacts, WireAssumption
  <2>2. QED
    BY <1>2, <2>1, OffFacts
<1> DEFINE d == BlockData(block)
<1>4. /\ d \in Seq(Int) /\ Len(d) \in Nat
      /\ d = Chunk(Whole, amount, SegSize)
  <2>1. d = Chunk(Whole, amount, SegSize)
    BY <1>2 DEF BlockData
  <2>2. Whole \in Seq(Int) /\ SegSize \in Nat
    BY <1>3, FirstFacts
  <2>3. Chunk(Whole, amount, SegSize) \in Seq(Int)
    BY <1>3, <2>2, ChunkFacts
  <2>4. QED
    BY <2>1, <2>3
<1>5. \/ bufs'.counter[bufs'.current] = READ_ERROR
      \/ /\ bufs'.counter[bufs'.current] = Len(d)
         /\ bufs'.data[bufs'.current] = d
         /\ AheadOf(bufs', amount + Len(d))
  <2>1. bufs' \in IF NeedsFill(Advance(bufs)) THEN ReadAheads(Advance(bufs))
                                             ELSE {Advance(bufs)}
    BY DEF ReadIt
  <2>2. segment_size = SegSize /\ amount \in Nat /\ AheadOf(bufs, amount)
    BY <1>2, <1>3
  <2>3. LET c == Chunk(Whole, amount, SegSize)
        IN  \/ bufs'.counter[bufs'.current] = READ_ERROR
            \/ /\ bufs'.counter[bufs'.current] = Len(c)
               /\ bufs'.data[bufs'.current] = c
               /\ AheadOf(bufs', amount + Len(c))
    BY <2>1, <2>2, AdvanceFacts, Zenon
  <2>4. QED
    BY <1>4, <2>3
<1>6. UpOK'
  <2>1. CASE size' < 0
    <3>1. up' \subseteq up \cup {Error(peer)} /\ Error(peer).op = "ERROR"
      BY <2>1, SentKeeps DEF ReadIt, SendUp, Error, Packet
    <3>2. QED
      BY <1>1, <3>1 DEF UpOK
  <2>2. CASE ~(size' < 0)
    BY <1>1, <2>2 DEF ReadIt, UpOK
  <2>3. QED
    BY <2>1, <2>2
<1>7. DownOK' /\ SrvOK'
  BY <1>1 DEF DownOK, SrvOK, Honest
<1>8. CASE size' < 0
  <2>1. Return("nak") /\ "nak" \in Reports \ {"none", "sent", "interrupted"}
    BY <1>8 DEF ReadIt, Reports
  <2>2. QED
    BY <1>1, <1>6, <1>7, <2>1, GivingUp
<1>9. CASE ~(size' < 0)
  <2>1. pc' = "loop" /\ report' = report
    BY <1>9 DEF ReadIt
  <2>2. /\ size' = Len(d) /\ CurrentData' = d /\ AheadOf(bufs', amount + Len(d))
        /\ bufs'.counter[bufs'.current] # BF_FREE
    BY <1>1, <1>4, <1>5, <1>9 DEF CurrentData, BF_FREE, READ_ERROR
  <2>3. BufOK'
    <3>1. BlockData(block)' = d
      BY <1>1 DEF BlockData
    <3>2. AheadOf(bufs, amount + size)'
      BY <1>1, <2>2 DEF AheadOf
    <3>3. QED
      BY <1>1, <2>1, <2>2, <3>1, <3>2 DEF BufOK
  <2>4. ClientOK'
    BY <1>1, <2>1 DEF ClientOK
  <2>5. CountOK'
    BY <1>1, <2>1 DEF CountOK
  <2>6. QED
    BY <1>6, <1>7, <2>3, <2>4, <2>5
<1>10. QED
  BY <1>8, <1>9

(* sendto() sends the WRQ or the current block; the read-ahead that        *)
(* follows leaves that block alone.                                        *)
LEMMA TransmitSafe ==
    ASSUME FirstTransfer, job = 1, TypeInv, TypeInv', SendInv, Transmit
    PROVE  SendInv'
<1> USE DEF SendInv
<1>1. /\ pc = "loop" /\ pc' = "poll"
      /\ UNCHANGED << job, report, block, firsttrip, size, amount, timeouts,
                      error, serv, peer, segment_size, intrflag, srv,
                      down, sock, dups >>
  BY DEF Transmit, InTime
<1>2. DownOK' /\ SrvOK' /\ ClientOK' /\ CountOK'
  BY <1>1 DEF DownOK, SrvOK, Honest, ClientOK, CountOK
<1>3. CASE firsttrip
  <2>1. bufs' = bufs /\ up' \subseteq up \cup {Packet("WRQ", peer, job, << >>)}
    BY <1>3, SentKeeps DEF Transmit, SendUp
  <2>2. UpOK'
    BY <1>1, <2>1 DEF UpOK, Packet
  <2>3. BufOK'
    BY <1>1, <1>3, <2>1 DEF BufOK, AheadOf
  <2>4. QED
    BY <1>2, <2>2, <2>3
<1>4. CASE ~firsttrip
  <2>1. /\ segment_size = SegSize /\ serv # NoPort /\ peer = serv
        /\ block \in 1..(BlockMod - 2) /\ amount = Off(block)
        /\ size = Len(BlockData(block)) /\ CurrentData = BlockData(block)
        /\ AheadOf(bufs, amount + size) /\ bufs.counter[bufs.current] # BF_FREE
    BY <1>1, <1>4 DEF ClientOK, BufOK
  <2>2. amount + size \in Nat
    <3>1. block \in Nat \ {0} /\ SegSize \in Nat \ {0} /\ Whole \in Seq(Int)
      BY <2>1, FirstFacts, WireAssumption
    <3>2. amount \in Nat
      BY <2>1, <3>1, OffFacts
    <3>3. BlockData(block) \in Seq(Int)
      BY <2>1, <3>1, <3>2, ChunkFacts DEF BlockData
    <3>4. QED
      BY <2>1, <3>2, <3>3
  <2>3. bufs' \in ReadAheads(bufs)
    BY <1>4 DEF Transmit
  <2>4. bufs \in Buffers
    BY DEF TypeInv
  <2>5. /\ bufs'.current = bufs.current
        /\ bufs'.counter[bufs.current] = bufs.counter[bufs.current]
        /\ bufs'.data[bufs.current] = bufs.data[bufs.current]
        /\ AheadOf(bufs', amount + size)
    BY <2>1, <2>2, <2>3, <2>4, FillsAhead
  <2>6. BufOK'
    <3>1. CurrentData' = BlockData(block) /\ BlockData(block)' = BlockData(block)
      BY <1>1, <2>1, <2>5 DEF CurrentData, BlockData
    <3>2. AheadOf(bufs, amount + size)'
      BY <1>1, <2>5 DEF AheadOf
    <3>3. QED
      BY <1>1, <1>4, <2>1, <2>5, <3>1, <3>2 DEF BufOK
  <2>7. up' \subseteq up \cup {Data(peer, block, CurrentData)}
    BY <1>4, SentKeeps DEF Transmit, SendUp
  <2>8. UpOK'
    BY <1>1, <2>1, <2>7 DEF UpOK, Data, Packet
  <2>9. QED
    BY <1>2, <2>6, <2>8
<1>5. QED
  BY <1>3, <1>4

(* Every step of the client keeps the invariant.                           *)
LEMMA ClientSafe ==
    ASSUME FirstTransfer, job = 1, job' = 1, TypeInv, TypeInv', SendInv, ClientStep
    PROVE  SendInv'
<1> USE DEF SendInv
<1>1. CASE NextFile
  BY <1>1 DEF NextFile, StartJob
<1>2. CASE MakeRequest
  <2>1. UpOK' /\ DownOK' /\ SrvOK' /\ ClientOK' /\ CountOK'
    BY <1>2 DEF MakeRequest, wire, UpOK, DownOK, SrvOK, Honest, ClientOK, CountOK
  <2>2. BufOK'
    BY <1>2 DEF MakeRequest, BufOK, AheadOf
  <2>3. QED
    BY <2>1, <2>2
<1>3. CASE ReadIt
  BY <1>3, ReadItSafe
<1>4. CASE Transmit
  BY <1>4, TransmitSafe
<1>5. CASE Skip \/ PollTimeout \/ PollInterrupted
  <2>1. /\ pc \in {"loop", "poll"} /\ pc' \in {"loop", "poll"}
        /\ UNCHANGED << job, report, block, firsttrip, size, amount, serv, peer,
                        segment_size, bufs, intrflag, srv, up, down, sock >>
    BY <1>5 DEF Skip, InTime, PollTimeout, PollInterrupted, wire
  <2>2. UpOK' /\ DownOK' /\ SrvOK' /\ ClientOK' /\ CountOK'
    BY <2>1 DEF UpOK, DownOK, SrvOK, Honest, ClientOK, CountOK
  <2>3. BufOK'
    BY <2>1 DEF BufOK, AheadOf, CurrentData, BlockData
  <2>4. QED
    BY <2>2, <2>3
<1>6. CASE GiveUp \/ SocketFails \/ PortMismatch
  <2>1. PICK r \in {"timeout", "failed", "port mismatch"} : Return(r)
    BY <1>6 DEF GiveUp, SocketFails, PortMismatch
  <2>2. /\ srv' = srv /\ up' = up /\ down' = down
        /\ UNCHANGED << serv, peer, firsttrip, block, amount, segment_size, intrflag >>
        /\ sock' = sock \/ (sock # << >> /\ sock' = Tail(sock))
    BY <1>6 DEF GiveUp, SocketFails, PortMismatch, wire
  <2>3. UpOK' /\ DownOK' /\ SrvOK'
    BY <2>2, Frame, TailFrame
  <2>4. BufOK' /\ ClientOK' /\ CountOK'
    BY <2>1, <2>2, GivingUp DEF Reports
  <2>5. QED
    BY <2>3, <2>4
<1>7. CASE Interrupted
  <2>1. UpOK' /\ DownOK' /\ SrvOK'
    BY <1>7 DEF Interrupted, wire, UpOK, DownOK, SrvOK, Honest
  <2>2. QED
    BY <1>7, <2>1, InterruptEndsTrip
<1>8. CASE sock # << >> /\ GotOack
  <2>1. PICK p \in {Head(sock)} : RecvFrom(p) /\ p.op = "OACK"
    BY <1>8 DEF GotOack
  <2>2. QED
    BY <2>1, Received DEF Honest
<1>9. CASE sock # << >> /\ GotError
  <2>1. PICK p \in {Head(sock)} : GotError!(p)
    BY <1>9 DEF GotError
  <2>2. UpOK' /\ DownOK' /\ SrvOK'
    <3>1. serv' = serv \/ serv = NoPort
      BY <2>1, Received
    <3>2. QED
      BY <1>9, <2>1, <3>1, Frame, TailFrame
  <2>3. BufOK' /\ ClientOK' /\ CountOK'
    BY <2>1, GivingUp DEF Reports
  <2>4. QED
    BY <2>2, <2>3
<1>10. CASE sock # << >> /\ GotAck
  <2>1. PICK p \in {Head(sock)} : GotAck!(p)
    BY <1>10 DEF GotAck
  <2>2. UpOK' /\ DownOK' /\ SrvOK'
    <3>1. serv' = serv \/ serv = NoPort
      BY <2>1, Received
    <3>2. QED
      BY <1>10, <2>1, <3>1, Frame, TailFrame
  <2>3. BufOK' /\ ClientOK' /\ CountOK'
    BY <2>1, AckEndsTrip
  <2>4. QED
    BY <2>2, <2>3
<1>11. CASE sock # << >> /\ GotOtherAck
  <2>1. PICK p \in {Head(sock)} : GotOtherAck!(p)
    BY <1>11 DEF GotOtherAck, Synchnet
  <2>2. /\ serv' = p.port /\ peer' = p.port /\ serv' # NoPort /\ serv' \in Ports
        /\ serv = NoPort \/ serv = serv'
        /\ ~firsttrip => serv = serv'
        /\ pc = "poll" /\ pc' = "loop"
        /\ srv[serv'].st # "free"
    BY <2>1, Received DEF Honest
  <2>3. UNCHANGED << report, block, firsttrip, size, amount, segment_size,
                     bufs, intrflag, srv, up, down >> /\ sock' = << >>
    BY <2>1 DEF Synchnet
  <2>4. UpOK' /\ DownOK' /\ SrvOK'
    BY <2>2, <2>3, Frame
  <2>5. BufOK'
    BY <2>2, <2>3 DEF BufOK, AheadOf, CurrentData, BlockData
  <2>6. ClientOK'
    BY <2>2, <2>3 DEF ClientOK
  <2>7. CountOK'
    <3>1. serv = NoPort => amount = 0
      BY <2>2 DEF ClientOK
    <3>2. Len(srv[serv'].rcvd) \in Nat
      BY <2>2 DEF TypeInv, Instances
    <3>3. report[1] = "none"
      BY <2>2 DEF ClientOK
    <3>4. QED
      BY <2>2, <2>3, <3>1, <3>2, <3>3 DEF CountOK
  <2>8. QED
    BY <2>4, <2>5, <2>6, <2>7
<1>12. QED
  BY <1>1, <1>2, <1>3, <1>4, <1>5, <1>6, <1>7, <1>8, <1>9, <1>10, <1>11 DEF ClientStep

LEMMA Transitive ==
    ASSUME NEW a \in Int, NEW b \in Int, NEW c \in Int, a <= b, b <= c
    PROVE  a <= c
OBVIOUS

(* A server's step leaves the client alone; when it changes the instance   *)
(* behind p to s and sends pkt, the invariant asks this of s and pkt.      *)
LEMMA AnswerSafe ==
    ASSUME FirstTransfer, job = 1, TypeInv, TypeInv', SendInv, NEW p \in Ports,
           NEW s \in Instances,
           srv' = [srv EXCEPT ![p] = s], up' \subseteq up,
           UNCHANGED << client, intrflag, sock >>,
           \A q \in down' : q \in down \/ Honest(q)',
           s.st # "free", s.file = 1, s.seg = SegSize, s.next \in 1..(BlockMod - 1),
           s.rcvd = SubSeq(Whole, 1, Least(Off(s.next), Len(Whole))),
           p # serv => s.next = 1,
           s.st = "open" => Honest(s.reply)' /\ Off(s.next) <= Len(Whole),
           srv[p].st # "free" => srv[p].next <= s.next,
           s.st = "open" => srv[p].st \in {"free", "open"}
    PROVE  SendInv'
<1> USE DEF SendInv
<1>1. /\ UNCHANGED << job, report, pc, block, firsttrip, size, amount, serv,
                      peer, segment_size, bufs, intrflag, sock >>
  BY DEF client
<1>2. /\ srv'[p] = s /\ \A x \in Ports \ {p} : srv'[x] = srv[x]
      /\ srv \in [Ports -> Instances] /\ srv' \in [Ports -> Instances]
  BY DEF TypeInv
<1>3. \A q \in DownPackets : Honest(q) => Honest(q)'
  <2>1. SUFFICES ASSUME NEW q \in DownPackets, Honest(q) PROVE Honest(q)'
    OBVIOUS
  <2>2. q.port \in Ports /\ q.num \in Nat
    BY DEF DownPackets
  <2>3. CASE q.port = p
    BY <1>2, <2>1, <2>2, <2>3 DEF Honest, Instances
  <2>4. CASE q.port # p
    BY <1>2, <2>1, <2>2, <2>4 DEF Honest
  <2>5. QED
    BY <2>3, <2>4
<1>4. UpOK' /\ BufOK'
  BY <1>1 DEF UpOK, BufOK, AheadOf, CurrentData, BlockData
<1>5. DownOK'
  <2>1. \A i \in 1..Len(sock) : sock[i] \in DownPackets
    BY DEF TypeInv
  <2>2. QED
    BY <1>1, <1>3, <2>1 DEF DownOK, TypeInv
<1>6. SrvOK'
  <2>1. SUFFICES ASSUME NEW x \in Ports, srv'[x].st # "free"
                 PROVE  /\ srv'[x].file = 1 /\ srv'[x].seg = SegSize
                        /\ srv'[x].next \in 1..(BlockMod - 1)
                        /\ srv'[x].rcvd = SubSeq(Whole, 1, Least(Off(srv'[x].next), Len(Whole)))
                        /\ x # serv => srv'[x].next = 1
                        /\ srv'[x].st = "open" =>
                            Honest(srv[x].reply)' /\ Off(srv'[x].next) <= Len(Whole)
    BY <1>1 DEF SrvOK, Off
  <2>2. CASE x = p
    BY <1>2, <2>2 DEF Honest
  <2>3. CASE x # p
    <3>1. srv'[x] = srv[x]
      BY <1>2, <2>3
    <3>2. srv[x].st = "open" => srv[x].reply.port = x /\ Honest(srv[x].reply)
      BY <2>1, <3>1 DEF TypeInv, SrvOK
    <3>3. srv[x].st = "open" => Honest(srv[x].reply)'
      BY <3>1, <3>2 DEF Honest
    <3>4. QED
      BY <2>1, <3>1, <3>3 DEF SrvOK
  <2>4. QED
    BY <2>2, <2>3
<1>7. ClientOK' /\ CountOK'
  <2>1. CASE serv # p \/ serv = NoPort
    <3>1. serv # NoPort => srv'[serv] = srv[serv]
      BY <1>2, <2>1 DEF TypeInv, TypeOK
    <3>2. QED
      BY <1>1, <3>1 DEF ClientOK, CountOK
  <2>2. CASE serv = p /\ serv # NoPort
    <3>1. srv[p].st # "free" /\ srv[p].next <= s.next /\ srv'[serv] = s
      BY <1>2, <2>2 DEF ClientOK
    <3>2. ClientOK'
      <4>1. ~firsttrip /\ pc # "done" => block <= s.next
        <5>1. srv[p].next \in Nat /\ s.next \in Nat /\ block \in Nat
          BY <1>2 DEF TypeInv, TypeOK, Instances
        <5>2. ~firsttrip /\ pc # "done" => block <= srv[p].next
          BY <2>2 DEF ClientOK
        <5>3. QED
          BY <3>1, <5>1, <5>2
      <4>2. QED
        BY <1>1, <2>2, <3>1, <4>1 DEF ClientOK
    <3>3. /\ Whole \in Seq(Int) /\ Len(Whole) \in Nat
          /\ SegSize \in Nat \ {0}
          /\ srv[p].next \in Nat \ {0} /\ s.next \in Nat \ {0}
      BY <2>2, <3>1, FirstFacts DEF SrvOK
    <3>4. Off(srv[p].next) \in Nat /\ Off(s.next) \in Nat /\ Off(srv[p].next) <= Off(s.next)
      BY <3>1, <3>3, OffFacts
    <3>5. srv[p].rcvd = SubSeq(Whole, 1, Least(Off(srv[p].next), Len(Whole)))
      BY <2>2, <3>1 DEF SrvOK
    <3>6. /\ Len(srv[p].rcvd) = Least(Off(srv[p].next), Len(Whole))
          /\ Len(s.rcvd) = Least(Off(s.next), Len(Whole))
      BY <3>3, <3>4, <3>5 DEF Least
    <3>7. Len(srv[p].rcvd) <= Len(s.rcvd)
      BY <3>3, <3>4, <3>6 DEF Least
    <3>8. srv[p].rcvd = Whole => s.rcvd = Whole
      <4>1. ASSUME srv[p].rcvd = Whole
            PROVE  s.rcvd = Whole
        <5>1. Least(Off(s.next), Len(Whole)) = Len(Whole)
          BY <3>3, <3>4, <3>6, <4>1 DEF Least
        <5>2. SubSeq(Whole, 1, Len(Whole)) = Whole
          BY <3>3
        <5>3. QED
          BY <5>1, <5>2
      <4>2. QED
        BY <4>1
    <3>9. amount \in Int /\ Len(s.rcvd) \in Int /\ Len(srv[p].rcvd) \in Int
      <4>1. amount \in Int
        BY DEF TypeInv, TypeOK
      <4>2. s.rcvd \in Seq(Int) /\ srv[p].rcvd \in Seq(Int)
        BY <1>2 DEF Instances
      <4>3. QED
        BY <4>1, <4>2
    <3>10. CountOK'
      <4>1. /\ report' = report /\ intrflag' = intrflag
            /\ amount' = amount /\ serv' = serv
        BY <1>1, Zenon
      <4>2. srv[serv] = srv[p] /\ srv'[serv'] = s
        BY <2>2, <3>1, <4>1
      <4>3. (~intrflag /\ serv # NoPort) => amount <= Len(s.rcvd)
        <5>1. SUFFICES ASSUME ~intrflag, serv # NoPort PROVE amount <= Len(s.rcvd)
          OBVIOUS
        <5>2. amount <= Len(srv[serv].rcvd)
          BY <5>1 DEF CountOK
        <5>3. amount <= Len(srv[p].rcvd)
          BY <5>2, <4>2
        <5>4. QED
          BY <3>7, <3>9, <5>3, Transitive, Zenon
      <4>4. report[1] = "sent" => s.rcvd = Whole /\ s.st # "open"
        BY <3>1, <3>8, <4>2 DEF CountOK
      <4>5. QED
        <5>1. report'[1] = "interrupted" => intrflag'
          BY <4>1 DEF CountOK
        <5>2. (~intrflag' /\ serv' # NoPort) => amount' <= Len(srv'[serv'].rcvd)
          <6>1. ASSUME ~intrflag', serv' # NoPort
                PROVE  amount' <= Len(srv'[serv'].rcvd)
            <7>1. ~intrflag /\ serv # NoPort
              <8>1. intrflag \in BOOLEAN /\ intrflag' \in BOOLEAN
                BY DEF TypeInv, TypeOK
              <8>2. serv # NoPort
                BY <4>1, <6>1, Zenon
              <8>3. ~intrflag
                BY <4>1, <6>1, <8>1, SMT
              <8>4. QED
                BY <8>2, <8>3, Zenon
            <7>2. amount <= Len(s.rcvd)
              BY <4>3, <7>1, Zenon
            <7>3. Len(srv'[serv'].rcvd) = Len(s.rcvd)
              BY <4>2, Zenon
            <7>4. QED
              BY <4>1, <7>2, <7>3, Zenon
          <6>2. QED
            BY <6>1, Zenon
        <5>3. report'[1] = "sent" => /\ serv' # NoPort
                                     /\ srv'[serv'].rcvd = Whole
                                     /\ srv'[serv'].st # "open"
                                     /\ amount' = Len(Whole)
          BY <4>1, <4>2, <4>4 DEF CountOK
        <5>4. QED
          BY <5>1, <5>2, <5>3 DEF CountOK, Whole
    <3>11. QED
      BY <3>2, <3>10
  <2>3. QED
    BY <2>1, <2>2
<1>8. QED
  BY <1>4, <1>5, <1>6, <1>7

(* A step that changes neither the instances nor the client.               *)
LEMMA QuietSafe ==
    ASSUME FirstTransfer, job = 1, TypeInv, TypeInv', SendInv,
           up' \subseteq up, down' \subseteq down,
           \A i \in 1..Len(sock') : \E k \in 1..Len(sock) : sock'[i] = sock[k],
           UNCHANGED << client, intrflag, srv >>
    PROVE  SendInv'
<1>1. UNCHANGED << job, report, pc, block, firsttrip, size, amount, serv,
                   peer, segment_size, bufs, intrflag, srv >>
  BY DEF client
<1>2. UpOK' /\ DownOK' /\ SrvOK'
  BY <1>1, Frame DEF SendInv
<1>3. BufOK' /\ ClientOK' /\ CountOK'
  BY <1>1 DEF SendInv, BufOK, AheadOf, CurrentData, BlockData, ClientOK, CountOK
<1>4. QED
  BY <1>2, <1>3 DEF SendInv

(* What a server sends joins the packets under way.                        *)
LEMMA AnswerSends ==
    ASSUME NEW p \in Ports, NEW pkt, NEW s, Answer(p, pkt, s)
    PROVE  /\ srv' = [srv EXCEPT ![p] = s]
           /\ \A q \in down' : q \in down \/ q = pkt
<1>1. down' \subseteq down \cup {pkt}
  BY SentKeeps DEF Answer, SendDown
<1>2. QED
  BY <1>1 DEF Answer

LEMMA AckType ==
    ASSUME NEW p \in Ports, NEW n \in Nat, NEW d \in Seq(Int)
    PROVE  [op |-> "ACK", port |-> p, num |-> n, data |-> d]
               \in [op: {"ACK", "OACK", "ERROR"}, port: Ports \cup {NoPort},
                    num: Nat, data: Seq(Int)]
OBVIOUS

(* The instance a request starts has stored nothing and expects block 1.   *)
LEMMA StartSafe ==
    ASSUME FirstTransfer, job = 1, TypeInv, TypeInv', SendInv, NEW p \in Ports, ServerStart(p)
    PROVE  SendInv'
<1> USE WireAssumption, SendAssumption
<1>1. PICK pkt \in up :
        /\ pkt.op = "WRQ" /\ srv[p].st = "free" /\ TakeUp(pkt)
        /\ Answer(p, Ack(p, 0),
                  [st |-> "open", file |-> pkt.num, rcvd |-> << >>,
                   next |-> NextBlock(0), seg |-> SegSize,
                   reply |-> Ack(p, 0), tries |-> 0])
        /\ UNCHANGED << client, intrflag, sock >>
  BY DEF ServerStart, FirstTransfer
<1>2. pkt.num = 1 /\ up' \subseteq up
  BY <1>1, TakeUpKeeps DEF SendInv, UpOK
<1>3. NextBlock(0) = 1
  BY NextBlockFacts
<1>4. /\ Ack(p, 0) = [op |-> "ACK", port |-> p, num |-> 0, data |-> << >>]
      /\ << >> \in Seq(Int)
  BY DEF Ack, Packet
<1>5. PICK s \in Instances :
        s = [st |-> "open", file |-> 1, rcvd |-> << >>, next |-> 1,
             seg |-> SegSize, reply |-> Ack(p, 0), tries |-> 0]
  <2>1. Ack(p, 0) \in [op: {"ACK", "OACK", "ERROR"}, port: Ports \cup {NoPort},
                       num: Nat, data: Seq(Int)]
    BY AckType DEF Ack, Packet
  <2>2. SegSize \in Nat /\ 0 \in Nat /\ 1 \in Nat
    OBVIOUS
  <2>3. [st |-> "open", file |-> 1, rcvd |-> << >>, next |-> 1,
         seg |-> SegSize, reply |-> Ack(p, 0), tries |-> 0] \in Instances
    BY <1>4, <2>1, <2>2 DEF Instances
  <2>4. QED
    BY <2>3
<1>6. /\ srv' = [srv EXCEPT ![p] = s]
      /\ \A q \in down' : q \in down \/ q = Ack(p, 0)
  BY <1>1, <1>2, <1>3, <1>5, AnswerSends
<1>7. s.rcvd = SubSeq(Whole, 1, Least(Off(s.next), Len(Whole)))
  <2>1. Least(Off(1), Len(Whole)) = 0 /\ Whole \in Seq(Int)
    BY FirstFacts, OffFacts DEF Least
  <2>2. SubSeq(Whole, 1, 0) = << >>
    BY <2>1
  <2>3. QED
    BY <1>5, <2>1, <2>2
<1>8. srv'[p] = s
  BY <1>6 DEF TypeInv
<1>9. /\ s.st = "open" /\ s.file = 1 /\ s.next = 1 /\ 1 \in 1..(BlockMod - 1)
      /\ s.seg = SegSize /\ s.reply = Ack(p, 0)
  BY <1>5
<1>10. Honest(Ack(p, 0))' /\ Honest(s.reply)'
  BY <1>4, <1>8, <1>9 DEF Honest, Ack, Packet
<1>11. Off(s.next) <= Len(Whole)
  BY <1>9, FirstFacts, OffFacts
<1>12. QED
  BY <1>1, <1>2, <1>6, <1>7, <1>9, <1>10, <1>11, AnswerSafe

(* The block stored is the one the client sends, and follows those before. *)
LEMMA StoreSafe ==
    ASSUME FirstTransfer, job = 1, TypeInv, TypeInv', SendInv, NEW p \in Ports, ServerStore(p)
    PROVE  SendInv'
<1> USE WireAssumption, SendAssumption
<1> DEFINE New(pkt) ==
        [st |-> IF Len(pkt.data) < srv[p].seg THEN "closed" ELSE "open",
         file |-> srv[p].file, rcvd |-> srv[p].rcvd \o pkt.data,
         next |-> NextBlock(srv[p].next), seg |-> srv[p].seg,
         reply |-> Ack(p, pkt.num), tries |-> 0]
<1>1. PICK pkt \in up :
        /\ pkt.op = "DATA" /\ pkt.port = p
        /\ srv[p].st = "open" /\ pkt.num = srv[p].next
        /\ TakeUp(pkt) /\ Answer(p, Ack(p, pkt.num), New(pkt))
        /\ UNCHANGED << client, intrflag, sock >>
  BY DEF ServerStore
<1>2. up' \subseteq up
  BY <1>1, TakeUpKeeps
<1>3. /\ p = serv /\ pkt.num \in 1..(BlockMod - 2)
      /\ pkt.data = Chunk(Whole, Off(pkt.num), SegSize)
  BY <1>1 DEF SendInv, UpOK, BlockData
<1>4. /\ srv[p].file = 1
      /\ srv[p].rcvd = SubSeq(Whole, 1, Least(Off(pkt.num), Len(Whole)))
  BY <1>1 DEF SendInv, SrvOK
<1>5. /\ srv[p] \in Instances
      /\ srv[p].rcvd \in Seq(Int) /\ srv[p].seg \in Nat /\ srv[p].next \in Nat
      /\ pkt.num \in Nat /\ pkt.data \in Seq(Int)
  BY <1>1 DEF TypeInv, Instances, UpPackets
<1>6. NextBlock(srv[p].next) = pkt.num + 1
  BY <1>1, <1>3, <1>5, NextBlockFacts
<1>7. srv[p].rcvd \o pkt.data = SubSeq(Whole, 1, Least(Off(pkt.num + 1), Len(Whole)))
  <2>1. pkt.num \in Nat \ {0} /\ SegSize \in Nat \ {0} /\ Whole \in Seq(Int)
    BY <1>3, FirstFacts
  <2>2. PICK a \in Nat : a = Off(pkt.num) /\ Off(pkt.num + 1) = a + SegSize
    BY <2>1, OffFacts
  <2>3. SubSeq(Whole, 1, Least(a, Len(Whole))) \o Chunk(Whole, a, SegSize)
           = SubSeq(Whole, 1, Least(a + SegSize, Len(Whole)))
    BY <2>1, ChunkExtends
  <2>4. QED
    BY <1>3, <1>4, <2>2, <2>3, Zenon
<1>8. /\ Ack(p, pkt.num) = [op |-> "ACK", port |-> p, num |-> pkt.num, data |-> << >>]
      /\ << >> \in Seq(Int)
  BY DEF Ack, Packet
<1>9. New(pkt) \in Instances
  <2>1. srv[p].rcvd \o pkt.data \in Seq(Int)
    BY <1>5
  <2>2. Ack(p, pkt.num) \in [op : {"ACK", "OACK", "ERROR"}, port : Ports \cup {NoPort},
                             num : Nat, data : Seq(Int)]
    BY <1>5, <1>8
  <2>3. NextBlock(srv[p].next) \in Nat
    BY <1>5, <1>6
  <2>4. QED
    BY <1>4, <1>5, <2>1, <2>2, <2>3 DEF Instances
<1>11. PICK s \in Instances : s = New(pkt)
  BY <1>9
<1>12. /\ s.st # "free" /\ s.file = 1 /\ s.next = pkt.num + 1
       /\ s.rcvd = srv[p].rcvd \o pkt.data /\ s.reply = Ack(p, pkt.num)
  BY <1>4, <1>6, <1>11
<1>23. s.seg = SegSize /\ (s.st = "open" => ~(Len(pkt.data) < SegSize))
  <2>1. srv[p].seg = SegSize
    BY <1>1 DEF SendInv, SrvOK
  <2>. QED BY <1>11, <2>1
<1> HIDE DEF New
<1>10. /\ srv' = [srv EXCEPT ![p] = New(pkt)]
       /\ \A q \in down' : q \in down \/ q = Ack(p, pkt.num)
  BY <1>1, AnswerSends
<1>13. srv'[p] = s
  BY <1>10, <1>11 DEF TypeInv
<1>14. PICK a : a = Ack(p, pkt.num)
  OBVIOUS
<1>15. a.op = "ACK" /\ a.port = p /\ a.num = pkt.num
  BY <1>8, <1>14
<1>16. Honest(a)'
  BY <1>5, <1>12, <1>13, <1>15 DEF Honest
<1>17. /\ s.next \in 1..(BlockMod - 1)
       /\ srv[p].next <= s.next
  BY <1>1, <1>3, <1>5, <1>12
<1>18. s.rcvd = SubSeq(Whole, 1, Least(Off(s.next), Len(Whole)))
  BY <1>7, <1>12
<1>19. /\ \A q \in down' : q \in down \/ Honest(q)'
       /\ Honest(s.reply)'
  BY <1>10, <1>12, <1>14, <1>16
<1>20. srv' = [srv EXCEPT ![p] = s] /\ p = serv
  BY <1>3, <1>10, <1>11
<1>21. s.st = "open" => Off(s.next) <= Len(Whole)
  <2>1. /\ pkt.num \in Nat \ {0} /\ SegSize \in Nat \ {0}
        /\ Whole \in Seq(Int) /\ Len(Whole) \in Nat
    BY <1>3, FirstFacts
  <2>2. PICK a2 \in Nat : a2 = Off(pkt.num) /\ Off(pkt.num + 1) = a2 + SegSize
    BY <2>1, OffFacts
  <2>3. Len(pkt.data) = IF a2 >= Len(Whole) THEN 0
                        ELSE Least(a2 + SegSize, Len(Whole)) - a2
    <3>1. /\ SegSize \in Nat
          /\ pkt.data = Chunk(Whole, a2, SegSize)
      BY <1>3, <2>1, <2>2
    <3>. QED BY <2>1, <3>1, ChunkFacts
  <2>4. ~(Len(pkt.data) < SegSize) => a2 + SegSize <= Len(Whole)
    BY <2>1, <2>3 DEF Least
  <2>. QED BY <1>12, <1>23, <2>2, <2>4
<1>22. QED
  BY <1>1, <1>2, <1>12, <1>23, <1>17, <1>18, <1>19, <1>20, <1>21, AnswerSafe

(* Packets that were honest stay honest while no instance forgets a block. *)
LEMMA StaysHonest ==
    ASSUME TypeInv, NEW p \in Ports, NEW s, srv' = [srv EXCEPT ![p] = s],
           s.st # "free", s.next = srv[p].next, NEW q, q.port = p, Honest(q)
    PROVE  Honest(q)'
<1>1. srv'[p] = s
  BY DEF TypeInv
<1>2. QED
  BY <1>1 DEF Honest

(* A server that repeats, drops or gives up keeps what it has stored.      *)
LEMMA KeepSafe ==
    ASSUME FirstTransfer, job = 1, TypeInv, TypeInv', SendInv, NEW p \in Ports,
           NEW s \in Instances, srv' = [srv EXCEPT ![p] = s], up' \subseteq up,
           UNCHANGED << client, intrflag, sock >>,
           \A q \in down' : q \in down \/ Honest(q)',
           srv[p].st # "free", s.st # "free",
           s.file = srv[p].file, s.rcvd = srv[p].rcvd, s.next = srv[p].next,
           s.seg = srv[p].seg,
           s.st = "open" => srv[p].st = "open" /\ Honest(s.reply)'
    PROVE  SendInv'
<1>1. /\ s.file = 1 /\ s.seg = SegSize /\ s.next \in 1..(BlockMod - 1)
      /\ s.st = "open" => Off(s.next) <= Len(Whole)
      /\ s.rcvd = SubSeq(Whole, 1, Least(Off(s.next), Len(Whole)))
      /\ p # serv => s.next = 1
  BY DEF SendInv, SrvOK
<1>2. srv[p].next <= s.next
  BY <1>1, WireAssumption
<1>3. QED
  BY <1>1, <1>2, AnswerSafe

LEMMA DropSafe ==
    ASSUME FirstTransfer, job = 1, TypeInv, TypeInv', SendInv, NEW p \in Ports, ServerDrop(p)
    PROVE  SendInv'
<1>1. PICK pkt \in up :
        /\ pkt.port = p /\ TakeUp(pkt)
        /\ \/ /\ pkt.op = "DATA" /\ srv[p].st \in {"open", "closed"}
              /\ NextBlock(pkt.num) = srv[p].next
              /\ Answer(p, Ack(p, pkt.num), srv[p])
           \/ UNCHANGED << srv, down >>
        /\ UNCHANGED << client, intrflag, sock >>
  BY DEF ServerDrop
<1>2. up' \subseteq up
  BY <1>1, TakeUpKeeps
<1>3. CASE UNCHANGED << srv, down >>
  BY <1>1, <1>2, <1>3, QuietSafe
<1>4. CASE /\ pkt.op = "DATA" /\ srv[p].st \in {"open", "closed"}
           /\ NextBlock(pkt.num) = srv[p].next
           /\ Answer(p, Ack(p, pkt.num), srv[p])
  <2>1. pkt.num \in 1..(BlockMod - 2)
    BY <1>4 DEF SendInv, UpOK
  <2>2. srv[p].next = pkt.num + 1 /\ pkt.num \in Nat
    BY <1>4, <2>1, NextBlockFacts, WireAssumption
  <2>3. PICK s \in Instances : s = srv[p]
    BY DEF TypeInv
  <2>4. /\ srv' = [srv EXCEPT ![p] = s]
        /\ \A q \in down' : q \in down \/ q = Ack(p, pkt.num)
    BY <1>4, <2>3, AnswerSends
  <2>5. srv'[p] = s
    BY <2>4 DEF TypeInv
  <2>6. PICK a : a = Ack(p, pkt.num)
    OBVIOUS
  <2>7. a.op = "ACK" /\ a.port = p /\ a.num = pkt.num
    BY <2>6 DEF Ack, Packet
  <2>8. Honest(a)'
    BY <1>4, <2>2, <2>3, <2>5, <2>7 DEF Honest
  <2>9. s.st = "open" => Honest(s.reply)'
    <3>1. ASSUME s.st = "open" PROVE Honest(s.reply)'
      <4>1. Honest(s.reply) /\ s.reply.port = p
        BY <2>3, <3>1 DEF SendInv, SrvOK, TypeInv
      <4>2. QED
        BY <2>3, <2>4, <3>1, <4>1, StaysHonest
    <3>2. QED
      BY <3>1
  <2>10. QED
    BY <1>1, <1>2, <1>4, <2>3, <2>4, <2>6, <2>8, <2>9, KeepSafe
<1>5. QED
  BY <1>1, <1>3, <1>4

LEMMA RetransmitSafe ==
    ASSUME FirstTransfer, job = 1, TypeInv, TypeInv', SendInv, NEW p \in Ports,
           ServerRetransmit(p)
    PROVE  SendInv'
<1>1. srv[p] \in Instances /\ srv[p].st = "open"
  BY DEF ServerRetransmit, TypeInv
<1>2. PICK a : a = srv[p].reply
  OBVIOUS
<1>3. PICK s : s = [srv[p] EXCEPT !.tries = @ + 1]
  OBVIOUS
<1>4. /\ s \in Instances /\ s.st = "open" /\ s.file = srv[p].file
      /\ s.rcvd = srv[p].rcvd /\ s.next = srv[p].next /\ s.seg = srv[p].seg
      /\ s.reply = a
  <2>1. srv[p].tries + 1 \in Nat
    BY <1>1 DEF Instances
  <2>2. s = [srv[p] EXCEPT !.tries = srv[p].tries + 1]
    BY <1>3
  <2>3. PICK n \in Nat : s = [srv[p] EXCEPT !.tries = n]
    BY <2>1, <2>2
  <2>4. QED
    BY <1>1, <1>2, <2>3 DEF Instances
<1>5. /\ srv' = [srv EXCEPT ![p] = s]
      /\ \A q \in down' : q \in down \/ q = a
      /\ UNCHANGED << client, intrflag, up, sock >>
  BY <1>2, <1>3, AnswerSends DEF ServerRetransmit
<1>6. Honest(a) /\ a.port = p
  BY <1>1, <1>2 DEF SendInv, SrvOK, TypeInv
<1>7. Honest(a)'
  BY <1>4, <1>5, <1>6, StaysHonest
<1>8. QED
  BY <1>1, <1>4, <1>5, <1>7, KeepSafe

LEMMA FailSafe ==
    ASSUME FirstTransfer, job = 1, TypeInv, TypeInv', SendInv, NEW p \in Ports,
           ServerFails(p) \/ ServerGotError(p)
    PROVE  SendInv'
<1>1. /\ srv[p] \in Instances /\ srv[p].st = "open"
      /\ srv' = [srv EXCEPT ![p] = [srv[p] EXCEPT !.st = "dead"]]
      /\ up' \subseteq up /\ UNCHANGED << client, intrflag, sock >>
      /\ \A q \in down' : q \in down \/ q = Error(p)
  <2>1. srv[p] \in Instances
    BY DEF TypeInv
  <2>2. CASE ServerFails(p)
    BY <2>1, <2>2, AnswerSends DEF ServerFails
  <2>3. CASE ServerGotError(p)
    BY <2>1, <2>3, TakeUpKeeps DEF ServerGotError
  <2>4. QED
    BY <2>2, <2>3
<1>2. PICK s : s = [srv[p] EXCEPT !.st = "dead"]
  OBVIOUS
<1>3. /\ s \in Instances /\ s.st = "dead" /\ s.file = srv[p].file
      /\ s.rcvd = srv[p].rcvd /\ s.next = srv[p].next /\ s.seg = srv[p].seg
  BY <1>1, <1>2 DEF Instances
<1>4. srv' = [srv EXCEPT ![p] = s] /\ srv'[p] = s
  BY <1>1, <1>2 DEF TypeInv
<1>5. PICK e : e = Error(p)
  OBVIOUS
<1>6. e.op = "ERROR" /\ e.port = p
  BY <1>5 DEF Error, Packet
<1>7. Honest(e)'
  BY <1>3, <1>4, <1>6 DEF Honest
<1>8. QED
  BY <1>1, <1>3, <1>4, <1>5, <1>7, KeepSafe

LEMMA ServerSafe ==
    ASSUME FirstTransfer, job = 1, TypeInv, TypeInv', SendInv, ServerStep
    PROVE  SendInv'
BY StartSafe, StoreSafe, DropSafe, RetransmitSafe, FailSafe DEF ServerStep

(* The network only moves packets.                                         *)
LEMMA NetworkSafe ==
    ASSUME FirstTransfer, job = 1, TypeInv, TypeInv', SendInv, NetworkStep
    PROVE  SendInv'
<1>1. PICK p \in down : sock' = Append(sock, p)
  BY DEF NetworkStep, Deliver
<1>2. /\ up' = up /\ down' \subseteq down
      /\ UNCHANGED << client, intrflag, srv >>
  BY DEF NetworkStep, Deliver
<1>3. p \in DownPackets /\ sock \in Seq(DownPackets)
  BY DEF TypeInv
<1>4. UNCHANGED << job, report, pc, block, firsttrip, size, amount, serv,
                   peer, segment_size, bufs, intrflag, srv >>
  BY <1>2 DEF client
<1>5. DownOK'
  <2>1. \A i \in 1..Len(sock') : Honest(sock'[i])
    <3>1. SUFFICES ASSUME NEW i \in 1..Len(sock') PROVE Honest(sock'[i])
      OBVIOUS
    <3>2. sock'[i] = p \/ (i \in 1..Len(sock) /\ sock'[i] = sock[i])
      BY <1>1, <1>3, AppendProperties
    <3>3. Honest(p)
      BY DEF SendInv, DownOK
    <3>4. QED
      BY <3>2, <3>3 DEF SendInv, DownOK
  <2>2. \A q : Honest(q) => Honest(q)'
    BY <1>4 DEF Honest
  <2>3. QED
    BY <1>2, <2>1, <2>2 DEF SendInv, DownOK
<1>6. UpOK' /\ SrvOK'
  BY <1>2, <1>4 DEF SendInv, UpOK, SrvOK, Honest, BlockData
<1>7. BufOK' /\ ClientOK' /\ CountOK'
  BY <1>4 DEF SendInv, BufOK, AheadOf, CurrentData, BlockData, ClientOK, CountOK
<1>8. QED
  BY <1>5, <1>6, <1>7 DEF SendInv

(* ^C only sets the flag.                                                  *)
LEMMA InterruptSafe ==
    ASSUME FirstTransfer, job = 1, TypeInv, TypeInv', SendInv, Interrupt
    PROVE  SendInv'
<1>1. /\ UNCHANGED << job, report, pc, block, firsttrip, size, amount, serv,
                      peer, segment_size, bufs, srv, up, down, sock >>
      /\ intrflag' = TRUE
  BY DEF Interrupt, client, wire
<1>2. UpOK' /\ DownOK' /\ SrvOK' /\ BufOK' /\ ClientOK'
  BY <1>1 DEF SendInv, UpOK, DownOK, SrvOK, Honest, BufOK, AheadOf,
              CurrentData, BlockData, ClientOK
<1>3. CountOK'
  BY <1>1 DEF SendInv, CountOK
<1>4. QED
  BY <1>2, <1>3 DEF SendInv

LEMMA StepSafe ==
    ASSUME FirstTransfer, job = 1, job' = 1, TypeInv, SendInv, [Next]_vars
    PROVE  SendInv'
<1>1. TypeInv'
  BY TypeStep
<1>2. CASE UNCHANGED vars
  BY <1>1, <1>2, QuietSafe DEF vars, wire
<1>3. QED
  BY <1>1, <1>2, ClientSafe, ServerSafe, NetworkSafe, InterruptSafe
     DEF Next, Finished

LEMMA FirstIsJob == 1 \in Jobs
BY SendAssumption DEF Jobs

(* A next file is only begun after the first one, and leaves its report    *)
(* and the instance that has stored it as they are.                        *)
LEMMA NextFileKeeps ==
    ASSUME FirstTransfer, TypeInv, FirstInv, [Next]_vars, job' # 1
    PROVE  FirstKept'
<1>1. CASE job = 1
  <2>1. NextFile
    BY <1>1 DEF Next, ClientStep, MakeRequest, ReadIt, Transmit, Skip, GiveUp, PollTimeout,
        PollInterrupted, SocketFails, Interrupted, PortMismatch, GotOack, GotError, GotAck,
        GotOtherAck, ServerStep, ServerStart, ServerStore, ServerDrop, ServerRetransmit,
        ServerFails, ServerGotError, NetworkStep, Interrupt, Finished, vars, client
  <2>2. report' = report /\ srv' = srv
    BY <2>1 DEF NextFile, StartJob
  <2>3. SendInv
    BY <1>1 DEF FirstInv
  <2>4. ASSUME report[1] = "sent"
        PROVE  /\ serv \in Ports /\ srv[serv].file = 1 /\ srv[serv].rcvd = Whole
               /\ srv[serv].st \notin {"free", "open"}
    <3>1. serv # NoPort /\ srv[serv].rcvd = Whole /\ srv[serv].st # "open"
      BY <2>3, <2>4 DEF SendInv, CountOK
    <3>2. serv \in Ports
      BY <3>1 DEF TypeInv, TypeOK
    <3>3. srv[serv].st # "free"
      BY <2>3, <3>1 DEF SendInv, ClientOK
    <3>. QED BY <2>3, <3>1, <3>2, <3>3 DEF SendInv, SrvOK
  <2>. QED BY <2>2, <2>4 DEF FirstKept, Whole
<1>2. CASE job # 1
  <2>1. FirstKept
    BY <1>2 DEF FirstInv
  <2>2. report'[1] = report[1]
    <3>1. report' = report \/ \E r : report' = [report EXCEPT ![job] = r]
      <4>1. \A i, g : EndTrip(i, g) =>
                report' = report \/ \E r : report' = [report EXCEPT ![job] = r]
        BY DEF EndTrip, Return
      <4>2. CASE Interrupted \/ GotOack \/ GotAck
        BY <4>1, <4>2 DEF Interrupted, GotOack, GotAck
      <4>3. CASE ReadIt \/ GiveUp \/ SocketFails \/ PortMismatch \/ GotError
        BY <4>3 DEF ReadIt, GiveUp, SocketFails, PortMismatch, GotError, Return
      <4>4. CASE ~(\/ Interrupted \/ GotOack \/ GotAck \/ ReadIt \/ GiveUp \/ SocketFails
                    \/ PortMismatch \/ GotError)
        BY <4>4 DEF Next, ClientStep, NextFile, StartJob, MakeRequest, Transmit, Skip,
            PollTimeout, PollInterrupted, GotOtherAck, ServerStep, ServerStart, ServerStore,
            ServerDrop, ServerRetransmit, ServerFails, ServerGotError, NetworkStep, Interrupt,
            Finished, vars, client
      <4>. QED BY <4>2, <4>3, <4>4
    <3>. QED BY <1>2, <3>1, FirstIsJob DEF TypeInv, TypeOK
  <2>3. ASSUME NEW p \in Ports, srv[p].st \notin {"free", "open"}
        PROVE  /\ srv'[p].st = srv[p].st /\ srv'[p].file = srv[p].file
               /\ srv'[p].rcvd = srv[p].rcvd
    <3>1. CASE ServerStep
      <4>1. PICK q \in Ports :
                \/ ServerStart(q) \/ ServerStore(q) \/ ServerDrop(q)
                \/ ServerRetransmit(q) \/ ServerFails(q) \/ ServerGotError(q)
        BY <3>1 DEF ServerStep
      <4>2. CASE q # p
        <5>1. srv \in [Ports -> Instances]
          BY DEF TypeInv
        <5>2. srv' = srv \/ \E s : srv' = [srv EXCEPT ![q] = s]
          BY <4>1, <5>1 DEF ServerStart, ServerStore, ServerDrop, ServerRetransmit,
              ServerFails, ServerGotError, Answer
        <5>. QED BY <4>2, <5>1, <5>2
      <4>3. CASE q = p
        <5>1. srv' = srv \/ srv' = [srv EXCEPT ![p] = srv[p]]
          BY <2>3, <4>1, <4>3 DEF ServerStart, ServerStore, ServerDrop, ServerRetransmit,
              ServerFails, ServerGotError, Answer
        <5>. QED BY <5>1 DEF TypeInv
      <4>. QED BY <4>2, <4>3
    <3>2. CASE ~ServerStep
      <4>1. srv' = srv
        BY <3>2 DEF Next, ClientStep, NextFile, MakeRequest, ReadIt, Transmit, Skip, GiveUp,
            PollTimeout, PollInterrupted, SocketFails, Interrupted, PortMismatch, GotOack,
            GotError, GotAck, GotOtherAck, NetworkStep, Interrupt, Finished, vars
      <4>. QED BY <4>1
    <3>. QED BY <3>1, <3>2
  <2>. QED BY <2>1, <2>2, <2>3 DEF FirstKept, Whole
<1>. QED BY <1>1, <1>2

(* The invariant holds of every behaviour of a command without options.    *)
THEOREM FirstInvariant ==
    ASSUME FirstTransfer
    PROVE  Spec => [](TypeInv /\ FirstInv)
<1>1. Init => TypeInv /\ FirstInv
  BY TypeInit, SendInit DEF Init, FirstInv
<1>2. TypeInv /\ FirstInv /\ [Next]_vars => (TypeInv /\ FirstInv)'
  <2>1. SUFFICES ASSUME TypeInv, FirstInv, [Next]_vars
                 PROVE  (TypeInv /\ FirstInv)'
    OBVIOUS
  <2>2. TypeInv'
    BY <2>1, TypeStep
  <2>3. CASE job' # 1
    BY <2>1, <2>2, <2>3, NextFileKeeps DEF FirstInv
  <2>4. CASE job' = 1
    <3>1. job = 1
      <4>1. job \in Nat \ {0}
        BY <2>1, SendAssumption DEF TypeInv, TypeOK, Jobs
      <4>2. job' = job \/ job' = job + 1
        BY <2>1 DEF Next, ClientStep, NextFile, StartJob, MakeRequest, ReadIt, Transmit, Skip,
            GiveUp, PollTimeout, PollInterrupted, SocketFails, Interrupted, PortMismatch,
            GotOack, GotError, GotAck, GotOtherAck, ServerStep, ServerStart, ServerStore,
            ServerDrop, ServerRetransmit, ServerFails, ServerGotError, NetworkStep,
            Interrupt, Finished, vars, client
      <4>. QED BY <2>4, <4>1, <4>2
    <3>. QED BY <2>1, <2>2, <2>4, <3>1, StepSafe DEF FirstInv
  <2>. QED BY <2>3, <2>4
<1>3. QED
  BY <1>1, <1>2, PTL DEF Spec

(* When there is one file it is the invariant of its transfer.             *)
LEMMA OneFacts ==
    ASSUME OneTransfer, TypeInv
    PROVE  /\ FirstTransfer /\ job = 1 /\ Jobs = {1} /\ File = Whole
           /\ Whole \in Seq(Int) /\ Len(Whole) \in Nat
           /\ SegSize \in Nat \ {0}
<1>1. FirstTransfer /\ Jobs = {1} /\ job = 1
  BY DEF OneTransfer, TypeInv, TypeOK, Jobs
<1>2. QED
  BY <1>1, FirstFacts

LEMMA OneStep ==
    ASSUME OneTransfer, TypeInv, SendInv, [Next]_vars
    PROVE  TypeInv' /\ SendInv'
<1>1. TypeInv'
  BY TypeStep
<1>2. FirstTransfer /\ job = 1 /\ job' = 1
  <2>1. FirstTransfer /\ job = 1
    BY OneFacts
  <2>2. job' \in 1..Len(Files) /\ Len(Files) = 1
    BY <1>1 DEF OneTransfer, TypeInv, TypeOK, Jobs
  <2>. QED BY <2>1, <2>2
<1>3. QED
  BY <1>1, <1>2, StepSafe

THEOREM SendInvariant ==
    ASSUME OneTransfer
    PROVE  Spec => [](TypeInv /\ SendInv)
<1>1. TypeInv /\ FirstInv => SendInv
  BY OneFacts DEF FirstInv
<1>2. FirstTransfer
  BY DEF OneTransfer
<1>3. QED
  BY <1>1, <1>2, FirstInvariant, PTL

-----------------------------------------------------------------------------
(* The properties of TftpSend                                              *)

(* "sent" is only reported when the instance the client talks to has the   *)
(* whole file.                                                             *)
THEOREM SentIsStoredAlways ==
    ASSUME OneTransfer
    PROVE  Spec => []SentIsStored
<1>1. TypeInv /\ SendInv => SentIsStored
  <2>1. SUFFICES ASSUME TypeInv, SendInv, NEW j \in Jobs, report[j] = "sent"
                 PROVE  \E p \in Ports : srv[p].file = j /\ srv[p].rcvd = Files[j]
    BY DEF SentIsStored
  <2>2. j = 1
    BY <2>1, OneFacts
  <2>3. serv # NoPort /\ srv[serv].rcvd = Whole
    BY <2>1, <2>2 DEF SendInv, CountOK
  <2>4. serv \in Ports
    BY <2>1, <2>3 DEF TypeInv, TypeOK
  <2>5. srv[serv].file = 1
    BY <2>1, <2>3, <2>4 DEF SendInv, ClientOK, SrvOK
  <2>6. QED
    BY <2>2, <2>3, <2>4, <2>5 DEF Whole
<1>2. QED
  BY SendInvariant, <1>1, PTL

(* The first file of a command is stored once that is reported, whatever   *)
(* the servers do with the files after it.                                 *)
THEOREM FirstIsStoredAlways ==
    ASSUME FirstTransfer
    PROVE  Spec => []FirstIsStored
<1>1. TypeInv /\ FirstInv => FirstIsStored
  <2>1. SUFFICES ASSUME TypeInv, FirstInv, report[1] = "sent"
                 PROVE  \E p \in Ports : srv[p].file = 1 /\ srv[p].rcvd = Files[1]
    BY DEF FirstIsStored
  <2>2. CASE job = 1
    <3>1. serv # NoPort /\ srv[serv].rcvd = Whole
      BY <2>1, <2>2 DEF FirstInv, SendInv, CountOK
    <3>2. serv \in Ports
      BY <2>1, <3>1 DEF TypeInv, TypeOK
    <3>3. srv[serv].file = 1
      BY <2>1, <2>2, <3>1, <3>2 DEF FirstInv, SendInv, ClientOK, SrvOK
    <3>. QED BY <3>1, <3>2, <3>3 DEF Whole
  <2>3. CASE job # 1
    BY <2>1, <2>3 DEF FirstInv, FirstKept, Whole
  <2>. QED BY <2>2, <2>3
<1>2. QED
  BY FirstInvariant, <1>1, PTL

(* No instance stores a block twice, out of order or from the wrong buffer.*)
THEOREM StoredIsPrefixAlways ==
    ASSUME OneTransfer
    PROVE  Spec => []StoredIsPrefix
<1>1. TypeInv /\ SendInv => StoredIsPrefix
  <2>1. SUFFICES ASSUME TypeInv, SendInv, NEW p \in Ports, srv[p].st # "free"
                 PROVE  IsPrefix2(srv[p].rcvd, Files[srv[p].file])
    BY DEF StoredIsPrefix
  <2>2. /\ srv[p].file = 1 /\ srv[p].next \in Nat \ {0}
        /\ srv[p].rcvd = SubSeq(Whole, 1, Least(Off(srv[p].next), Len(Whole)))
    BY <2>1, WireAssumption DEF SendInv, SrvOK
  <2>3. Whole \in Seq(Int) /\ Off(srv[p].next) \in Nat
    BY <2>1, <2>2, OneFacts, OffFacts
  <2>4. PICK k \in 0..Len(Whole) : srv[p].rcvd = SubSeq(Whole, 1, k)
    BY <2>2, <2>3 DEF Least
  <2>5. Len(srv[p].rcvd) = k
    BY <2>3, <2>4
  <2>6. QED
    <3>1. k <= Len(Whole) /\ srv[p].rcvd = SubSeq(Whole, 1, Len(srv[p].rcvd))
      BY <2>4, <2>5
    <3>2. Files[srv[p].file] = Whole
      BY <2>2 DEF Whole
    <3>3. QED
      BY <2>5, <3>1, <3>2, Zenon DEF IsPrefix2
<1>2. QED
  BY SendInvariant, <1>1, PTL

(* What the client counts as sent has been stored.                         *)
THEOREM CountedIsStoredAlways ==
    ASSUME OneTransfer
    PROVE  Spec => []CountedIsStored
<1>1. TypeInv /\ SendInv => CountedIsStored
  <2>1. SUFFICES ASSUME TypeInv, SendInv PROVE CountedIsStored
    OBVIOUS
  <2>2. job = 1 /\ File = Whole
    BY <2>1, OneFacts
  <2>3. QED
    BY <2>1, <2>2 DEF SendInv, CountOK, CountedIsStored
<1>2. QED
  BY SendInvariant, <1>1, PTL

(* While a block waits for its ACK the octets it would be sent again with  *)
(* do not change: only Transmit touches the buffers, and it fills the one  *)
(* that is not current.                                                    *)
LEMMA StepRetransmitsTheSame ==
    ASSUME OneTransfer, TypeInv, SendInv, [Next]_vars,
           ~firsttrip, pc # "top", pc' # "top"
    PROVE  CurrentData' = CurrentData
<1>1. CASE Transmit
  <2>1. bufs' \in ReadAheads(bufs)
    BY <1>1 DEF Transmit
  <2>2. /\ bufs \in Buffers /\ bufs.counter[bufs.current] # BF_FREE
        /\ segment_size = SegSize /\ AheadOf(bufs, amount + size)
    BY <1>1 DEF Transmit, InTime, TypeInv, SendInv, BufOK, ClientOK
  <2>3. amount + size \in Nat
    <3>1. amount = Off(block) /\ block \in Nat \ {0} /\ size = Len(BlockData(block))
      BY <1>1, WireAssumption DEF Transmit, InTime, SendInv, BufOK, ClientOK
    <3>2. amount \in Nat /\ Whole \in Seq(Int) /\ SegSize \in Nat \ {0}
      BY <3>1, OneFacts, OffFacts
    <3>3. BlockData(block) \in Seq(Int)
      BY <3>1, <3>2, ChunkFacts DEF BlockData
    <3>4. size \in Nat
      BY <3>1, <3>3
    <3>5. QED
      BY <3>2, <3>4
  <2>4. /\ bufs'.current = bufs.current
        /\ bufs'.data[bufs.current] = bufs.data[bufs.current]
    BY <2>1, <2>2, <2>3, OneFacts, FillsAhead
  <2>5. QED
    BY <2>4 DEF CurrentData
<1>2. CASE NextFile
  <2>1. job = 1
    BY OneFacts
  <2>2. QED
    BY <1>2, <2>1 DEF NextFile, OneTransfer
<1>3. CASE ReadIt
  BY <1>3 DEF ReadIt
<1>4. CASE /\ ClientStep /\ ~Transmit /\ ~NextFile /\ ~ReadIt
  <2>1. bufs' = bufs
    BY <1>4 DEF ClientStep, MakeRequest, Skip, GiveUp, PollTimeout, PollInterrupted,
                SocketFails, Interrupted, PortMismatch, GotOack, GotError, GotAck,
                GotOtherAck
  <2>2. QED
    BY <2>1 DEF CurrentData
<1>5. CASE ServerStep
  <2>1. UNCHANGED client
    BY <1>5 DEF ServerStep, ServerStart, ServerStore, ServerDrop,
                ServerRetransmit, ServerFails, ServerGotError
  <2>2. QED
    BY <2>1 DEF client, CurrentData
<1>6. CASE NetworkStep \/ Interrupt \/ UNCHANGED vars
  BY <1>6 DEF NetworkStep, Interrupt, vars, client, CurrentData
<1>7. QED
  BY <1>1, <1>2, <1>3, <1>4, <1>5, <1>6 DEF Next, Finished

THEOREM RetransmitsTheSameAlways ==
    ASSUME OneTransfer
    PROVE  Spec => RetransmitsTheSame
<1>1. TypeInv /\ SendInv /\ [Next]_vars
        => [(~firsttrip /\ pc # "top" /\ pc' # "top") => CurrentData' = CurrentData]_vars
  BY StepRetransmitsTheSame
<1>2. QED
  BY SendInvariant, <1>1, PTL DEF Spec, RetransmitsTheSame

-----------------------------------------------------------------------------
(* One transfer implements FileTransfer                                    *)

LEMMA VerdictFacts ==
    /\ Verdict = "none" <=> report[1] = "none"
    /\ Verdict = "complete" <=> report[1] = "sent"
    /\ Verdict \in {"none", "complete", "incomplete"}
BY DEF Verdict

(* The destination is a beginning of the file, and all of it when that is  *)
(* reported.                                                               *)
LEMMA DestFacts ==
    ASSUME OneTransfer, TypeInv, SendInv
    PROVE  /\ Dest \in Seq(Int)
           /\ Dest \in FT!Prefixes
           /\ Verdict = "complete" => Dest = Files[1]
<1>1. Whole \in Seq(Int) /\ Whole = Files[1]
  BY OneFacts DEF Whole
<1>2. CASE serv = NoPort
  <2>1. Dest = << >> /\ SubSeq(Whole, 1, 0) = << >>
    BY <1>1, <1>2 DEF Dest
  <2>2. Dest \in FT!Prefixes
    BY <1>1, <2>1 DEF FT!Prefixes
  <2>3. Verdict # "complete"
    BY <1>2, VerdictFacts DEF SendInv, CountOK
  <2>4. QED
    BY <2>1, <2>2, <2>3
<1>3. CASE serv # NoPort
  <2>1. serv \in Ports /\ srv[serv].st # "free" /\ Dest = srv[serv].rcvd
    BY <1>3 DEF TypeInv, TypeOK, SendInv, ClientOK, Dest
  <2>2. /\ srv[serv].next \in Nat \ {0}
        /\ Dest = SubSeq(Whole, 1, Least(Off(srv[serv].next), Len(Whole)))
    BY <2>1, WireAssumption DEF SendInv, SrvOK
  <2>3. Least(Off(srv[serv].next), Len(Whole)) \in 0..Len(Whole)
    <3>1. Off(srv[serv].next) \in Nat /\ Len(Whole) \in Nat
      BY <1>1, <2>2, OneFacts, OffFacts
    <3>2. QED
      BY <3>1 DEF Least
  <2>4. Dest \in FT!Prefixes
    BY <1>1, <2>2, <2>3 DEF FT!Prefixes
  <2>5. Dest \in Seq(Int)
    BY <2>1 DEF TypeInv, Instances
  <2>6. Verdict = "complete" => Dest = Files[1]
    BY <1>1, <2>1, VerdictFacts DEF SendInv, CountOK
  <2>7. QED
    BY <2>4, <2>5, <2>6
<1>4. QED
  BY <1>2, <1>3

(* Once a server has answered the client stays with it.                    *)
LEMMA ServStays ==
    ASSUME OneTransfer, TypeInv, ClientStep, serv # NoPort
    PROVE  serv' = serv /\ UNCHANGED srv
<1>1. ~NextFile
  BY OneFacts DEF NextFile, OneTransfer
<1>2. \A p : RecvFrom(p) => serv' = serv
  BY DEF RecvFrom, KnownPort
<1>3. CASE GotOack \/ GotError \/ GotAck \/ GotOtherAck
  BY <1>2, <1>3 DEF GotOack, GotError, GotAck, GotOtherAck
<1>4. CASE PortMismatch
  BY <1>4 DEF PortMismatch
<1>5. CASE \/ MakeRequest \/ ReadIt \/ Transmit \/ Skip \/ GiveUp \/ PollTimeout
           \/ PollInterrupted \/ SocketFails \/ Interrupted
  BY <1>5 DEF MakeRequest, ReadIt, Transmit, Skip, GiveUp, PollTimeout,
              PollInterrupted, SocketFails, Interrupted
<1>6. QED
  BY <1>1, <1>3, <1>4, <1>5 DEF ClientStep

(* A server only adds to what it has stored.                               *)
LEMMA StoreGrows ==
    ASSUME TypeInv, ServerStep, NEW q \in Ports, srv[q].st # "free"
    PROVE  Len(srv'[q].rcvd) >= Len(srv[q].rcvd)
<1>1. PICK p \in Ports :
        \/ ServerStart(p) \/ ServerStore(p) \/ ServerDrop(p)
        \/ ServerRetransmit(p) \/ ServerFails(p) \/ ServerGotError(p)
  BY DEF ServerStep
<1>2. srv[q].rcvd \in Seq(Int) /\ srv \in [Ports -> Instances]
  BY DEF TypeInv, Instances
<1>3. CASE ServerStart(p)
  <2>1. PICK s : srv' = [srv EXCEPT ![p] = s] /\ srv[p].st = "free"
    BY <1>3 DEF ServerStart, Answer
  <2>2. srv'[q] = srv[q]
    BY <1>2, <2>1
  <2>3. QED
    BY <1>2, <2>2
<1>4. CASE ServerStore(p)
  <2>1. PICK pkt \in up :
          Answer(p, Ack(p, pkt.num),
                 [st |-> IF Len(pkt.data) < srv[p].seg THEN "closed" ELSE "open",
                  file |-> srv[p].file, rcvd |-> srv[p].rcvd \o pkt.data,
                  next |-> NextBlock(srv[p].next), seg |-> srv[p].seg,
                  reply |-> Ack(p, pkt.num), tries |-> 0])
    BY <1>4 DEF ServerStore
  <2>2. pkt.data \in Seq(Int)
    BY DEF TypeInv, UpPackets
  <2>3. srv'[q].rcvd = IF q = p THEN srv[q].rcvd \o pkt.data ELSE srv[q].rcvd
    BY <1>2, <2>1 DEF Answer
  <2>4. PICK r \in Seq(Int), d \in Seq(Int) : r = srv[q].rcvd /\ d = pkt.data
    BY <1>2, <2>2
  <2>5. Len(r \o d) >= Len(r) /\ Len(r) >= Len(r)
    OBVIOUS
  <2>6. srv'[q].rcvd = r \o d \/ srv'[q].rcvd = r
    BY <2>3, <2>4, Zenon
  <2>7. QED
    BY <2>4, <2>5, <2>6, Zenon
<1>5. CASE ServerDrop(p) \/ ServerRetransmit(p) \/ ServerFails(p) \/ ServerGotError(p)
  <2>1. \/ srv' = srv
        \/ srv' = [srv EXCEPT ![p] = srv[p]]
        \/ srv' = [srv EXCEPT ![p] = [srv[p] EXCEPT !.tries = @ + 1]]
        \/ srv' = [srv EXCEPT ![p] = [srv[p] EXCEPT !.st = "dead"]]
    BY <1>2, <1>5 DEF ServerDrop, ServerRetransmit, ServerFails, ServerGotError,
                      Answer
  <2>3. srv[p] \in Instances
    BY <1>2
  <2>4. PICK s : srv' = [srv EXCEPT ![p] = s] /\ s.rcvd = srv[p].rcvd
    <3>1. CASE srv' = srv \/ srv' = [srv EXCEPT ![p] = srv[p]]
      BY <1>2, <3>1
    <3>2. CASE srv' = [srv EXCEPT ![p] = [srv[p] EXCEPT !.tries = @ + 1]]
      <4>1. [srv[p] EXCEPT !.tries = @ + 1].rcvd = srv[p].rcvd
        BY <2>3 DEF Instances
      <4>2. QED
        BY <3>2, <4>1, Zenon
    <3>3. CASE srv' = [srv EXCEPT ![p] = [srv[p] EXCEPT !.st = "dead"]]
      <4>1. [srv[p] EXCEPT !.st = "dead"].rcvd = srv[p].rcvd
        BY <2>3 DEF Instances
      <4>2. QED
        BY <3>3, <4>1, Zenon
    <3>4. QED
      BY <2>1, <3>1, <3>2, <3>3
  <2>5. srv'[q].rcvd = srv[q].rcvd
    BY <1>2, <2>4
  <2>6. QED
    BY <1>2, <2>5
<1>6. QED
  BY <1>1, <1>3, <1>4, <1>5

(* The destination only grows.                                             *)
LEMMA DestGrows ==
    ASSUME OneTransfer, TypeInv, SendInv, TypeInv', SendInv', [Next]_vars
    PROVE  Len(Dest') >= Len(Dest)
<1>1. Dest \in Seq(Int)
  BY DestFacts
<1>2. Dest' \in Seq(Int)
  <2>1. CASE serv' = NoPort
    BY <2>1 DEF Dest
  <2>2. CASE serv' # NoPort
    BY <2>2 DEF Dest, TypeInv, TypeOK, Instances
  <2>3. QED
    BY <2>1, <2>2
<1>3. CASE serv = NoPort
  <2>1. Len(Dest) = 0
    BY <1>3 DEF Dest
  <2>2. QED
    BY <1>2, <2>1
<1>4. CASE serv # NoPort /\ UNCHANGED << serv, srv >>
  <2>1. Dest' = Dest
    BY <1>4 DEF Dest
  <2>2. QED
    BY <1>1, <2>1
<1>5. CASE serv # NoPort /\ ServerStep
  <2>1. serv' = serv
    BY <1>5 DEF ServerStep, ServerStart, ServerStore, ServerDrop,
                ServerRetransmit, ServerFails, ServerGotError, client
  <2>2. serv \in Ports /\ srv[serv].st # "free"
    BY <1>5 DEF TypeInv, TypeOK, SendInv, ClientOK
  <2>3. Dest = srv[serv].rcvd /\ Dest' = srv'[serv].rcvd
    BY <1>5, <2>1 DEF Dest
  <2>4. QED
    BY <1>5, <2>2, <2>3, StoreGrows
<1>6. ClientStep /\ serv # NoPort => UNCHANGED << serv, srv >>
  BY ServStays
<1>7. NetworkStep \/ Interrupt \/ Finished \/ UNCHANGED vars => UNCHANGED << serv, srv >>
  BY DEF NetworkStep, Interrupt, Finished, vars, client
<1>8. QED
  BY <1>3, <1>4, <1>5, <1>6, <1>7 DEF Next

(* A verdict is given once.                                                *)
LEMMA VerdictStays ==
    ASSUME OneTransfer, TypeInv, SendInv, [Next]_vars, Verdict # "none"
    PROVE  Verdict' = Verdict
<1>1. pc = "done" /\ job = 1
  BY VerdictFacts, OneFacts DEF SendInv, ClientOK
<1>2. ~ClientStep
  BY <1>1 DEF ClientStep, NextFile, OneTransfer, MakeRequest, ReadIt, Transmit, Skip,
              InTime, GiveUp, PollTimeout, PollInterrupted, SocketFails, Interrupted,
              PortMismatch, GotOack, GotError, GotAck, GotOtherAck, RecvFrom
<1>3. report' = report
  BY <1>2 DEF Next, ServerStep, ServerStart, ServerStore, ServerDrop, ServerRetransmit,
              ServerFails, ServerGotError, NetworkStep, Interrupt, Finished, vars, client
<1>4. QED
  BY <1>3 DEF Verdict

LEMMA TransferInit ==
    ASSUME OneTransfer, Init
    PROVE  FT!Init
BY DEF OneTransfer, Init, FT!Init, Dest, Verdict, Jobs

(* DestFacts, of the state after a step.                                   *)
LEMMA NextDestFacts ==
    ASSUME OneTransfer
    PROVE  (TypeInv /\ SendInv =>
              /\ Dest \in FT!Prefixes
              /\ Verdict = "complete" => Dest = Files[1]
              /\ Verdict \in {"none", "complete", "incomplete"})'
<1>1. TypeInv /\ SendInv =>
        /\ Dest \in FT!Prefixes
        /\ Verdict = "complete" => Dest = Files[1]
        /\ Verdict \in {"none", "complete", "incomplete"}
  BY DestFacts, VerdictFacts
<1>2. QED
  BY <1>1, PTL

(* Every step is a step of FileTransfer or leaves its state alone.         *)
LEMMA TransferStep ==
    ASSUME OneTransfer, TypeInv, SendInv, [Next]_vars
    PROVE  [FT!Next]_<< Dest, Verdict >>
<1>1. TypeInv' /\ SendInv'
  BY OneStep
<1>2. /\ Dest' \in FT!Prefixes
      /\ Verdict' = "complete" => Dest' = Files[1]
      /\ Verdict' \in {"none", "complete", "incomplete"}
  BY <1>1, NextDestFacts
<1>3. FT!Extend
  BY <1>1, <1>2, DestGrows DEF FT!Extend
<1>4. CASE Verdict = "complete"
  <2>1. Verdict' = "complete"
    BY <1>4, VerdictStays
  <2>2. Dest' = Dest
    BY <1>2, <1>4, <2>1, DestFacts
  <2>3. QED
    BY <1>4, <2>1, <2>2
<1>5. CASE Verdict # "complete" /\ Verdict' = Verdict
  BY <1>3, <1>5 DEF FT!Next, FT!Grow
<1>6. CASE Verdict # "complete" /\ Verdict' # Verdict
  <2>1. Verdict = "none"
    BY <1>6, VerdictStays
  <2>2. CASE Verdict' = "complete"
    BY <1>2, <2>1, <2>2 DEF FT!Next, FT!Complete
  <2>3. CASE Verdict' = "incomplete"
    BY <1>3, <2>1, <2>3 DEF FT!Next, FT!GiveUp
  <2>4. QED
    BY <1>2, <1>6, <2>1, <2>2, <2>3
<1>7. QED
  BY <1>4, <1>5, <1>6

(* What a user sees of sendfile() and of the server it talks to is what    *)
(* FileTransfer allows: the stored octets grow along the file, one verdict *)
(* is given, and "complete" only of the whole file.                        *)
THEOREM SendImplementsFileTransfer ==
    ASSUME OneTransfer
    PROVE  Spec => ImplementsFileTransfer
<1>1. Init => FT!Init
  BY TransferInit
<1>2. TypeInv /\ SendInv /\ [Next]_vars => [FT!Next]_<< Dest, Verdict >>
  BY TransferStep
<1>3. QED
  BY SendInvariant, <1>1, <1>2, PTL DEF Spec, ImplementsFileTransfer, FT!SafeSpec

=============================================================================
