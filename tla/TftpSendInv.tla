---------------------------- MODULE TftpSendInv -----------------------------
(***************************************************************************)
(* The inductive invariant of TftpSend for the first transfer of a command *)
(* without options.  TLC checks it on small instances; TftpSend_proofs     *)
(* proves that it is inductive and that it implies the properties of       *)
(* TftpSend.                                                               *)
(***************************************************************************)
EXTENDS TftpSend

(* The first file is sent without the blksize option, short enough that    *)
(* its block numbers do not wrap around (65534 blocks of 512 octets), and  *)
(* with no silent read error.                                              *)
FirstTransfer ==
    /\ OptBlksize = 0
    /\ ~(Convert /\ MayFail)
    /\ Len(Files[1]) < (BlockMod - 2) * SegSize

(* It is the only file.                                                    *)
OneTransfer == Len(Files) = 1 /\ FirstTransfer

Whole == Files[1]

(* Where block k of the file starts, and what it holds.                    *)
Off(k) == (k - 1) * SegSize
BlockData(k) == Chunk(Whole, Off(k), SegSize)

-----------------------------------------------------------------------------
(* Types                                                                   *)

UpPackets == [op: {"WRQ", "DATA", "ERROR"}, port: Ports \cup {Listener},
              num: Nat, data: Seq(Int)]

DownPackets == [op: {"ACK", "OACK", "ERROR"}, port: Ports,
                num: Nat, data: Seq(Int)]

Buffers == [counter: [{0, 1} -> Int], data: [{0, 1} -> Seq(Int)],
            current: {0, 1}, nextone: {0, 1}, pos: Nat]

Instances == [st: {"free", "open", "closed", "dead"}, file: Nat,
              rcvd: Seq(Int), next: Nat, seg: Nat,
              reply: [op: {"ACK", "OACK", "ERROR"}, port: Ports \cup {NoPort},
                      num: Nat, data: Seq(Int)],
              tries: Nat]

TypeInv ==
    /\ TypeOK
    /\ up \in SUBSET UpPackets /\ down \in SUBSET DownPackets
    /\ sock \in Seq(DownPackets) /\ dups \in Nat
    /\ bufs \in Buffers
    /\ srv \in [Ports -> Instances]
    /\ \A p \in Ports : srv[p].st = "open" => srv[p].reply.port = p
    /\ \A pkt \in up : pkt.op = "WRQ" => pkt.num \in Jobs

-----------------------------------------------------------------------------

(* A DATA packet is for the instance the client talks to and carries the   *)
(* block its number says.                                                  *)
UpOK ==
    \A pkt \in up :
        /\ pkt.op = "WRQ" => pkt.num = 1
        /\ pkt.op = "DATA" =>
            /\ pkt.port = serv
            /\ pkt.num \in 1..(BlockMod - 2)
            /\ pkt.data = BlockData(pkt.num)

(* No instance acknowledges a block it has not stored.                     *)
Honest(pkt) ==
    /\ srv[pkt.port].st # "free"
    /\ pkt.op # "OACK"
    /\ pkt.op = "ACK" => pkt.num < srv[pkt.port].next

DownOK ==
    /\ \A pkt \in down : Honest(pkt)
    /\ \A i \in 1..Len(sock) : Honest(sock[i])

(* An instance has stored the blocks before the one it expects, and one    *)
(* the client does not talk to has stored none.  It is open until it has   *)
(* the short block at the end.                                             *)
SrvOK ==
    \A p \in Ports : srv[p].st # "free" =>
        /\ srv[p].file = 1 /\ srv[p].seg = SegSize
        /\ srv[p].next \in 1..(BlockMod - 1)
        /\ srv[p].rcvd = SubSeq(Whole, 1, Least(Off(srv[p].next), Len(Whole)))
        /\ p # serv => srv[p].next = 1
        /\ srv[p].st = "open" =>
            Honest(srv[p].reply) /\ Off(srv[p].next) <= Len(Whole)

(* The buffer that is not current is free and will be read into next, or   *)
(* holds the octets from "at" on, or a read error.                         *)
AheadOf(b, at) ==
    LET o == Other(b.current)
        d == Chunk(Whole, at, SegSize)
    IN  \/ /\ b.counter[o] = BF_FREE
           /\ b.nextone = o
           /\ b.pos = at
        \/ /\ b.counter[o] = Len(d)
           /\ b.data[o] = d
           /\ b.nextone = b.current
           /\ b.pos = at + Len(d)
        \/ /\ b.counter[o] = READ_ERROR
           /\ b.nextone = b.current

BufOK ==
    pc # "done" =>
        /\ bufs.counter[bufs.current] # BF_FREE
        /\ firsttrip \/ pc = "top" => AheadOf(bufs, amount)
        /\ ~firsttrip /\ pc # "top" =>
            /\ size = Len(BlockData(block))
            /\ CurrentData = BlockData(block)
            /\ AheadOf(bufs, amount + size)

(* Once the WRQ is answered the client sends block after block to one      *)
(* instance, which has stored every block before the current one.          *)
ClientOK ==
    /\ segment_size = SegSize
    /\ (report[1] = "none") <=> (pc # "done")
    /\ firsttrip => block = 0 /\ amount = 0
    /\ serv = NoPort => /\ firsttrip \/ pc = "done"
                        /\ peer = Listener
    /\ serv # NoPort => peer = serv /\ srv[serv].st # "free"
    /\ ~firsttrip /\ pc # "done" =>
        /\ serv # NoPort
        /\ block \in 1..(BlockMod - 2)
        /\ amount = Off(block)
        /\ amount <= Len(Whole)
        /\ block <= srv[serv].next

(* What has been counted has been stored, and the instance that has all of *)
(* it stores no more.                                                      *)
CountOK ==
    /\ report[1] = "interrupted" => intrflag
    /\ (~intrflag /\ serv # NoPort) => amount <= Len(srv[serv].rcvd)
    /\ report[1] = "sent" =>
        /\ serv # NoPort
        /\ srv[serv].rcvd = Whole /\ srv[serv].st # "open"
        /\ amount = Len(Whole)

SendInv == UpOK /\ DownOK /\ SrvOK /\ BufOK /\ ClientOK /\ CountOK

(* While the next files are sent, an instance that has stored the first    *)
(* file has come to its end.                                               *)
FirstKept ==
    report[1] = "sent" =>
        \E p \in Ports :
            /\ srv[p].file = 1 /\ srv[p].rcvd = Whole
            /\ srv[p].st \notin {"free", "open"}

FirstInv == IF job = 1 THEN SendInv ELSE FirstKept
=============================================================================
