---------------------------- MODULE TftpRecvInv -----------------------------
(***************************************************************************)
(* The inductive invariant of TftpRecv for the first transfer of a command *)
(* without options.  TLC checks it on small instances; TftpRecv_proofs     *)
(* proves that it is inductive and that it implies the properties of       *)
(* TftpRecv.                                                               *)
(***************************************************************************)
EXTENDS TftpRecv

(* The first file is received without the blksize option, short enough     *)
(* that its block numbers do not wrap around, to a disk with room for it.  *)
FirstTransfer ==
    /\ OptBlksize = 0
    /\ ~DiskFull
    /\ Len(Files[1]) < (BlockMod - 2) * SegSize

(* It is the only file.                                                    *)
OneTransfer == Len(Files) = 1 /\ FirstTransfer

Whole == Files[1]

(* Where block k of the file starts, and what it holds.                    *)
Off(k) == (k - 1) * SegSize
BlockData(k) == Chunk(Whole, Off(k), SegSize)

-----------------------------------------------------------------------------
(* Types                                                                   *)

UpPackets ==
    { pkt \in [op: {"RRQ", "ACK", "ERROR"}, port: Ports \cup {Listener},
               num: Nat, data: Seq(Int)] : pkt.op = "RRQ" => pkt.num \in Jobs }

DownPackets == [op: {"DATA", "OACK", "ERROR"}, port: Ports,
                num: Nat, data: Seq(Int)]

Buffers == [counter: [{0, 1} -> Int], data: [{0, 1} -> Seq(Int)],
            current: {0, 1}, nextone: {0, 1}, pos: Nat]

Instances == [st: {"free", "open", "closed", "dead"}, file: Nat, off: Nat,
              num: Nat, seg: Nat,
              pkt: [op: {"DATA", "OACK", "ERROR"}, port: Ports \cup {NoPort},
                    num: Nat, data: Seq(Int)],
              tries: Nat]

TypeInv ==
    /\ TypeOK
    /\ ap \in UpPackets /\ ap.op # "ERROR"
    /\ up \in SUBSET UpPackets /\ down \in SUBSET DownPackets
    /\ sock \in Seq(DownPackets) /\ dups \in Nat
    /\ bufs \in Buffers
    /\ out \in [Jobs -> Seq(Int)]
    /\ srv \in [Ports -> Instances]
    /\ \A p \in Ports : srv[p].st = "open" =>
        srv[p].pkt.port = p /\ srv[p].file \in Jobs

-----------------------------------------------------------------------------
(* What holds while recvfile() runs                                        *)

(* The block that is received next.                                        *)
Awaited == IF pc = "top" /\ ~firsttrip THEN block + 1 ELSE block

(* An ACK under way is for the instance the client talks to, and for a     *)
(* block it has received.                                                  *)
UpOK ==
    \A pkt \in up :
        /\ pkt.op = "RRQ" => pkt.num = 1
        /\ pkt.op = "ACK" => pkt.port = serv /\ pkt.num \in 1..(Awaited - 1)

(* A DATA packet carries the block its number says.                        *)
Genuine(pkt) ==
    /\ srv[pkt.port].st # "free"
    /\ pkt.op # "OACK"
    /\ pkt.op = "DATA" =>
        pkt.num \in 1..srv[pkt.port].num /\ pkt.data = BlockData(pkt.num)

DownOK ==
    /\ \A pkt \in down : Genuine(pkt)
    /\ \A i \in 1..Len(sock) : Genuine(sock[i])

(* An instance is at no later block than the client awaits, and one the    *)
(* client does not talk to is at the first.  None has come to the end.     *)
InstOK(p, s) ==
    /\ s.st \in {"open", "dead"}
    /\ s.file = 1 /\ s.seg = SegSize
    /\ s.num \in 1..Awaited
    /\ p # serv => s.num = 1
    /\ s.off = Off(s.num)
    /\ s.st = "open" =>
        /\ s.pkt.op = "DATA" /\ s.pkt.num = s.num
        /\ s.pkt.data = BlockData(s.num)

SrvOK == \A p \in Ports : srv[p].st # "free" => InstOK(p, srv[p])

(* The current buffer is handed out; the other one is free, or holds what  *)
(* writeit() was given last.                                               *)
Alloc(b) == b.counter[b.current] = BF_ALLOC
Clean(b) == b.counter[Other(b.current)] = BF_FREE /\ b.nextone = b.current
Pending(b) == b.counter[Other(b.current)] >= 0 /\ b.nextone = Other(b.current)

(* The file and the buffer behind it are what has been received.           *)
BufOK ==
    /\ Alloc(bufs)
    /\ \/ Clean(bufs)
       \/ /\ Pending(bufs)
          /\ pc \in {"top", "loop"} /\ ~error /\ ~firsttrip /\ n # 0
    /\ out[1] \o Flushed(bufs) = SubSeq(Whole, 1, amount)

ClientOK ==
    /\ segment_size = SegSize
    /\ report[1] = "none"
    /\ intrflag => MayInterrupt
    /\ n = 0 \/ n >= 4
    /\ pc # "loop" => ~error
    /\ firsttrip => pc = "top" /\ block = 1
    /\ block >= 1
    /\ amount = Off(Awaited) /\ amount <= Len(Whole)
    /\ serv = NoPort => peer = Listener /\ Awaited = 1
    /\ serv # NoPort => peer = serv /\ srv[serv].st # "free"
    /\ ap.op = "RRQ" => ap.num = 1
    /\ ap.op = "ACK" /\ pc # "top" => block > 1 /\ ap.num = block - 1

RunOK == UpOK /\ DownOK /\ SrvOK /\ BufOK /\ ClientOK

(* What holds once it has returned.                                        *)
DoneOK ==
    /\ report[1] # "none"
    /\ report[1] = "interrupted" => MayInterrupt
    /\ report[1] # "interrupted" => IsPrefix2(out[1], Whole)
    /\ report[1] = "received" => out[1] = Whole /\ amount = Len(Whole)

RecvInv == IF pc = "done" THEN DoneOK ELSE RunOK

(* The inductive invariant: at every step of recvfile(), the packets, the  *)
(* servers, the buffers and the file agree on what has been received.      *)
RecvIInv == TypeInv /\ RecvInv

(* While the next files are received the first is left alone.              *)
FirstKept == report[1] = "received" => out[1] = Whole

FirstInv == IF job = 1 THEN RecvInv ELSE FirstKept
=============================================================================
