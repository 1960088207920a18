------------------------------ MODULE TftpRecv ------------------------------
(***************************************************************************)
(* tftp's recvfile(), called once for every file of one "get" command,     *)
(* with the servers it talks to.                                           *)
(*                                                                         *)
(* The client's states are those of TftpSend.  The servers are not part of *)
(* the repository: each RRQ that reaches the listener starts an instance   *)
(* with a port of its own, which follows RFC 1350 and RFC 2347 (a block at *)
(* a time, an OACK acknowledged by ACK 0) and may fail.                    *)
(***************************************************************************)
EXTENDS TftpWire, TftpBuffers

CONSTANTS
    Files,          \* the remote files: a sequence of octet sequences
    SegSize,        \* SEGSIZE, 512 in the code
    OptBlksize,     \* the blksize option, 0 when it is not set
    Rexmtval,       \* seconds poll() waits for an answer
    Maxtimeout,     \* seconds of silence after which a block is given up
    MaxRetries,     \* retransmissions by a server of one packet
    MayFail,        \* whether the socket and the servers may fail
    DiskFull,       \* whether writing the local file may fail
    MayInterrupt    \* whether the user may press ^C

ASSUME RecvAssumption ==
    /\ Files \in Seq(Seq(Int)) /\ Files # << >>
    /\ SegSize \in Nat \ {0} /\ OptBlksize \in Nat
    /\ Rexmtval \in Nat \ {0} /\ Maxtimeout \in Nat \ {0}
    /\ MaxRetries \in Nat
    /\ {MayFail, DiskFull, MayInterrupt} \subseteq BOOLEAN

VARIABLES
    job,        \* the file being received, an index of Files
    report,     \* per file, how its transfer ended
    pc,         \* "top", "loop", "poll" or "done"
    block,      \* block number of the DATA packet waited for
    firsttrip,  \* the request has not been made yet
    ap,         \* the packet in ackbuf: the RRQ or an ACK
    n,          \* what recvfrom() returned last
    amount,     \* octets counted as received
    timeouts,   \* seconds of silence since the packet was first sent
    error,      \* the last packet received did not match
    serv, peer, \* the server's port once it has answered; where we send to
    segment_size,
    intrflag,
    bufs,       \* the write-behind buffers
    out,        \* per file, the local file
    srv         \* per port, the server instance behind it

client == << job, report, pc, block, firsttrip, ap, n, amount, timeouts, error,
             serv, peer, segment_size, bufs, out >>
vars == << client, intrflag, srv, wire >>

Jobs == 1..Len(Files)
File == Files[job]

Reports == {"none", "received", "timeout", "failed", "port mismatch", "nak",
            "interrupted"}

-----------------------------------------------------------------------------
(* The client                                                              *)

(* What write() may leave of d in the file; its result is not looked at.   *)
Written(d) == IF DiskFull THEN { SubSeq(d, 1, k) : k \in 0..Len(d) } ELSE {d}

Append2File(f) == out' = [out EXCEPT ![job] = f]

(* Variant: get() going one past its last argument.                        *)
NextFileOffByOne ==
    /\ pc = "done" /\ job <= Len(Files)
    /\ job' = job + 1
    /\ pc' = "top"
    /\ block' = 1 /\ firsttrip' = TRUE /\ n' = 0 /\ amount' = 0
    /\ timeouts' = 0 /\ error' = FALSE
    /\ serv' = NoPort /\ peer' = Listener
    /\ bufs' = WInit(bufs)
    /\ UNCHANGED << report, ap, segment_size, out, intrflag, srv, wire >>

(* get() opens (and truncates) the next local file and calls recvfile()    *)
(* again: same socket, same segment_size, same intrflag.                   *)
NextFile ==
    /\ pc = "done" /\ job < Len(Files)
    /\ job' = job + 1
    /\ pc' = "top"
    /\ block' = 1 /\ firsttrip' = TRUE /\ n' = 0 /\ amount' = 0
    /\ timeouts' = 0 /\ error' = FALSE
    /\ serv' = NoPort /\ peer' = Listener
    /\ bufs' = WInit(bufs)
    /\ UNCHANGED << report, ap, segment_size, out, intrflag, srv, wire >>

(* The head of the do loop: the RRQ first, then the ACK of the block just  *)
(* received (of block 0 after an OACK), and the next block is waited for.  *)
NewAck ==
    /\ pc = "top"
    /\ IF firsttrip
       THEN ap' = Request("RRQ", job) /\ UNCHANGED block
       ELSE ap' = Ack(peer, block) /\ block' = NextBlock(block)
    /\ firsttrip' = FALSE
    /\ pc' = "loop" /\ timeouts' = 0 /\ error' = FALSE
    /\ UNCHANGED << job, report, n, amount, serv, peer, segment_size, bufs,
                    out, intrflag, srv, wire >>

InTime == pc = "loop" /\ ~intrflag /\ timeouts < Maxtimeout

(* sendto(), then write_behind() while the server prepares its answer.     *)
Transmit ==
    /\ InTime /\ ~error
    /\ SendUp([ap EXCEPT !.port = peer])
    /\ \E w \in Written(Flushed(bufs)) : Append2File(out[job] \o w)
    /\ bufs' = WriteBehind(bufs)
    /\ pc' = "poll"
    /\ UNCHANGED << job, report, block, firsttrip, ap, n, amount, timeouts,
                    error, serv, peer, segment_size, intrflag, srv,
                    down, sock, dups >>

(* After a packet that did not match, nothing is sent.                     *)
Skip ==
    /\ InTime /\ error
    /\ error' = FALSE /\ pc' = "poll"
    /\ UNCHANGED << job, report, block, firsttrip, ap, n, amount, timeouts,
                    serv, peer, segment_size, bufs, out, intrflag, srv, wire >>

(* Variant: the last buffer is not flushed.                                *)
AbortUnflushed(chs, r, to, b, f) ==
    /\ \E ch \in chs : up' \in Sent(ch, Ack(to, block))
    /\ Append2File(f)
    /\ bufs' = b
    /\ pc' = "done"
    /\ report' = [report EXCEPT ![job] = r]

(* The abort label, which a complete transfer reaches as well: one more    *)
(* ACK, for the block waited for last, and the last buffer is flushed.     *)
(* chs are the packets under way before it.                                *)
AbortAfter(chs, r, to, b, f) ==
    /\ \E ch \in chs : up' \in Sent(ch, Ack(to, block))
    /\ \E w \in Written(Flushed(b)) : Append2File(f \o w)
    /\ bufs' = WriteBehind(b)
    /\ pc' = "done"
    /\ report' = [report EXCEPT ![job] = r]

Abort(r, to, b, f) == AbortAfter({up}, r, to, b, f)

GiveUp ==
    /\ pc = "loop" /\ ~intrflag /\ timeouts >= Maxtimeout
    /\ Abort("timeout", peer, bufs, out[job])
    /\ UNCHANGED << job, block, firsttrip, ap, n, amount, timeouts, error,
                    serv, peer, segment_size, intrflag, srv,
                    down, sock, dups >>

(* Variant: silence is not counted.                                        *)
PollTimeoutUncounted ==
    /\ pc = "poll" /\ sock = << >>
    /\ pc' = "loop"
    /\ UNCHANGED << job, report, block, firsttrip, timeouts, ap, n, amount, error, serv,
                    peer, segment_size, bufs, out, intrflag, srv, wire >>

PollTimeout ==
    /\ pc = "poll" /\ sock = << >>
    /\ timeouts' = timeouts + Rexmtval
    /\ pc' = "loop"
    /\ UNCHANGED << job, report, block, firsttrip, ap, n, amount, error, serv,
                    peer, segment_size, bufs, out, intrflag, srv, wire >>

PollInterrupted ==
    /\ pc = "poll" /\ intrflag
    /\ error' = TRUE /\ pc' = "loop"
    /\ UNCHANGED << job, report, block, firsttrip, ap, n, amount, timeouts,
                    serv, peer, segment_size, bufs, out, intrflag, srv, wire >>

SocketFails ==
    /\ MayFail /\ (pc = "poll" \/ (InTime /\ ~error))
    /\ Abort("failed", peer, bufs, out[job])
    /\ UNCHANGED << job, block, firsttrip, ap, n, amount, timeouts, error,
                    serv, peer, segment_size, intrflag, srv,
                    down, sock, dups >>

(* What follows the inner loop: writeit() of what b, the buffers, hold of  *)
(* the last packet, of n2 octets.  An interrupted wait ends up here too,   *)
(* with whatever the buffer and n held; a negative count makes a nak.      *)
EndTrip(b, n2, to) ==
    LET ct == n2 - 4
        b2 == WriteIt(b, ct)
    IN  \E w \in Written(WriteItFlushes(b, ct)) :
            LET f == out[job] \o w
            IN  IF ct < 0
                THEN /\ AbortAfter(Sent(up, Error(to)), "nak", to, b2, f)
                     /\ UNCHANGED amount
                ELSE /\ amount' = amount + ct
                     /\ IF ct = segment_size /\ ~intrflag
                        THEN /\ pc' = "top" /\ bufs' = b2 /\ Append2File(f)
                             /\ UNCHANGED << report, up >>
                        ELSE Abort(IF intrflag THEN "interrupted"
                                               ELSE "received", to, b2, f)

Interrupted ==
    /\ pc = "loop" /\ intrflag
    /\ EndTrip(bufs, n, peer)
    /\ UNCHANGED << job, block, firsttrip, ap, n, timeouts, error, serv, peer,
                    segment_size, intrflag, srv, down, sock, dups >>

(* recvfrom() takes the first packet of the socket into the current        *)
(* buffer, as much of it as packet_size says; its port must be that of the *)
(* first packet of this transfer.                                          *)
KnownPort(p) == serv \in {NoPort, p.port}

Payload(p) == SubSeq(p.data, 1, Least(Len(p.data), segment_size))

RecvFrom(p) ==
    /\ pc = "poll" /\ sock # << >> /\ p = Head(sock)
    /\ KnownPort(p)
    /\ serv' = p.port /\ peer' = p.port
    /\ n' = 4 + Len(Payload(p))

InBuffer(p) == RecvInto(bufs, Payload(p))

PortMismatch ==
    /\ pc = "poll" /\ sock # << >> /\ ~KnownPort(Head(sock))
    /\ n' = 4 + Len(Payload(Head(sock)))
    /\ Abort("port mismatch", peer, InBuffer(Head(sock)), out[job])
    /\ sock' = Tail(sock)
    /\ UNCHANGED << job, block, firsttrip, ap, amount, timeouts, error,
                    serv, peer, segment_size, intrflag, srv, down, dups >>

(* Variant: the block size is verified and then not set.                   *)
OackVerified(blksize) ==
    IF blksize \in {0, OptBlksize}
    THEN UNCHANGED << segment_size, intrflag, up >>
    ELSE /\ intrflag' = TRUE
         /\ SendUp(Error(Listener))
         /\ UNCHANGED segment_size

(* oack_set() takes the block size the client asked for; at any other it   *)
(* stops the command (it sets intrflag) and naks to the well-known port.   *)
OackSet(blksize) ==
    IF blksize \in {0, OptBlksize}
    THEN /\ segment_size' = IF blksize = 0 THEN segment_size ELSE blksize
         /\ UNCHANGED << intrflag, up >>
    ELSE /\ intrflag' = TRUE
         /\ SendUp(Error(Listener))
         /\ UNCHANGED segment_size

(* An OACK, whenever it comes, starts over: ACK 0, then block 1.           *)
GotOack ==
    \E p \in {Head(sock)} :
        /\ RecvFrom(p) /\ p.op = "OACK"
        /\ OackSet(p.num)
        /\ block' = 0 /\ pc' = "top"
        /\ bufs' = InBuffer(p)
        /\ sock' = Tail(sock)
        /\ UNCHANGED << job, report, firsttrip, ap, amount, timeouts, error,
                        out, srv, down, dups >>

GotError ==
    \E p \in {Head(sock)} :
        /\ RecvFrom(p) /\ p.op = "ERROR"
        /\ Abort("failed", p.port, InBuffer(p), out[job])
        /\ sock' = Tail(sock)
        /\ UNCHANGED << job, block, firsttrip, ap, amount, timeouts, error,
                        segment_size, intrflag, srv, down, dups >>

(* Variant: any block ends the wait.                                       *)
GotDataOfAny ==
    \E p \in {Head(sock)} :
        /\ RecvFrom(p) /\ p.op = "DATA"
        /\ EndTrip(InBuffer(p), n', p.port)
        /\ sock' = Tail(sock)
        /\ UNCHANGED << job, block, firsttrip, ap, timeouts, error,
                        segment_size, intrflag, srv, down, dups >>

GotData ==
    \E p \in {Head(sock)} :
        /\ RecvFrom(p) /\ p.op = "DATA" /\ p.num = block
        /\ EndTrip(InBuffer(p), n', p.port)
        /\ sock' = Tail(sock)
        /\ UNCHANGED << job, block, firsttrip, ap, timeouts, error,
                        segment_size, intrflag, srv, down, dups >>

(* Any other block: synchnet() empties the socket, and the ACK is sent     *)
(* again only if the block was the one before.                             *)
GotOtherData ==
    \E p \in {Head(sock)} :
        /\ RecvFrom(p) /\ p.op = "DATA" /\ p.num # block
        /\ error' = (p.num # block - 1)
        /\ pc' = "loop"
        /\ bufs' = InBuffer(p)
        /\ Synchnet
        /\ UNCHANGED << job, report, block, firsttrip, ap, amount, timeouts,
                        segment_size, out, intrflag, srv, up, down, dups >>

Interrupt ==
    /\ MayInterrupt /\ ~intrflag /\ pc # "done"
    /\ intrflag' = TRUE
    /\ UNCHANGED << client, srv, wire >>

ClientStep ==
    \/ NextFile \/ NewAck
    \/ Transmit \/ Skip \/ GiveUp
    \/ PollTimeout \/ PollInterrupted \/ SocketFails \/ Interrupted
    \/ PortMismatch
    \/ sock # << >> /\ (GotOack \/ GotError \/ GotData \/ GotOtherData)

-----------------------------------------------------------------------------
(* The servers                                                             *)

(* off: octets acknowledged; out: block number (0 for an OACK) of the      *)
(* packet sent last, which is pkt.                                         *)
Idle == [st |-> "free", file |-> 0, off |-> 0, num |-> 0, seg |-> 0,
         pkt |-> Error(NoPort), tries |-> 0]

Answer(p, s) ==
    /\ SendDown(s.pkt)
    /\ srv' = [srv EXCEPT ![p] = s]

DataAt(p, file, off, num, seg) ==
    Data(p, num, Chunk(Files[file], off, seg))

(* An RRQ starts an instance.  With the blksize option in it the server    *)
(* may take it, offer a smaller one, or ignore options.                    *)
ServerStart(p) ==
    \E pkt \in up :
        /\ pkt.op = "RRQ" /\ pkt.port = Listener /\ srv[p].st = "free"
        /\ TakeUp(pkt)
        /\ \/ Answer(p, [st |-> "open", file |-> pkt.num, off |-> 0,
                         num |-> NextBlock(0), seg |-> SegSize,
                         pkt |-> DataAt(p, pkt.num, 0, NextBlock(0), SegSize),
                         tries |-> 0])
           \/ \E k \in {OptBlksize, OptBlksize - 1} :
                /\ k > 0
                /\ Answer(p, [st |-> "open", file |-> pkt.num, off |-> 0,
                              num |-> 0, seg |-> k, pkt |-> Oack(p, k),
                              tries |-> 0])
        /\ UNCHANGED << client, intrflag, sock >>

(* The ACK it waits for: the next block, or the end after a short one.     *)
ServerAdvance(p) ==
    \E pkt \in up :
        /\ pkt.op = "ACK" /\ pkt.port = p
        /\ srv[p].st = "open" /\ pkt.num = srv[p].num
        /\ TakeUp(pkt)
        /\ LET s    == srv[p]
               off2 == IF s.pkt.op = "DATA" THEN s.off + Len(s.pkt.data) ELSE 0
           IN  IF s.pkt.op = "DATA" /\ Len(s.pkt.data) < s.seg
               THEN /\ srv' = [srv EXCEPT ![p].st = "closed", ![p].off = off2]
                    /\ UNCHANGED down
               ELSE Answer(p, [s EXCEPT
                        !.off = off2, !.num = NextBlock(@), !.tries = 0,
                        !.pkt = DataAt(p, s.file, off2, NextBlock(s.num), s.seg)])
        /\ UNCHANGED << client, intrflag, sock >>

ServerDrop(p) ==
    \E pkt \in up :
        /\ pkt.op \in {"ACK", "RRQ"} /\ pkt.port = p
        /\ ~(pkt.op = "ACK" /\ srv[p].st = "open" /\ pkt.num = srv[p].num)
        /\ TakeUp(pkt)
        /\ UNCHANGED << client, intrflag, srv, down, sock >>

ServerRetransmit(p) ==
    /\ srv[p].st = "open" /\ srv[p].tries < MaxRetries
    /\ Answer(p, [srv[p] EXCEPT !.tries = @ + 1])
    /\ UNCHANGED << client, intrflag, up, sock, dups >>

ServerFails(p) ==
    /\ MayFail /\ srv[p].st = "open"
    /\ Answer(p, [srv[p] EXCEPT !.st = "dead", !.pkt = Error(p)])
    /\ UNCHANGED << client, intrflag, up, sock, dups >>

ServerStep ==
    \E p \in Ports :
        \/ ServerStart(p) \/ ServerAdvance(p) \/ ServerDrop(p)
        \/ ServerRetransmit(p) \/ ServerFails(p)

NetworkStep == Deliver /\ UNCHANGED << client, intrflag, srv >>

-----------------------------------------------------------------------------

Init ==
    /\ job = 1 /\ report = [j \in Jobs |-> "none"]
    /\ pc = "top" /\ block = 1 /\ firsttrip = TRUE
    /\ ap = Request("RRQ", 1) /\ n = 0 /\ amount = 0
    /\ timeouts = 0 /\ error = FALSE
    /\ serv = NoPort /\ peer = Listener
    /\ segment_size = SegSize
    /\ bufs = WInit(Blank)
    /\ out = [j \in Jobs |-> << >>]
    /\ intrflag = FALSE
    /\ srv = [p \in Ports |-> Idle]
    /\ WireInit

(* The command is over.                                                    *)
Finished == pc = "done" /\ job = Len(Files) /\ UNCHANGED vars

Next == ClientStep \/ ServerStep \/ NetworkStep \/ Interrupt \/ Finished

Spec == Init /\ [][Next]_vars

(* The client's process is scheduled; nothing is asked of the network or   *)
(* of the servers.                                                         *)
FairSpec == Spec /\ WF_vars(ClientStep)

-----------------------------------------------------------------------------
(* Properties                                                              *)

TypeOK ==
    /\ job \in Jobs
    /\ report \in [Jobs -> Reports]
    /\ pc \in {"top", "loop", "poll", "done"}
    /\ block \in 0..(BlockMod - 1)
    /\ firsttrip \in BOOLEAN /\ error \in BOOLEAN /\ intrflag \in BOOLEAN
    /\ n \in Nat /\ amount \in Nat /\ timeouts \in Nat
    /\ serv \in Ports \cup {NoPort} /\ peer \in Ports \cup {Listener}
    /\ segment_size \in Nat \ {0}

IsPrefix2(s, t) == Len(s) <= Len(t) /\ s = SubSeq(t, 1, Len(s))

(* "Received N bytes" is reported only of a file that is all there, and N  *)
(* is its size.                                                            *)
ReceivedIsFile ==
    /\ \A j \in Jobs : report[j] = "received" => out[j] = Files[j]
    /\ report[job] = "received" => amount = Len(out[job])

(* The first transfer of a command has a fresh socket: what is reported    *)
(* received then is all there whatever the servers do with the blksize     *)
(* option, while they repeat nothing.                                      *)
FirstIsReceived == report[1] = "received" => out[1] = Files[1]

(* Until the user interrupts, the local file is the beginning of the       *)
(* remote one: no block is written twice, out of order or from the wrong   *)
(* buffer, whatever is repeated, reordered or given up.                    *)
FileIsPrefix ==
    \A j \in Jobs : report[j] # "interrupted" => IsPrefix2(out[j], Files[j])

(* "write data to file": nothing but the beginning of the remote file is   *)
(* ever written, interrupted or not.                                       *)
OnlyFileWritten == \A j \in Jobs : IsPrefix2(out[j], Files[j])

(* Octets in the buffers that are still to be written.                     *)
Held == Len(Flushed(bufs))

(* What the server holds for acknowledged is in the file or in a buffer,   *)
(* so an ACK never runs ahead of the data, for as long as recvfile() runs. *)
AckedIsKept ==
    (pc # "done" /\ serv # NoPort) =>
        srv[serv].off <= Len(out[job]) + Held

(* Every command comes to an end: each wait is bounded by Maxtimeout.      *)
Termination == <>(pc = "done" /\ job = Len(Files))

(* One transfer implements FileTransfer: the destination is the local      *)
(* file.                                                                   *)
Verdict == IF report[1] = "none" THEN "none"
           ELSE IF report[1] = "received" THEN "complete" ELSE "incomplete"

FT == INSTANCE FileTransfer WITH Source <- Files[1], dest <- out[1],
                                 verdict <- Verdict

ImplementsFileTransfer == FT!SafeSpec
=============================================================================
