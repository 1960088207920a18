------------------------------ MODULE TftpSend ------------------------------
(***************************************************************************)
(* tftp's sendfile(), called once for every file of one "put" command,     *)
(* with the servers it talks to.                                           *)
(*                                                                         *)
(* The client is one thread: "pc" is "top" at the head of the do loop,     *)
(* "loop" at the head of the inner for loop, "poll" in poll(), "done" when *)
(* sendfile() has returned.  SIGINT only sets intrflag and may come at any *)
(* point.  The servers are not part of the repository: each request that   *)
(* reaches the listener starts an instance with a port of its own, which   *)
(* follows RFC 1350 (acknowledges the block it expects and the one before  *)
(* it) and may fail.                                                       *)
(***************************************************************************)
EXTENDS TftpWire, TftpBuffers

CONSTANTS
    Files,          \* the files of the command: a sequence of octet sequences
    SegSize,        \* SEGSIZE, 512 in the code
    OptBlksize,     \* the blksize option, 0 when it is not set
    Rexmtval,       \* seconds poll() waits for an answer
    Maxtimeout,     \* seconds of silence after which a block is given up
    MaxRetries,     \* retransmissions by a server of one answer
    Convert,        \* netascii mode
    MayFail,        \* whether reading the file and the socket may fail
    MayInterrupt    \* whether the user may press ^C

ASSUME SendAssumption ==
    /\ Files \in Seq(Seq(Int)) /\ Files # << >>
    /\ SegSize \in Nat \ {0} /\ OptBlksize \in Nat
    /\ Rexmtval \in Nat \ {0} /\ Maxtimeout \in Nat \ {0}
    /\ MaxRetries \in Nat
    /\ {Convert, MayFail, MayInterrupt} \subseteq BOOLEAN

VARIABLES
    job,        \* the file being sent, an index of Files
    report,     \* per file, how its transfer ended
    pc,
    block,      \* block number of the packet being sent
    firsttrip,  \* that packet is still the WRQ
    size,       \* octets of the block being sent
    amount,     \* octets counted as sent
    timeouts,   \* seconds of silence since the packet was first sent
    error,      \* the last packet received did not match
    serv, peer, \* the server's port once it has answered; where we send to
    segment_size,
    intrflag,
    bufs,       \* the read-ahead buffers
    srv         \* per port, the server instance behind it

client == << job, report, pc, block, firsttrip, size, amount, timeouts, error,
             serv, peer, segment_size, bufs >>
vars == << client, intrflag, srv, wire >>

Jobs == 1..Len(Files)
File == Files[job]

Reports == {"none", "sent", "timeout", "failed", "port mismatch", "nak",
            "interrupted"}

CurrentData == bufs.data[bufs.current]

-----------------------------------------------------------------------------
(* The client                                                              *)

(* The assignments before the do loop.                                     *)
StartJob(j) ==
    /\ job' = j
    /\ pc' = "top"
    /\ block' = 0 /\ firsttrip' = TRUE /\ size' = 0 /\ amount' = 0
    /\ timeouts' = 0 /\ error' = FALSE
    /\ serv' = NoPort /\ peer' = Listener
    /\ bufs' = RInit(bufs)
    /\ UNCHANGED << report, segment_size >>

Return(r) ==
    /\ pc' = "done"
    /\ report' = [report EXCEPT ![job] = r]

(* Variant: put() going one past its last argument.                        *)
NextFileOffByOne ==
    /\ pc = "done" /\ job <= Len(Files)
    /\ StartJob(job + 1)
    /\ UNCHANGED << intrflag, srv, wire >>

(* put() opens the next file and calls sendfile() again: same socket, same *)
(* segment_size, same intrflag.                                            *)
NextFile ==
    /\ pc = "done" /\ job < Len(Files)
    /\ StartJob(job + 1)
    /\ UNCHANGED << intrflag, srv, wire >>

(* The head of the do loop on the first trip: the packet is the WRQ.       *)
MakeRequest ==
    /\ pc = "top" /\ firsttrip
    /\ pc' = "loop" /\ timeouts' = 0 /\ error' = FALSE
    /\ UNCHANGED << job, report, block, firsttrip, size, amount, serv, peer,
                    segment_size, bufs, intrflag, srv, wire >>

ReadAheads(b) ==
    { ReadAhead(b, File, segment_size) } \cup
    (IF MayFail THEN ReadAheadFails(b, File, segment_size, Convert) ELSE {})

(* Variant: the result of readit() is not tested for an error.             *)
ReadItUnchecked ==
    /\ pc = "top" /\ ~firsttrip
    /\ LET b == Advance(bufs)
       IN  bufs' \in IF NeedsFill(b) THEN ReadAheads(b) ELSE {b}
    /\ size' = bufs'.counter[bufs'.current]
    /\ timeouts' = 0 /\ error' = FALSE
    /\ pc' = "loop"
    /\ UNCHANGED << job, report, block, firsttrip, amount, serv, peer,
                    segment_size, intrflag, srv, wire >>

(* The head of the do loop on the later trips: readit(), and the nak when  *)
(* it reports an error.                                                    *)
ReadIt ==
    /\ pc = "top" /\ ~firsttrip
    /\ LET b == Advance(bufs)
       IN  bufs' \in IF NeedsFill(b) THEN ReadAheads(b) ELSE {b}
    /\ size' = bufs'.counter[bufs'.current]
    /\ timeouts' = 0 /\ error' = FALSE
    /\ IF size' < 0
       THEN Return("nak") /\ SendUp(Error(peer))
       ELSE pc' = "loop" /\ UNCHANGED << report, up >>
    /\ UNCHANGED << job, block, firsttrip, amount, serv, peer, segment_size,
                    intrflag, srv, down, sock, dups >>

InTime == pc = "loop" /\ ~intrflag /\ timeouts < Maxtimeout

(* sendto(), then read_ahead() once there is data to send.                 *)
Transmit ==
    /\ InTime /\ ~error
    /\ SendUp(IF firsttrip THEN Packet("WRQ", peer, job, << >>)
                           ELSE Data(peer, block, CurrentData))
    /\ bufs' \in IF firsttrip THEN {bufs} ELSE ReadAheads(bufs)
    /\ pc' = "poll"
    /\ UNCHANGED << job, report, block, firsttrip, size, amount, timeouts,
                    error, serv, peer, segment_size, intrflag, srv,
                    down, sock, dups >>

(* After a packet that did not match, nothing is sent.                     *)
Skip ==
    /\ InTime /\ error
    /\ error' = FALSE /\ pc' = "poll"
    /\ UNCHANGED << job, report, block, firsttrip, size, amount, timeouts,
                    serv, peer, segment_size, bufs, intrflag, srv, wire >>

GiveUp ==
    /\ pc = "loop" /\ ~intrflag /\ timeouts >= Maxtimeout
    /\ Return("timeout")
    /\ UNCHANGED << job, block, firsttrip, size, amount, timeouts, error, serv,
                    peer, segment_size, bufs, intrflag, srv, wire >>

(* Variant: silence is not counted.                                        *)
PollTimeoutUncounted ==
    /\ pc = "poll" /\ sock = << >>
    /\ pc' = "loop"
    /\ UNCHANGED << job, report, block, firsttrip, timeouts, size, amount, error, serv,
                    peer, segment_size, bufs, intrflag, srv, wire >>

PollTimeout ==
    /\ pc = "poll" /\ sock = << >>
    /\ timeouts' = timeouts + Rexmtval
    /\ pc' = "loop"
    /\ UNCHANGED << job, report, block, firsttrip, size, amount, error, serv,
                    peer, segment_size, bufs, intrflag, srv, wire >>

(* poll() returns -1 with EINTR, or fails for good, as sendto() and        *)
(* recvfrom() may.                                                         *)
PollInterrupted ==
    /\ pc = "poll" /\ intrflag
    /\ error' = TRUE /\ pc' = "loop"
    /\ UNCHANGED << job, report, block, firsttrip, size, amount, timeouts,
                    serv, peer, segment_size, bufs, intrflag, srv, wire >>

SocketFails ==
    /\ MayFail /\ (pc = "poll" \/ (InTime /\ ~error))
    /\ Return("failed")
    /\ UNCHANGED << job, block, firsttrip, size, amount, timeouts, error, serv,
                    peer, segment_size, bufs, intrflag, srv, wire >>

(* Variants: the first trip is counted as data sent; the block size that   *)
(* an OACK has just changed is not the one the first trip goes by.         *)
EndTripCountsRequest(intr, seg) ==
    LET sz == IF firsttrip THEN seg ELSE size
    IN  /\ size' = sz
        /\ amount' = amount + sz
        /\ firsttrip' = FALSE
        /\ block' = NextBlock(block)
        /\ IF sz = seg /\ ~intr
           THEN pc' = "top" /\ UNCHANGED report
           ELSE Return(IF intr THEN "interrupted" ELSE "sent")

EndTripOldSize(intr, seg) ==
    LET sz == IF firsttrip THEN segment_size ELSE size
    IN  /\ size' = sz
        /\ amount' = IF firsttrip THEN amount ELSE amount + size
        /\ firsttrip' = FALSE
        /\ block' = NextBlock(block)
        /\ IF sz = seg /\ ~intr
           THEN pc' = "top" /\ UNCHANGED report
           ELSE Return(IF intr THEN "interrupted" ELSE "sent")

(* What follows the inner loop, with intr the value intrflag has by then   *)
(* and seg that of segment_size.  An interrupted wait ends up here too.    *)
EndTrip(intr, seg) ==
    LET sz == IF firsttrip THEN seg ELSE size
    IN  /\ size' = sz
        /\ amount' = IF firsttrip THEN amount ELSE amount + size
        /\ firsttrip' = FALSE
        /\ block' = NextBlock(block)
        /\ IF sz = seg /\ ~intr
           THEN pc' = "top" /\ UNCHANGED report
           ELSE Return(IF intr THEN "interrupted" ELSE "sent")

Interrupted ==
    /\ pc = "loop" /\ intrflag
    /\ EndTrip(TRUE, segment_size)
    /\ UNCHANGED << job, timeouts, error, serv, peer, segment_size, bufs,
                    intrflag, srv, wire >>

(* recvfrom() takes the first packet of the socket; its port must be that  *)
(* of the first packet of this transfer.                                   *)
KnownPort(p) == serv \in {NoPort, p.port}

RecvFrom(p) ==
    /\ pc = "poll" /\ sock # << >> /\ p = Head(sock)
    /\ KnownPort(p)
    /\ serv' = p.port /\ peer' = p.port

PortMismatch ==
    /\ pc = "poll" /\ sock # << >> /\ ~KnownPort(Head(sock))
    /\ sock' = Tail(sock)
    /\ Return("port mismatch")
    /\ UNCHANGED << job, block, firsttrip, size, amount, timeouts, error, serv,
                    peer, segment_size, bufs, intrflag, srv, up, down, dups >>

(* oack_set() takes the block size the client asked for; at any other it   *)
(* stops the command (it sets intrflag) and naks to the well-known port.   *)
OackSet(blksize) ==
    IF blksize \in {0, OptBlksize}
    THEN /\ segment_size' = IF blksize = 0 THEN segment_size ELSE blksize
         /\ UNCHANGED << intrflag, up >>
    ELSE /\ intrflag' = TRUE
         /\ SendUp(Error(Listener))
         /\ UNCHANGED segment_size

(* An OACK ends the wait whatever packet it was for.                       *)
GotOack ==
    \E p \in {Head(sock)} :
        /\ RecvFrom(p) /\ p.op = "OACK"
        /\ OackSet(p.num)
        /\ EndTrip(intrflag', segment_size')
        /\ sock' = Tail(sock)
        /\ UNCHANGED << job, timeouts, error, bufs, srv, down, dups >>

GotError ==
    \E p \in {Head(sock)} :
        /\ RecvFrom(p) /\ p.op = "ERROR"
        /\ Return("failed")
        /\ sock' = Tail(sock)
        /\ UNCHANGED << job, block, firsttrip, size, amount, timeouts, error,
                        segment_size, bufs, intrflag, srv, up, down, dups >>

(* Variant: any ACK ends the wait.                                         *)
GotAckOfAny ==
    \E p \in {Head(sock)} :
        /\ RecvFrom(p) /\ p.op = "ACK"
        /\ EndTrip(intrflag, segment_size)
        /\ sock' = Tail(sock)
        /\ UNCHANGED << job, timeouts, error, segment_size, bufs, intrflag,
                        srv, up, down, dups >>

GotAck ==
    \E p \in {Head(sock)} :
        /\ RecvFrom(p) /\ p.op = "ACK" /\ p.num = block
        /\ EndTrip(intrflag, segment_size)
        /\ sock' = Tail(sock)
        /\ UNCHANGED << job, timeouts, error, segment_size, bufs, intrflag,
                        srv, up, down, dups >>

(* Any other ACK: synchnet() empties the socket, and the packet is sent    *)
(* again only if the ACK was for the block before (compared as int, so     *)
(* block 0 has none before it).                                            *)
GotOtherAck ==
    \E p \in {Head(sock)} :
        /\ RecvFrom(p) /\ p.op = "ACK" /\ p.num # block
        /\ error' = (p.num # block - 1)
        /\ pc' = "loop"
        /\ Synchnet
        /\ UNCHANGED << job, report, block, firsttrip, size, amount, timeouts,
                        segment_size, bufs, intrflag, srv, up, down, dups >>

Interrupt ==
    /\ MayInterrupt /\ ~intrflag /\ pc # "done"
    /\ intrflag' = TRUE
    /\ UNCHANGED << client, srv, wire >>

ClientStep ==
    \/ NextFile \/ MakeRequest \/ ReadIt
    \/ Transmit \/ Skip \/ GiveUp
    \/ PollTimeout \/ PollInterrupted \/ SocketFails \/ Interrupted
    \/ PortMismatch
    \/ sock # << >> /\ (GotOack \/ GotError \/ GotAck \/ GotOtherAck)

-----------------------------------------------------------------------------
(* The servers                                                             *)

Idle == [st |-> "free", file |-> 0, rcvd |-> << >>, next |-> 0, seg |-> 0,
         reply |-> Error(NoPort), tries |-> 0]

Answer(p, pkt, s) ==
    /\ SendDown(pkt)
    /\ srv' = [srv EXCEPT ![p] = s]

(* A WRQ starts an instance.  With the blksize option in it the server may *)
(* take it, offer a smaller one, or ignore options.                        *)
ServerStart(p) ==
    \E pkt \in up :
        /\ pkt.op = "WRQ" /\ pkt.port = Listener /\ srv[p].st = "free"
        /\ TakeUp(pkt)
        /\ \E n \in IF OptBlksize = 0 THEN {0}
                    ELSE {0, OptBlksize} \cup (IF OptBlksize > 1
                                               THEN {OptBlksize - 1} ELSE {}) :
             LET reply == IF n = 0 THEN Ack(p, 0) ELSE Oack(p, n)
             IN  Answer(p, reply,
                        [st |-> "open", file |-> pkt.num, rcvd |-> << >>,
                         next |-> NextBlock(0),
                         seg |-> IF n = 0 THEN SegSize ELSE n,
                         reply |-> reply, tries |-> 0])
        /\ UNCHANGED << client, intrflag, sock >>

(* The block it expects is stored and acknowledged; a short one ends the   *)
(* file.                                                                   *)
ServerStore(p) ==
    \E pkt \in up :
        /\ pkt.op = "DATA" /\ pkt.port = p
        /\ srv[p].st = "open" /\ pkt.num = srv[p].next
        /\ TakeUp(pkt)
        /\ Answer(p, Ack(p, pkt.num),
                  [st |-> IF Len(pkt.data) < srv[p].seg THEN "closed" ELSE "open",
                   file |-> srv[p].file, rcvd |-> srv[p].rcvd \o pkt.data,
                   next |-> NextBlock(srv[p].next), seg |-> srv[p].seg,
                   reply |-> Ack(p, pkt.num), tries |-> 0])
        /\ UNCHANGED << client, intrflag, sock >>

(* The block before is acknowledged again, any other one dropped.          *)
ServerDrop(p) ==
    \E pkt \in up :
        /\ pkt.op \in {"DATA", "WRQ"} /\ pkt.port = p
        /\ ~(pkt.op = "DATA" /\ srv[p].st = "open" /\ pkt.num = srv[p].next)
        /\ TakeUp(pkt)
        /\ IF pkt.op = "DATA" /\ srv[p].st \in {"open", "closed"}
              /\ NextBlock(pkt.num) = srv[p].next
           THEN Answer(p, Ack(p, pkt.num), srv[p])
           ELSE UNCHANGED << srv, down >>
        /\ UNCHANGED << client, intrflag, sock >>

ServerRetransmit(p) ==
    /\ srv[p].st = "open" /\ srv[p].tries < MaxRetries
    /\ Answer(p, srv[p].reply, [srv[p] EXCEPT !.tries = @ + 1])
    /\ UNCHANGED << client, intrflag, up, sock, dups >>

(* The server gives up, or is told to by an ERROR.                         *)
ServerFails(p) ==
    /\ MayFail /\ srv[p].st = "open"
    /\ Answer(p, Error(p), [srv[p] EXCEPT !.st = "dead"])
    /\ UNCHANGED << client, intrflag, up, sock, dups >>

ServerGotError(p) ==
    \E pkt \in up :
        /\ pkt.op = "ERROR" /\ pkt.port = p /\ srv[p].st = "open"
        /\ TakeUp(pkt)
        /\ srv' = [srv EXCEPT ![p].st = "dead"]
        /\ UNCHANGED << client, intrflag, down, sock >>

ServerStep ==
    \E p \in Ports :
        \/ ServerStart(p) \/ ServerStore(p) \/ ServerDrop(p)
        \/ ServerRetransmit(p) \/ ServerFails(p) \/ ServerGotError(p)

NetworkStep == Deliver /\ UNCHANGED << client, intrflag, srv >>

-----------------------------------------------------------------------------

Init ==
    /\ job = 1 /\ report = [j \in Jobs |-> "none"]
    /\ pc = "top" /\ block = 0 /\ firsttrip = TRUE /\ size = 0 /\ amount = 0
    /\ timeouts = 0 /\ error = FALSE
    /\ serv = NoPort /\ peer = Listener
    /\ segment_size = SegSize
    /\ bufs = RInit(Blank)
    /\ intrflag = FALSE
    /\ srv = [p \in Ports |-> Idle]
    /\ WireInit

(* The command is over.                                                    *)
Finished == pc = "done" /\ job = Len(Files) /\ UNCHANGED vars

Next == ClientStep \/ ServerStep \/ NetworkStep \/ Interrupt \/ Finished

Spec == Init /\ [][Next]_vars

(* The client's process is scheduled; nothing is asked of the network or   *)
(* of the servers.                                                         *)
FairSpec == Spec /\ WF_vars(ClientStep)

-----------------------------------------------------------------------------
(* Properties                                                              *)

TypeOK ==
    /\ job \in Jobs
    /\ report \in [Jobs -> Reports]
    /\ pc \in {"top", "loop", "poll", "done"}
    /\ block \in 0..(BlockMod - 1)
    /\ firsttrip \in BOOLEAN /\ error \in BOOLEAN /\ intrflag \in BOOLEAN
    /\ size \in Int /\ amount \in Int /\ timeouts \in Nat
    /\ serv \in Ports \cup {NoPort} /\ peer \in Ports \cup {Listener}
    /\ segment_size \in Nat \ {0}

IsPrefix2(s, t) == Len(s) <= Len(t) /\ s = SubSeq(t, 1, Len(s))

(* When sendfile() ends without a complaint, a server has the whole file:  *)
(* the last ACK it waits for proves that every block before was stored.    *)
SentIsStored ==
    \A j \in Jobs : report[j] = "sent" =>
        \E p \in Ports : srv[p].file = j /\ srv[p].rcvd = Files[j]

(* Whatever the network repeats or reorders, no server ever stores a block *)
(* twice, out of order or from the wrong buffer.                           *)
StoredIsPrefix ==
    \A p \in Ports : srv[p].st # "free" =>
        IsPrefix2(srv[p].rcvd, Files[srv[p].file])

(* The first transfer of a command has a fresh socket: what is reported    *)
(* sent then is stored whatever the servers do with the blksize option,    *)
(* while they repeat nothing.                                              *)
FirstIsStored ==
    report[1] = "sent" =>
        \E p \in Ports : srv[p].file = 1 /\ srv[p].rcvd = Files[1]

(* What is counted as sent is on the server, for as long as nobody presses *)
(* ^C; and "Sent N bytes" names the size of the file.                      *)
CountedIsStored ==
    /\ (~intrflag /\ serv # NoPort) => amount <= Len(srv[serv].rcvd)
    /\ report[job] = "sent" => amount = Len(File)

(* The comment on "serv": the valid server's port.  It is the port of an   *)
(* instance that serves the file being sent.                               *)
ServIsValid ==
    (pc # "done" /\ serv # NoPort) => srv[serv].file = job

(* While a block waits for its ACK the octets it would be retransmitted    *)
(* with do not change: the read-ahead fills the other buffer.              *)
RetransmitsTheSame ==
    [][(~firsttrip /\ pc # "top" /\ pc' # "top") => CurrentData' = CurrentData]_vars

(* Every command comes to an end: each wait is bounded by Maxtimeout.      *)
Termination == <>(pc = "done" /\ job = Len(Files))

(* One transfer implements FileTransfer: the destination is what the       *)
(* instance the client talks to has stored.                                *)
Dest == IF serv = NoPort THEN << >> ELSE srv[serv].rcvd

Verdict == IF report[1] = "none" THEN "none"
           ELSE IF report[1] = "sent" THEN "complete" ELSE "incomplete"

FT == INSTANCE FileTransfer WITH Source <- Files[1], dest <- Dest,
                                 verdict <- Verdict

ImplementsFileTransfer == FT!SafeSpec
=============================================================================
