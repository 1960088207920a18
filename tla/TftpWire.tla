------------------------------ MODULE TftpWire ------------------------------
(***************************************************************************)
(* The packets of one tftp client and its servers, the network that        *)
(* carries them, and the client's UDP socket.                              *)
(*                                                                         *)
(* The network may lose, duplicate and reorder packets.  "up" and "down"   *)
(* are the packets under way to the servers and to the client; each holds  *)
(* at most Window of them, and a packet sent into a full direction pushes  *)
(* another one out (the loss of any other packet is that nobody ever takes *)
(* it).  A delivered packet may stay under way, which is a duplication;    *)
(* MaxDups bounds those.  With Window = 1 no packet overtakes a later one. *)
(*                                                                         *)
(* The socket is the one setpeer() opened: it queues SockMax packets, and  *)
(* it survives from one transfer to the next.                              *)
(***************************************************************************)
EXTENDS Integers, Sequences, FiniteSets

CONSTANTS
    Ports,      \* the ports (transfer identifiers) servers answer from
    Listener,   \* the well-known port requests are sent to
    NoPort,     \* "serv" before the first answer
    BlockMod,   \* block numbers are uint16_t: 65536 in the code
    Window,     \* packets under way in one direction
    SockMax,    \* packets the socket queues
    MaxDups     \* duplications by the network

ASSUME WireAssumption ==
    /\ Listener \notin Ports
    /\ NoPort \notin Ports \cup {Listener}
    /\ BlockMod \in Nat /\ BlockMod > 1
    /\ Window \in Nat \ {0} /\ SockMax \in Nat \ {0} /\ MaxDups \in Nat

VARIABLES
    up,         \* packets under way to the servers; port is the destination
    down,       \* packets under way to the client; port is the sender
    sock,       \* packets queued in the client's socket
    dups        \* duplications so far

wire == << up, down, sock, dups >>

Packet(op, port, num, data) ==
    [op |-> op, port |-> port, num |-> num, data |-> data]

(* num is a block number, the file an RRQ or WRQ names, or the blksize of  *)
(* an OACK (0: the option is not in it).                                   *)
Request(op, file)    == Packet(op, Listener, file, << >>)
Data(port, num, d)   == Packet("DATA", port, num, d)
Ack(port, num)       == Packet("ACK", port, num, << >>)
Error(port)          == Packet("ERROR", port, 0, << >>)

(* The octets an OACK occupies after its first four, as a data block.      *)
OPTION_TEXT == -1
Oack(port, blksize)  == Packet("OACK", port, blksize, << OPTION_TEXT >>)

NextBlock(n) == (n + 1) % BlockMod

-----------------------------------------------------------------------------
(* The directions after a packet p is sent into one that holds ch.         *)
Sent(ch, p) ==
    IF Cardinality(ch \cup {p}) <= Window
    THEN { ch \cup {p} }
    ELSE { (ch \ {q}) \cup {p} : q \in ch }

SendUp(p)   == up' \in Sent(up, p)
SendDown(p) == down' \in Sent(down, p)

(* A server takes packet p.                                                *)
TakeUp(p) ==
    \/ up' = up \ {p} /\ UNCHANGED dups
    \/ dups < MaxDups /\ dups' = dups + 1 /\ UNCHANGED up

(* Packet p reaches the client's socket.                                   *)
Deliver ==
    \E p \in down :
        /\ Len(sock) < SockMax
        /\ sock' = Append(sock, p)
        /\ \/ down' = down \ {p} /\ UNCHANGED dups
           \/ dups < MaxDups /\ dups' = dups + 1 /\ UNCHANGED down
        /\ UNCHANGED up

(* synchnet(): whatever is queued in the socket is thrown away.            *)
Synchnet == sock' = << >>

WireInit == up = {} /\ down = {} /\ sock = << >> /\ dups = 0
=============================================================================
