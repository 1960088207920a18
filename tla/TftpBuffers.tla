---------------------------- MODULE TftpBuffers ----------------------------
(***************************************************************************)
(* The two packet buffers of tftp's read-ahead and write-behind code       *)
(* (tftpsubs.c).  A transfer uses both buffers of bfs[] in turn: "current" *)
(* is the one handed to sendfile() or recvfile(), "nextone" the one that   *)
(* the next read_ahead() fills or the next write_behind() flushes.         *)
(*                                                                         *)
(* Every operator takes the buffer state b and returns the buffer state    *)
(* the C function leaves.  Octets are opaque: in netascii mode the stream  *)
(* named here is the converted one.                                        *)
(***************************************************************************)
EXTENDS Integers, Sequences

BF_ALLOC == -3          \* handed out, not filled yet
BF_FREE  == -2          \* free
READ_ERROR == -1        \* read() failed; 0 and above is a size

Least(m, n) == IF m < n THEN m ELSE n

Other(i) == 1 - i       \* the C code's !i on a buffer index

ZERO == 0               \* what static memory holds before it is written

Blank ==
    [counter |-> [i \in {0, 1} |-> BF_FREE],
     data    |-> [i \in {0, 1} |-> << >>],
     current |-> 0,
     nextone |-> 0,
     pos     |-> 0]

(* rw_init(x): buffer 0 is handed out at once; nextone is 1 for read-ahead *)
(* and 0 for write-behind.  The octets an earlier transfer left in the     *)
(* buffers stay there.  pos is the offset of the newly opened file.        *)
RwInit(b, x) ==
    [counter |-> [i \in {0, 1} |-> IF i = 0 THEN BF_ALLOC ELSE BF_FREE],
     data    |-> b.data,
     current |-> 0,
     nextone |-> x,
     pos     |-> 0]

RInit(b) == RwInit(b, 1)
WInit(b) == RwInit(b, 0)

-----------------------------------------------------------------------------
(* Read-ahead                                                              *)

(* What a read of at most seg octets at offset pos of the stream returns.  *)
Chunk(stream, pos, seg) == SubSeq(stream, pos + 1, Least(pos + seg, Len(stream)))

(* Variant: read_ahead() without its test that the buffer is free.         *)
FillWithUnguarded(b, ct, d) ==
    [counter |-> [b.counter EXCEPT ![b.nextone] = ct],
     data    |-> [b.data EXCEPT ![b.nextone] = d],
     current |-> b.current,
     nextone |-> Other(b.nextone),
     pos     |-> b.pos + Len(d)]

(* read_ahead() filling buffer nextone with d and counter ct: nothing      *)
(* happens while that buffer is not free.                                  *)
FillWith(b, ct, d) ==
    IF b.counter[b.nextone] # BF_FREE
    THEN b
    ELSE [counter |-> [b.counter EXCEPT ![b.nextone] = ct],
          data    |-> [b.data EXCEPT ![b.nextone] = d],
          current |-> b.current,
          nextone |-> Other(b.nextone),
          pos     |-> b.pos + Len(d)]

ReadAhead(b, stream, seg) ==
    LET d == Chunk(stream, b.pos, seg) IN FillWith(b, Len(d), d)

(* The same when the file cannot be read.  read() reports it by -1; the    *)
(* netascii loop calls getc(), takes the EOF it returns for the end of the *)
(* file and keeps the k octets it has so far.                              *)
ReadAheadFails(b, stream, seg, convert) ==
    IF convert
    THEN { FillWith(b, Len(d), d) :
             d \in { Chunk(stream, b.pos, k) : k \in 0..(seg - 1) } }
    ELSE { FillWith(b, READ_ERROR, << >>) }

(* readit() up to its call of read_ahead(): the buffer just acknowledged   *)
(* is free and the other one becomes current.                              *)
Advance(b) ==
    [counter |-> [b.counter EXCEPT ![b.current] = BF_FREE],
     data    |-> b.data,
     current |-> Other(b.current),
     nextone |-> b.nextone,
     pos     |-> b.pos]

NeedsFill(b) == b.counter[b.current] = BF_FREE

-----------------------------------------------------------------------------
(* Write-behind                                                            *)

(* write_behind(): the octets it appends to the file, and the buffers.     *)
Flushable(b) == b.counter[b.nextone] >= -1

Flushed(b) ==
    IF Flushable(b) /\ b.counter[b.nextone] > 0
    THEN LET d == b.data[b.nextone]
         IN  [i \in 1..b.counter[b.nextone] |->
                 IF i <= Len(d) THEN d[i] ELSE ZERO]
    ELSE << >>

(* Variant: write_behind() without the switch to the other buffer.         *)
WriteBehindNoSwitch(b) ==
    IF Flushable(b)
    THEN [b EXCEPT !.counter[b.nextone] = BF_FREE]
    ELSE b

WriteBehind(b) ==
    IF Flushable(b)
    THEN [b EXCEPT !.counter[b.nextone] = BF_FREE, !.nextone = Other(@)]
    ELSE b

(* recvfrom() into the current buffer: it overwrites the first octets.     *)
RecvInto(b, d) == [b EXCEPT !.data[b.current] =
                      d \o SubSeq(@, Len(d) + 1, Len(@))]

(* writeit(ct) up to its call of write_behind(), which it makes only when  *)
(* the buffer it turns to is not free; and from there on.                  *)
Submit(b, ct) == [b EXCEPT !.counter[b.current] = ct, !.current = Other(@)]

MustFlush(b) == b.counter[b.current] # BF_FREE

HandOut(b) == [b EXCEPT !.counter[b.current] = BF_ALLOC]

WriteIt(b, ct) ==
    LET s == Submit(b, ct)
    IN  HandOut(IF MustFlush(s) THEN WriteBehind(s) ELSE s)

WriteItFlushes(b, ct) ==
    LET s == Submit(b, ct)
    IN  IF MustFlush(s) THEN Flushed(s) ELSE << >>
=============================================================================
