------------------------------ MODULE EdBuffer ------------------------------
(***************************************************************************)
(* The buffer of ed: a ring of line nodes linked in both directions, with  *)
(* a cached position in it, and the undo stack, whose entries point to     *)
(* nodes of the ring and to nodes that were taken out of it.               *)
(*                                                                         *)
(* A buffer is a record: forw and back are the links of the ring; lp and   *)
(* on are the node and the address that get_addressed_line_node() found    *)
(* last and starts from the next time.                                     *)
(***************************************************************************)
EXTENDS Integers, Sequences, FiniteSets

CONSTANTS
    BufferHead,     \* buffer_head
    Nodes           \* what malloc() can return for a line

ASSUME BufferAssumption == IsFiniteSet(Nodes) /\ BufferHead \notin Nodes

AnyNode == Nodes \cup {BufferHead}

(* Steps that are enough to go once around the ring.                       *)
Around == 0..Cardinality(Nodes)

Links == [AnyNode -> AnyNode]

(* The node k links from x.                                                *)
Along(links, x, k) ==
    LET node[i \in Nat] == IF i = 0 THEN x ELSE links[node[i - 1]]
    IN  node[k]

(* The nodes from x up to, not including, end.                             *)
Span(b, x, end) ==
    { Along(b.forw, x, k) :
        k \in { k \in Around : \A j \in 0..k : Along(b.forw, x, j) # end } }

Lines(b) == [k \in 1..b.addr_last |-> Along(b.forw, BufferHead, k)]

Reque(b, pred, succ) ==
    [b EXCEPT !.forw[pred] = succ, !.back[succ] = pred]

IncMod(l, k) == IF l + 1 > k THEN 0 ELSE l + 1

(* get_addressed_line_node(): from the cached node, or from the end of the *)
(* ring that is nearer.  An address past the end finds the last line.      *)
Found(b, n) ==
    IF n > b.on
    THEN IF n <= (b.on + b.addr_last) \div 2
         THEN Along(b.forw, b.lp, n - b.on)
         ELSE IF n > b.addr_last
              THEN b.back[BufferHead]
              ELSE Along(b.back, b.back[BufferHead], b.addr_last - n)
    ELSE IF n >= b.on \div 2
         THEN Along(b.back, b.lp, b.on - n)
         ELSE Along(b.forw, BufferHead, n)

Seek(b, n) ==
    [b EXCEPT !.lp = Found(b, n),
              !.on = IF n > b.addr_last THEN b.addr_last ELSE n]

Node(b, n) == Seek(b, n).lp

(* add_line_node(), after malloc() returned the node x.                    *)
AddLine(b, x) ==
    LET c == Seek(b, b.current_addr)
    IN  [Reque(Reque(c, x, c.forw[c.lp]), c.lp, x) EXCEPT
            !.addr_last = @ + 1, !.current_addr = @ + 1]

(* push_undo_stack() looks at the end of the range first.                  *)
PushSeeks(b, from, to) == Seek(Seek(b, to), from)
Entry(b, type, from, to) ==
    [type |-> type, h |-> Node(Seek(b, to), from), t |-> Node(b, to)]

(* Variant: the node that is taken out is looked up last.                  *)
CutLinesCached(b, from, to) ==
    LET p == Seek(b, from - 1)
        n == Seek(p, IncMod(to, b.addr_last))
        d == Seek(n, from)
    IN  [Reque(d, p.lp, n.lp) EXCEPT
            !.addr_last = @ - (to - from + 1), !.current_addr = from - 1]

(* The part of delete_lines() after the push.                              *)
CutLines(b, from, to) ==
    LET n == Seek(b, IncMod(to, b.addr_last))
        p == Seek(n, from - 1)
    IN  [Reque(p, p.lp, n.lp) EXCEPT
            !.addr_last = @ - (to - from + 1), !.current_addr = from - 1]

(* The part of move_lines() after the two pushes.                          *)
MoveTo(b, first, second, addr) ==
    LET a1 == Seek(b, IncMod(second, b.addr_last))
        p1 == IF addr < first THEN Seek(a1, first - 1) ELSE Seek(a1, addr)
        p2 == IF addr < first THEN Seek(p1, addr) ELSE Seek(p1, first - 1)
        b1 == IF addr < first THEN p1.lp ELSE p2.lp
        b2 == IF addr < first THEN p2.lp ELSE p1.lp
        a2 == p2.forw[b2]
        c1 == Reque(p2, b2, p2.forw[b1])
        c2 == Reque(c1, c1.back[a1.lp], a2)
    IN  [Reque(c2, b1, a1.lp) EXCEPT
            !.current_addr =
                addr + IF addr < first THEN second - first + 1 ELSE 0]

(* One turn of the loop of pop_undo_stack(): entry n is undone; the two    *)
(* entries of a move are undone together.  VMOV, which the code tells from *)
(* UMOV nowhere, is not distinguished here.                                *)
Undone(b, us, n) ==
    LET e == us[n] IN
    CASE e.type = "UADD" -> Reque(b, b.back[e.h], b.forw[e.t])
      [] e.type = "UDEL" ->
            LET c == Reque(b, b.back[e.h], e.h)
            IN  Reque(c, e.t, c.forw[e.t])
      [] e.type = "UMOV" ->
            LET d == us[n - 1]
                c1 == Reque(b, d.h, b.forw[e.h])
                c2 == Reque(c1, c1.back[e.t], d.t)
            IN  Reque(c2, e.h, e.t)

(* The loop: state[k] is the buffer after k turns, and the entry that is   *)
(* the next one to be undone.                                              *)
Turn(s, us) ==
    IF s.n = 0 THEN s
    ELSE [buf |-> Undone(s.buf, us, s.n),
          n |-> IF us[s.n].type = "UMOV" THEN s.n - 2 ELSE s.n - 1]

UndoneAll(b, us) ==
    LET state[k \in Nat] ==
            IF k = 0 THEN [buf |-> b, n |-> Len(us)] ELSE Turn(state[k - 1], us)
    IN  state[Len(us)].buf

(* What undoing has made of an entry: "type ^= 1".                         *)
Flipped(e) ==
    [e EXCEPT !.type = CASE @ = "UADD" -> "UDEL"
                         [] @ = "UDEL" -> "UADD"
                         [] OTHER -> @]

(* Variant: the order is not reversed.                                     *)
InvertedInOrder(us) == [i \in 1..Len(us) |-> Flipped(us[i])]

(* The stack after undoing: the entries flipped, and their order reversed. *)
Inverted(us) == [i \in 1..Len(us) |-> Flipped(us[Len(us) + 1 - i])]

(* Variant: the last line of a range is forgotten.                         *)
CutOutShort(b, e) == IF e.type = "UDEL" THEN Span(b, e.h, e.t) ELSE {}

(* The nodes clear_undo_stack() frees: those between the ends of the       *)
(* entries that stand for lines now out of the buffer.                     *)
CutOut(b, e) == IF e.type = "UDEL" THEN Span(b, e.h, b.forw[e.t]) ELSE {}

(* The elements of a list that are in a set, in their order.               *)
Only(list, set) ==
    LET kept[i \in 0..Len(list)] ==
            IF i = 0 THEN << >>
            ELSE IF list[i] \in set THEN Append(kept[i - 1], list[i])
            ELSE kept[i - 1]
    IN  kept[Len(list)]

(* Links of freed nodes are undefined; the model forgets them.             *)
Forget(b, freed) ==
    LET clean(links) == [x \in AnyNode |-> IF x \in freed THEN BufferHead ELSE links[x]]
    IN  [b EXCEPT !.forw = clean(@), !.back = clean(@)]
=============================================================================
