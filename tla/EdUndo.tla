------------------------------- MODULE EdUndo -------------------------------
(***************************************************************************)
(* The commands of ed that change the buffer, with their undo stack, the   *)
(* list of lines of a global command, and interrupts.                      *)
(*                                                                         *)
(* A command runs in sections between SPL1() and SPL0(), in which signals  *)
(* are deferred; each is one step.  task says what is left of the command; *)
(* between two steps SIGINT may take the program back to command mode.     *)
(***************************************************************************)
EXTENDS EdBuffer

CONSTANTS
    Nothing,
    InitLines,      \* lines of the file named on the command line
    MaxUndo,        \* bound on the entries of the undo stack
    MayFail,        \* push_undo_stack() may run out of memory
    MayInterrupt    \* commands that SIGINT may interrupt: "r" and the others

ASSUME UndoAssumption ==
    /\ InitLines \in 0..Cardinality(Nodes)
    /\ MaxUndo \in Nat \ {0}
    /\ Nothing \notin [lines : Seq(Nodes), dot : Nat]
    /\ MayFail \in BOOLEAN /\ MayInterrupt \subseteq {"r", "other"}

VARIABLES
    buf,            \* the buffer (EdBuffer), with addr_last and current_addr
    ustack,         \* the undo stack; u_p is its length
    u_current_addr, u_addr_last,
    before,         \* what u is to bring back (a history variable)
    heap,           \* the nodes that are allocated
    isglobal,       \* a global command is executing its command list
    active,         \* active_list from active_ptr on, without the NULLs
    modified,       \* modified since the last write, as ed knows
    changed,        \* the lines have changed since the last write or warning
    task            \* what is left of the command

undoing == << ustack, u_current_addr, u_addr_last, before >>
vars == << buf, undoing, heap, isglobal, active, modified, changed, task >>

Idle == [op |-> "idle"]

Injective(f) == \A i, j \in DOMAIN f : f[i] = f[j] => i = j

(* The line at address k of a buffer with the lines of text, and the       *)
(* address of a node in it; nodes that are not have one above the last.    *)
LineOf(text, k) == IF k \in 1..InitLines THEN text[k] ELSE BufferHead
PosOf(text, x) ==
    IF \E k \in 1..InitLines : text[k] = x
    THEN CHOOSE k \in 1..InitLines : text[k] = x
    ELSE InitLines + 1

(* read_file(), into an empty buffer: each line looks up the one before it *)
(* to be added after it, and the push for the first line looks it up.      *)
FirstRead(text) ==
    LET cached == IF InitLines < 2 THEN InitLines ELSE InitLines - 1
    IN  [ forw |-> [x \in AnyNode |-> IF x = BufferHead THEN LineOf(text, 1)
                                      ELSE LineOf(text, PosOf(text, x) + 1)],
          back |-> [x \in AnyNode |->
                       IF x = BufferHead THEN LineOf(text, InitLines)
                       ELSE IF PosOf(text, x) <= InitLines THEN LineOf(text, PosOf(text, x) - 1)
                       ELSE BufferHead],
          lp |-> LineOf(text, cached), on |-> cached,
          addr_last |-> InitLines, current_addr |-> InitLines ]

(* ed starts, and reads the file named on the command line. Nothing has    *)
(* noted the addresses that u needs, so u fails until a command has.       *)
Init ==
    /\ \E text \in { t \in [1..InitLines -> Nodes] : Injective(t) } :
        /\ buf = FirstRead(text)
        /\ ustack = IF InitLines = 0 THEN << >>
                    ELSE << [type |-> "UADD", h |-> LineOf(text, 1),
                             t |-> LineOf(text, InitLines)] >>
        /\ heap = { text[k] : k \in 1..InitLines }
    /\ u_current_addr = -1 /\ u_addr_last = -1 /\ before = Nothing
    /\ isglobal = FALSE /\ active = << >>
    /\ modified = FALSE /\ changed = FALSE
    /\ task = Idle

-----------------------------------------------------------------------------
(* What commands are made of                                               *)

Text(b) == [lines |-> Lines(b), dot |-> b.current_addr]

At(b, n) == [b EXCEPT !.current_addr = n]

Ranges == { r \in (1..buf.addr_last) \X (1..buf.addr_last) : r[1] <= r[2] }

(* clear_undo_stack() frees the lines that are out of the buffer b.        *)
Freed(b) == UNION { CutOut(b, ustack[i]) : i \in DOMAIN ustack }

ClearUndo(b, allocated) ==
    /\ heap' = allocated \ Freed(b)
    /\ ustack' = << >>
    /\ u_current_addr' = b.current_addr /\ u_addr_last' = b.addr_last
    /\ before' = Text(b)

Cleared(b) == Forget(b, Freed(b))

(* "if (!isglobal) clear_undo_stack();"                                    *)
Start == IF isglobal THEN buf ELSE Cleared(buf)

(* The command goes on with the buffer b and the task t.                   *)
Begin(b, t) ==
    /\ task = Idle
    /\ IF isglobal THEN UNCHANGED << undoing, heap >> ELSE ClearUndo(buf, heap)
    /\ buf' = b
    /\ task' = t
    /\ UNCHANGED << isglobal, active, modified, changed >>

(* A command that fails ends a global command as well.                     *)
Error == task' = Idle /\ isglobal' = FALSE

Room(n) == Len(ustack) + n <= MaxUndo

(* unset_active_nodes(): where the search in the list starts is left out.  *)
Unset(nodes) ==
    active' = IF isglobal THEN Only(active, Nodes \ nodes) ELSE active

-----------------------------------------------------------------------------
(* Sections                                                                *)

(* append_lines() and search_and_replace() look a line that they have      *)
(* added up once more; the others have a pointer to it.                    *)
LooksUp == task.op = "replace" \/ (task.op = "insert" /\ task.by = "a")

(* Variant: the entry is not extended.                                     *)
PutUnextended(up, t) ==
    /\ \E x \in Nodes \ heap :
        /\ LET b == AddLine(buf, x)
               n == b.current_addr
           IN  IF up
               THEN ustack' = ustack /\ buf' = b
               ELSE /\ Room(1)
                    /\ ustack' = Append(ustack, Entry(b, "UADD", n, n))
                    /\ buf' = PushSeeks(b, n, n)
        /\ heap' = heap \cup {x}
    /\ changed' = TRUE
    /\ task' = t
    /\ UNCHANGED << u_current_addr, u_addr_last, before, isglobal, active >>

(* put_sbuf_line() and the undo stack: the first line of an insertion      *)
(* pushes an entry, which the following ones extend.                       *)
Put(up, t) ==
    /\ \E x \in Nodes \ heap :
        /\ LET b == AddLine(buf, x)
               n == b.current_addr
           IN  IF up
               THEN /\ ustack' = [ustack EXCEPT ![Len(ustack)].t = x]
                    /\ buf' = IF LooksUp THEN Seek(b, n) ELSE b
               ELSE /\ Room(1)
                    /\ ustack' = Append(ustack, Entry(b, "UADD", n, n))
                    /\ buf' = PushSeeks(b, n, n)
        /\ heap' = heap \cup {x}
    /\ changed' = TRUE
    /\ task' = t
    /\ UNCHANGED << u_current_addr, u_addr_last, before, isglobal, active >>

(* The push fails when the line is already in the buffer.                  *)
PutFails(up) ==
    /\ MayFail /\ ~up
    /\ \E x \in Nodes \ heap :
        /\ LET b == AddLine(buf, x)
           IN  buf' = Cleared(b) /\ ClearUndo(b, heap \cup {x})
    /\ changed' = TRUE
    /\ Error
    /\ UNCHANGED << active, modified >>

(* delete_lines()                                                          *)
Delete(b, from, to, t) ==
    /\ Room(1)
    /\ LET p == PushSeeks(b, from, to) IN
       /\ buf' = CutLines(p, from, to)
       /\ Unset(Span(p, Node(p, from), Node(p, IncMod(to, p.addr_last))))
    /\ ustack' = Append(ustack, Entry(b, "UDEL", from, to))
    /\ modified' = TRUE
    /\ changed' = (changed \/ from <= to)
    /\ task' = t
    /\ UNCHANGED << u_current_addr, u_addr_last, before, heap, isglobal >>

(* A push that fails in delete_lines() or move_lines(), before any line is *)
(* changed; b is the buffer by then.                                       *)
PushFails(b) ==
    /\ MayFail
    /\ buf' = Cleared(b) /\ ClearUndo(b, heap)
    /\ Error
    /\ UNCHANGED << active, modified, changed >>

-----------------------------------------------------------------------------
(* Commands                                                                *)

Inserting(by) == [op |-> "insert", by |-> by, up |-> FALSE]
Deleting(from, to, then) ==
    [op |-> "delete", from |-> from, to |-> to, then |-> then]

(* a and i                                                                 *)
AppendLines ==
    \E n \in 0..buf.addr_last : Begin(At(Start, n), Inserting("a"))

(* r                                                                       *)
ReadFile ==
    \E n \in 0..buf.addr_last : Begin(At(Seek(Start, n), n), Inserting("r"))

(* c: delete, then append                                                  *)
ChangeLines ==
    \E r \in Ranges : Begin(Start, Deleting(r[1], r[2], Inserting("a")))

(* d                                                                       *)
DeleteLines ==
    \E r \in Ranges : Begin(Start, Deleting(r[1], r[2], [op |-> "after_d"]))

(* j: the lines are read, deleted, and their text is put back as one line. *)
JoinLines ==
    \E r \in Ranges : r[1] # r[2] /\
        Begin(Seek(Seek(Start, IncMod(r[2], buf.addr_last)), r[1]),
              Deleting(r[1], r[2], [op |-> "join"]))

(* m                                                                       *)
MoveLines ==
    \E r \in Ranges, addr \in 0..buf.addr_last :
        /\ ~(r[1] <= addr /\ addr < r[2])
        /\ Begin(Start, [op |-> "move", from |-> r[1], to |-> r[2], addr |-> addr])

(* t: n lines of the range, and m more when the destination is inside it   *)
CopyLines ==
    \E r \in Ranges, addr \in 0..buf.addr_last :
        LET inside == r[1] <= addr /\ addr < r[2] IN
        Begin(At(Seek(Start, r[1]), addr),
              [op |-> "copy", up |-> FALSE,
               n |-> IF inside THEN addr - r[1] + 1 ELSE r[2] - r[1] + 1,
               m |-> IF inside THEN r[2] - addr ELSE 0])

(* s                                                                       *)
Substitute ==
    \E r \in Ranges :
        Begin(At(Start, r[1] - 1),
              [op |-> "subst", left |-> r[2] - r[1] + 1, xa |-> buf.current_addr])

(* e does not clear the undo stack before it deletes all lines.            *)
EditFile ==
    /\ task = Idle
    /\ task' = Deleting(1, buf.addr_last, [op |-> "reopen"])
    /\ UNCHANGED << buf, undoing, heap, isglobal, active, modified, changed >>

(* pop_undo_stack()                                                        *)
Undo ==
    /\ task = Idle
    /\ u_current_addr # -1 /\ u_addr_last # -1
    /\ buf' = [UndoneAll(Seek(buf, 0), ustack) EXCEPT
                    !.current_addr = u_current_addr, !.addr_last = u_addr_last]
    /\ ustack' = Inverted(ustack)
    /\ u_current_addr' = buf.current_addr /\ u_addr_last' = buf.addr_last
    /\ before' = Text(buf)
    /\ active' = IF isglobal THEN << >> ELSE active
    /\ modified' = (modified \/ ustack # << >>)
    /\ changed' = (changed \/ ustack # << >>)
    /\ UNCHANGED << heap, isglobal, task >>

(* w                                                                       *)
WriteFile ==
    /\ task = Idle
    /\ buf' = Seek(buf, IF buf.addr_last = 0 THEN 0 ELSE 1)
    /\ modified' = FALSE /\ changed' = FALSE
    /\ UNCHANGED << undoing, heap, isglobal, active, task >>

(* q, when it warns instead. In a global command it fails without warning. *)
Warn ==
    /\ task = Idle /\ modified
    /\ modified' = isglobal /\ changed' = (changed /\ isglobal)
    /\ Error
    /\ UNCHANGED << buf, undoing, heap, active >>

(* g, v, G and V: the lines that match are collected, the undo stack is    *)
(* cleared, and the commands are executed at the first of the lines.       *)
Global ==
    /\ task = Idle /\ ~isglobal
    /\ \E from \in 1..buf.addr_last : \E S \in (SUBSET (from..buf.addr_last)) :
        LET text == Lines(buf)
            first == CHOOSE n \in S : \A m \in S : n <= m
            others == Only(text, { text[n] : n \in S \ {first} })
            b == Cleared(Seek(buf, from))
        IN  /\ buf' = IF S = {} THEN b ELSE At(b, first)
            /\ active' = IF S = {} THEN << >> ELSE others
            /\ isglobal' = (S # {})
    /\ ClearUndo(buf, heap)
    /\ UNCHANGED << modified, changed, task >>

-----------------------------------------------------------------------------
(* How commands go on                                                      *)

InsertLine ==
    /\ task.op = "insert"
    /\ Put(task.up, [task EXCEPT !.up = TRUE])
    /\ modified' = (modified \/ task.by = "a")

InsertFails == task.op = "insert" /\ PutFails(task.up)

(* The end of the text; e then sets everything up as at the start.         *)
InsertEnd ==
    /\ task.op = "insert" /\ task.by # "e"
    /\ modified' = (modified \/ (task.by = "r" /\ task.up))
    /\ task' = Idle
    /\ UNCHANGED << buf, undoing, heap, isglobal, active, changed >>

EditEnd ==
    /\ task.op = "insert" /\ task.by = "e"
    /\ heap' = heap \ Freed(buf) /\ buf' = Cleared(buf)
    /\ ustack' = << >> /\ u_current_addr' = -1 /\ u_addr_last' = -1
    /\ before' = Nothing
    /\ modified' = FALSE /\ changed' = FALSE
    /\ task' = Idle
    /\ UNCHANGED << isglobal, active >>

DeleteRange ==
    /\ task.op = "delete"
    /\ Delete(buf, task.from, task.to, task.then)

DeleteFails == task.op = "delete" /\ PushFails(buf)

(* d leaves the line after the deleted ones current, or the last one.      *)
AfterDelete ==
    /\ task.op = "after_d"
    /\ LET addr == IncMod(buf.current_addr, buf.addr_last) IN
       buf' = IF addr # 0 THEN At(buf, addr) ELSE buf
    /\ task' = Idle
    /\ UNCHANGED << undoing, heap, isglobal, active, modified, changed >>

Join ==
    /\ task.op = "join"
    /\ Put(FALSE, Idle)
    /\ modified' = TRUE

JoinFails == task.op = "join" /\ PutFails(FALSE)

(* "done": the lines are moved to where they are.                          *)
Stays == task.addr \in {task.from - 1, task.to}

(* The second push may fail when the first has not.                        *)
MoveFails ==
    /\ task.op = "move" /\ ~Stays
    /\ \/ PushFails(buf)
       \/ PushFails(PushSeeks(buf, task.from - 1, IncMod(task.to, buf.addr_last)))

Move ==
    /\ task.op = "move"
    /\ LET p == task.from - 1
           n == IncMod(task.to, buf.addr_last)
           b == PushSeeks(PushSeeks(buf, p, n),
                          task.addr, IncMod(task.addr, buf.addr_last))
       IN  IF Stays
           THEN /\ buf' = At(Seek(Seek(buf, n), p), task.to)
                /\ UNCHANGED ustack
           ELSE /\ Room(2)
                /\ buf' = MoveTo(b, task.from, task.to, task.addr)
                /\ ustack' = ustack \o
                    << Entry(buf, "UMOV", p, n),
                       Entry(PushSeeks(buf, p, n), "UMOV", task.addr,
                             IncMod(task.addr, buf.addr_last)) >>
    /\ Unset({ Along(buf.forw, BufferHead, k) : k \in task.from..task.to })
    /\ modified' = TRUE /\ changed' = (changed \/ ~Stays)
    /\ task' = Idle
    /\ UNCHANGED << u_current_addr, u_addr_last, before, heap, isglobal >>

CopyLine ==
    /\ task.op = "copy" /\ task.n > 0
    /\ Put(task.up, [task EXCEPT !.n = @ - 1, !.up = TRUE])
    /\ modified' = TRUE

CopyFails == task.op = "copy" /\ task.n > 0 /\ PutFails(task.up)

CopyRest ==
    /\ task.op = "copy" /\ task.n = 0
    /\ buf' = Seek(buf, buf.current_addr + 1)
    /\ task' = IF task.m = 0 THEN Idle ELSE [task EXCEPT !.n = task.m, !.m = 0]
    /\ UNCHANGED << undoing, heap, isglobal, active, modified, changed >>

NoMatch ==
    /\ task.op = "subst" /\ task.left > 0
    /\ LET n == buf.current_addr + 1 IN buf' = Seek(At(buf, n), n)
    /\ task' = [task EXCEPT !.left = @ - 1]
    /\ UNCHANGED << undoing, heap, isglobal, active, modified, changed >>

Match ==
    /\ task.op = "subst" /\ task.left > 0
    /\ LET n == buf.current_addr + 1 IN
       Delete(Seek(At(buf, n), n), n, n,
              [op |-> "replace", left |-> task.left - 1, up |-> FALSE])

MatchFails ==
    /\ task.op = "subst" /\ task.left > 0
    /\ LET n == buf.current_addr + 1 IN PushFails(Seek(At(buf, n), n))

(* The text that replaces a line may be several lines.                     *)
Replace ==
    /\ task.op = "replace"
    /\ Put(task.up, [task EXCEPT !.up = TRUE])
    /\ UNCHANGED modified

ReplaceFails == task.op = "replace" /\ PutFails(task.up)

Replaced ==
    /\ task.op = "replace" /\ task.up
    /\ task' = [op |-> "subst", left |-> task.left, xa |-> buf.current_addr]
    /\ UNCHANGED << buf, undoing, heap, isglobal, active, modified, changed >>

SubstituteEnd ==
    /\ task.op = "subst" /\ task.left = 0
    /\ buf' = At(buf, task.xa)
    /\ task' = Idle
    /\ UNCHANGED << undoing, heap, isglobal, active, modified, changed >>

Reopen ==
    /\ task.op = "reopen"
    /\ buf' = Seek(At(Cleared(buf), 0), 0) /\ ClearUndo(buf, heap)
    /\ task' = Inserting("e")
    /\ UNCHANGED << isglobal, active, modified, changed >>

(* The next line of a global command                                       *)
NextActive ==
    /\ task = Idle /\ isglobal /\ active # << >>
    /\ \E n \in 1..buf.addr_last :
        /\ Lines(buf)[n] = Head(active)
        /\ buf' = At(buf, n)
    /\ active' = Tail(active)
    /\ UNCHANGED << undoing, heap, isglobal, modified, changed, task >>

GlobalEnd ==
    /\ task = Idle /\ isglobal /\ active = << >>
    /\ isglobal' = FALSE
    /\ UNCHANGED << buf, undoing, heap, active, modified, changed, task >>

(* SIGINT between two sections; the lines that replace a line are put in   *)
(* one section.  Input that ends early, a malloc() or a scratch file that  *)
(* fails have the same effect.                                             *)
Kind == IF task.op = "insert" /\ task.by = "r" THEN "r" ELSE "other"

Interrupt ==
    /\ task # Idle \/ isglobal
    /\ Kind \in MayInterrupt
    /\ ~(task.op = "replace" /\ task.up)
    /\ Error
    /\ UNCHANGED << buf, undoing, heap, active, modified, changed >>

Next ==
    \/ AppendLines \/ ReadFile \/ ChangeLines \/ DeleteLines \/ JoinLines
    \/ MoveLines \/ CopyLines \/ Substitute \/ EditFile \/ Undo
    \/ WriteFile \/ Warn \/ Global
    \/ InsertLine \/ InsertFails \/ InsertEnd \/ EditEnd
    \/ DeleteRange \/ DeleteFails \/ AfterDelete \/ Join \/ JoinFails \/ Move
    \/ MoveFails
    \/ CopyLine \/ CopyFails \/ CopyRest
    \/ NoMatch \/ Match \/ MatchFails \/ Replace \/ ReplaceFails \/ Replaced
    \/ SubstituteEnd \/ Reopen \/ NextActive \/ GlobalEnd \/ Interrupt

Spec == Init /\ [][Next]_vars

-----------------------------------------------------------------------------
(* Properties                                                              *)

TypeOK ==
    /\ buf.forw \in Links /\ buf.back \in Links /\ buf.lp \in AnyNode
    /\ buf.addr_last \in 0..Cardinality(Nodes)
    /\ buf.on \in 0..buf.addr_last /\ buf.current_addr \in 0..buf.addr_last
    /\ ustack \in Seq([type : {"UADD", "UDEL", "UMOV"}, h : AnyNode, t : AnyNode])
    /\ Len(ustack) <= MaxUndo
    /\ u_current_addr \in Nat \cup {-1} /\ u_addr_last \in Nat \cup {-1}
    /\ heap \subseteq Nodes /\ active \in Seq(Nodes)
    /\ { isglobal, modified, changed } \subseteq BOOLEAN

InBuffer(b) == { Lines(b)[n] : n \in DOMAIN Lines(b) }

(* The ring of a buffer: addr_last lines, all different, back to the head, *)
(* with links in the two directions that agree.                            *)
RingOf(b) ==
    /\ Cardinality(InBuffer(b)) = b.addr_last
    /\ BufferHead \notin InBuffer(b)
    /\ Along(b.forw, BufferHead, b.addr_last + 1) = BufferHead
    /\ \A x \in InBuffer(b) \cup {BufferHead} : b.back[b.forw[x]] = x

(* Whenever a signal may be handled, the ring is sound, so that what a     *)
(* hangup saves is the text, and the cached position in it is right, which *)
(* the comments "this get_addressed_line_node last!" are there for.        *)
RingSound ==
    /\ TypeOK
    /\ RingOf(buf)
    /\ buf.lp = Along(buf.forw, BufferHead, buf.on)

CanUndo == u_current_addr # -1 /\ u_addr_last # -1

Restored ==
    [UndoneAll(buf, ustack) EXCEPT !.addr_last = u_addr_last]

(* At any point of any command, undoing what has been done so far gives a  *)
(* sound ring with the number of lines that was noted.                     *)
UndoSound == CanUndo => RingOf(Restored) /\ u_current_addr <= u_addr_last

(* The lines that are allocated are those of the buffer and those that     *)
(* clear_undo_stack() will free, each of them once: none is leaked, and    *)
(* none is freed twice or while it is in the buffer. The undo stack points *)
(* to no other, and what a global command has left on its list is in the   *)
(* buffer, whatever its commands have deleted, moved, replaced or undone.  *)
Accounted ==
    LET Out == { i \in DOMAIN ustack : ustack[i].type = "UDEL" }
        Cut(i) == CutOut(buf, ustack[i])
    IN  /\ heap = InBuffer(buf) \cup UNION { Cut(i) : i \in Out }
        /\ \A i \in Out : Cut(i) \cap InBuffer(buf) = {}
        /\ \A i, j \in Out : i # j => Cut(i) \cap Cut(j) = {}
        /\ \A i \in DOMAIN ustack : {ustack[i].h, ustack[i].t} \subseteq heap \cup {BufferHead}
        /\ isglobal => \A i \in DOMAIN active : active[i] \in InBuffer(buf)

(* "attempting to quit ed or edit another file before writing a modified   *)
(* buffer results in an error" (ed.1): in command mode, ed knows that the  *)
(* lines have changed.                                                     *)
ChangesNoted == task = Idle /\ changed => modified

(* u restores the lines and the current address from before the last       *)
(* command, a global one counting as one, and is its own inverse: whenever *)
(* it does not fail, it is the u that EdLines promises.                    *)
EL == INSTANCE EdLines WITH text <- Text(buf), saved <- before

ImplementsEdLines == EL!Spec /\ [][Undo => EL!Undo]_vars
=============================================================================
