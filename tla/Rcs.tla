-------------------------------- MODULE Rcs --------------------------------
(***************************************************************************)
(* One RCS file and the working files that its users keep of it, under ci, *)
(* co and rcs.                                                             *)
(*                                                                         *)
(* The file holds the text of its newest revision, the head, and for every *)
(* other revision the patch that makes it from the revision after it. A    *)
(* command reads the whole file, changes what it read, and replaces the    *)
(* file: a command is one step, with the places where a write may fail     *)
(* within it. Users have the file to themselves while a command runs,      *)
(* since nothing locks it.                                                 *)
(*                                                                         *)
(* Revisions of the trunk only: ci makes no others.                        *)
(***************************************************************************)
EXTENDS Integers, FiniteSets, SequencesExt

CONSTANTS
    Users, NoUser,
    Texts,          \* what a working file may hold
    Empty,          \* the text without a character
    NoText,         \* no file, or the result of a patch that does not fit
    Given,          \* the numbers given with options
    MaxNum,         \* bound: the greatest component of a number
    MaxDeltas,      \* bound: the number of revisions
    MaxLocks,       \* bound: the number of locks
    MayMishap       \* what goes wrong in this run, see below

(* What users may do that the file does not survive, or that the locks do  *)
(* not see, and how the file may fail to be written:                       *)
(*   "empty"   a file without a character is checked in;                   *)
(*   "number"  a number is chosen after which an old one cannot be got;    *)
(*   "locked"  a locked revision is outdated;                              *)
(*   "unseen"  a revision is locked that the user has never seen;          *)
(*   "write"   rcs_write() ends the command with an error, or a signal     *)
(*             does before the new file is in place;                       *)
(*   "copy"    the new file has to be copied from another file system, and *)
(*             that fails: there is no file any more.                      *)
Mishaps == {"empty", "number", "locked", "unseen", "write", "copy"}

ASSUME RcsAssumption ==
    /\ NoUser \notin Users /\ NoText \notin Texts \cup {Empty}
    /\ Given \subseteq (Nat \ {0}) \X (Nat \ {0})
    /\ MaxNum \in Nat /\ MaxDeltas \in Nat /\ MaxLocks \in Nat
    /\ MayMishap \subseteq Mishaps

VARIABLES
    rcs,    \* RCSFILE: rf_head, rf_delta, rf_locks, RCS_SLOCK
    work,   \* the working file of each user
    seen,   \* history: the revisions whose text each user has had
    stopped \* history: a write that failed has ended the last command

vars == << rcs, work, seen, stopped >>

Revs == Nat \X Nat
NoRev == << 0, 0 >>

Numbers == (1 .. MaxNum) \X (1 .. MaxNum)

(* What a working file holds, or a command finds in its place.             *)
Contents == Texts \cup {Empty, NoText}

(* rcsnum_cmp()                                                            *)
Above(a, b) == a[1] > b[1] \/ (a[1] = b[1] /\ a[2] > b[2])

(* rcsnum_inc()                                                            *)
Inc(r) == << r[1], r[2] + 1 >>

(* The text of a revision: whole, or what has to be done to another.       *)
Whole(t) == [from |-> NoText, to |-> t]
Diff(from, to) == [from |-> from, to |-> to]

(* rcs_patchfile(): a patch without a line fits everything.                *)
Patched(t, patch) ==
    IF patch.from = patch.to THEN t ELSE IF patch.from = t THEN patch.to ELSE NoText

Delta(n, next, text) == [num |-> n, next |-> next, text |-> text]

(* What ci starts from when there is no RCS file, and rcs -i makes.        *)
NoFile == [head |-> NoRev, deltas |-> << >>, locks |-> << >>, strict |-> TRUE]

-----------------------------------------------------------------------------
(* Operations on what a command has read.                                  *)

Listed(f) == { d.num : d \in Range(f.deltas) }

(* rcs_findrev()                                                           *)
At(f, r) == CHOOSE i \in DOMAIN f.deltas : f.deltas[i].num = r

(* The test by which rcs_getrev() and checkout_rev() tell that a revision  *)
(* is above the head.                                                      *)
Beyond(f, r) == f.head[1] < r[1] \/ f.head[2] < r[2]

(* rcs_getrev(): its loop, at the revision x[1] with the text x[2]; NoText *)
(* when it returns none.                                                   *)
GetRev(f, r) ==
    LET text(q) == f.deltas[At(f, q)].text
        walk[x \in Listed(f) \X Contents] ==
            LET next == f.deltas[At(f, x[1])].next
            IN  IF x[1] = r THEN x[2]
                ELSE IF next \notin Listed(f) THEN NoText
                ELSE walk[<< next, Patched(x[2], text(next)) >>]
    IN  IF f.head = NoRev \/ Beyond(f, r) THEN NoText
        ELSE IF text(f.head).to = Empty THEN Empty
        ELSE walk[<< f.head, text(f.head).to >>]

(* rcs_deltatext_set()                                                     *)
TextSet(f, r, text) == [f EXCEPT !.deltas[At(f, r)].text = text]

Lock(u, r) == [user |-> u, num |-> r]

LocksOf(f, u) == { l \in Range(f.locks) : l.user = u }

(* rd_locker, as rcs_open() leaves it: the last lock on a revision counts. *)
Locker(f, r) ==
    LET on == SelectSeq(f.locks, LAMBDA l : l.num = r)
    IN  IF on = << >> THEN NoUser ELSE Last(on).user

(* rcs_lock_add()                                                          *)
LockAdd(f, u, r) ==
    IF Lock(u, r) \in Range(f.locks) THEN f
    ELSE [f EXCEPT !.locks = Append(@, Lock(u, r))]

(* rcs_lock_remove()                                                       *)
LockRemove(f, u, r) == [f EXCEPT !.locks = RemoveFirst(@, Lock(u, r))]

(* rcs_rev_add() and rcs_head_set()                                        *)
RevAdd(f, r, text) ==
    LET next == IF f.deltas = << >> THEN NoRev ELSE Head(f.deltas).num
    IN  [f EXCEPT !.head = r, !.deltas = << Delta(r, next, text) >> \o @]

(* Variant: the link to the revision removed is left.                      *)
RevRemoveUnlinked(f, r) ==
    LET i == At(f, r)
    IN  IF i = 1 \/ i = Len(f.deltas) THEN f ELSE [f EXCEPT !.deltas = RemoveAt(@, i)]

(* Variant: the patch of the revision before stays as it is.               *)
RevRemoveOnly(f, r) ==
    LET i == At(f, r)
        old == f.deltas[i].next
        link == IF i = 1 THEN [f EXCEPT !.head = old]
                ELSE [f EXCEPT !.deltas[i - 1].next = old]
    IN  [link EXCEPT !.deltas = RemoveAt(@, i)]

(* rcs_rev_remove(): the revision before it becomes whole when the head    *)
(* goes, or is made from the revision after the one removed.               *)
RevRemove(f, r) ==
    LET i == At(f, r)
        n == Len(f.deltas)
        old == IF i = n THEN NoRev ELSE f.deltas[i + 1].num
        text == IF i = 1 THEN Whole(GetRev(f, old))
                ELSE Diff(GetRev(f, f.deltas[i - 1].num), GetRev(f, old))
        kept == IF i = n THEN f ELSE TextSet(f, old, text)
        link == IF i = 1 THEN [kept EXCEPT !.head = old]
                ELSE [kept EXCEPT !.deltas[i - 1].next = old]
    IN  [link EXCEPT !.deltas = RemoveAt(@, i)]

(* Its neighbours can be got.                                              *)
MayRemove(f, r) ==
    LET i == At(f, r)
        n == Len(f.deltas)
    IN  /\ i < n => GetRev(f, f.deltas[i + 1].num) # NoText
        /\ 1 < i /\ i < n => GetRev(f, f.deltas[i - 1].num) # NoText

(* rcs_open(): a lock on a revision that is not there, and the file is     *)
(* refused.                                                                *)
Opens == \A l \in Range(rcs.locks) : l.num \in Listed(rcs)

-----------------------------------------------------------------------------

(* The revision that checkout_rev() takes for the one asked for.           *)
Target(f, r) == IF Beyond(f, r) THEN f.head ELSE r

(* checkout_rev() refuses; latest: no revision was asked for.              *)
Refused(f, u, r, latest) ==
    LET q == Target(f, r)
    IN  \/ (latest \/ Beyond(f, r)) /\ Cardinality(LocksOf(f, u)) > 1
        \/ q \notin Listed(f)
        \/ Locker(f, q) \notin {u, NoUser}
        \/ GetRev(f, q) = NoText

(* What checkout_rev() makes of the locks.                                 *)
Relocked(f, u, r, lock) ==
    CASE lock = "lock" -> LockAdd(f, u, Target(f, r))
      [] lock = "unlock" -> LockRemove(f, u, Target(f, r))
      [] OTHER -> f

Outcome(file, ok) == [file |-> file, ok |-> ok]

(* rcs_write(): the file it leaves where disk was, and whether the command *)
(* goes on, when the command has changed f to g; RCS_SYNCED is set while   *)
(* nothing has changed. rcs_movefile() may fail before and after rename(); *)
(* when it copies, it may remove the file, and call that a success.        *)
Outcomes(disk, f, g) ==
    IF g = f THEN {Outcome(disk, TRUE)}
    ELSE {Outcome(g, TRUE)}
         \cup (IF "write" \in MayMishap
               THEN {Outcome(disk, FALSE), Outcome(g, FALSE)} ELSE {})
         \cup (IF "copy" \in MayMishap
               THEN {Outcome(NoFile, TRUE), Outcome(NoFile, FALSE)} ELSE {})

Written(disk, f, g) ==
    \E x \in Outcomes(disk, f, g) : rcs' = x.file /\ stopped' = ~x.ok

(* A revision that is not in the file any more is forgotten.               *)
Remembered(had) == seen' = [u \in Users |-> had[u] \cap Listed(rcs')]

SeenToo(u, r) == [seen EXCEPT ![u] = @ \cup {r}]

(* What checkout_rev() gets from f goes to the working file; the locks are *)
(* written after that, when the file is closed.                            *)
Fetched(disk, f, u, r, lock) ==
    /\ Len(Relocked(f, u, r, lock).locks) <= MaxLocks
    /\ Written(disk, f, Relocked(f, u, r, lock))
    /\ work' = [work EXCEPT ![u] = GetRev(f, Target(f, r))]
    /\ Remembered(SeenToo(u, Target(f, r)))

(* ci ends: the working file is removed, and then f is written. If that    *)
(* does not end ci, the working file is checked out again with -l and -u,  *)
(* unless that is refused.                                                 *)
GivenUp(f, u, r, latest, lock) ==
    \E x \in Outcomes(rcs, rcs, f) :
        IF x.ok /\ lock # "none" /\ ~Refused(f, u, r, latest)
        THEN Fetched(x.file, f, u, r, lock)
        ELSE /\ rcs' = x.file /\ stopped' = ~x.ok
             /\ work' = [work EXCEPT ![u] = NoText]
             /\ Remembered(SeenToo(u, r))

-----------------------------------------------------------------------------

Init ==
    /\ rcs = NoFile
    /\ work = [u \in Users |-> NoText]
    /\ seen = [u \in Users |-> {}]
    /\ stopped = FALSE

(* A user's own doing.                                                     *)
Edit(u, t) ==
    /\ t # work[u] /\ work' = [work EXCEPT ![u] = t]
    /\ UNCHANGED << rcs, seen, stopped >>

(* The number of the new revision: the one given with an option, or the    *)
(* one after the head.                                                     *)
NewRev(given) ==
    IF given # NoRev THEN given
    ELSE IF rcs.head = NoRev THEN << 1, 1 >>
    ELSE Inc(rcs.head)

MayCheckIn(u, given) ==
    /\ Opens /\ work[u] # NoText
    /\ Len(rcs.deltas) < MaxDeltas /\ NewRev(given) \in Numbers
    /\ work[u] = Empty => "empty" \in MayMishap
    /\ "number" \in MayMishap
       \/ \A r \in Listed(rcs) : ~Beyond([head |-> NewRev(given)], r)

(* When the symbol given with -n is taken, ci stops where it stands;       *)
(* rcs_close() writes what has changed, and the working file stays.        *)
Closed(f, u, r) ==
    /\ Written(rcs, rcs, f)
    /\ Remembered(SeenToo(u, r))
    /\ UNCHANGED work

(* checkin_init()                                                          *)
CheckInFirst(u, given, then) ==
    LET new == NewRev(given)
        f == RevAdd(rcs, new, Whole(work[u]))
    IN  /\ MayCheckIn(u, given) /\ rcs.deltas = << >>
        /\ IF then = "symbol" THEN Closed(f, u, new)
           ELSE GivenUp(f, u, new, given = NoRev, then)

(* Variant: anybody's lock will do.                                        *)
CheckLockOfAny(u) == ~rcs.strict \/ Locker(rcs, rcs.head) # NoUser

(* checkin_checklock()                                                     *)
CheckLock(u) == ~rcs.strict \/ Lock(u, rcs.head) \in Range(rcs.locks)

MayUpdate(u, given) ==
    /\ MayCheckIn(u, given) /\ rcs.deltas # << >>
    /\ CheckLock(u)
    /\ given # NoRev => Above(given, rcs.head)

(* Variant: any revision will do.                                          *)
UnchangedSinceAny(u) == \E r \in Listed(rcs) : work[u] = GetRev(rcs, r)

(* checkin_diff_file(), against the head                                   *)
Unchanged(u) == work[u] = GetRev(rcs, rcs.head)

(* checkin_update(): the old head becomes a patch of the new one. ci -f    *)
(* does so though nothing has changed.                                     *)
CheckInUpdate(u, given, then) ==
    LET h == rcs.head
        new == NewRev(given)
        patch == Diff(work[u], GetRev(rcs, h))
        f == RevAdd(TextSet(LockRemove(rcs, u, h), h, patch), new, Whole(work[u]))
    IN  /\ MayUpdate(u, given)
        /\ IF then = "symbol" THEN Closed(f, u, new)
           ELSE GivenUp(f, u, new, given = NoRev, then)

(* checkin_revert(): with nothing new in the working file, no revision is  *)
(* made and the lock stays.                                                *)
CheckInRevert(u, given, then) ==
    /\ MayUpdate(u, given) /\ Unchanged(u)
    /\ GivenUp(rcs, u, rcs.head, TRUE, then)

(* ci, then with -l, -u, or a symbol that is taken.                        *)
CheckIn(u) ==
    \E given \in Given \cup {NoRev} :
        \/ \E then \in {"none", "lock", "unlock", "symbol"} :
               CheckInFirst(u, given, then) \/ CheckInUpdate(u, given, then)
        \/ \E then \in {"none", "lock", "unlock"} : CheckInRevert(u, given, then)

(* co, whose user did not want the working file to be overwritten: -u has  *)
(* given the lock up by then.                                              *)
Kept(u, r, lock) ==
    /\ work[u] # NoText /\ lock = "unlock"
    /\ Written(rcs, rcs, LockRemove(rcs, u, Target(rcs, r)))
    /\ Remembered(seen) /\ UNCHANGED work

(* co -r, -l and -u                                                        *)
CheckOut(u, r, lock) ==
    /\ Opens /\ rcs.deltas # << >>
    /\ ~Refused(rcs, u, r, FALSE)
    /\ Fetched(rcs, rcs, u, r, lock) \/ Kept(u, r, lock)

(* co of a file without revisions                                          *)
CheckOutNothing(u) ==
    /\ Opens /\ rcs.deltas = << >>
    /\ work' = [work EXCEPT ![u] = Empty]
    /\ stopped' = FALSE /\ UNCHANGED << rcs, seen >>

(* rcs -l: the locks of others are not looked at.                          *)
RcsLock(u, r) ==
    /\ Opens /\ r \in Listed(rcs)
    /\ r \notin seen[u] => "unseen" \in MayMishap
    /\ Len(LockAdd(rcs, u, r).locks) <= MaxLocks
    /\ Written(rcs, rcs, LockAdd(rcs, u, r))
    /\ Remembered(seen) /\ UNCHANGED work

(* rcs -u                                                                  *)
RcsUnlock(u, r) ==
    /\ Opens /\ r \in Listed(rcs)
    /\ Written(rcs, rcs, LockRemove(rcs, u, r))
    /\ Remembered(seen) /\ UNCHANGED work

(* rcs -L and rcs -U                                                       *)
SetMode ==
    /\ Opens
    /\ Written(rcs, rcs, [rcs EXCEPT !.strict = ~@])
    /\ Remembered(seen) /\ UNCHANGED work

(* rcs_rev_select()                                                        *)
Selected(lo, hi) == { r \in Listed(rcs) : ~Above(lo, r) /\ ~Above(r, hi) }

(* What is left when the loop of rcs -o has passed n revisions.            *)
Left(gone) ==
    LET left[n \in 0 .. Len(rcs.deltas)] ==
            IF n = 0 THEN rcs
            ELSE LET r == rcs.deltas[n].num
                 IN  IF r \in gone THEN RevRemove(left[n - 1], r) ELSE left[n - 1]
    IN  left

(* rcs -o, which ends before it writes when a revision cannot be got.      *)
Outdate(lo, hi) ==
    LET gone == Selected(lo, hi)
        left == Left(gone)
    IN  /\ Opens /\ gone # {}
        /\ (\E l \in Range(rcs.locks) : l.num \in gone) => "locked" \in MayMishap
        /\ \A n \in DOMAIN rcs.deltas :
               rcs.deltas[n].num \in gone => MayRemove(left[n - 1], rcs.deltas[n].num)
        /\ Written(rcs, rcs, left[Len(rcs.deltas)])
        /\ Remembered(seen) /\ UNCHANGED work

Next ==
    \/ \E u \in Users :
        \/ \E t \in Texts : Edit(u, t)
        \/ CheckIn(u)
        \/ \E r \in Listed(rcs), lock \in {"none", "lock", "unlock"} : CheckOut(u, r, lock)
        \/ CheckOutNothing(u)
        \/ \E r \in Listed(rcs) : RcsLock(u, r) \/ RcsUnlock(u, r)
    \/ SetMode
    \/ \E lo, hi \in Listed(rcs) : ~Above(lo, hi) /\ Outdate(lo, hi)

Spec == Init /\ [][Next]_vars

-----------------------------------------------------------------------------

(* The head, the order of the revisions and the links between them say the *)
(* same; the head is the newest revision; nobody holds a lock on a         *)
(* revision that is not there, so that rcs_open() takes the file.          *)
TypeOK ==
    /\ work \in [Users -> Contents]
    /\ seen \in [Users -> SUBSET Listed(rcs)]
    /\ rcs.strict \in BOOLEAN /\ stopped \in BOOLEAN
    /\ rcs.head = IF rcs.deltas = << >> THEN NoRev ELSE Head(rcs.deltas).num
    /\ \A i \in DOMAIN rcs.deltas :
        LET d == rcs.deltas[i]
        IN  IF i = Len(rcs.deltas) THEN d.next = NoRev
            ELSE d.next = rcs.deltas[i + 1].num /\ Above(d.num, d.next)
    /\ IsInjective(rcs.locks)
    /\ \A l \in Range(rcs.locks) : l.user \in Users /\ l.num \in Listed(rcs)

(* Whatever is checked in, forced in, outdated or left half done by a      *)
(* symbol that is taken, every revision that is still there can be got     *)
(* with the text it was checked in with: no patch is left that was made    *)
(* for another neighbour.                                                  *)
Archive == INSTANCE RcsArchive WITH
    Texts <- Texts \cup {Empty},
    texts <- [r \in Listed(rcs) |-> GetRev(rcs, r)]

ImplementsArchive == Archive!Spec

(* Under strict locking nobody puts a revision over a head whose text they *)
(* have never had: between the check-out that set the lock and the         *)
(* check-in that uses it, others cannot have replaced the head, not by an  *)
(* outdated number used again either.                                      *)
InformedCheckIn ==
    [][ \A u \in Users :
            rcs.strict /\ rcs.deltas # << >>
                /\ rcs'.head \notin Listed(rcs) /\ rcs'.head \in seen'[u]
            => rcs.head \in seen[u] ]_vars

(* A working file that a check-in takes away can be had again, its text is *)
(* that of the head, unless ci says by its exit status that the RCS file   *)
(* could not be written. Then the text may be nowhere: ci removes the      *)
(* working file before it writes.                                          *)
NothingLost ==
    [][ \A u \in Users : work[u] # NoText /\ work'[u] = NoText /\ ~stopped'
            => GetRev(rcs, rcs.head)' = work[u] ]_vars

(* co.1: "Retrieve the latest revision no later than rev."                 *)
NoLater == \A r \in Listed(rcs) : ~Above(Target(rcs, r), r)
=============================================================================
