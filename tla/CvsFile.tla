------------------------------ MODULE CvsFile ------------------------------
(***************************************************************************)
(* One file of a cvs repository and its copies in the working directories  *)
(* of several users, who edit it and run update, commit, add and remove.   *)
(* The steps of a command are those between which another user's command,  *)
(* a fatal error or a signal can make a difference.                        *)
(*                                                                         *)
(* The lock of the directory is one variable here; CvsLock has the files   *)
(* it is made of, CvsEntries those that hold the entries.                  *)
(***************************************************************************)
EXTENDS CvsStatus

CONSTANTS
    Users,
    Nobody,         \* the lock is free
    MaxEdits, MaxRevs,
    MaxFatals,      \* commands that end half way
    MayMishap       \* mishaps that may happen, see below

ASSUME FileAssumption ==
    /\ Nobody \notin Users
    /\ MaxEdits \in Nat \ {0} /\ MaxRevs \in Nat \ {0} /\ MaxFatals \in Nat
    /\ MayMishap \subseteq {"second", "left", "recreated", "merge", "entry"}

VARIABLES
    rcs,        \* the RCS file, in the directory or its Attic
    lock,       \* who has locked the directory of the repository
    file,       \* per user, the working file
    entry,      \* per user, the line of CVS/Entries
    task,       \* per user, the command that runs
    edits,      \* edits made so far
    discarded,  \* edits a user has thrown away
    fatals,     \* commands that ended half way
    mishaps     \* what has happened that cvs does not guard against

(* The mishaps:                                                            *)
(*   "second"    the file is edited within the second of its checkout      *)
(*   "left"      update replaces conflicts nobody has looked at            *)
(*   "recreated" a file is made anew after cvs remove                      *)
(*   "merge"     cvs dies while it merges                                  *)
(*   "entry"     cvs dies when the file is there and not yet its entry     *)
Mishaps == {"second", "left", "recreated", "merge", "entry"}

vars == << rcs, lock, file, entry, task, edits, discarded, fatals, mishaps >>

Idle == [pc |-> "idle"]

(* A command: seen is the RCS file as it was opened, line the entry to be  *)
(* added and after what follows that.  All commands begin alike, so which  *)
(* one it is (cmd) is open until it has opened the RCS file.               *)
Task(pc, cmd) ==
    [pc |-> pc, cmd |-> cmd, seen |-> NoRcs, line |-> NoEntry, after |-> ""]

At(u, pc) == task[u].pc = pc
Go(u, pc) == task' = [task EXCEPT ![u].pc = pc]

Mishap(m) == m \in MayMishap /\ mishaps' = mishaps \cup {m}

human == << rcs, lock, task, fatals >>
repo == << rcs, lock >>
ghosts == << edits, discarded, fatals, mishaps >>

-----------------------------------------------------------------------------
(* What users do to their files.  They also do it while commit waits for   *)
(* the log message they type.                                              *)

AtHand(u) == At(u, "idle") \/ At(u, "message")

SetFile(u, text) == file' = [file EXCEPT ![u] = text]
SetEntry(u, e) == entry' = [entry EXCEPT ![u] = e]
OtherTime(u) == entry' = [entry EXCEPT ![u].same = FALSE]

(* Users add to a file and take conflict markers out of it.                *)
Edit(u) ==
    /\ AtHand(u) /\ edits < MaxEdits /\ file[u] # NoFile
    /\ edits' = edits + 1
    /\ SetFile(u, file[u] \cup {edits'})
    /\ \/ OtherTime(u) /\ UNCHANGED mishaps
       \/ entry[u].same /\ Mishap("second") /\ UNCHANGED entry
    /\ UNCHANGED << human, discarded >>

Resolve(u) ==
    /\ AtHand(u) /\ Marker \in file[u]
    /\ SetFile(u, file[u] \ {Marker})
    /\ OtherTime(u)
    /\ UNCHANGED << human, edits, discarded, mishaps >>

Create(u) ==
    /\ AtHand(u) /\ edits < MaxEdits
    /\ file[u] = NoFile /\ entry[u].kind # "reg"
    /\ edits' = edits + 1
    /\ SetFile(u, {edits'})
    /\ IF entry[u].kind = "removed" THEN Mishap("recreated") ELSE UNCHANGED mishaps
    /\ UNCHANGED << human, entry, discarded >>

(* rm, or the -f of cvs remove (cvs_remove_force()).                       *)
Delete(u) ==
    /\ AtHand(u) /\ file[u] # NoFile
    /\ SetFile(u, NoFile)
    /\ OtherTime(u)
    /\ discarded' = discarded \cup (file[u] \ {Marker})
    /\ UNCHANGED << human, edits, mishaps >>

-----------------------------------------------------------------------------
(* cvs_file_classify(): the RCS file is looked for in the directory, then  *)
(* in its Attic; what is opened then is what the command goes by.          *)

(* Every command waits while somebody else has locked the directory.       *)
Start(u) ==
    /\ At(u, "idle") /\ lock = Nobody
    /\ task' = [task EXCEPT ![u] = Task("live", "")]
    /\ UNCHANGED << repo, file, entry, ghosts >>

NotLive(u) ==
    /\ At(u, "live") /\ rcs.place # "live"
    /\ Go(u, "attic")
    /\ UNCHANGED << repo, file, entry, ghosts >>

Opens(u) == (At(u, "live") /\ rcs.place = "live") \/ At(u, "attic")
Seen(u) == IF rcs.place = task[u].pc THEN rcs ELSE NoRcs
Found(u, cmd) == Status(file[u], entry[u], Seen(u), cmd)

Opened(u, cmd) == Opens(u) /\ task[u].cmd \in {"", cmd}
Is(u, cmd, statuses) == Opened(u, cmd) /\ Found(u, cmd) \in statuses
IsNot(u, cmd, statuses) == Opened(u, cmd) /\ Found(u, cmd) \notin statuses

(* Variant: the lock stays.                                                *)
StillLocked(u) == lock' = lock

(* The end of a command, fatal() and signals lead to cvs_cleanup().        *)
Unlocked(u) == lock' = IF lock = u THEN Nobody ELSE lock
Stopped(u) == task' = [task EXCEPT ![u] = Idle] /\ Unlocked(u)

Stop(u) == Stopped(u) /\ UNCHANGED << rcs, file, entry, ghosts >>

-----------------------------------------------------------------------------
(* What commands do to the working directory.  Nobody else looks at it     *)
(* between these steps; see Half for a command that dies within one.       *)

Does(u, pc, seen) == task' = [task EXCEPT ![u] = [Task(pc, "") EXCEPT !.seen = seen]]

Adding(u, line, after, seen) ==
    task' = [task EXCEPT ![u] =
        [Task("put", "") EXCEPT !.seen = seen, !.line = line, !.after = after]]

LastLine(u, line) == Adding(u, line, "done", NoRcs)

(* update_clear_conflict(): "Result of merge" instead of a time.           *)
ClearConflict(u, r) == LastLine(u, Entry("reg", HeadRev(r), FALSE, FALSE))

(* cvs_ent_add()                                                           *)
PutEntry(u) ==
    /\ At(u, "put")
    /\ SetEntry(u, task[u].line)
    /\ \/ task[u].after = "done"  /\ Stopped(u)
       \/ task[u].after = "clear" /\ ClearConflict(u, task[u].seen) /\ UNCHANGED lock
       \/ task[u].after = "fetch" /\ Does(u, "fetch", task[u].seen) /\ UNCHANGED lock
    /\ UNCHANGED << rcs, file, ghosts >>

(* cvs_ent_remove(), of a file that is unlinked if it is still there.      *)
Forget(u) ==
    /\ At(u, "forget") \/ At(u, "drop")
    /\ SetFile(u, NoFile) /\ SetEntry(u, NoEntry)
    /\ IF At(u, "forget") THEN Stopped(u) ELSE Go(u, "bury") /\ UNCHANGED lock
    /\ UNCHANGED << rcs, ghosts >>

(* cvs_checkout_file()                                                     *)
Fetch(u) ==
    LET r == task[u].seen
    IN  /\ At(u, "fetch")
        /\ SetFile(u, Text(r, HeadRev(r))) /\ OtherTime(u)
        /\ LastLine(u, Entry("reg", HeadRev(r), TRUE, FALSE))
        /\ UNCHANGED << repo, ghosts >>

-----------------------------------------------------------------------------
(* cvs_update_local()                                                      *)

Updates(u, statuses) == \E cmd \in {"update", "update -C"} : Is(u, cmd, statuses)

(* Conflicts nobody has looked at since the merge.                         *)
Overlooks(u) ==
    IF entry[u].conflict /\ entry[u].same THEN Mishap("left") ELSE UNCHANGED mishaps

InTheWay(u) == file[u] # NoFile /\ entry[u].kind = "none"

UpdateNothing(u) ==
    /\ \/ Updates(u, {"UNKNOWN", "ADDED", "REMOVED", "CONFLICT", "UPTODATE"})
       \/ Updates(u, {"CHECKOUT"}) /\ InTheWay(u)
       \/ /\ Is(u, "update", {"MODIFIED"})
          /\ ~entry[u].conflict \/ Marker \in file[u]
    /\ Stop(u)

(* Variant: a file that was never entered is overwritten.                  *)
UpdateCheckoutAny(u) ==
    /\ Updates(u, {"LOST", "CHECKOUT", "PATCH"})
    /\ Does(u, "fetch", Seen(u)) /\ Overlooks(u)
    /\ UNCHANGED << repo, file, entry, edits, discarded, fatals >>

UpdateCheckout(u) ==
    /\ Updates(u, {"LOST", "CHECKOUT", "PATCH"}) /\ ~InTheWay(u)
    /\ Does(u, "fetch", Seen(u)) /\ Overlooks(u)
    /\ UNCHANGED << repo, file, entry, edits, discarded, fatals >>

(* The local changes are moved to a backup file, which is left alone.      *)
UpdateBackup(u) ==
    /\ Is(u, "update -C", {"MODIFIED"})
    /\ discarded' = discarded \cup (file[u] \ {Marker})
    /\ Does(u, "fetch", Seen(u))
    /\ UNCHANGED << repo, file, entry, edits, fatals, mishaps >>

UpdateResolved(u) ==
    /\ Is(u, "update", {"MODIFIED"}) /\ entry[u].conflict /\ Marker \notin file[u]
    /\ ClearConflict(u, Seen(u))
    /\ UNCHANGED << repo, file, entry, ghosts >>

(* A merge is entered as a conflict first; if it had none that is cleared. *)
UpdateMerge(u) ==
    LET r == Seen(u)
        base == Text(r, entry[u].rev)
        theirs == Text(r, HeadRev(r))
        line == Entry("reg", HeadRev(r), TRUE, TRUE)
    IN  /\ Updates(u, {"MERGE"})
        /\ \E overlap \in BOOLEAN :
              /\ overlap => MayOverlap(file[u], base, theirs)
              /\ SetFile(u, Merged(file[u], base, theirs, overlap))
              /\ IF overlap THEN LastLine(u, line) ELSE Adding(u, line, "clear", r)
        /\ OtherTime(u)
        /\ UNCHANGED << repo, ghosts >>

UpdateRemoves(u) ==
    /\ Updates(u, {"UNLINK", "REMOVE_ENTRY"})
    /\ Does(u, "forget", NoRcs) /\ Overlooks(u)
    /\ UNCHANGED << repo, file, entry, edits, discarded, fatals >>

-----------------------------------------------------------------------------
(* cvs_commit_check_files(), before the directory is locked: only files    *)
(* that are added, removed or modified take part in the commit.  A file    *)
(* that no longer is, once it is locked, is skipped.                       *)

ToCommit == {"ADDED", "REMOVED", "MODIFIED"}

CommitNothing(u) ==
    /\ IsNot(u, "commit", ToCommit)
    /\ Stop(u)

CommitAffected(u) ==
    /\ Is(u, "commit", ToCommit) /\ lock # u
    /\ task' = [task EXCEPT ![u] = Task("message", "commit")]
    /\ UNCHANGED << repo, file, entry, ghosts >>

CommitAborted(u) == At(u, "message") /\ Stop(u)

(* Variant: the lock of another is not waited for.                         *)
CommitLockAnyway(u) ==
    /\ At(u, "message") /\ Len(rcs.revs) < MaxRevs
    /\ lock' = u /\ Go(u, "live")
    /\ UNCHANGED << rcs, file, entry, ghosts >>

(* cvs_commit_lock_dirs(); then cvs_commit_local() classifies again.       *)
CommitLock(u) ==
    /\ At(u, "message") /\ lock = Nobody /\ Len(rcs.revs) < MaxRevs
    /\ lock' = u /\ Go(u, "live")
    /\ UNCHANGED << rcs, file, entry, ghosts >>

Commits(u, statuses) == Is(u, "commit", statuses) /\ lock = u

(* A new file gets an RCS file, which is empty until it is written; one    *)
(* that is added again has its RCS file moved out of the Attic.            *)
CommitAdds(u) ==
    /\ Commits(u, {"ADDED"})
    /\ rcs' = [Seen(u) EXCEPT !.place = "live"]
    /\ Does(u, "write", rcs')
    /\ UNCHANGED << lock, file, entry, ghosts >>

(* rcs_write() puts a new RCS file in the place of the one that was read.  *)
(* A revision of this model knows which one its author had (base).  An RCS *)
(* file never goes away, so that there is one for every changed file.      *)
Revision(u, text, dead) == [text |-> text, dead |-> dead, base |-> entry[u].rev]

Write(u, r, revision, next) ==
    /\ rcs' = [r EXCEPT !.revs = Append(@, revision)]
    /\ Does(u, next, rcs')
    /\ UNCHANGED << lock, file, entry, ghosts >>

CommitWrites(u) ==
    LET change == Revision(u, file[u], FALSE)
    IN  \/ At(u, "write") /\ Write(u, task[u].seen, change, "fetch")
        \/ Commits(u, {"MODIFIED"}) /\ Write(u, Seen(u), change, "fetch")

CommitRemoval(u) ==
    LET r == Seen(u)
    IN  /\ Commits(u, {"REMOVED"})
        /\ Write(u, r, Revision(u, Text(r, HeadRev(r)), TRUE), "drop")

(* The RCS file of a removed file goes to the Attic.                       *)
CommitBuries(u) ==
    /\ At(u, "bury")
    /\ rcs' = [rcs EXCEPT !.place = "attic"]
    /\ Stopped(u)
    /\ UNCHANGED << file, entry, ghosts >>

-----------------------------------------------------------------------------
(* add_file() and cvs_remove_local()                                       *)

AlreadyThere(u) ==
    \/ Is(u, "add", {"ADDED", "CHECKOUT"})
    \/ /\ Is(u, "add", {"CONFLICT", "LOST", "MODIFIED", "UPTODATE"})
       /\ Seen(u).place # "none" /\ ~Dead(Seen(u))
    \/ Is(u, "add", {"UNKNOWN"}) /\ file[u] = NoFile /\ ~Dead(Seen(u))

Resurrects(u) == Is(u, "add", {"REMOVED"}) /\ file[u] = NoFile

AddNothing(u) ==
    /\ AlreadyThere(u) \/ (Is(u, "add", {"REMOVED"}) /\ ~Resurrects(u))
    /\ Stop(u)

AddResurrects(u) ==
    /\ Resurrects(u)
    /\ Adding(u, Entry("reg", entry[u].rev, FALSE, FALSE), "fetch", Seen(u))
    /\ UNCHANGED << repo, file, entry, ghosts >>

(* Any other file is entered as new, a file that is out of date too.       *)
Adds(u) ==
    /\ IsNot(u, "add", {"REMOVED"}) /\ ~AlreadyThere(u)
    /\ LastLine(u, Entry("added", 0, FALSE, FALSE))
    /\ UNCHANGED << repo, file, entry, ghosts >>

Missing(u, statuses) == Is(u, "remove", statuses) /\ file[u] = NoFile

RemoveNothing(u) ==
    /\ Opened(u, "remove") /\ ~Missing(u, {"REMOVE_ENTRY", "LOST"})
    /\ Stop(u)

RemoveForgets(u) ==
    /\ Missing(u, {"REMOVE_ENTRY"})
    /\ Does(u, "forget", NoRcs)
    /\ UNCHANGED << repo, file, entry, ghosts >>

RemoveSchedules(u) ==
    /\ Missing(u, {"LOST"})
    /\ LastLine(u, Entry("removed", entry[u].rev, FALSE, FALSE))
    /\ UNCHANGED << repo, file, entry, ghosts >>

-----------------------------------------------------------------------------

(* What a command leaves that ends within a step: a file that is unlinked  *)
(* before it is written, merged or forgotten, and an entry that is taken   *)
(* out before the new one is added.                                        *)
Half(u) ==
    \/ /\ task[u].pc \in {"fetch", "forget", "drop"} \/ Updates(u, {"MERGE"})
       /\ SetFile(u, NoFile) /\ OtherTime(u)
    \/ At(u, "put") /\ SetEntry(u, NoEntry) /\ UNCHANGED file

(* A merge is entered as a conflict, which is cleared a step later.        *)
Uncleared(u) ==
    /\ At(u, "put") /\ task[u].line.kind = "reg"
    /\ entry[u].conflict /\ entry[u].same

(* The file is of another revision than its entry says.                    *)
Unentered(u) ==
    /\ At(u, "put") /\ task[u].line.kind = "reg" /\ entry[u].kind = "reg"
    /\ task[u].line.rev # entry[u].rev

(* fatal(), wherever it strikes; a signal ends a command the same way.     *)
Fatal(u) ==
    /\ ~At(u, "idle") /\ fatals < MaxFatals
    /\ fatals' = fatals + 1
    /\ Half(u) \/ UNCHANGED << file, entry >>
    /\ IF Updates(u, {"MERGE"}) /\ file' # file THEN Mishap("merge")
       ELSE IF Uncleared(u) /\ entry' = entry THEN Mishap("merge")
       ELSE IF Unentered(u) /\ entry' = entry THEN Mishap("entry")
       ELSE UNCHANGED mishaps
    /\ Stopped(u)
    /\ UNCHANGED << rcs, edits, discarded >>

Human(u) == Edit(u) \/ Resolve(u) \/ Create(u) \/ Delete(u)

Shared(u) ==
    \/ Start(u) \/ NotLive(u)
    \/ PutEntry(u) \/ Forget(u) \/ Fetch(u)

Update(u) ==
    \/ UpdateNothing(u) \/ UpdateCheckout(u) \/ UpdateBackup(u) \/ UpdateResolved(u)
    \/ UpdateMerge(u) \/ UpdateRemoves(u)

Commit(u) ==
    \/ CommitNothing(u) \/ CommitAffected(u) \/ CommitAborted(u) \/ CommitLock(u)
    \/ CommitAdds(u) \/ CommitWrites(u) \/ CommitRemoval(u)
    \/ CommitBuries(u)

AddOrRemove(u) ==
    \/ AddNothing(u) \/ AddResurrects(u) \/ Adds(u)
    \/ RemoveNothing(u) \/ RemoveForgets(u) \/ RemoveSchedules(u)

Init ==
    /\ rcs = NoRcs /\ lock = Nobody
    /\ file = [u \in Users |-> NoFile] /\ entry = [u \in Users |-> NoEntry]
    /\ task = [u \in Users |-> Idle]
    /\ edits = 0 /\ discarded = {} /\ fatals = 0 /\ mishaps = {}

Next ==
    \E u \in Users :
        Human(u) \/ Shared(u) \/ Update(u) \/ Commit(u) \/ AddOrRemove(u) \/ Fatal(u)

Spec == Init /\ [][Next]_vars

-----------------------------------------------------------------------------
(* Properties                                                              *)

Edits == 1..MaxEdits
Texts == SUBSET (Edits \cup {Marker})
Revisions == [text : Texts \ {NoFile}, dead : BOOLEAN, base : 0..MaxRevs]
EntryLines == [kind : {"none", "reg", "added", "removed"}, rev : 0..MaxRevs,
               same : BOOLEAN, conflict : BOOLEAN]

TypeOK ==
    /\ rcs.place \in {"none", "live", "attic"} /\ rcs.revs \in Seq(Revisions)
    /\ Len(rcs.revs) <= MaxRevs
    /\ lock \in Users \cup {Nobody}
    /\ file \in [Users -> Texts] /\ entry \in [Users -> EntryLines]
    /\ edits \in 0..MaxEdits /\ discarded \subseteq Edits
    /\ fatals \in 0..MaxFatals /\ mishaps \subseteq Mishaps
    /\ \A u \in Users : lock = u => ~At(u, "idle")

(* Nobody commits over a revision he has not seen: each revision was made  *)
(* from the one before it, or adds a file again that had been removed.     *)
Informed(n) ==
    \/ rcs.revs[n].base = n - 1
    \/ rcs.revs[n].base = 0 /\ rcs.revs[n - 1].dead

InformedCommit ==
    "recreated" \notin mishaps => \A n \in 2..Len(rcs.revs) : Informed(n)

(* No edit is undone by the commit of another: while the file lives, each  *)
(* revision has all the edits of the one before (users only add to the     *)
(* file), whatever mishaps there were but one: a file that is newer than   *)
(* its entry says is merged as if it were the revision of its entry.       *)
BuildsOnHead ==
    "entry" \notin mishaps =>
        \A n \in 2..Len(rcs.revs) :
            ~rcs.revs[n].dead /\ ~rcs.revs[n - 1].dead =>
                rcs.revs[n - 1].text \ {Marker} \subseteq rcs.revs[n].text

(* No work is lost: every edit that no user has thrown away is in a        *)
(* revision or in a working file.                                          *)
Kept ==
    (UNION { file[u] : u \in Users })
        \cup (UNION { rcs.revs[n].text : n \in DOMAIN rcs.revs })

WorkKept == mishaps \subseteq {"entry"} => (1..edits) \ discarded \subseteq Kept

(* The history is only added to, whichever copies of the RCS file commands *)
(* have read before they write it.                                         *)
Extends(old, new) ==
    /\ Len(old) <= Len(new) /\ Len(new) <= Len(old) + 1
    /\ \A n \in DOMAIN old : new[n] = old[n]

HistoryStays == [][Extends(rcs.revs, rcs'.revs)]_rcs

(* "Needs Checkout: The file has not been modified; a new version is       *)
(* available" (cvs.1): what update replaces by the head is unmodified.     *)
NeedsCheckoutIsClean ==
    \A u \in Users : Updates(u, {"PATCH"}) => file[u] = Text(rcs, entry[u].rev)
=============================================================================
