----------------------------- MODULE CvsFileInv -----------------------------
(***************************************************************************)
(* The inductive invariant of CvsFile, for any number of users, edits,     *)
(* revisions and commands that end half way: what a command knows of the   *)
(* RCS file while it runs, and what a working file has in common with the  *)
(* revision its entry names.                                               *)
(***************************************************************************)
EXTENDS CvsFile

-----------------------------------------------------------------------------
(* Types                                                                   *)

RcsFiles == [place : {"none", "live", "attic"}, revs : Seq(Revisions)]

Tasks ==
    [pc : {"live", "attic", "message", "write", "fetch", "put", "forget",
           "drop", "bury"},
     cmd : {"", "commit"}, seen : RcsFiles, line : EntryLines,
     after : {"", "done", "clear", "fetch"}]

TypeInv ==
    /\ TypeOK
    /\ rcs \in RcsFiles
    /\ task \in [Users -> {Idle} \cup Tasks]

-----------------------------------------------------------------------------
(* The repository                                                          *)

HeadDead == HasHead(rcs) /\ rcs.revs[HeadRev(rcs)].dead

(* Only a file that is removed is in the Attic.                            *)
PlaceOK ==
    /\ rcs.place = "none" => rcs.revs = << >>
    /\ rcs.place = "attic" => HeadDead

(* The lock of the directory is held by a commit that has been typed in,   *)
(* with room for one more revision of this model.                          *)
LockOf(u) ==
    lock = u =>
        /\ task[u].pc \in {"live", "attic", "write", "fetch", "put",
                           "drop", "bury"}
        /\ task[u].pc \in {"live", "attic"} => task[u].cmd = "commit"
        /\ task[u].pc \in {"live", "attic", "write"} => Len(rcs.revs) < MaxRevs
        /\ task[u].pc = "attic" => rcs.place # "live"

(* A commit writes and buries under the lock; it writes a new revision of  *)
(* the RCS file that is there.                                             *)
CommitOf(u) ==
    /\ At(u, "message") => task[u].cmd = "commit"
    /\ At(u, "write") =>
          /\ lock = u /\ task[u].seen = rcs /\ rcs.place = "live"
          /\ HasHead(rcs) => HeadDead
          /\ file[u] # NoFile /\ entry[u].kind = "added"
    /\ At(u, "drop") \/ At(u, "bury") => lock = u /\ HeadDead

(* What a command has read of the history is still there.                  *)
Older(r) ==
    /\ Len(r.revs) <= Len(rcs.revs)
    /\ \A n \in DOMAIN r.revs : r.revs[n] = rcs.revs[n]

SeenOf(u) == task[u] # Idle => Older(task[u].seen)

-----------------------------------------------------------------------------
(* A working directory                                                     *)

LineOK(e) ==
    /\ e.kind \in {"reg", "removed"} => e.rev \in 1..Len(rcs.revs)
    /\ e.kind \in {"none", "added"} => e.rev = 0
    /\ e.same => e.kind = "reg"

EntryOf(u) ==
    /\ LineOK(entry[u])
    /\ At(u, "fetch") => HasHead(task[u].seen) /\ entry[u].kind # "removed"

(* An entry that is about to be added.                                     *)
PutOf(u) ==
    At(u, "put") =>
        LET t == task[u]
        IN  /\ LineOK(t.line)
            /\ t.after # ""
            /\ t.line.kind = "reg" /\ entry[u].same => entry[u].rev = t.line.rev
            /\ t.after = "fetch" =>
                  file[u] = NoFile /\ HasHead(t.seen) /\ t.line.kind = "reg"
            /\ t.after = "clear" =>
                  /\ HasHead(t.seen)
                  /\ t.line.kind = "reg" /\ t.line.rev = HeadRev(t.seen)

(* A file that is to be removed is not made anew.                          *)
RemovedOf(u) ==
    "recreated" \notin mishaps =>
        /\ entry[u].kind = "removed" => file[u] = NoFile
        /\ At(u, "put") /\ task[u].line.kind = "removed" => file[u] = NoFile

(* A working file has the edits of the revision its entry names, or will   *)
(* name.                                                                   *)
Has(f, n) == f = NoFile \/ rcs.revs[n].text \ {Marker} \subseteq f

Entering(u) == At(u, "put") /\ task[u].line.kind = "reg"

FileOf(u) ==
    "entry" \notin mishaps =>
        /\ entry[u].kind = "reg" => Entering(u) \/ Has(file[u], entry[u].rev)
        /\ Entering(u) => Has(file[u], task[u].line.rev)

(* A file with the time of its entry is the revision the entry names, and  *)
(* nothing is in a file that is about to be replaced that cannot be had.   *)
Had == (UNION { rcs.revs[n].text : n \in DOMAIN rcs.revs }) \cup discarded

Clean(f, e) == e.same /\ ~e.conflict => f = Text(rcs, e.rev)

KeptOf(u) ==
    mishaps \subseteq {"entry"} =>
        /\ Clean(file[u], entry[u])
        /\ At(u, "put") => Clean(file[u], task[u].line)
        /\ task[u].pc \in {"fetch", "forget", "drop"} =>
              file[u] \ {Marker} \subseteq Had

UserInv(u) ==
    /\ LockOf(u) /\ CommitOf(u) /\ SeenOf(u)
    /\ EntryOf(u) /\ PutOf(u) /\ RemovedOf(u) /\ FileOf(u) /\ KeptOf(u)

FileInv ==
    /\ TypeInv /\ PlaceOK
    /\ \A u \in Users : UserInv(u)
    /\ InformedCommit /\ BuildsOnHead /\ WorkKept
=============================================================================
