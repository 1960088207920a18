----------------------------- MODULE CvsEntries -----------------------------
(***************************************************************************)
(* CVS/Entries of one working directory and the two files beside it, under *)
(* commands that may be killed between any two of their system calls.      *)
(*                                                                         *)
(* A command reads Entries and the changes in Entries.Log into a list.     *)
(* Each change it makes is appended to the log at once; when it ends, or   *)
(* goes on to another directory, the list is written to Entries.Backup,    *)
(* which is renamed to Entries, and the log is removed.                    *)
(***************************************************************************)
EXTENDS Integers, SequencesExt

CONSTANTS
    Names,
    Lines,      \* what can be said of a file
    NoLine,     \* nothing
    MaxLog,     \* bound on the changes in the log
    MayTear,    \* may a command be killed between the rename and the unlink?
    MayFail     \* may the rename fail?

ASSUME EntriesAssumption ==
    /\ NoLine \notin Lines /\ MaxLog \in Nat
    /\ MayTear \in BOOLEAN /\ MayFail \in BOOLEAN

VARIABLES
    entries,    \* CVS/Entries
    log,        \* CVS/Entries.Log
    backup,     \* CVS/Entries.Backup
    list,       \* cef_ent, the list of the command that runs
    adding,     \* the line that replaces another
    pc          \* "closed", "open", "add", "rename", "unlink"

vars == << entries, log, backup, list, adding, pc >>

Line(n, l) == [name |-> n, text |-> l]
None == Line(NoLine, NoLine)

Entry == [name : Names, text : Lines]
Change == [op : {"A", "R"}, line : Entry]

-----------------------------------------------------------------------------

(* ent_get_line(): the first line with the name.                           *)
Found(lines, n) ==
    LET at == { i \in DOMAIN lines : lines[i].name = n }
    IN  IF at = {} THEN 0 ELSE CHOOSE i \in at : \A j \in at : i <= j

Without(lines, n) ==
    LET i == Found(lines, n)
    IN  IF i = 0 THEN lines
        ELSE SubSeq(lines, 1, i - 1) \o SubSeq(lines, i + 1, Len(lines))

Done(lines, c) ==
    IF c.op = "A" THEN Append(lines, c.line) ELSE Without(lines, c.line.name)

Replay[x \in Seq(Entry) \X Seq(Change)] ==
    LET lines == x[1]
        changes == x[2]
    IN  IF changes = << >> THEN lines
        ELSE Replay[<< Done(lines, Head(changes)), Tail(changes) >>]

Logged(op, line) == log' = Append(log, [op |-> op, line |-> line])

(* Variant: the log is not looked at.                                      *)
OpenEntries ==
    /\ pc = "closed"
    /\ list' = entries /\ pc' = "open"
    /\ UNCHANGED << entries, log, backup, adding >>

(* cvs_ent_open()                                                          *)
Open ==
    /\ pc = "closed"
    /\ list' = Replay[<< entries, log >>] /\ pc' = "open"
    /\ UNCHANGED << entries, log, backup, adding >>

(* cvs_ent_remove()                                                        *)
TakeOut(n) ==
    /\ Found(list, n) # 0 /\ Len(log) < MaxLog
    /\ Logged("R", list[Found(list, n)])
    /\ list' = Without(list, n)

Delete(n) ==
    /\ pc = "open" /\ TakeOut(n)
    /\ UNCHANGED << entries, backup, adding, pc >>

(* cvs_ent_add(): a line that is there already is taken out first.         *)
Replace(n, l) ==
    /\ pc = "open" /\ TakeOut(n)
    /\ adding' = Line(n, l) /\ pc' = "add"
    /\ UNCHANGED << entries, backup >>

PutIn(line) == Logged("A", line) /\ list' = Append(list, line)

Add(n, l) ==
    /\ pc = "open" /\ Found(list, n) = 0 /\ Len(log) < MaxLog
    /\ PutIn(Line(n, l))
    /\ UNCHANGED << entries, backup, adding, pc >>

Replaced ==
    /\ pc = "add"
    /\ PutIn(adding)
    /\ adding' = None /\ pc' = "open"
    /\ UNCHANGED << entries, backup >>

(* cvs_ent_close(); without a backup file everything stays as it is.       *)
BackupFails ==
    /\ pc = "open"
    /\ list' = << >> /\ pc' = "closed"
    /\ UNCHANGED << entries, log, backup, adding >>

(* Variant: the log is removed before Entries is replaced.                 *)
WriteBackupUnlink ==
    /\ pc = "open"
    /\ backup' = list /\ list' = << >> /\ pc' = "rename" /\ log' = << >>
    /\ UNCHANGED << entries, adding >>

WriteBackup ==
    /\ pc = "open"
    /\ backup' = list /\ list' = << >> /\ pc' = "rename"
    /\ UNCHANGED << entries, log, adding >>

(* When rename() fails, fatal() has cvs_cleanup() close the list again:    *)
(* empty by now, it is written over the backup, and renamed.               *)
Rename ==
    /\ pc = "rename"
    /\ \E fails \in {FALSE, MayFail} :
        /\ entries' = IF fails THEN entries ELSE backup
        /\ pc' = IF fails THEN "rename" ELSE "unlink"
    /\ backup' = << >>
    /\ UNCHANGED << log, list, adding >>

UnlinkLog ==
    /\ pc = "unlink"
    /\ log' = << >> /\ pc' = "closed"
    /\ UNCHANGED << entries, backup, list, adding >>

(* The command is killed.                                                  *)
Crash ==
    /\ pc # "closed"
    /\ pc = "unlink" => MayTear
    /\ list' = << >> /\ adding' = None /\ pc' = "closed"
    /\ UNCHANGED << entries, log, backup >>

Init ==
    /\ entries = << >> /\ log = << >> /\ backup = << >>
    /\ list = << >> /\ adding = None /\ pc = "closed"

Next ==
    \/ Open \/ Replaced \/ BackupFails \/ WriteBackup \/ Rename \/ UnlinkLog \/ Crash
    \/ \E n \in Names : Delete(n) \/ \E l \in Lines : Replace(n, l) \/ Add(n, l)

Spec == Init /\ [][Next]_vars

-----------------------------------------------------------------------------
(* Properties                                                              *)

(* Whatever a command has done to its list, and however many before it     *)
(* were killed, the next command would read the same list from the files;  *)
(* and no file is listed twice.                                            *)
Listed(lines) == { lines[i].name : i \in DOMAIN lines }

ListIsOnDisk ==
    /\ pc \in {"open", "add"} => Replay[<< entries, log >>] = list
    /\ pc = "rename" => Replay[<< entries, log >>] = backup
    /\ Cardinality(Listed(list)) = Len(list)

(* The files are one map, which changes by the entry that a command adds   *)
(* or removes and by nothing else: not when the list is written, and not   *)
(* when a command is killed.  The moment between the rename and the unlink *)
(* is left out, and a rename that fails; see MayTear and MayFail.          *)
OnDisk == IF pc = "unlink" THEN entries ELSE Replay[<< entries, log >>]

Looked(lines) ==
    [ n \in Names |->
        LET i == Found(lines, n) IN IF i = 0 THEN NoLine ELSE lines[i].text ]

Abstract == INSTANCE EntriesMap WITH map <- Looked(OnDisk)

ImplementsEntriesMap == Abstract!Spec
=============================================================================
