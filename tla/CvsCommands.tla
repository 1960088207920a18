---------------------------- MODULE CvsCommands ----------------------------
(* The calls that cvs commands make to lock, unlock and work on the        *)
(* directories of a local repository (see CvsLock).                        *)
EXTENDS Integers, Sequences

(* The calls ops on the first directory, then on the second, and so on.    *)
Each(ops, dirs) ==
    [k \in 1..(Len(ops) * Len(dirs)) |->
        [op  |-> ops[((k - 1) % Len(ops)) + 1],
         dir |-> dirs[((k - 1) \div Len(ops)) + 1]]]

(* cvs_file_walkdir(): commands with CVS_LOCK_REPO (tag, rtag, admin) lock *)
(* each directory in turn, all others only wait for locks.                 *)
TagCalls(dirs) == Each(<< "lock", "work", "unlock" >>, dirs)
UpdateCalls(dirs) == Each(<< "check", "work" >>, dirs)

(* checkout_repository() does the top directory itself.                    *)
CheckoutCalls(dirs) ==
    Each(<< "check", "work", "unlock" >>, << Head(dirs) >>)
        \o UpdateCalls(Tail(dirs))

(* cvs_commit(): all directories are looked at first; then, per affected   *)
(* file in the order of their names, its directory is locked; then each    *)
(* file is committed.  files are the directories of the affected files.    *)
CommitCalls(dirs, files) ==
    UpdateCalls(dirs) \o Each(<< "lock" >>, files) \o Each(<< "work" >>, files)
=============================================================================
