------------------------------ MODULE CvsLock ------------------------------
(***************************************************************************)
(* The locks cvs puts into the directories of a repository, as several     *)
(* processes of several users take, wait for and remove them.              *)
(*                                                                         *)
(* A process is one cvs command; its Program is the sequence of calls it   *)
(* makes to lock, check (a lock that is only waited for), unlock and work  *)
(* on directories (module CvsCommands).                                    *)
(***************************************************************************)
EXTENDS Integers, Sequences

CONSTANTS
    Procs, Users, Dirs,
    None,           \* no lock file
    User,           \* the user a process runs as
    Program,        \* the calls a process makes
    Denied,         \* processes that may not write to the repository
    Superusers,     \* users that may write any file
    Unnamed,        \* users without a name in the password file
    Tries,          \* CVS_LOCK_TRIES
    MaySignal       \* processes that may receive SIGINT, SIGTERM or SIGPIPE

Call == [op : {"lock", "check", "unlock", "work"}, dir : Dirs]

ASSUME LockAssumption ==
    /\ None \notin Users
    /\ User \in [Procs -> Users]
    /\ Program \in [Procs -> Seq(Call)]
    /\ Denied \subseteq Procs /\ MaySignal \subseteq Procs
    /\ Superusers \subseteq Users /\ Unnamed \subseteq Users
    /\ Tries \in Nat \ {0}

VARIABLES
    lockfile,   \* per directory, the owner of its lock file
    at,         \* per process, the call it is making
    pc,         \* "run", "open" (between stat() and open()), "cleanup", "exited"
    tries,      \* stat() calls that found the lock of somebody else
    repo_locks, \* the worklist of lock files to remove at the end
    cvs_quit,   \* a signal has been received
    outcome     \* "none", "ok" or "fatal"

local == << at, pc, tries, repo_locks, outcome >>
vars == << lockfile, local, cvs_quit >>

-----------------------------------------------------------------------------

Making(p, ops) ==
    /\ pc[p] = "run" /\ at[p] <= Len(Program[p])
    /\ Program[p][at[p]].op \in ops

Dir(p) == Program[p][at[p]].dir

NextCall(p) ==
    /\ at' = [at EXCEPT ![p] = @ + 1]
    /\ tries' = [tries EXCEPT ![p] = 0]
    /\ pc' = [pc EXCEPT ![p] = "run"]

(* The end of the program and fatal() both lead to cvs_cleanup().          *)
End(p, o) ==
    /\ pc' = [pc EXCEPT ![p] = "cleanup"]
    /\ outcome' = [outcome EXCEPT ![p] = o]

Fatal(p) == End(p, "fatal") /\ UNCHANGED << lockfile, at, tries, repo_locks, cvs_quit >>

(* The loops over files and the loop that waits for a lock look at         *)
(* cvs_quit.                                                               *)
Quit(p) ==
    /\ cvs_quit[p]
    /\ \/ Making(p, {"work"})
       \/ Making(p, {"lock", "check"}) /\ tries[p] < Tries
    /\ Fatal(p)

(* Variant: stat() is called once too often.                               *)
LookingOnceMore(p) ==
    Making(p, {"lock", "check"}) /\ tries[p] <= Tries /\ ~cvs_quit[p]

Looking(p) ==
    Making(p, {"lock", "check"}) /\ tries[p] < Tries /\ ~cvs_quit[p]

(* stat() finds no lock: a command that needs one will open it, any other  *)
(* goes on.                                                                *)
Free(p) ==
    /\ Looking(p) /\ lockfile[Dir(p)] = None
    /\ IF Making(p, {"lock"})
       THEN pc' = [pc EXCEPT ![p] = "open"] /\ UNCHANGED << at, tries >>
       ELSE NextCall(p)
    /\ UNCHANGED << lockfile, repo_locks, cvs_quit, outcome >>

(* A lock of the same user counts as one's own.                            *)
Own(p) ==
    /\ Looking(p) /\ lockfile[Dir(p)] = User[p]
    /\ NextCall(p)
    /\ UNCHANGED << lockfile, repo_locks, cvs_quit, outcome >>

(* Variant: one's own lock is waited for.                                  *)
ForeignAny(p) == Looking(p) /\ lockfile[Dir(p)] # None

Foreign(p) == Looking(p) /\ lockfile[Dir(p)] \notin {None, User[p]}

Wait(p) ==
    /\ Foreign(p) /\ lockfile[Dir(p)] \notin Unnamed
    /\ tries' = [tries EXCEPT ![p] = @ + 1]
    /\ UNCHANGED << lockfile, at, pc, repo_locks, cvs_quit, outcome >>

(* The owner of the lock has no name to report.                            *)
Stranger(p) == Foreign(p) /\ lockfile[Dir(p)] \in Unnamed /\ Fatal(p)

(* "maximum wait time for lock reached"                                    *)
TimedOut(p) ==
    Making(p, {"lock", "check"}) /\ tries[p] >= Tries /\ Fatal(p)

(* Lock files have mode 0755, so open() fails on one that somebody else    *)
(* made after stat() was called; O_EXCL is not among its flags.            *)
MayOpen(p) ==
    /\ p \notin Denied
    /\ lockfile[Dir(p)] \in {None, User[p]} \/ User[p] \in Superusers

Created(p) == IF lockfile[Dir(p)] = None THEN User[p] ELSE lockfile[Dir(p)]

(* Variant: whoever opens the file owns it.                                *)
OpenAnyway(p) ==
    /\ pc[p] = "open"
    /\ lockfile' = [lockfile EXCEPT ![Dir(p)] = User[p]]
    /\ repo_locks' = [repo_locks EXCEPT ![p] = << Dir(p) >> \o @]
    /\ NextCall(p)
    /\ UNCHANGED << cvs_quit, outcome >>

(* Variant: a lock that is taken is not noted for removal.                 *)
OpenUnlisted(p) ==
    /\ pc[p] = "open" /\ MayOpen(p)
    /\ lockfile' = [lockfile EXCEPT ![Dir(p)] = Created(p)]
    /\ UNCHANGED repo_locks
    /\ NextCall(p)
    /\ UNCHANGED << cvs_quit, outcome >>

Open(p) ==
    /\ pc[p] = "open" /\ MayOpen(p)
    /\ lockfile' = [lockfile EXCEPT ![Dir(p)] = Created(p)]
    /\ repo_locks' = [repo_locks EXCEPT ![p] = << Dir(p) >> \o @]
    /\ NextCall(p)
    /\ UNCHANGED << cvs_quit, outcome >>

(* Variant: after a failed open() the wait starts over.                    *)
OpenRetried(p) ==
    /\ pc[p] = "open" /\ ~MayOpen(p)
    /\ pc' = [pc EXCEPT ![p] = "run"] /\ tries' = [tries EXCEPT ![p] = 0]
    /\ UNCHANGED << lockfile, at, repo_locks, cvs_quit, outcome >>

OpenFails(p) == pc[p] = "open" /\ ~MayOpen(p) /\ Fatal(p)

(* unlink() asks for write access to the directory, not to the file.       *)
Removed(p, d) ==
    IF p \in Denied THEN lockfile ELSE [lockfile EXCEPT ![d] = None]

(* cvs_repository_unlock() removes the lock file, whoever made it, and     *)
(* leaves it on the worklist.                                              *)
Unlock(p) ==
    /\ Making(p, {"unlock"})
    /\ lockfile' = Removed(p, Dir(p))
    /\ NextCall(p)
    /\ UNCHANGED << repo_locks, cvs_quit, outcome >>

Work(p) ==
    /\ Making(p, {"work"}) /\ ~cvs_quit[p]
    /\ NextCall(p)
    /\ UNCHANGED << lockfile, repo_locks, cvs_quit, outcome >>

Finish(p) ==
    /\ pc[p] = "run" /\ at[p] > Len(Program[p])
    /\ End(p, "ok")
    /\ UNCHANGED << lockfile, at, tries, repo_locks, cvs_quit >>

(* cvs_cleanup(): the worklist, the lock taken last first.                 *)
Cleanup(p) ==
    /\ pc[p] = "cleanup" /\ repo_locks[p] # << >>
    /\ lockfile' = Removed(p, Head(repo_locks[p]))
    /\ repo_locks' = [repo_locks EXCEPT ![p] = Tail(@)]
    /\ UNCHANGED << at, pc, tries, cvs_quit, outcome >>

Exit(p) ==
    /\ pc[p] = "cleanup" /\ repo_locks[p] = << >>
    /\ pc' = [pc EXCEPT ![p] = "exited"]
    /\ UNCHANGED << lockfile, at, tries, repo_locks, cvs_quit, outcome >>

ProcStep(p) ==
    \/ Quit(p) \/ Free(p) \/ Own(p) \/ Wait(p) \/ Stranger(p) \/ TimedOut(p)
    \/ Open(p) \/ OpenFails(p) \/ Unlock(p) \/ Work(p)
    \/ Finish(p) \/ Cleanup(p) \/ Exit(p)

(* The signal handler sets cvs_quit and nothing else.                      *)
Signal(p) ==
    /\ p \in MaySignal /\ ~cvs_quit[p] /\ pc[p] # "exited"
    /\ cvs_quit' = [cvs_quit EXCEPT ![p] = TRUE]
    /\ UNCHANGED << lockfile, local >>

Init ==
    /\ lockfile = [d \in Dirs |-> None]
    /\ at = [p \in Procs |-> 1] /\ pc = [p \in Procs |-> "run"]
    /\ tries = [p \in Procs |-> 0] /\ repo_locks = [p \in Procs |-> << >>]
    /\ cvs_quit = [p \in Procs |-> FALSE]
    /\ outcome = [p \in Procs |-> "none"]

AllExited == \A p \in Procs : pc[p] = "exited"

Next ==
    \/ \E p \in Procs : ProcStep(p) \/ Signal(p)
    \/ AllExited /\ UNCHANGED vars

Spec == Init /\ [][Next]_vars

(* Every process is scheduled.                                             *)
FairSpec == Spec /\ \A p \in Procs : WF_vars(ProcStep(p))

-----------------------------------------------------------------------------
(* Properties                                                              *)

TypeOK ==
    /\ lockfile \in [Dirs -> Users \cup {None}]
    /\ at \in [Procs -> Nat \ {0}]
    /\ pc \in [Procs -> {"run", "open", "cleanup", "exited"}]
    /\ tries \in [Procs -> 0..Tries]
    /\ repo_locks \in [Procs -> Seq(Dirs)]
    /\ cvs_quit \in [Procs -> BOOLEAN]
    /\ outcome \in [Procs -> {"none", "ok", "fatal"}]
    /\ \A p \in Procs : pc[p] = "open" =>
          at[p] <= Len(Program[p]) /\ Program[p][at[p]].op = "lock"

Elements(s) == { s[i] : i \in DOMAIN s }

Listed(p) == Elements(repo_locks[p])

(* No lock is left behind: for every lock file there is a process of its   *)
(* owner that will still remove it, however commands fail, give up waiting *)
(* or are stopped by a signal.                                             *)
LockHasOwner ==
    \A d \in Dirs : lockfile[d] # None =>
        \E p \in Procs : User[p] = lockfile[d] /\ d \in Listed(p)

(* "locks stay in place until we are fully done and exit" (commit.c): what *)
(* a process that never unlocks has locked stays locked in its user's name *)
(* until it has removed it.                                                *)
Unlocks(p, d) ==
    \E i \in DOMAIN Program[p] : Program[p][i] = [op |-> "unlock", dir |-> d]

LocksStay ==
    \A p \in Procs : \A d \in Listed(p) :
        ~Unlocks(p, d) => lockfile[d] = User[p]

(* The same for the directories that nobody unlocks: the mode of the lock  *)
(* files makes up for the O_EXCL that open() lacks.                        *)
Kept(d) == \A p \in Procs : ~Unlocks(p, d)

CommitLocksStay ==
    \A p \in Procs : \A d \in Listed(p) : Kept(d) => lockfile[d] = User[p]

(* Commands that lock the directories in one order do not all fail because *)
(* of each other: one of those that may write and got no signal succeeds.  *)
Contenders == { p \in Procs \ Denied :
                    \E i \in DOMAIN Program[p] : Program[p][i].op = "lock" }

SomeoneSucceeds ==
    (\A p \in Contenders : outcome[p] = "fatal") =>
        \E p \in Contenders : cvs_quit[p]

(* Every command comes to an end, whether it gets its locks or not.        *)
AllExit == <>AllExited
=============================================================================
