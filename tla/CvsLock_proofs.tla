--------------------------- MODULE CvsLock_proofs ---------------------------
(***************************************************************************)
(* Proofs about CvsLock, for any number of processes, users and            *)
(* directories and any sequences of calls.                                 *)
(***************************************************************************)
EXTENDS CvsLock, WellFoundedInduction, TLAPS

-----------------------------------------------------------------------------
(* Facts about the helpers                                                 *)

LEMMA DirType ==
    ASSUME TypeOK, NEW p \in Procs, at[p] <= Len(Program[p])
    PROVE  Program[p][at[p]] \in Call /\ Dir(p) \in Dirs
<1>1. at[p] \in 1..Len(Program[p]) /\ Program[p] \in Seq(Call)
      BY LockAssumption DEF TypeOK
<1>2. Program[p][at[p]] \in Call
      BY <1>1
<1>. QED BY <1>2 DEF Call, Dir

LEMMA MakingDir ==
    ASSUME TypeOK, NEW p \in Procs, NEW ops, Making(p, ops)
    PROVE  Dir(p) \in Dirs
BY DirType DEF Making

-----------------------------------------------------------------------------
(* Type correctness                                                        *)

LEMMA TypeInit == Init => TypeOK
BY LockAssumption DEF Init, TypeOK

LEMMA TypeStep ==
    ASSUME TypeOK, [Next]_vars
    PROVE  TypeOK'
<1>. USE DEF TypeOK
<1>1. CASE UNCHANGED vars
      BY <1>1 DEF vars, local
<1>2. ASSUME NEW p \in Procs, Fatal(p)
      PROVE  TypeOK'
      BY <1>2 DEF Fatal, End
<1>3. ASSUME NEW p \in Procs, ProcStep(p)
      PROVE  TypeOK'
  <2>1. CASE Quit(p)
        BY <2>1, <1>2 DEF Quit
  <2>2. CASE Free(p)
    <3>1. CASE Making(p, {"lock"})
          BY <2>2, <3>1, LockAssumption DEF Free, Making
    <3>2. CASE ~Making(p, {"lock"})
      <4>1. NextCall(p) /\ UNCHANGED << lockfile, repo_locks, cvs_quit, outcome >>
            BY <2>2, <3>2 DEF Free
      <4>. QED BY <4>1, LockAssumption DEF NextCall
    <3>. QED BY <3>1, <3>2
  <2>3. CASE Own(p)
        BY <2>3, LockAssumption DEF Own, Looking, Making, NextCall
  <2>4. CASE Wait(p)
        BY <2>4, LockAssumption DEF Wait, Foreign, Looking, Making
  <2>5. CASE Stranger(p)
        BY <2>5, <1>2 DEF Stranger
  <2>6. CASE TimedOut(p)
        BY <2>6, <1>2 DEF TimedOut
  <2>7. CASE Open(p)
    <3>1. Dir(p) \in Dirs
          BY <2>7, DirType DEF Open
    <3>2. Created(p) \in Users \cup {None}
          BY <3>1, LockAssumption DEF Created
    <3>3. lockfile' \in [Dirs -> Users \cup {None}]
          BY <2>7, <3>1, <3>2 DEF Open
    <3>4. repo_locks' \in [Procs -> Seq(Dirs)]
          BY <2>7, <3>1 DEF Open
    <3>. QED BY <2>7, <3>3, <3>4, LockAssumption DEF Open, NextCall
  <2>8. CASE OpenFails(p)
        BY <2>8, <1>2 DEF OpenFails
  <2>9. CASE Unlock(p)
    <3>1. lockfile' \in [Dirs -> Users \cup {None}]
          BY <2>9 DEF Unlock, Removed
    <3>2. NextCall(p) /\ UNCHANGED << repo_locks, cvs_quit, outcome >>
          BY <2>9 DEF Unlock
    <3>. QED BY <3>1, <3>2, LockAssumption DEF NextCall
  <2>10. CASE Work(p)
        BY <2>10, LockAssumption DEF Work, Making, NextCall
  <2>11. CASE Finish(p)
        BY <2>11 DEF Finish, End
  <2>12. CASE Cleanup(p)
        BY <2>12 DEF Cleanup, Removed
  <2>13. CASE Exit(p)
        BY <2>13 DEF Exit
  <2>. QED BY <1>3, <2>1, <2>2, <2>3, <2>4, <2>5, <2>6, <2>7, <2>8, <2>9, <2>10,
              <2>11, <2>12, <2>13 DEF ProcStep
<1>4. ASSUME NEW p \in Procs, Signal(p)
      PROVE  TypeOK'
      BY <1>4 DEF Signal, local
<1>. QED BY <1>1, <1>3, <1>4 DEF Next

(* Type correctness of the locks, the worklists and the processes.         *)
THEOREM TypeCorrect == Spec => []TypeOK
<1>1. Init => TypeOK
      BY TypeInit
<1>2. TypeOK /\ [Next]_vars => TypeOK'
      BY TypeStep
<1>. QED BY <1>1, <1>2, PTL DEF Spec

-----------------------------------------------------------------------------
(* The worklist as a set                                                   *)

LEMMA PushElements ==
    ASSUME NEW S, NEW s \in Seq(S), NEW d \in S
    PROVE  Elements(<< d >> \o s) = Elements(s) \cup {d}
<1>. DEFINE t == << d >> \o s
<1>1. Len(t) = Len(s) + 1 /\ t[1] = d /\ DOMAIN t = 1..Len(t) /\ DOMAIN s = 1..Len(s)
      OBVIOUS
<1>2. \A i \in 1..Len(s) : t[i + 1] = s[i]
      OBVIOUS
<1>3. \A i \in DOMAIN t : i = 1 \/ (i - 1 \in DOMAIN s /\ t[i] = s[i - 1])
      BY <1>1, <1>2
<1>4. ASSUME NEW i \in DOMAIN s
      PROVE  i + 1 \in DOMAIN t /\ t[i + 1] = s[i]
      BY <1>1, <1>2
<1>. HIDE DEF t
<1>5. Elements(t) \subseteq Elements(s) \cup {d}
      BY <1>1, <1>3 DEF Elements
<1>6. Elements(s) \cup {d} \subseteq Elements(t)
      BY <1>1, <1>4 DEF Elements
<1>. QED BY <1>5, <1>6 DEF t

LEMMA PopElements ==
    ASSUME NEW S, NEW s \in Seq(S), s # << >>
    PROVE  Elements(s) = Elements(Tail(s)) \cup {Head(s)}
<1>1. Tail(s) \in Seq(S) /\ Head(s) \in S
      OBVIOUS
<1>2. ASSUME NEW r \in Seq(S), NEW d \in S
      PROVE  Elements(<< d >> \o r) = Elements(r) \cup {d}
      BY <1>2, PushElements
<1>3. s = << Head(s) >> \o Tail(s)
      OBVIOUS
<1>. QED BY <1>1, <1>2, <1>3

LEMMA ListedPush ==
    ASSUME TypeOK, NEW p \in Procs, NEW d \in Dirs,
           repo_locks' = [repo_locks EXCEPT ![p] = << d >> \o @]
    PROVE  /\ Listed(p)' = Listed(p) \cup {d}
           /\ \A q \in Procs \ {p} : Listed(q)' = Listed(q)
<1>1. repo_locks[p] \in Seq(Dirs) /\ repo_locks'[p] = << d >> \o repo_locks[p]
      BY DEF TypeOK
<1>2. \A q \in Procs \ {p} : repo_locks'[q] = repo_locks[q]
      BY DEF TypeOK
<1>. QED BY <1>1, <1>2, PushElements DEF Listed

LEMMA ListedPop ==
    ASSUME TypeOK, NEW p \in Procs, repo_locks[p] # << >>,
           repo_locks' = [repo_locks EXCEPT ![p] = Tail(@)]
    PROVE  /\ Listed(p) = Listed(p)' \cup {Head(repo_locks[p])}
           /\ \A q \in Procs \ {p} : Listed(q)' = Listed(q)
<1>1. repo_locks[p] \in Seq(Dirs) /\ repo_locks'[p] = Tail(repo_locks[p])
      BY DEF TypeOK
<1>2. \A q \in Procs \ {p} : repo_locks'[q] = repo_locks[q]
      BY DEF TypeOK
<1>. QED BY <1>1, <1>2, PopElements DEF Listed

-----------------------------------------------------------------------------
(* No lock is left behind                                                  *)

(* A process that cannot create a lock file cannot remove one either.      *)
OwnerInv ==
    /\ LockHasOwner
    /\ \A p \in Denied : repo_locks[p] = << >>

LEMMA OwnerInit == Init => OwnerInv
BY LockAssumption DEF Init, OwnerInv, LockHasOwner

LEMMA OwnerStep ==
    ASSUME TypeOK, OwnerInv, [Next]_vars
    PROVE  OwnerInv'
<1>1. CASE UNCHANGED << lockfile, repo_locks >>
      BY <1>1 DEF OwnerInv, LockHasOwner, Listed
<1>2. ASSUME NEW p \in Procs, Open(p)
      PROVE  OwnerInv'
  <2>. DEFINE d == Dir(p)
  <2>1. d \in Dirs /\ p \notin Denied
        BY <1>2, DirType DEF Open, MayOpen, TypeOK
  <2>2. /\ Listed(p)' = Listed(p) \cup {d}
        /\ \A q \in Procs \ {p} : Listed(q)' = Listed(q)
        BY <1>2, <2>1, ListedPush DEF Open
  <2>3. lockfile' = [lockfile EXCEPT ![d] = Created(p)]
        BY <1>2 DEF Open
  <2>4. ASSUME NEW e \in Dirs, lockfile'[e] # None
        PROVE  \E q \in Procs : User[q] = lockfile'[e] /\ e \in Listed(q)'
    <3>1. CASE e = d /\ lockfile[d] = None
          BY <3>1, <2>1, <2>2, <2>3 DEF Created, TypeOK
    <3>2. CASE e # d \/ lockfile[d] # None
      <4>1. lockfile'[e] = lockfile[e]
            BY <3>2, <2>1, <2>3 DEF Created, TypeOK
      <4>2. PICK q \in Procs : User[q] = lockfile[e] /\ e \in Listed(q)
            BY <4>1, <2>4 DEF OwnerInv, LockHasOwner
      <4>. QED BY <4>1, <4>2, <2>2
    <3>. QED BY <3>1, <3>2
  <2>5. \A q \in Denied : repo_locks'[q] = repo_locks[q]
        BY <1>2, <2>1, LockAssumption DEF Open, TypeOK
  <2>. QED BY <2>4, <2>5 DEF OwnerInv, LockHasOwner
<1>3. ASSUME NEW p \in Procs, Unlock(p)
      PROVE  OwnerInv'
  <2>1. Dir(p) \in Dirs
        BY <1>3, MakingDir DEF Unlock
  <2>2. \A e \in Dirs : lockfile'[e] \in {None, lockfile[e]}
        BY <1>3, <2>1 DEF Unlock, Removed, TypeOK
  <2>3. repo_locks' = repo_locks
        BY <1>3 DEF Unlock
  <2>. QED BY <2>2, <2>3 DEF OwnerInv, LockHasOwner, Listed
<1>4. ASSUME NEW p \in Procs, Cleanup(p)
      PROVE  OwnerInv'
  <2>. DEFINE d == Head(repo_locks[p])
  <2>1. p \notin Denied /\ d \in Dirs
        BY <1>4 DEF Cleanup, OwnerInv, TypeOK
  <2>2. /\ Listed(p) = Listed(p)' \cup {d}
        /\ \A q \in Procs \ {p} : Listed(q)' = Listed(q)
        BY <1>4, ListedPop DEF Cleanup
  <2>3. lockfile' = [lockfile EXCEPT ![d] = None]
        BY <1>4, <2>1 DEF Cleanup, Removed
  <2>4. ASSUME NEW e \in Dirs, lockfile'[e] # None
        PROVE  \E q \in Procs : User[q] = lockfile'[e] /\ e \in Listed(q)'
    <3>1. e # d /\ lockfile'[e] = lockfile[e]
          BY <2>1, <2>3, <2>4 DEF TypeOK
    <3>2. PICK q \in Procs : User[q] = lockfile[e] /\ e \in Listed(q)
          BY <3>1, <2>4 DEF OwnerInv, LockHasOwner
    <3>. QED BY <3>1, <3>2, <2>2
  <2>5. \A q \in Denied : repo_locks'[q] = repo_locks[q]
        BY <1>4, <2>1, LockAssumption DEF Cleanup, TypeOK
  <2>. QED BY <2>4, <2>5 DEF OwnerInv, LockHasOwner
<1>5. ASSUME NEW p \in Procs, ProcStep(p)
      PROVE  OwnerInv'
  <2>1. Open(p) \/ Unlock(p) \/ Cleanup(p) \/ UNCHANGED << lockfile, repo_locks >>
        BY <1>5 DEF ProcStep, Quit, Free, Own, Wait, Stranger, TimedOut, OpenFails,
                    Work, Finish, Exit, Fatal
  <2>. QED BY <2>1, <1>1, <1>2, <1>3, <1>4
<1>6. ASSUME NEW p \in Procs, Signal(p)
      PROVE  OwnerInv'
      BY <1>6, <1>1 DEF Signal, local
<1>7. CASE UNCHANGED vars
      BY <1>7, <1>1 DEF vars, local
<1>. QED BY <1>5, <1>6, <1>7 DEF Next

(* No lock is left behind: the process that removes it is still there.     *)
THEOREM LockHasOwnerAlways == Spec => []LockHasOwner
<1>1. Init => TypeOK /\ OwnerInv
      BY TypeInit, OwnerInit
<1>2. TypeOK /\ OwnerInv /\ [Next]_vars => TypeOK' /\ OwnerInv'
      BY TypeStep, OwnerStep
<1>3. OwnerInv => LockHasOwner
      BY DEF OwnerInv
<1>. QED BY <1>1, <1>2, <1>3, PTL DEF Spec

-----------------------------------------------------------------------------
(* The locks of a commit stay                                              *)

(* The same user's processes take each other's locks for their own, and a  *)
(* superuser may open any lock file.                                       *)
OneProcessPerUser ==
    /\ \A p, q \in Procs : User[p] = User[q] => p = q
    /\ Superusers = {}

(* A directory is locked once by a process, and has not been locked yet by *)
(* one that is about to do so.                                             *)
LockedOnce ==
    \A p \in Procs : \A i, j \in DOMAIN repo_locks[p] :
        repo_locks[p][i] = repo_locks[p][j] /\ Kept(repo_locks[p][i]) => i = j

OpensFresh ==
    \A p \in Procs : pc[p] = "open" /\ Kept(Dir(p)) => Dir(p) \notin Listed(p)

StayInv == CommitLocksStay /\ LockedOnce /\ OpensFresh

LEMMA ListedType ==
    ASSUME TypeOK
    PROVE  \A p \in Procs : Listed(p) \subseteq Dirs
<1>1. ASSUME NEW p \in Procs, NEW i \in DOMAIN repo_locks[p]
      PROVE  repo_locks[p][i] \in Dirs
  <2>1. repo_locks[p] \in Seq(Dirs)
        BY DEF TypeOK
  <2>. QED BY <2>1
<1>. QED BY <1>1 DEF Listed, Elements

LEMMA StayInit == Init => StayInv
BY DEF Init, StayInv, CommitLocksStay, LockedOnce, OpensFresh, Listed, Elements

LEMMA StaySame ==
    ASSUME TypeOK, StayInv, UNCHANGED << lockfile, repo_locks >>,
           \A p \in Procs : pc'[p] = "open" => pc[p] = "open" /\ at'[p] = at[p]
    PROVE  StayInv'
BY DEF StayInv, CommitLocksStay, LockedOnce, OpensFresh, Listed, Elements, Dir,
       Kept, Unlocks

LEMMA StayFree ==
    ASSUME TypeOK, StayInv, NEW p \in Procs, Free(p)
    PROVE  StayInv'
<1>1. UNCHANGED << lockfile, repo_locks >>
      BY DEF Free
<1>2. /\ CommitLocksStay' /\ LockedOnce'
      /\ \A q \in Procs : Listed(q)' = Listed(q)
      BY <1>1 DEF StayInv, CommitLocksStay, LockedOnce, Listed, Elements, Kept, Unlocks
<1>3. \A q \in Procs \ {p} : pc'[q] = pc[q] /\ at'[q] = at[q]
      BY DEF Free, NextCall, TypeOK
<1>4. pc'[p] = "open" => Dir(p)' = Dir(p) /\ Dir(p) \in Dirs /\ lockfile[Dir(p)] = None
  <2>1. CASE Making(p, {"lock"})
    <3>1. at' = at /\ Dir(p) \in Dirs
          BY <2>1, MakingDir DEF Free
    <3>. QED BY <3>1 DEF Free, Dir
  <2>2. CASE ~Making(p, {"lock"})
        BY <2>2 DEF Free, NextCall, TypeOK
  <2>. QED BY <2>1, <2>2
<1>5. pc'[p] = "open" /\ Kept(Dir(p)) => Dir(p) \notin Listed(p)
      BY <1>4, LockAssumption DEF StayInv, CommitLocksStay
<1>6. OpensFresh'
      BY <1>2, <1>3, <1>4, <1>5 DEF StayInv, OpensFresh, Dir, Kept, Unlocks
<1>. QED BY <1>2, <1>6 DEF StayInv

LEMMA StayOpen ==
    ASSUME OneProcessPerUser, TypeOK, StayInv, NEW p \in Procs, Open(p)
    PROVE  StayInv'
<1>. DEFINE d == Dir(p)
<1>1. d \in Dirs
      BY DirType DEF Open, TypeOK
<1>2. /\ lockfile[d] \in {None, User[p]}
      /\ lockfile' = [lockfile EXCEPT ![d] = User[p]]
      BY DEF Open, MayOpen, Created, OneProcessPerUser
<1>3. repo_locks' = [repo_locks EXCEPT ![p] = << d >> \o @]
      BY DEF Open
<1>4. /\ Listed(p)' = Listed(p) \cup {d}
      /\ \A q \in Procs \ {p} : Listed(q)' = Listed(q)
      BY <1>1, <1>3, ListedPush
<1>5. Kept(d) => d \notin Listed(p)
      BY DEF Open, StayInv, OpensFresh
<1>6. \A q \in Procs \ {p} : pc'[q] = pc[q] /\ at'[q] = at[q]
      BY DEF Open, NextCall, TypeOK
<1>7. pc'[p] = "run"
      BY DEF Open, NextCall, TypeOK
<1>8. CommitLocksStay'
  <2>1. ASSUME NEW q \in Procs, NEW e \in Listed(q)', Kept(e)
        PROVE  lockfile'[e] = User[q]
    <3>0. (e \in Listed(q) \/ (q = p /\ e = d)) /\ e \in Dirs
          BY <2>1, <1>1, <1>4, ListedType
    <3>1. CASE e = d
      <4>1. lockfile'[e] = User[p]
            BY <3>1, <1>1, <1>2 DEF TypeOK
      <4>2. CASE q # p
        <5>1. lockfile[d] = User[q] /\ User[q] # None
              BY <4>2, <3>0, <3>1, <2>1, LockAssumption DEF StayInv, CommitLocksStay
        <5>. QED BY <4>1, <5>1, <1>2
      <4>. QED BY <4>1, <4>2
    <3>2. CASE e # d
      <4>1. lockfile[e] = User[q]
            BY <3>0, <3>2, <2>1 DEF StayInv, CommitLocksStay
      <4>. QED BY <4>1, <3>0, <3>2, <1>2 DEF TypeOK
    <3>. QED BY <3>1, <3>2
  <2>. QED BY <2>1 DEF CommitLocksStay, Kept, Unlocks
<1>9. LockedOnce'
  <2>. DEFINE s == repo_locks[p]
  <2>1. /\ s \in Seq(Dirs) /\ repo_locks'[p] = << d >> \o s
        /\ \A q \in Procs \ {p} : repo_locks'[q] = repo_locks[q]
        BY <1>3 DEF TypeOK
  <2>2. ASSUME NEW i \in DOMAIN repo_locks'[p]
        PROVE  \/ i = 1 /\ repo_locks'[p][i] = d
               \/ i - 1 \in DOMAIN s /\ repo_locks'[p][i] = s[i - 1]
        BY <2>1, <1>1
  <2>3. \A i \in DOMAIN s : s[i] \in Listed(p)
        BY DEF Listed, Elements
  <2>4. ASSUME NEW i \in DOMAIN repo_locks'[p], NEW j \in DOMAIN repo_locks'[p],
               repo_locks'[p][i] = repo_locks'[p][j], Kept(repo_locks'[p][i])
        PROVE  i = j
    <3>1. i \in Int /\ j \in Int
          BY <2>1, <1>1
    <3>2. CASE i = 1 \/ j = 1
      <4>1. repo_locks'[p][i] = d /\ Kept(d)
        <5>1. i = 1 => repo_locks'[p][i] = d
              BY <2>1, <1>1
        <5>2. j = 1 => repo_locks'[p][j] = d
              BY <2>1, <1>1
        <5>. QED BY <5>1, <5>2, <3>2, <2>4
      <4>2. ASSUME NEW k \in DOMAIN repo_locks'[p], repo_locks'[p][k] = d
            PROVE  k = 1
            BY <4>1, <4>2, <2>2, <2>3, <1>5
      <4>. QED BY <4>1, <4>2, <2>4
    <3>3. CASE i # 1 /\ j # 1
      <4>1. i - 1 \in DOMAIN s /\ j - 1 \in DOMAIN s /\ s[i - 1] = s[j - 1] /\ Kept(s[i - 1])
            BY <3>3, <2>2, <2>4
      <4>2. i - 1 = j - 1
            BY <4>1 DEF StayInv, LockedOnce
      <4>. QED BY <3>1, <4>2
    <3>. QED BY <3>2, <3>3
  <2>5. ASSUME NEW q \in Procs \ {p}
        PROVE  \A i, j \in DOMAIN repo_locks'[q] :
                  repo_locks'[q][i] = repo_locks'[q][j] /\ Kept(repo_locks'[q][i])
                      => i = j
        BY <2>1 DEF StayInv, LockedOnce
  <2>. QED BY <2>4, <2>5 DEF LockedOnce, Kept, Unlocks
<1>10. OpensFresh'
       BY <1>4, <1>6, <1>7 DEF StayInv, OpensFresh, Dir, Kept, Unlocks
<1>. QED BY <1>8, <1>9, <1>10 DEF StayInv

LEMMA StayUnlock ==
    ASSUME TypeOK, StayInv, NEW p \in Procs, Unlock(p)
    PROVE  StayInv'
<1>1. Dir(p) \in Dirs /\ ~Kept(Dir(p))
  <2>1. Program[p][at[p]] \in Call /\ Program[p][at[p]].op = "unlock"
        BY DirType DEF Unlock, Making
  <2>2. Program[p][at[p]] = [op |-> "unlock", dir |-> Dir(p)] /\ Dir(p) \in Dirs
        BY <2>1 DEF Call, Dir
  <2>3. at[p] \in DOMAIN Program[p]
        BY LockAssumption DEF Unlock, Making, TypeOK
  <2>. QED BY <2>2, <2>3 DEF Kept, Unlocks
<1>2. repo_locks' = repo_locks /\ \A q \in Procs : Listed(q)' = Listed(q)
      BY DEF Unlock, Listed, Elements
<1>3. \A e \in Dirs : e # Dir(p) => lockfile'[e] = lockfile[e]
      BY <1>1 DEF Unlock, Removed, TypeOK
<1>4. \A q \in Procs : Listed(q) \subseteq Dirs
      BY ListedType
<1>5. CommitLocksStay'
      BY <1>1, <1>2, <1>3, <1>4 DEF StayInv, CommitLocksStay, Kept, Unlocks
<1>6. LockedOnce'
      BY <1>2 DEF StayInv, LockedOnce, Kept, Unlocks
<1>7. \A q \in Procs : pc'[q] = "open" => pc[q] = "open" /\ at'[q] = at[q]
      BY DEF Unlock, NextCall, TypeOK
<1>8. OpensFresh'
      BY <1>2, <1>7 DEF StayInv, OpensFresh, Dir, Kept, Unlocks
<1>. QED BY <1>5, <1>6, <1>8 DEF StayInv

LEMMA StayCleanup ==
    ASSUME OneProcessPerUser, TypeOK, StayInv, NEW p \in Procs, Cleanup(p)
    PROVE  StayInv'
<1>. DEFINE s == repo_locks[p]
            d == Head(s)
<1>1. /\ s \in Seq(Dirs) /\ s # << >> /\ d \in Dirs /\ repo_locks'[p] = Tail(s)
      /\ \A q \in Procs \ {p} : repo_locks'[q] = repo_locks[q]
      BY DEF Cleanup, TypeOK
<1>2. /\ Listed(p) = Listed(p)' \cup {d}
      /\ \A q \in Procs \ {p} : Listed(q)' = Listed(q)
      BY ListedPop DEF Cleanup
<1>3. ASSUME NEW i \in DOMAIN Tail(s)
      PROVE  i + 1 \in DOMAIN s /\ Tail(s)[i] = s[i + 1] /\ i \in Nat \ {0}
      BY <1>1
<1>4. 1 \in DOMAIN s /\ d = s[1]
      BY <1>1
<1>5. Kept(d) => d \notin Listed(p)'
  <2>1. ASSUME Kept(d), NEW i \in DOMAIN Tail(s), Tail(s)[i] = d
        PROVE  FALSE
    <3>1. i + 1 = 1
          BY <2>1, <1>3, <1>4 DEF StayInv, LockedOnce
    <3>. QED BY <3>1, <1>3
  <2>. QED BY <2>1, <1>1 DEF Listed, Elements
<1>6. \A e \in Dirs : e # d => lockfile'[e] = lockfile[e]
      BY <1>1 DEF Cleanup, Removed, TypeOK
<1>7. CommitLocksStay'
  <2>1. ASSUME NEW q \in Procs, NEW e \in Listed(q)', Kept(e)
        PROVE  lockfile'[e] = User[q]
    <3>1. e \in Listed(q) /\ e \in Dirs
          BY <1>2, <2>1, ListedType
    <3>2. lockfile[e] = User[q]
          BY <3>1, <2>1 DEF StayInv, CommitLocksStay
    <3>3. e # d
      <4>1. CASE q = p
            BY <4>1, <2>1, <1>5
      <4>2. CASE q # p
            BY <4>2, <2>1, <3>2, <1>2 DEF StayInv, CommitLocksStay, OneProcessPerUser
      <4>. QED BY <4>1, <4>2
    <3>. QED BY <3>1, <3>2, <3>3, <1>6
  <2>. QED BY <2>1 DEF CommitLocksStay, Kept, Unlocks
<1>8. LockedOnce'
  <2>1. ASSUME NEW i \in DOMAIN repo_locks'[p], NEW j \in DOMAIN repo_locks'[p],
               repo_locks'[p][i] = repo_locks'[p][j], Kept(repo_locks'[p][i])
        PROVE  i = j
    <3>1. /\ i \in DOMAIN Tail(s) /\ j \in DOMAIN Tail(s)
          /\ Tail(s)[i] = Tail(s)[j] /\ Kept(Tail(s)[i])
          BY <2>1, <1>1
    <3>2. i + 1 = j + 1
          BY <3>1, <1>3 DEF StayInv, LockedOnce
    <3>. QED BY <3>1, <3>2, <1>3
  <2>2. ASSUME NEW q \in Procs \ {p}
        PROVE  \A i, j \in DOMAIN repo_locks'[q] :
                  repo_locks'[q][i] = repo_locks'[q][j] /\ Kept(repo_locks'[q][i])
                      => i = j
        BY <1>1 DEF StayInv, LockedOnce
  <2>. QED BY <2>1, <2>2 DEF LockedOnce, Kept, Unlocks
<1>9. OpensFresh'
  <2>1. pc' = pc /\ at' = at /\ pc[p] = "cleanup"
        BY DEF Cleanup
  <2>. QED BY <2>1, <1>2 DEF StayInv, OpensFresh, Dir, Kept, Unlocks
<1>. QED BY <1>7, <1>8, <1>9 DEF StayInv

LEMMA StayStep ==
    ASSUME OneProcessPerUser, TypeOK, StayInv, [Next]_vars
    PROVE  StayInv'
<1>1. ASSUME NEW p \in Procs, ProcStep(p)
      PROVE  StayInv'
  <2>1. CASE Free(p)
        BY <2>1, StayFree
  <2>2. CASE Open(p)
        BY <2>2, StayOpen
  <2>3. CASE Unlock(p)
        BY <2>3, StayUnlock
  <2>4. CASE Cleanup(p)
        BY <2>4, StayCleanup
  <2>5. CASE ~(Free(p) \/ Open(p) \/ Unlock(p) \/ Cleanup(p))
    <3>1. UNCHANGED << lockfile, repo_locks >>
          BY <1>1, <2>5 DEF ProcStep, Quit, Own, Wait, Stranger, TimedOut, OpenFails,
                            Work, Finish, Exit, Fatal
    <3>2. \A q \in Procs : pc'[q] = "open" => pc[q] = "open" /\ at'[q] = at[q]
          BY <1>1, <2>5 DEF ProcStep, Quit, Own, Wait, Stranger, TimedOut, OpenFails,
                            Work, Finish, Exit, Fatal, End, NextCall, TypeOK
    <3>. QED BY <3>1, <3>2, StaySame
  <2>. QED BY <2>1, <2>2, <2>3, <2>4, <2>5
<1>2. ASSUME NEW p \in Procs, Signal(p)
      PROVE  StayInv'
      BY <1>2, StaySame DEF Signal, local
<1>3. CASE UNCHANGED vars
      BY <1>3, StaySame DEF vars, local
<1>. QED BY <1>1, <1>2, <1>3 DEF Next

(* Where nobody unlocks, what a process has locked stays locked by it: two *)
(* users never hold one directory at a time.                               *)
THEOREM CommitLocksStayAlways ==
    ASSUME OneProcessPerUser
    PROVE  Spec => []CommitLocksStay
<1>1. Init => TypeOK /\ StayInv
      BY TypeInit, StayInit
<1>2. TypeOK /\ StayInv /\ [Next]_vars => TypeOK' /\ StayInv'
      BY TypeStep, StayStep
<1>3. StayInv => CommitLocksStay
      BY DEF StayInv
<1>. QED BY <1>1, <1>2, <1>3, PTL DEF Spec

-----------------------------------------------------------------------------
(* Commands that lock the directories in one order do not all fail         *)

(* All contenders go through the directories in one order: after a lock is *)
(* taken, others are waited for only further on. (The number of a          *)
(* directory tells how many come after it.)                                *)
Locks(c) == c.op = "lock"
Waits(c) == c.op \in {"lock", "check"}

OneOrder ==
    \E after \in [Dirs -> Nat] : \A p \in Contenders : \A i, j \in DOMAIN Program[p] :
        i < j /\ Locks(Program[p][i]) /\ Waits(Program[p][j]) =>
            \/ Program[p][i].dir = Program[p][j].dir
            \/ after[Program[p][j].dir] < after[Program[p][i].dir]

AtWait(p) == at[p] <= Len(Program[p]) /\ Waits(Program[p][at[p]])

Failed(p) == outcome[p] = "fatal" /\ ~cvs_quit[p]

(* p has met a lock of somebody else in d, and may have given up.          *)
Blocked(p, d) ==
    p \notin Denied /\ AtWait(p) /\ Dir(p) = d /\ (tries[p] > 0 \/ Failed(p))

HasLocked(q, d) ==
    \E i \in DOMAIN Program[q] :
        i < at[q] /\ Locks(Program[q][i]) /\ Program[q][i].dir = d

(* Nobody has locked d after q; so it is not in d that q fails.            *)
LastIn(q, d) ==
    HasLocked(q, d) /\ lockfile[d] \in {None, User[q]} /\ ~Blocked(q, d)

Contended(d) == lockfile[d] # None \/ \E p \in Procs : Blocked(p, d)

TurnInv ==
    /\ \A p \in Procs : pc[p] \in {"run", "open"} => outcome[p] = "none"
    /\ \A p \in Procs : Failed(p) => AtWait(p)
    /\ \A d \in Dirs : Contended(d) => \E q \in Procs \ Denied : LastIn(q, d)

LEMMA TurnInit == Init => TurnInv
<1>. SUFFICES ASSUME Init PROVE TurnInv
     OBVIOUS
<1>1. \A p \in Procs : tries[p] = 0 /\ outcome[p] = "none"
      BY DEF Init
<1>2. \A d \in Dirs : lockfile[d] = None
      BY DEF Init
<1>3. \A p \in Procs : ~Failed(p)
      BY <1>1 DEF Failed
<1>4. \A p \in Procs, d \in Dirs : ~Blocked(p, d)
      BY <1>1, <1>3 DEF Blocked
<1>. QED BY <1>1, <1>2, <1>3, <1>4 DEF TurnInv, Contended

(* Who is blocked has met a lock, which is not that of who locked d last.  *)
LEMMA TurnKept ==
    ASSUME TypeOK, TurnInv, NEW p \in Procs, NEW d \in Dirs,
           \A q \in Procs \ {p} :
               /\ HasLocked(q, d) => HasLocked(q, d)'
               /\ Blocked(q, d)' => Blocked(q, d),
           lockfile'[d] \in {lockfile[d], None},
           HasLocked(p, d) => HasLocked(p, d)',
           Blocked(p, d)' => Blocked(p, d) \/ lockfile[d] \notin {None, User[p]},
           Contended(d)'
    PROVE  \E q \in Procs \ Denied : LastIn(q, d)'
<1>1. Contended(d)
      BY DEF Contended
<1>2. PICK q \in Procs \ Denied : LastIn(q, d)
      BY <1>1 DEF TurnInv
<1>3. HasLocked(q, d)' /\ ~Blocked(q, d)'
      BY <1>2 DEF LastIn
<1>. QED BY <1>2, <1>3 DEF LastIn

LEMMA OthersStay ==
    ASSUME TypeOK, NEW p \in Procs, ProcStep(p), NEW q \in Procs \ {p}
    PROVE  /\ at'[q] = at[q] /\ tries'[q] = tries[q] /\ pc'[q] = pc[q]
           /\ outcome'[q] = outcome[q] /\ cvs_quit'[q] = cvs_quit[q]
BY DEF ProcStep, Quit, Free, Own, Wait, Stranger, TimedOut, Open, OpenFails, Unlock, Work,
       Finish, Cleanup, Exit, Fatal, End, NextCall, TypeOK

(* A step takes p on to the next call, with nothing waited for, or leaves  *)
(* it where it is.                                                         *)
GoesOnward(p) == at'[p] = at[p] + 1 /\ tries'[p] = 0 /\ outcome'[p] = "none"
StaysPut(p) == at'[p] = at[p] /\ tries'[p] = tries[p] /\ outcome'[p] = outcome[p]
Fails(p) == at'[p] = at[p] /\ tries'[p] = tries[p] /\ outcome'[p] = "fatal"

Abroad(p) == AtWait(p) /\ (p \notin Denied => lockfile[Dir(p)] \notin {None, User[p]})

LEMMA StepOnward ==
    ASSUME TypeOK, TurnInv, NEW p \in Procs, ProcStep(p)
    PROVE  \/ GoesOnward(p)
           \/ StaysPut(p)
           \/ Fails(p) /\ (cvs_quit'[p] \/ Abroad(p) \/ (AtWait(p) /\ tries[p] > 0))
           \/ at'[p] = at[p] /\ Wait(p) /\ Abroad(p) /\ outcome'[p] = outcome[p]
           \/ at'[p] = at[p] /\ at[p] > Len(Program[p]) /\ outcome'[p] = "ok"
<1>0. /\ pc[p] \in {"run", "open"} => outcome[p] = "none"
      /\ p \in DOMAIN at /\ p \in DOMAIN tries /\ p \in DOMAIN outcome
      BY DEF TurnInv, TypeOK
<1>1. ASSUME NextCall(p), UNCHANGED outcome, pc[p] \in {"run", "open"}
      PROVE  GoesOnward(p)
      BY <1>0, <1>1 DEF NextCall, GoesOnward
<1>2. ASSUME Fatal(p)
      PROVE  Fails(p) /\ cvs_quit' = cvs_quit
      BY <1>0, <1>2 DEF Fatal, End, Fails
<1>3. ASSUME Making(p, {"lock", "check"})
      PROVE  AtWait(p)
      BY <1>3 DEF Making, AtWait, Waits
<1>4. CASE Quit(p)
      BY <1>2, <1>4 DEF Quit
<1>5. CASE Free(p)
      BY <1>1, <1>5 DEF Free, Looking, Making, StaysPut
<1>6. CASE Own(p)
      BY <1>1, <1>6 DEF Own, Looking, Making
<1>7. ASSUME Foreign(p)
      PROVE  Abroad(p)
      BY <1>3, <1>7 DEF Foreign, Looking, Abroad
<1>8. CASE Wait(p)
      BY <1>7, <1>8 DEF Wait
<1>9. CASE Stranger(p)
      BY <1>2, <1>7, <1>9 DEF Stranger
<1>10. CASE TimedOut(p)
  <2>1. tries[p] > 0
        BY <1>10, LockAssumption DEF TimedOut, TypeOK
  <2>. QED BY <1>2, <1>3, <1>10, <2>1 DEF TimedOut
<1>11. CASE Open(p)
      BY <1>1, <1>11 DEF Open
<1>12. CASE OpenFails(p)
  <2>1. AtWait(p)
        BY <1>12 DEF OpenFails, TypeOK, AtWait, Waits
  <2>2. Abroad(p)
        BY <1>12, <2>1 DEF OpenFails, MayOpen, Abroad
  <2>. QED BY <1>2, <1>12, <2>2 DEF OpenFails
<1>13. CASE Unlock(p)
      BY <1>1, <1>13 DEF Unlock, Making
<1>14. CASE Work(p)
      BY <1>1, <1>14 DEF Work, Making
<1>15. CASE Finish(p)
      BY <1>0, <1>15 DEF Finish, End
<1>16. CASE Cleanup(p)
      BY <1>16 DEF Cleanup, StaysPut
<1>17. CASE Exit(p)
      BY <1>17 DEF Exit, StaysPut
<1>. QED BY <1>4, <1>5, <1>6, <1>8, <1>9, <1>10, <1>11, <1>12, <1>13, <1>14, <1>15,
            <1>16, <1>17 DEF ProcStep

LEMMA BlockedBecause ==
    ASSUME TypeOK, TurnInv, NEW p \in Procs, ProcStep(p), NEW d \in Dirs
    PROVE  /\ HasLocked(p, d) => HasLocked(p, d)'
           /\ Blocked(p, d)' => Blocked(p, d) \/ lockfile[d] \notin {None, User[p]}
<1>1. at[p] \in Nat /\ tries[p] \in Nat
      BY LockAssumption DEF TypeOK
<1>2. CASE GoesOnward(p)
  <2>1. ~Failed(p)' /\ ~Blocked(p, d)'
        BY <1>2 DEF GoesOnward, Failed, Blocked
  <2>2. \A i \in DOMAIN Program[p] : i < at[p] => i < at'[p]
        BY <1>1, <1>2, LockAssumption DEF GoesOnward
  <2>. QED BY <2>1, <2>2 DEF HasLocked
<1>3. ASSUME at'[p] = at[p]
      PROVE  /\ HasLocked(p, d) => HasLocked(p, d)'
             /\ AtWait(p)' <=> AtWait(p)
             /\ Dir(p)' = Dir(p)
      BY <1>3 DEF HasLocked, AtWait, Dir
<1>4. cvs_quit'[p] = cvs_quit[p]
      BY DEF ProcStep, Quit, Free, Own, Wait, Stranger, TimedOut, Open, OpenFails, Unlock,
             Work, Finish, Cleanup, Exit, Fatal
<1>5. CASE StaysPut(p)
      BY <1>3, <1>4, <1>5 DEF StaysPut, Blocked, Failed, TurnInv
<1>6. CASE Fails(p) /\ (cvs_quit'[p] \/ Abroad(p) \/ (AtWait(p) /\ tries[p] > 0))
  <2>1. at'[p] = at[p] /\ tries'[p] = tries[p]
        BY <1>6 DEF Fails
  <2>. QED BY <1>3, <1>6, <2>1 DEF Blocked, Failed, Abroad
<1>7. CASE at'[p] = at[p] /\ Wait(p) /\ Abroad(p) /\ outcome'[p] = outcome[p]
      BY <1>3, <1>4, <1>7 DEF Blocked, Failed, Abroad, TurnInv
<1>8. CASE at'[p] = at[p] /\ at[p] > Len(Program[p]) /\ outcome'[p] = "ok"
  <2>1. Len(Program[p]) \in Nat
        BY LockAssumption
  <2>2. ~AtWait(p)
        BY <1>1, <1>8, <2>1 DEF AtWait
  <2>. QED BY <1>3, <1>8, <2>2 DEF Blocked, Failed
<1>. QED BY <1>2, <1>5, <1>6, <1>7, <1>8, StepOnward

LEMMA FailsAtWait ==
    ASSUME TypeOK, TurnInv, NEW p \in Procs, ProcStep(p)
    PROVE  Failed(p)' => AtWait(p)'
<1>1. ASSUME at'[p] = at[p]
      PROVE  AtWait(p)' <=> AtWait(p)
      BY <1>1 DEF AtWait
<1>2. cvs_quit'[p] = cvs_quit[p]
      BY DEF ProcStep, Quit, Free, Own, Wait, Stranger, TimedOut, Open, OpenFails, Unlock,
             Work, Finish, Cleanup, Exit, Fatal
<1>3. CASE GoesOnward(p)
      BY <1>3 DEF GoesOnward, Failed
<1>4. CASE StaysPut(p)
      BY <1>1, <1>2, <1>4 DEF StaysPut, Failed, TurnInv
<1>5. CASE Fails(p) /\ (cvs_quit'[p] \/ Abroad(p) \/ (AtWait(p) /\ tries[p] > 0))
      BY <1>1, <1>5 DEF Fails, Failed, Abroad
<1>6. CASE at'[p] = at[p] /\ Wait(p) /\ Abroad(p) /\ outcome'[p] = outcome[p]
      BY <1>1, <1>6 DEF Abroad
<1>7. CASE at'[p] = at[p] /\ at[p] > Len(Program[p]) /\ outcome'[p] = "ok"
      BY <1>7 DEF Failed
<1>. QED BY <1>3, <1>4, <1>5, <1>6, <1>7, StepOnward

LEMMA TurnStep ==
    ASSUME TypeOK, TurnInv, [Next]_vars
    PROVE  TurnInv'
<1>1. ASSUME NEW p \in Procs, ProcStep(p)
      PROVE  TurnInv'
  <2>1. \A q \in Procs : pc'[q] \in {"run", "open"} => outcome'[q] = "none"
    <3>1. pc'[p] \in {"run", "open"} => outcome'[p] = "none"
      <4>1. pc[p] \in {"run", "open"} => outcome[p] = "none"
            BY DEF TurnInv
      <4>. QED BY <1>1, <4>1 DEF ProcStep, Quit, Free, Own, Wait, Stranger, TimedOut, Open,
                 OpenFails, Unlock, Work, Finish, Cleanup, Exit, Fatal, End, NextCall,
                 Looking, Foreign, Making, TypeOK
    <3>. QED BY <1>1, <3>1, OthersStay DEF TurnInv
  <2>2. ASSUME NEW q \in Procs \ {p}
        PROVE  /\ Failed(q)' => AtWait(q)'
               /\ \A d \in Dirs : /\ HasLocked(q, d) => HasLocked(q, d)'
                                  /\ Blocked(q, d)' => Blocked(q, d)
        BY <1>1, <2>2, OthersStay DEF TurnInv, Failed, AtWait, HasLocked, Blocked, Dir
  <2>3. \A q \in Procs : Failed(q)' => AtWait(q)'
        BY <1>1, <2>2, FailsAtWait
  <2>4. ASSUME NEW d \in Dirs, Contended(d)'
        PROVE  \E q \in Procs \ Denied : LastIn(q, d)'
    <3>1. CASE lockfile'[d] \in {lockfile[d], None}
          BY <1>1, <2>2, <2>4, <3>1, BlockedBecause, TurnKept
    <3>2. CASE lockfile'[d] \notin {lockfile[d], None}
      <4>1. Open(p) /\ Dir(p) = d /\ lockfile[d] = None /\ lockfile'[d] = User[p]
        <5>1. Open(p)
              BY <1>1, <3>2 DEF ProcStep, Quit, Free, Own, Wait, Stranger, TimedOut, OpenFails,
                 Unlock, Work, Finish, Cleanup, Exit, Fatal, Removed, TypeOK
        <5>. QED BY <3>2, <5>1, DirType DEF Open, Created, TypeOK
      <4>2. p \notin Denied /\ GoesOnward(p)
            BY <4>1 DEF Open, MayOpen, NextCall, GoesOnward, TurnInv, TypeOK
      <4>3. HasLocked(p, d)'
        <5>1. at[p] \in Nat \ {0} /\ at[p] <= Len(Program[p]) /\ Program[p][at[p]].op = "lock"
              BY <4>1 DEF Open, TypeOK
        <5>2. at[p] \in DOMAIN Program[p] /\ at[p] < at'[p]
              BY <4>2, <5>1, LockAssumption DEF GoesOnward
        <5>. QED BY <4>1, <5>1, <5>2 DEF HasLocked, Locks, Dir
      <4>4. ~Blocked(p, d)'
            BY <4>2 DEF GoesOnward, Blocked, Failed
      <4>. QED BY <4>1, <4>2, <4>3, <4>4 DEF LastIn
    <3>. QED BY <3>1, <3>2
  <2>. QED BY <2>1, <2>3, <2>4 DEF TurnInv
<1>2. ASSUME NEW p \in Procs, Signal(p)
      PROVE  TurnInv'
  <2>1. \A q \in Procs : Failed(q)' => Failed(q)
        BY <1>2 DEF Signal, local, Failed, TypeOK
  <2>2. \A q \in Procs : AtWait(q)' <=> AtWait(q)
        BY <1>2 DEF Signal, local, AtWait
  <2>3. \A q \in Procs, d \in Dirs :
            /\ Blocked(q, d)' => Blocked(q, d)
            /\ HasLocked(q, d)' <=> HasLocked(q, d)
        BY <1>2, <2>1, <2>2 DEF Signal, local, Blocked, HasLocked, Dir
  <2>. QED BY <1>2, <2>1, <2>2, <2>3 DEF Signal, local, TurnInv, Contended, LastIn
<1>3. CASE UNCHANGED vars
      BY <1>3 DEF vars, local, TurnInv, Contended, LastIn, Blocked, HasLocked, Failed,
                  AtWait, Dir
<1>. QED BY <1>1, <1>2, <1>3 DEF Next

(* A set of numbers has a least one.                                       *)
LEMMA LeastNat ==
    ASSUME NEW T, T \subseteq Nat, T # {}
    PROVE  \E n \in T : \A m \in T : n <= m
<1>. DEFINE R == OpToRel(<, Nat)
<1>1. IsWellFoundedOn(R, Nat)
  BY NatLessThanWellFounded
<1>2. \A x, y \in Nat : y < x => << y, x >> \in R
  BY DEF OpToRel
<1>. HIDE DEF R
<1>3. PICK n \in T : \A m \in T : ~ (<< m, n >> \in R)
  BY <1>1, WFMin
<1>4. ASSUME NEW m \in T
      PROVE  n <= m
  <2>1. ~ (m < n)
    BY <1>2, <1>3
  <2>. QED BY <2>1
<1>. QED BY <1>4

(* The directory in which some contender fails and after which the fewest  *)
(* come was locked by another one before, which can only fail further on.  *)
LEMMA OneSucceeds ==
    ASSUME TypeOK, TurnInv, OneOrder, Contenders # {}
    PROVE  SomeoneSucceeds
<1>. SUFFICES ASSUME \A p \in Contenders : outcome[p] = "fatal" /\ ~cvs_quit[p]
              PROVE  FALSE
     BY DEF SomeoneSucceeds
<1>1. PICK after \in [Dirs -> Nat] : \A p \in Contenders : \A i, j \in DOMAIN Program[p] :
          i < j /\ Locks(Program[p][i]) /\ Waits(Program[p][j]) =>
              \/ Program[p][i].dir = Program[p][j].dir
              \/ after[Program[p][j].dir] < after[Program[p][i].dir]
      BY DEF OneOrder
<1>2. ASSUME NEW p \in Contenders
      PROVE  /\ p \in Procs \ Denied /\ AtWait(p) /\ Dir(p) \in Dirs
             /\ at[p] \in DOMAIN Program[p]
             /\ Blocked(p, Dir(p))
  <2>1. p \in Procs \ Denied /\ Failed(p)
        BY DEF Contenders, Failed
  <2>2. AtWait(p)
        BY <2>1 DEF TurnInv
  <2>3. Dir(p) \in Dirs
        BY <2>1, <2>2, DirType DEF AtWait
  <2>4. at[p] \in DOMAIN Program[p]
        BY <2>1, <2>2, LockAssumption DEF AtWait, TypeOK
  <2>. QED BY <2>1, <2>2, <2>3, <2>4 DEF Blocked
<1>. DEFINE Left == { after[Dir(p)] : p \in Contenders }
<1>3. Left \subseteq Nat /\ Left # {}
      BY <1>2
<1>4. PICK n \in Left : \A m \in Left : n <= m
      BY <1>3, LeastNat
<1>5. PICK p \in Contenders : n = after[Dir(p)]
      BY <1>4
<1>6. PICK q \in Procs \ Denied : LastIn(q, Dir(p))
      BY <1>2 DEF TurnInv, Contended
<1>7. PICK i \in DOMAIN Program[q] :
          i < at[q] /\ Locks(Program[q][i]) /\ Program[q][i].dir = Dir(p)
      BY <1>6 DEF LastIn, HasLocked
<1>8. q \in Contenders
      BY <1>7 DEF Contenders, Locks
<1>9. Dir(q) # Dir(p)
      BY <1>2, <1>6, <1>8 DEF LastIn
<1>10. after[Dir(q)] < after[Dir(p)]
      BY <1>1, <1>2, <1>7, <1>8, <1>9 DEF AtWait, Dir
<1>11. after[Dir(q)] \in Left /\ after[Dir(q)] \in Nat /\ after[Dir(p)] \in Nat
      BY <1>2, <1>8
<1>. QED BY <1>4, <1>5, <1>10, <1>11

(* Commands that lock the directories in one order, whatever else they and *)
(* others do and however long they wait, do not all fail: one of those     *)
(* that may write and got no signal succeeds, or has not ended.            *)
THEOREM SomeoneSucceedsAlways ==
    ASSUME OneOrder, Contenders # {}
    PROVE  Spec => []SomeoneSucceeds
<1>1. Init => TurnInv
      BY TurnInit
<1>2. TypeOK /\ TurnInv /\ [Next]_vars => TurnInv'
      BY TurnStep
<1>3. TypeOK /\ TurnInv => SomeoneSucceeds
      BY OneSucceeds
<1>. QED BY <1>1, <1>2, <1>3, TypeCorrect, PTL DEF Spec

=============================================================================
