----------------------------- MODULE MCCvsLock -----------------------------
(* Constant values for model checking CvsLock.  A program is a definition  *)
(* of its own, which TLC evaluates once, where it would evaluate what is   *)
(* substituted for a constant at every use.                                *)
EXTENDS CvsLock, CvsCommands, TLC

CONSTANTS c1, c2, r3, t4, u1, u2, u3, u4, a, b

(* Two commits that lock the directories in one order, a checkout, which  *)
(* unlocks the first directory, and a commit of a user who may only read.  *)
Commits ==
    c1 :> CommitCalls(<< a, b >>, << a, a, b >>) @@
    c2 :> CommitCalls(<< b >>, << a, b >>) @@
    r3 :> CheckoutCalls(<< a, b >>) @@
    t4 :> CommitCalls(<< b >>, << b >>)
CommitUser == c1 :> u1 @@ c2 :> u2 @@ r3 :> u3 @@ t4 :> u4
CommitProgram == Commits

(* A commit and a tag by different users.                                  *)
TagAndCommit ==
    c1 :> CommitCalls(<< a >>, << a >>) @@ t4 :> TagCalls(<< a >>)
TagUser == c1 :> u1 @@ t4 :> u4
TagProgram == TagAndCommit
=============================================================================
