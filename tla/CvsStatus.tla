----------------------------- MODULE CvsStatus -----------------------------
(***************************************************************************)
(* What cvs makes of a file (cvs_file_classify()), for a local repository  *)
(* and a working copy without sticky tags and dates.                       *)
(*                                                                         *)
(* A text is the set of the edits in it; that of a file with unresolved    *)
(* conflicts also has the Marker.  An RCS file r has a place ("none" when  *)
(* there is no such file, "live" or "attic") and its revisions on the      *)
(* trunk.  An entry e is the line of CVS/Entries.                          *)
(***************************************************************************)
EXTENDS Integers, Sequences

Marker == 0
NoFile == {}

NoRcs == [place |-> "none", revs |-> << >>]

(* The line of a file: its revision, whether the file still has the time   *)
(* the line says, and whether it says "Result of merge+time".              *)
Entry(kind, rev, same, conflict) ==
    [kind |-> kind, rev |-> rev, same |-> same, conflict |-> conflict]

NoEntry == Entry("none", 0, FALSE, FALSE)

HeadRev(r) == Len(r.revs)
HasHead(r) == r.revs # << >>
Text(r, n) == r.revs[n].text

(* rf_dead: the head is a dead revision, or the file is in the Attic.      *)
Dead(r) == HasHead(r) /\ (r.revs[HeadRev(r)].dead \/ r.place = "attic")

(* A file whose time differs is compared with the revision of its entry;   *)
(* one whose time does not is never looked at.                             *)
IsModified(f, e, r) ==
    /\ f # NoFile /\ ~e.same
    /\ r.place # "none" /\ e.kind = "reg" => f # Text(r, e.rev)

Unlisted(f, r) ==
    IF r.place = "none" THEN "UNKNOWN"
    ELSE IF Dead(r) THEN (IF f = NoFile THEN "UPTODATE" ELSE "UNKNOWN")
    ELSE IF HasHead(r) THEN "CHECKOUT" ELSE "UPTODATE"

Added(f, r) ==
    IF f = NoFile THEN "REMOVE_ENTRY"
    ELSE IF r.place = "none" \/ Dead(r) THEN "ADDED" ELSE "CONFLICT"

(* Variant: a removal of a file that somebody has changed since.           *)
RemovedAnyway(f, e, r, cmd) ==
    IF f = NoFile /\ (r.place = "none" \/ Dead(r)) THEN "REMOVE_ENTRY"
    ELSE "REMOVED"

(* "conflict: removed %s was modified by a second party"                   *)
Removed(f, e, r, cmd) ==
    IF f # NoFile THEN "REMOVED"
    ELSE IF r.place = "none" \/ Dead(r) THEN "REMOVE_ENTRY"
    ELSE IF e.rev # HeadRev(r) /\ cmd # "add" THEN "CONFLICT" ELSE "REMOVED"

Gone(f, modified, cmd) ==
    IF f = NoFile THEN "REMOVE_ENTRY"
    ELSE IF modified /\ cmd # "commit" THEN "CONFLICT" ELSE "UNLINK"

(* Variant: the revision of the entry is not compared with the head.       *)
RegularAnyRev(f, e, r, cmd) ==
    LET modified == IsModified(f, e, r)
    IN  IF r.place = "none" \/ ~HasHead(r) \/ Dead(r) THEN Gone(f, modified, cmd)
        ELSE IF f = NoFile THEN "LOST"
        ELSE IF modified THEN "MODIFIED" ELSE "UPTODATE"

Regular(f, e, r, cmd) ==
    LET modified == IsModified(f, e, r)
        behind == e.rev # HeadRev(r)
    IN  IF r.place = "none" \/ ~HasHead(r) \/ Dead(r) THEN Gone(f, modified, cmd)
        ELSE IF f = NoFile THEN "LOST"
        ELSE IF modified THEN (IF behind THEN "MERGE" ELSE "MODIFIED")
        ELSE IF behind THEN "PATCH" ELSE "UPTODATE"

Status(f, e, r, cmd) ==
    IF e.kind = "none" THEN Unlisted(f, r)
    ELSE IF e.kind = "added" THEN Added(f, r)
    ELSE IF e.kind = "removed" THEN Removed(f, e, r, cmd)
    ELSE Regular(f, e, r, cmd)

(* cvs_merge_file(): what became of base in theirs is done to mine.  Where *)
(* both changed the same lines, both versions stay, between markers.       *)
MayOverlap(mine, base, theirs) == mine # base /\ theirs # base /\ mine # theirs

Merged(mine, base, theirs, overlap) ==
    IF overlap THEN mine \cup theirs \cup {Marker}
    ELSE (mine \ (base \ theirs)) \cup (theirs \ base)
=============================================================================
