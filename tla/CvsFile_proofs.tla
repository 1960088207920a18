--------------------------- MODULE CvsFile_proofs ---------------------------
(***************************************************************************)
(* Proofs about CvsFile, for any number of users, edits and revisions.     *)
(***************************************************************************)
EXTENDS CvsFileInv, TLAPS

-----------------------------------------------------------------------------
(* What a step of a user does to the others                                *)

Undisturbed(u) ==
    /\ \A v \in Users \ {u} :
          task'[v] = task[v] /\ file'[v] = file[v] /\ entry'[v] = entry[v]
    /\ Extends(rcs.revs, rcs'.revs)
    /\ rcs' = rcs \/ lock = u
    /\ lock' = lock \/ (lock \in {u, Nobody} /\ lock' \in {u, Nobody})
    /\ mishaps \subseteq mishaps' /\ discarded \subseteq discarded'

LEMMA HadGrows ==
    ASSUME Extends(rcs.revs, rcs'.revs), discarded \subseteq discarded',
           rcs.revs \in Seq(Revisions), rcs'.revs \in Seq(Revisions)
    PROVE  Had \subseteq Had'
<1>1. \A n \in DOMAIN rcs.revs : n \in DOMAIN rcs'.revs /\ rcs'.revs[n] = rcs.revs[n]
      BY DEF Extends
<1>. QED BY <1>1 DEF Had

LEMMA HadHas ==
    /\ discarded' \subseteq Had'
    /\ \A n \in DOMAIN rcs'.revs : rcs'.revs[n].text \subseteq Had'
<1>1. Had' = (UNION { rcs'.revs[n].text : n \in DOMAIN rcs'.revs }) \cup discarded'
      BY DEF Had
<1>2. ASSUME NEW x \in discarded'
      PROVE  x \in Had'
      BY <1>1
<1>3. ASSUME NEW n \in DOMAIN rcs'.revs, NEW x \in rcs'.revs[n].text
      PROVE  x \in Had'
      BY <1>1
<1>. QED BY <1>2, <1>3

LEMMA Others ==
    ASSUME FileInv, TypeInv', NEW u \in Users, Undisturbed(u), NEW v \in Users \ {u}
    PROVE  UserInv(v)'
<1>1. /\ UserInv(v)
      /\ task'[v] = task[v] /\ file'[v] = file[v] /\ entry'[v] = entry[v]
      /\ \A p : At(v, p)' <=> At(v, p)
      BY DEF FileInv, Undisturbed, At
<1>2. lock' = v => lock = v /\ rcs' = rcs
      BY FileAssumption DEF Undisturbed
<1>3. /\ rcs.revs \in Seq(Revisions) /\ rcs'.revs \in Seq(Revisions)
      /\ Len(rcs.revs) <= Len(rcs'.revs)
      /\ \A n \in DOMAIN rcs.revs : n \in DOMAIN rcs'.revs /\ rcs'.revs[n] = rcs.revs[n]
      /\ DOMAIN rcs.revs = 1..Len(rcs.revs) /\ DOMAIN rcs'.revs = 1..Len(rcs'.revs)
      BY DEF Undisturbed, Extends, FileInv, TypeInv, RcsFiles
<1>4. LockOf(v)'
      BY <1>1, <1>2 DEF UserInv, LockOf
<1>5. CommitOf(v)'
  <2>1. lock = v => lock' = v /\ rcs' = rcs
        BY FileAssumption DEF Undisturbed
  <2>2. rcs' = rcs => (HeadDead' <=> HeadDead)
        BY DEF HeadDead
  <2>. QED BY <1>1, <2>1, <2>2 DEF UserInv, CommitOf
<1>6. SeenOf(v)'
      BY <1>1, <1>3 DEF UserInv, SeenOf, Older
<1>7. LineOK(entry[v]) => LineOK(entry[v])'
      BY <1>1, <1>3 DEF LineOK
<1>8. EntryOf(v)'
      BY <1>1, <1>7 DEF UserInv, EntryOf
<1>9. PutOf(v)'
      BY <1>1, <1>3 DEF UserInv, PutOf, LineOK
<1>10. RemovedOf(v)'
      BY <1>1 DEF UserInv, RemovedOf, Undisturbed
<1>11. FileOf(v)'
  <2>1. ASSUME NEW n \in DOMAIN rcs.revs, Has(file[v], n)
        PROVE  Has(file[v], n)'
        BY <1>1, <1>3, <2>1 DEF Has
  <2>2. SUFFICES ASSUME "entry" \notin mishaps'
                 PROVE  /\ entry'[v].kind = "reg" =>
                              Entering(v)' \/ Has(file[v], entry[v].rev)'
                        /\ Entering(v)' => Has(file[v], task[v].line.rev)'
        BY DEF FileOf
  <2>3. FileOf(v) /\ "entry" \notin mishaps
        BY <1>1, <2>2 DEF UserInv, Undisturbed
  <2>4. Entering(v)' <=> Entering(v)
        BY <1>1 DEF Entering
  <2>5. entry[v].kind = "reg" => entry[v].rev \in DOMAIN rcs.revs
        BY <1>1, <1>3 DEF UserInv, EntryOf, LineOK
  <2>6. Entering(v) => task[v].line.rev \in DOMAIN rcs.revs
        BY <1>1, <1>3 DEF UserInv, PutOf, LineOK, Entering
  <2>. QED BY <1>1, <2>1, <2>3, <2>4, <2>5, <2>6 DEF FileOf
<1>12. ASSUME NEW e, LineOK(e), Clean(file[v], e)
       PROVE  Clean(file[v], e)'
  <2>1. e.same => e.rev \in DOMAIN rcs.revs
        BY <1>3, <1>12 DEF LineOK
  <2>. QED BY <1>1, <1>3, <1>12, <2>1 DEF Clean, Text
<1>13. KeptOf(v)'
  <2>1. SUFFICES ASSUME mishaps' \subseteq {"entry"}
                 PROVE  /\ Clean(file[v], entry[v])'
                        /\ At(v, "put")' => Clean(file[v], task[v].line)'
                        /\ task'[v].pc \in {"fetch", "forget", "drop"} =>
                              file'[v] \ {Marker} \subseteq Had'
        BY DEF KeptOf
  <2>2. KeptOf(v) /\ mishaps \subseteq {"entry"}
        BY <1>1, <2>1 DEF UserInv, Undisturbed
  <2>3. Clean(file[v], entry[v])'
    <3>1. LineOK(entry[v]) /\ Clean(file[v], entry[v])
          BY <1>1, <2>2 DEF UserInv, EntryOf, KeptOf
    <3>. QED BY <3>1, <1>1, <1>12 DEF Clean
  <2>4. ASSUME At(v, "put")'
        PROVE  Clean(file[v], task[v].line)'
    <3>1. LineOK(task[v].line) /\ Clean(file[v], task[v].line)
          BY <1>1, <2>2, <2>4 DEF UserInv, PutOf, KeptOf
    <3>. QED BY <3>1, <1>1, <1>12 DEF Clean
  <2>5. Had \subseteq Had'
        BY <1>3, HadGrows DEF Undisturbed
  <2>6. task[v].pc \in {"fetch", "forget", "drop"} =>
            file[v] \ {Marker} \subseteq Had
        BY <2>2 DEF KeptOf
  <2>. QED BY <1>1, <2>3, <2>4, <2>5, <2>6
<1>. QED BY <1>4, <1>5, <1>6, <1>8, <1>9, <1>10, <1>11, <1>13 DEF UserInv

-----------------------------------------------------------------------------
(* Steps that change neither the RCS file nor the working directories      *)

Quiet(u, t) ==
    /\ task' = [task EXCEPT ![u] = t] /\ (t = Idle \/ t \in Tasks)
    /\ rcs' = rcs /\ file' = file /\ entry' = entry /\ edits' = edits
    /\ lock' = lock \/ (lock \in {u, Nobody} /\ lock' \in {u, Nobody})
    /\ lock' = u => t # Idle
    /\ fatals' \in 0..MaxFatals
    /\ mishaps \subseteq mishaps' /\ mishaps' \subseteq Mishaps
    /\ discarded \subseteq discarded' /\ discarded' \subseteq Edits

LEMMA QuietType ==
    ASSUME TypeInv, NEW u \in Users, NEW t, Quiet(u, t)
    PROVE  TypeInv'
<1>1. task' \in [Users -> {Idle} \cup Tasks]
      BY DEF TypeInv, Quiet
<1>2. \A v \in Users : lock' = v => ~At(v, "idle")'
  <2>1. ASSUME NEW v \in Users, lock' = v, v # u
        PROVE  ~At(v, "idle")'
    <3>1. lock = v
          BY <2>1, FileAssumption DEF Quiet
    <3>. QED BY <3>1, <2>1 DEF TypeInv, TypeOK, Quiet, At
  <2>2. ASSUME lock' = u
        PROVE  ~At(u, "idle")'
    <3>1. t \in Tasks /\ task'[u] = t
          BY <2>2 DEF Quiet, TypeInv
    <3>2. t.pc # "idle"
          BY <3>1 DEF Tasks
    <3>. QED BY <3>1, <3>2 DEF At
  <2>. QED BY <2>1, <2>2
<1>3. lock' \in Users \cup {Nobody}
      BY DEF TypeInv, TypeOK, Quiet
<1>. QED BY <1>1, <1>2, <1>3 DEF TypeInv, TypeOK, Quiet

LEMMA QuietStep ==
    ASSUME FileInv, NEW u \in Users, NEW t, Quiet(u, t), UserInv(u)'
    PROVE  FileInv'
<1>1. TypeInv'
      BY QuietType DEF FileInv
<1>2. Undisturbed(u)
      BY DEF Undisturbed, Quiet, Extends, FileInv, TypeInv, RcsFiles
<1>3. \A v \in Users : UserInv(v)'
      BY <1>1, <1>2, Others
<1>4. PlaceOK'
      BY DEF FileInv, PlaceOK, HeadDead, Quiet
<1>5. InformedCommit'
      BY DEF FileInv, InformedCommit, Informed, Quiet
<1>6. BuildsOnHead'
      BY DEF FileInv, BuildsOnHead, Quiet
<1>7. WorkKept'
      BY DEF FileInv, WorkKept, Kept, Quiet
<1>. QED BY <1>1, <1>3, <1>4, <1>5, <1>6, <1>7 DEF FileInv

(* There is nothing in a file that is not there.                           *)
LEMMA NothingOK ==
    /\ NoRcs \in RcsFiles /\ NoRcs.place = "none" /\ ~HasHead(NoRcs)
    /\ NoEntry \in EntryLines
    /\ TypeInv => Older(NoRcs)
    /\ TypeInv' => Older(NoRcs)'
<1>1. << >> \in Seq(Revisions)
      OBVIOUS
<1>2. NoRcs \in RcsFiles /\ NoRcs.place = "none" /\ NoRcs.revs = << >>
      BY <1>1 DEF NoRcs, RcsFiles
<1>3. NoEntry \in EntryLines
      BY FileAssumption DEF NoEntry, Entry, EntryLines
<1>4. Len(NoRcs.revs) = 0 /\ DOMAIN NoRcs.revs = {}
      BY <1>2
<1>5. TypeInv => Older(NoRcs)
      BY <1>4 DEF Older, TypeInv, RcsFiles
<1>6. TypeInv' => Older(NoRcs)'
      BY <1>4 DEF Older, TypeInv, RcsFiles
<1>. QED BY <1>2, <1>3, <1>5, <1>6 DEF HasHead

(* What holds of a user who is not about to put an entry stays.            *)
LEMMA QuietUser ==
    ASSUME FileInv, NEW u \in Users, NEW t, Quiet(u, t), ~Entering(u)
    PROVE  /\ LineOK(entry[u])'
           /\ "recreated" \notin mishaps' => (entry[u].kind = "removed" => file[u] = NoFile)'
           /\ "entry" \notin mishaps' => (entry[u].kind = "reg" => Has(file[u], entry[u].rev))'
           /\ mishaps' \subseteq {"entry"} => Clean(file[u], entry[u])'
<1>1. UserInv(u)
      BY DEF FileInv
<1>. QED BY <1>1 DEF UserInv, Quiet, EntryOf, RemovedOf, FileOf, KeptOf, LineOK, Has, Clean, Text

LEMMA StopStep ==
    ASSUME FileInv, NEW u \in Users, Stop(u), ~At(u, "put")
    PROVE  FileInv'
<1>1. Quiet(u, Idle)
  <2>1. /\ task' = [task EXCEPT ![u] = Idle]
        /\ rcs' = rcs /\ file' = file /\ entry' = entry /\ edits' = edits
        /\ fatals' = fatals /\ mishaps' = mishaps /\ discarded' = discarded
        BY DEF Stop, Stopped, ghosts
  <2>2. lock' = (IF lock = u THEN Nobody ELSE lock)
        BY DEF Stop, Stopped, Unlocked
  <2>. QED BY <2>1, <2>2, FileAssumption DEF Quiet, FileInv, TypeInv, TypeOK
<1>2. ~Entering(u) /\ task'[u] = Idle /\ lock' # u
      BY FileAssumption DEF Entering, Stop, Stopped, Unlocked, FileInv, TypeInv
<1>3. UserInv(u)'
      BY <1>1, <1>2, QuietUser DEF UserInv, LockOf, CommitOf, SeenOf, EntryOf, PutOf,
         RemovedOf, FileOf, KeptOf, Entering, At, Idle
<1>. QED BY <1>1, <1>3, QuietStep

(* What must hold of a command to come to step t: the entry it is to add   *)
(* (never one with a time here), the file it replaces, the lock.           *)
Ready(u, t) ==
    /\ t \in Tasks /\ t.pc \notin {"write", "drop", "bury"}
    /\ t.pc = "message" => t.cmd = "commit"
    /\ Older(t.seen)
    /\ t.pc = "fetch" => HasHead(t.seen) /\ entry[u].kind # "removed"
    /\ t.pc = "put" =>
          /\ LineOK(t.line) /\ ~t.line.same /\ t.after \in {"done", "fetch"}
          /\ t.line.kind = "reg" => t.line.rev = entry[u].rev /\ entry[u].kind # "none"
          /\ t.line.kind = "removed" => file[u] = NoFile
          /\ t.after = "fetch" =>
                file[u] = NoFile /\ HasHead(t.seen) /\ t.line.kind = "reg"
    /\ "entry" \notin mishaps /\ t.pc = "put" /\ t.line.kind = "reg" =>
          Has(file[u], entry[u].rev)
    /\ mishaps' \subseteq {"entry"} /\ t.pc \in {"fetch", "forget"} =>
          file[u] \ {Marker} \subseteq Had'

LEMMA TaskStep ==
    ASSUME FileInv, NEW u \in Users, NEW t, Quiet(u, t), Ready(u, t), ~At(u, "put"),
           LockOf(u)'
    PROVE  FileInv'
<1>1. ~Entering(u) /\ task'[u] = t
      BY DEF Entering, Quiet, FileInv, TypeInv
<1>2. t # Idle /\ t.pc # "idle" /\ \A p : At(u, p)' <=> t.pc = p
      BY <1>1 DEF Ready, Tasks, Idle, At
<1>3. /\ LineOK(entry[u])'
      /\ "recreated" \notin mishaps' => (entry[u].kind = "removed" => file[u] = NoFile)'
      /\ "entry" \notin mishaps' => (entry[u].kind = "reg" => Has(file[u], entry[u].rev))'
      /\ mishaps' \subseteq {"entry"} => Clean(file[u], entry[u])'
      BY <1>1, QuietUser
<1>4. rcs' = rcs /\ file'[u] = file[u] /\ entry'[u] = entry[u] /\ mishaps \subseteq mishaps'
      BY DEF Quiet
<1>5. CommitOf(u)'
      BY <1>1, <1>2 DEF CommitOf, Ready
<1>6. SeenOf(u)'
      BY <1>1, <1>4 DEF SeenOf, Ready, Older
<1>7. EntryOf(u)'
      BY <1>1, <1>2, <1>3, <1>4 DEF EntryOf, Ready
<1>8. PutOf(u)'
      BY <1>1, <1>2, <1>4 DEF PutOf, Ready, LineOK
<1>9. RemovedOf(u)'
      BY <1>1, <1>2, <1>3, <1>4 DEF RemovedOf, Ready
<1>10. FileOf(u)'
      BY <1>1, <1>2, <1>3, <1>4 DEF FileOf, Ready, Entering, Has
<1>11. KeptOf(u)'
      BY <1>1, <1>2, <1>3, <1>4 DEF KeptOf, Ready, Clean
<1>. QED BY <1>5, <1>6, <1>7, <1>8, <1>9, <1>10, <1>11, QuietStep DEF UserInv

-----------------------------------------------------------------------------
(* What a command opens                                                    *)

LEMMA OpensFacts ==
    ASSUME FileInv, NEW u \in Users, Opens(u)
    PROVE  /\ task[u] \in Tasks /\ task[u].pc \in {"live", "attic"}
           /\ Seen(u) \in RcsFiles /\ Older(Seen(u))
           /\ Seen(u).place # "none" => Seen(u) = rcs
           /\ Seen(u) # rcs => ~HasHead(Seen(u))
           /\ lock = u => Seen(u) = rcs /\ task[u].cmd = "commit"
<1>1. task[u] \in Tasks /\ task[u].pc \in {"live", "attic"}
      BY DEF FileInv, TypeInv, Opens, At, Idle
<1>2. rcs \in RcsFiles /\ UserInv(u)
      BY DEF FileInv, TypeInv
<1>3. Older(rcs)
      BY <1>2 DEF Older, RcsFiles
<1>4. Seen(u) = rcs \/ (Seen(u) = NoRcs /\ rcs.place # task[u].pc)
      BY DEF Seen
<1>5. Seen(u) \in RcsFiles /\ Older(Seen(u)) /\ (Seen(u) # rcs => ~HasHead(Seen(u)))
      BY <1>2, <1>3, <1>4, NothingOK DEF FileInv
<1>6. Seen(u).place # "none" => Seen(u) = rcs
      BY <1>4, NothingOK
<1>7. ASSUME lock = u
      PROVE  Seen(u) = rcs /\ task[u].cmd = "commit"
  <2>1. task[u].cmd = "commit" /\ (task[u].pc = "attic" => rcs.place # "live")
        BY <1>1, <1>2, <1>7 DEF UserInv, LockOf
  <2>2. CASE task[u].pc = "live"
        BY <2>1, <2>2, <1>4 DEF Opens, At
  <2>3. CASE task[u].pc = "attic" /\ rcs.place = "none"
    <3>1. rcs = [place |-> "none", revs |-> << >>]
          BY <1>2, <2>3 DEF FileInv, PlaceOK, RcsFiles
    <3>. QED BY <3>1, <2>1, <1>4 DEF NoRcs
  <2>4. CASE task[u].pc = "attic" /\ rcs.place = "attic"
        BY <2>1, <2>4, <1>4
  <2>. QED BY <1>1, <1>2, <2>1, <2>2, <2>3, <2>4 DEF RcsFiles
<1>. QED BY <1>1, <1>5, <1>6, <1>7

(* What the status of a file says.                                         *)
LEMMA FoundFacts ==
    ASSUME FileInv, NEW u \in Users, Opens(u), NEW cmd, NEW s, s = Found(u, cmd)
    PROVE  /\ s \in {"MODIFIED", "MERGE", "PATCH", "LOST", "UNLINK"} =>
                 entry[u].kind = "reg"
           /\ s \in {"MODIFIED", "MERGE", "PATCH", "LOST"} =>
                 Seen(u).place # "none" /\ HasHead(Seen(u)) /\ ~Dead(Seen(u))
           /\ s \in {"MODIFIED", "MERGE"} => IsModified(file[u], entry[u], Seen(u))
           /\ s = "PATCH" => ~IsModified(file[u], entry[u], Seen(u))
           /\ s = "UNLINK" /\ cmd # "commit" => ~IsModified(file[u], entry[u], Seen(u))
           /\ s = "MODIFIED" => entry[u].rev = HeadRev(Seen(u))
           /\ s \in {"LOST", "REMOVE_ENTRY"} => file[u] = NoFile
           /\ s = "CHECKOUT" =>
                 entry[u].kind = "none" /\ Seen(u).place # "none" /\ HasHead(Seen(u))
           /\ s = "ADDED" =>
                 /\ entry[u].kind = "added" /\ file[u] # NoFile
                 /\ Seen(u).place = "none" \/ Dead(Seen(u))
           /\ s = "REMOVED" =>
                 /\ entry[u].kind = "removed"
                 /\ file[u] = NoFile => Seen(u).place # "none" /\ ~Dead(Seen(u))
                 /\ file[u] = NoFile /\ cmd # "add" => entry[u].rev = HeadRev(Seen(u))
<1>1. entry[u] \in EntryLines
      BY DEF FileInv, TypeInv, TypeOK
<1>. QED BY <1>1 DEF Found, Status, Unlisted, Added, Removed, Regular, Gone, EntryLines

LEMMA StartStep ==
    ASSUME FileInv, NEW u \in Users, Start(u)
    PROVE  FileInv'
<1>. DEFINE t == Task("live", "")
<1>1. t \in Tasks /\ t.pc = "live" /\ t.seen = NoRcs /\ t # Idle
      BY NothingOK DEF Task, Tasks, Idle
<1>2. Quiet(u, t) /\ lock' # u
  <2>1. task' = [task EXCEPT ![u] = t] /\ lock' = lock /\ lock # u
        BY FileAssumption DEF Start, repo
  <2>. QED BY <1>1, <2>1 DEF Quiet, Start, repo, ghosts, FileInv, TypeInv, TypeOK
<1>3. Ready(u, t)
      BY <1>1, NothingOK DEF Ready, FileInv
<1>4. ~At(u, "put")
      BY DEF Start, At
<1>. QED BY <1>2, <1>3, <1>4, TaskStep DEF LockOf

LEMMA NotLiveStep ==
    ASSUME FileInv, NEW u \in Users, NotLive(u)
    PROVE  FileInv'
<1>. DEFINE t == [task[u] EXCEPT !.pc = "attic"]
<1>1. task[u] \in Tasks /\ task[u].pc = "live" /\ UserInv(u)
      BY DEF FileInv, TypeInv, NotLive, At, Idle
<1>2. t \in Tasks /\ t.pc = "attic" /\ t.seen = task[u].seen /\ t.cmd = task[u].cmd /\ t # Idle
      BY <1>1 DEF Tasks, Idle
<1>3. Quiet(u, t)
  <2>1. task' = [task EXCEPT ![u] = t] /\ lock' = lock /\ rcs' = rcs
        BY DEF NotLive, Go, repo
  <2>. QED BY <1>2, <2>1 DEF Quiet, NotLive, repo, ghosts, FileInv, TypeInv, TypeOK
<1>4. Ready(u, t)
      BY <1>1, <1>2 DEF Ready, UserInv, SeenOf, Idle
<1>5. LockOf(u)'
  <2>1. task'[u] = t /\ lock' = lock /\ rcs' = rcs /\ rcs.place # "live"
        BY <1>3 DEF Quiet, FileInv, TypeInv, NotLive, repo
  <2>. QED BY <1>1, <1>2, <2>1 DEF UserInv, LockOf
<1>. QED BY <1>1, <1>3, <1>4, <1>5, TaskStep DEF At

-----------------------------------------------------------------------------
(* Commands on their way                                                   *)

Doing(pc, seen) == [Task(pc, "") EXCEPT !.seen = seen]
Putting(line, after, seen) ==
    [Task("put", "") EXCEPT !.seen = seen, !.line = line, !.after = after]

LEMMA DoingOK ==
    ASSUME NEW pc \in {"fetch", "forget", "write", "drop"}, NEW r \in RcsFiles
    PROVE  /\ Doing(pc, r) \in Tasks /\ Doing(pc, r) # Idle
           /\ Doing(pc, r).pc = pc /\ Doing(pc, r).seen = r
BY NothingOK DEF Doing, Task, Tasks, Idle

LEMMA PuttingOK ==
    ASSUME NEW line \in EntryLines, NEW after \in {"done", "clear", "fetch"},
           NEW r \in RcsFiles, NEW t, t = Putting(line, after, r)
    PROVE  /\ t \in Tasks /\ t # Idle
           /\ t.pc = "put" /\ t.line = line /\ t.after = after /\ t.seen = r
BY NothingOK DEF Putting, Task, Tasks, Idle

(* A mishap may be noted on the way.                                       *)
Noting == mishaps' = mishaps \/ (\E m \in Mishaps : mishaps' = mishaps \cup {m})

LEMMA Notes ==
    ASSUME NEW u \in Users, Overlooks(u)
    PROVE  /\ Noting
           /\ mishaps' \subseteq {"entry"} => ~(entry[u].conflict /\ entry[u].same)
BY FileAssumption DEF Overlooks, Mishap, Noting, Mishaps

LEMMA UpdatesFacts ==
    ASSUME FileInv, NEW u \in Users, NEW S, Updates(u, S)
    PROVE  /\ Opens(u) /\ lock # u
           /\ \E cmd \in {"update", "update -C"} :
                 Found(u, cmd) \in S
<1>1. PICK cmd \in {"update", "update -C"} : Is(u, cmd, S)
      BY DEF Updates
<1>2. Opens(u) /\ task[u].cmd \in {"", cmd} /\ Found(u, cmd) \in S
      BY <1>1 DEF Is, Opened
<1>3. lock # u
      BY <1>2, OpensFacts
<1>. QED BY <1>2, <1>3

(* A file that update or remove is to replace is in the history.           *)
LEMMA UnmodifiedIsHad ==
    ASSUME FileInv, NEW u \in Users, mishaps \subseteq {"entry"},
           ~(entry[u].conflict /\ entry[u].same), entry[u].kind = "reg",
           NEW r, r = rcs \/ r.place = "none", ~IsModified(file[u], entry[u], r)
    PROVE  file[u] \subseteq Had
<1>1. file[u] = NoFile \/ entry[u].same \/ file[u] = Text(rcs, entry[u].rev)
      BY DEF IsModified
<1>2. entry[u].rev \in DOMAIN rcs.revs /\ Clean(file[u], entry[u])
  <2>1. UserInv(u) /\ rcs.revs \in Seq(Revisions)
        BY DEF FileInv, TypeInv, RcsFiles
  <2>2. entry[u].rev \in 1..Len(rcs.revs)
        BY <2>1 DEF UserInv, EntryOf, LineOK
  <2>3. DOMAIN rcs.revs = 1..Len(rcs.revs)
        BY <2>1
  <2>4. Clean(file[u], entry[u])
        BY <2>1 DEF UserInv, KeptOf
  <2>. QED BY <2>2, <2>3, <2>4
<1>3. entry[u].same \in BOOLEAN /\ entry[u].conflict \in BOOLEAN
      BY DEF FileInv, TypeInv, TypeOK, EntryLines
<1>. QED BY <1>1, <1>2, <1>3 DEF Clean, Text, Had, NoFile

LEMMA WorkOnly ==
    ASSUME FileInv, NEW u \in Users, NEW t, task' = [task EXCEPT ![u] = t],
           t \in Tasks, t # Idle, UNCHANGED << repo, file, entry, edits, fatals >>,
           Noting, discarded \subseteq discarded', discarded' \subseteq Edits
    PROVE  Quiet(u, t) /\ Had \subseteq Had'
<1>1. Quiet(u, t)
      BY DEF Quiet, repo, Noting, FileInv, TypeInv, TypeOK
<1>2. Had \subseteq Had'
      BY DEF Had, repo
<1>. QED BY <1>1, <1>2

LEMMA StopSteps ==
    ASSUME FileInv, NEW u \in Users,
           UpdateNothing(u) \/ CommitNothing(u) \/ CommitAborted(u)
              \/ AddNothing(u) \/ RemoveNothing(u)
    PROVE  FileInv'
<1>1. Stop(u)
      BY DEF UpdateNothing, CommitNothing, CommitAborted, AddNothing, RemoveNothing
<1>2. Opens(u) \/ At(u, "message")
      BY DEF UpdateNothing, Updates, CommitNothing, CommitAborted, AddNothing,
         AlreadyThere, Resurrects, RemoveNothing, Is, IsNot, Opened
<1>. QED BY <1>1, <1>2, StopStep DEF Opens, At

LEMMA CommitAffectedStep ==
    ASSUME FileInv, NEW u \in Users, CommitAffected(u)
    PROVE  FileInv'
<1>. DEFINE t == Task("message", "commit")
<1>1. t \in Tasks /\ t # Idle /\ t.pc = "message" /\ t.cmd = "commit" /\ t.seen = NoRcs
      BY NothingOK DEF Task, Tasks, Idle
<1>2. Quiet(u, t)
      BY <1>1, WorkOnly DEF CommitAffected, Noting, ghosts, repo, FileInv, TypeInv, TypeOK
<1>3. Ready(u, t)
      BY <1>1, NothingOK DEF Ready, FileInv
<1>4. ~At(u, "put") /\ lock' # u
      BY OpensFacts DEF CommitAffected, Is, Opened, At, repo
<1>. QED BY <1>2, <1>3, <1>4, TaskStep DEF LockOf

LEMMA CommitLockStep ==
    ASSUME FileInv, NEW u \in Users, CommitLock(u)
    PROVE  FileInv'
<1>. DEFINE t == [task[u] EXCEPT !.pc = "live"]
<1>1. task[u] \in Tasks /\ task[u].pc = "message" /\ UserInv(u)
      BY DEF FileInv, TypeInv, CommitLock, At, Idle
<1>2. t \in Tasks /\ t.pc = "live" /\ t.seen = task[u].seen /\ t.cmd = task[u].cmd /\ t # Idle
      BY <1>1 DEF Tasks, Idle
<1>3. Quiet(u, t)
  <2>1. task' = [task EXCEPT ![u] = t] /\ lock' = u /\ lock = Nobody /\ rcs' = rcs
        BY DEF CommitLock, Go
  <2>. QED BY <1>2, <2>1 DEF Quiet, CommitLock, ghosts, FileInv, TypeInv, TypeOK
<1>4. Ready(u, t)
      BY <1>1, <1>2 DEF Ready, UserInv, SeenOf, Idle
<1>5. LockOf(u)'
  <2>1. task'[u] = t /\ rcs' = rcs /\ Len(rcs.revs) < MaxRevs /\ t.cmd = "commit"
        BY <1>1, <1>2, <1>3 DEF Quiet, FileInv, TypeInv, CommitLock, UserInv, CommitOf, At
  <2>. QED BY <1>2, <2>1 DEF LockOf
<1>. QED BY <1>1, <1>3, <1>4, <1>5, TaskStep DEF At

LEMMA UpdateCheckoutStep ==
    ASSUME FileInv, NEW u \in Users, UpdateCheckout(u)
    PROVE  FileInv'
<1>. DEFINE t == Doing("fetch", Seen(u))
<1>1. PICK cmd \in {"update", "update -C"} :
          Found(u, cmd) \in {"LOST", "CHECKOUT", "PATCH"}
      BY UpdatesFacts DEF UpdateCheckout
<1>2. /\ Opens(u) /\ lock # u /\ Seen(u) \in RcsFiles /\ Older(Seen(u))
      /\ entry[u] \in EntryLines
      BY UpdatesFacts, OpensFacts DEF UpdateCheckout, FileInv, TypeInv, TypeOK
<1>3. t \in Tasks /\ t # Idle /\ t.pc = "fetch" /\ t.seen = Seen(u)
      BY <1>2, DoingOK
<1>4. Noting /\ discarded \subseteq discarded' /\ discarded' \subseteq Edits
      BY Notes DEF UpdateCheckout, FileInv, TypeInv, TypeOK
<1>5. Quiet(u, t) /\ Had \subseteq Had' /\ ~At(u, "put") /\ lock' # u
      BY <1>2, <1>3, <1>4, WorkOnly DEF UpdateCheckout, Does, Doing, Opens, At, repo
<1>6. HasHead(Seen(u)) /\ entry[u].kind # "removed"
  <2>1. CASE Found(u, cmd) = "CHECKOUT"
        BY <2>1, <1>2, FoundFacts
  <2>2. CASE Found(u, cmd) \in {"LOST", "PATCH"}
        BY <2>2, <1>2, FoundFacts
  <2>. QED BY <1>1, <2>1, <2>2
<1>7. ASSUME mishaps' \subseteq {"entry"}
      PROVE  file[u] \ {Marker} \subseteq Had'
  <2>1. mishaps \subseteq {"entry"} /\ ~(entry[u].conflict /\ entry[u].same)
        BY <1>7, <1>4, Notes DEF UpdateCheckout, Noting
  <2>2. CASE file[u] = NoFile
        BY <2>2 DEF NoFile
  <2>3. CASE file[u] # NoFile
    <3>1. Found(u, cmd) = "PATCH"
          BY <1>1, <1>2, <2>3, FoundFacts DEF UpdateCheckout, InTheWay
    <3>2. /\ entry[u].kind = "reg" /\ ~IsModified(file[u], entry[u], Seen(u))
          /\ Seen(u) = rcs \/ Seen(u).place = "none"
          BY <1>2, <3>1, FoundFacts, OpensFacts
    <3>. QED BY <1>5, <2>1, <3>2, UnmodifiedIsHad
  <2>. QED BY <2>2, <2>3
<1>8. Ready(u, t)
      BY <1>2, <1>3, <1>6, <1>7 DEF Ready
<1>. QED BY <1>5, <1>8, TaskStep DEF LockOf

LEMMA UpdateBackupStep ==
    ASSUME FileInv, NEW u \in Users, UpdateBackup(u)
    PROVE  FileInv'
<1>. DEFINE t == Doing("fetch", Seen(u))
<1>1. /\ Opens(u) /\ lock # u /\ Seen(u) \in RcsFiles /\ Older(Seen(u))
      /\ Found(u, "update -C") = "MODIFIED"
      BY OpensFacts DEF UpdateBackup, Is, Opened
<1>2. t \in Tasks /\ t # Idle /\ t.pc = "fetch" /\ t.seen = Seen(u)
      BY <1>1, DoingOK
<1>3. discarded \subseteq discarded' /\ discarded' \subseteq Edits
  <2>1. file[u] \ {Marker} \subseteq Edits /\ discarded \subseteq Edits
        BY DEF FileInv, TypeInv, TypeOK, Texts
  <2>. QED BY <2>1 DEF UpdateBackup
<1>4. Quiet(u, t) /\ ~At(u, "put") /\ lock' # u
      BY <1>1, <1>2, <1>3, WorkOnly DEF UpdateBackup, Does, Doing, Opens, At, repo, Noting
<1>5. HasHead(Seen(u)) /\ entry[u].kind # "removed"
      BY <1>1, FoundFacts
<1>6. file[u] \ {Marker} \subseteq Had'
  <2>1. file[u] \ {Marker} \subseteq discarded'
        BY DEF UpdateBackup
  <2>2. discarded' \subseteq Had'
        BY HadHas
  <2>. QED BY <2>1, <2>2
<1>7. Ready(u, t)
      BY <1>1, <1>2, <1>5, <1>6 DEF Ready
<1>. QED BY <1>4, <1>7, TaskStep DEF LockOf

LEMMA UpdateRemovesStep ==
    ASSUME FileInv, NEW u \in Users, UpdateRemoves(u)
    PROVE  FileInv'
<1>. DEFINE t == Doing("forget", NoRcs)
<1>1. PICK cmd \in {"update", "update -C"} : Found(u, cmd) \in {"UNLINK", "REMOVE_ENTRY"}
      BY UpdatesFacts DEF UpdateRemoves
<1>2. Opens(u) /\ lock # u
      BY UpdatesFacts DEF UpdateRemoves
<1>3. t \in Tasks /\ t # Idle /\ t.pc = "forget" /\ t.seen = NoRcs
      BY DoingOK, NothingOK
<1>4. Noting /\ discarded \subseteq discarded' /\ discarded' \subseteq Edits
      BY Notes DEF UpdateRemoves, FileInv, TypeInv, TypeOK
<1>5. Quiet(u, t) /\ Had \subseteq Had' /\ ~At(u, "put") /\ lock' # u
      BY <1>2, <1>3, <1>4, WorkOnly DEF UpdateRemoves, Does, Doing, Opens, At, repo
<1>6. ASSUME mishaps' \subseteq {"entry"}
      PROVE  file[u] \ {Marker} \subseteq Had'
  <2>1. mishaps \subseteq {"entry"} /\ ~(entry[u].conflict /\ entry[u].same)
        BY <1>6, <1>4, Notes DEF UpdateRemoves, Noting
  <2>2. CASE Found(u, cmd) = "REMOVE_ENTRY"
        BY <1>2, <2>2, FoundFacts DEF NoFile
  <2>3. CASE Found(u, cmd) = "UNLINK"
    <3>1. /\ entry[u].kind = "reg" /\ ~IsModified(file[u], entry[u], Seen(u))
          /\ Seen(u) = rcs \/ Seen(u).place = "none"
          BY <1>2, <2>3, FoundFacts, OpensFacts
    <3>. QED BY <1>5, <2>1, <3>1, UnmodifiedIsHad
  <2>. QED BY <1>1, <2>2, <2>3
<1>7. Ready(u, t)
      BY <1>3, <1>6, NothingOK DEF Ready, FileInv
<1>. QED BY <1>5, <1>7, TaskStep DEF LockOf

LEMMA LineStep ==
    ASSUME FileInv, NEW u \in Users, NEW cmd, cmd # "commit", Opened(u, cmd),
           NEW line \in EntryLines, NEW after \in {"done", "fetch"}, NEW r \in RcsFiles,
           Adding(u, line, after, r), UNCHANGED << repo, file, entry, ghosts >>,
           Older(r), LineOK(line), ~line.same,
           line.kind = "reg" =>
              /\ line.rev = entry[u].rev /\ entry[u].kind # "none"
              /\ "entry" \notin mishaps => Has(file[u], entry[u].rev),
           line.kind = "removed" => file[u] = NoFile,
           after = "fetch" => file[u] = NoFile /\ HasHead(r) /\ line.kind = "reg"
    PROVE  FileInv'
<1>. DEFINE t == Putting(line, after, r)
<1>1. /\ t \in Tasks /\ t # Idle
      /\ t.pc = "put" /\ t.line = line /\ t.after = after /\ t.seen = r
      BY PuttingOK
<1>2. Opens(u) /\ lock # u
      BY OpensFacts DEF Opened
<1>3. discarded \subseteq discarded' /\ discarded' \subseteq Edits
      BY DEF ghosts, FileInv, TypeInv, TypeOK
<1>4. Quiet(u, t) /\ ~At(u, "put") /\ lock' # u
      BY <1>1, <1>2, <1>3, WorkOnly DEF Adding, Putting, Opens, At, repo, ghosts, Noting
<1>5. Ready(u, t)
      BY <1>1 DEF Ready
<1>. QED BY <1>4, <1>5, TaskStep DEF LockOf

LEMMA UpdateResolvedStep ==
    ASSUME FileInv, NEW u \in Users, UpdateResolved(u)
    PROVE  FileInv'
<1>. DEFINE line == Entry("reg", HeadRev(Seen(u)), FALSE, FALSE)
<1>1. Opened(u, "update") /\ Opens(u) /\ Found(u, "update") = "MODIFIED"
      BY DEF UpdateResolved, Is, Opened
<1>2. entry[u].kind = "reg" /\ entry[u].rev = HeadRev(Seen(u))
      BY <1>1, FoundFacts
<1>3. UserInv(u) /\ entry[u] \in EntryLines
      BY DEF FileInv, TypeInv, TypeOK
<1>4. line \in EntryLines /\ line.kind = "reg" /\ line.rev = entry[u].rev /\ ~line.same
      BY <1>2, <1>3 DEF Entry, EntryLines
<1>5. LineOK(line)
      BY <1>2, <1>3, <1>4 DEF LineOK, UserInv, EntryOf
<1>6. "entry" \notin mishaps => Has(file[u], entry[u].rev)
      BY <1>1, <1>2, <1>3 DEF UserInv, FileOf, Entering, Opens, At
<1>7. Adding(u, line, "done", NoRcs)
      BY DEF UpdateResolved, ClearConflict, LastLine
<1>. QED BY <1>1, <1>2, <1>4, <1>5, <1>6, <1>7, NothingOK, LineStep
          DEF UpdateResolved, FileInv

LEMMA AddResurrectsStep ==
    ASSUME FileInv, NEW u \in Users, AddResurrects(u)
    PROVE  FileInv'
<1>. DEFINE line == Entry("reg", entry[u].rev, FALSE, FALSE)
<1>1. Opened(u, "add") /\ Opens(u) /\ Found(u, "add") = "REMOVED" /\ file[u] = NoFile
      BY DEF AddResurrects, Resurrects, Is, Opened
<1>2. entry[u].kind = "removed" /\ Seen(u) = rcs /\ Seen(u) \in RcsFiles /\ Older(Seen(u))
      BY <1>1, FoundFacts, OpensFacts
<1>3. entry[u] \in EntryLines /\ entry[u].rev \in 1..Len(rcs.revs) /\ rcs \in RcsFiles
      BY <1>2 DEF FileInv, TypeInv, TypeOK, UserInv, EntryOf, LineOK
<1>4. line \in EntryLines /\ line.kind = "reg" /\ line.rev = entry[u].rev /\ ~line.same
      BY <1>3 DEF Entry, EntryLines
<1>5. LineOK(line) /\ HasHead(rcs)
  <2>1. LineOK(line)
        BY <1>3, <1>4 DEF LineOK
  <2>2. Len(rcs.revs) # 0 /\ Len(<< >>) = 0
        BY <1>3
  <2>3. rcs.revs # << >>
        BY <2>2
  <2>. QED BY <2>1, <2>3 DEF HasHead
<1>6. Has(file[u], entry[u].rev)
      BY <1>1 DEF Has
<1>7. Adding(u, line, "fetch", Seen(u))
      BY DEF AddResurrects
<1>. QED BY <1>1, <1>2, <1>4, <1>5, <1>6, <1>7, LineStep DEF AddResurrects

LEMMA AddsStep ==
    ASSUME FileInv, NEW u \in Users, Adds(u)
    PROVE  FileInv'
<1>. DEFINE line == Entry("added", 0, FALSE, FALSE)
<1>1. line \in EntryLines /\ line.kind = "added" /\ ~line.same /\ LineOK(line)
      BY FileAssumption DEF Entry, EntryLines, LineOK
<1>2. Opened(u, "add") /\ Adding(u, line, "done", NoRcs)
      BY DEF Adds, IsNot, LastLine
<1>. QED BY <1>1, <1>2, NothingOK, LineStep DEF Adds, FileInv

LEMMA RemoveSchedulesStep ==
    ASSUME FileInv, NEW u \in Users, RemoveSchedules(u)
    PROVE  FileInv'
<1>. DEFINE line == Entry("removed", entry[u].rev, FALSE, FALSE)
<1>1. Opened(u, "remove") /\ Opens(u) /\ Found(u, "remove") = "LOST" /\ file[u] = NoFile
      BY DEF RemoveSchedules, Missing, Is, Opened
<1>2. entry[u].kind = "reg" /\ entry[u] \in EntryLines /\ UserInv(u)
      BY <1>1, FoundFacts DEF FileInv, TypeInv, TypeOK
<1>3. line \in EntryLines /\ line.kind = "removed" /\ line.rev = entry[u].rev /\ ~line.same
      BY <1>2 DEF Entry, EntryLines
<1>4. LineOK(line)
      BY <1>2, <1>3 DEF LineOK, UserInv, EntryOf
<1>5. Adding(u, line, "done", NoRcs)
      BY DEF RemoveSchedules, LastLine
<1>. QED BY <1>1, <1>3, <1>4, <1>5, NothingOK, LineStep DEF RemoveSchedules, FileInv

LEMMA RemoveForgetsStep ==
    ASSUME FileInv, NEW u \in Users, RemoveForgets(u)
    PROVE  FileInv'
<1>. DEFINE t == Doing("forget", NoRcs)
<1>1. Opens(u) /\ lock # u /\ file[u] = NoFile
      BY OpensFacts DEF RemoveForgets, Missing, Is, Opened
<1>2. t \in Tasks /\ t # Idle /\ t.pc = "forget" /\ t.seen = NoRcs
      BY DoingOK, NothingOK
<1>3. discarded \subseteq discarded' /\ discarded' \subseteq Edits
      BY DEF RemoveForgets, ghosts, FileInv, TypeInv, TypeOK
<1>4. Quiet(u, t) /\ ~At(u, "put") /\ lock' # u
      BY <1>1, <1>2, <1>3, WorkOnly
         DEF RemoveForgets, Does, Doing, Opens, At, repo, ghosts, Noting
<1>5. Ready(u, t)
      BY <1>1, <1>2, NothingOK DEF Ready, FileInv, NoFile
<1>. QED BY <1>4, <1>5, TaskStep DEF LockOf

-----------------------------------------------------------------------------
(* Steps that change a working directory                                   *)

(* No work is lost if what leaves the working file is in the history or    *)
(* thrown away.                                                            *)
LEMMA WorkKeptStep ==
    ASSUME FileInv, TypeInv', NEW u \in Users, Undisturbed(u),
           edits' = edits \/ (edits' = edits + 1 /\ edits' \in file'[u]),
           mishaps' \subseteq {"entry"} => file[u] \ {Marker} \subseteq file'[u] \cup Had'
    PROVE  WorkKept'
<1>1. SUFFICES ASSUME mishaps' \subseteq {"entry"}, NEW x \in 1..edits', x \notin discarded'
               PROVE  x \in Kept'
      BY DEF WorkKept
<1>2. edits \in Nat /\ x # Marker
      BY DEF FileInv, TypeInv, TypeOK, Edits, Marker
<1>3. Kept' = (UNION { file'[v] : v \in Users })
                 \cup (UNION { rcs'.revs[n].text : n \in DOMAIN rcs'.revs })
      BY DEF Kept
<1>4. CASE x = edits' /\ edits' \in file'[u]
      BY <1>3, <1>4
<1>5. CASE x \in 1..edits
  <2>1. x \in Kept
        BY <1>1, <1>5 DEF FileInv, WorkKept, Undisturbed
  <2>2. CASE \E v \in Users \ {u} : x \in file[v]
        BY <2>2, <1>3 DEF Undisturbed
  <2>3. CASE x \in file[u]
    <3>1. x \in file'[u] \/ x \in Had'
          BY <1>1, <1>2, <2>3
    <3>2. Had' = (UNION { rcs'.revs[n].text : n \in DOMAIN rcs'.revs }) \cup discarded'
          BY DEF Had
    <3>. QED BY <1>1, <1>3, <3>1, <3>2
  <2>4. CASE \E n \in DOMAIN rcs.revs : x \in rcs.revs[n].text
    <3>1. \A n \in DOMAIN rcs.revs : n \in DOMAIN rcs'.revs /\ rcs'.revs[n] = rcs.revs[n]
          BY DEF Undisturbed, Extends, FileInv, TypeInv, RcsFiles
    <3>. QED BY <2>4, <3>1, <1>3
  <2>. QED BY <2>1, <2>2, <2>3, <2>4 DEF Kept
<1>. QED BY <1>2, <1>4, <1>5

LEMMA WorkStep ==
    ASSUME FileInv, TypeInv', NEW u \in Users, Undisturbed(u), UserInv(u)',
           rcs' = rcs,
           edits' = edits \/ (edits' = edits + 1 /\ edits' \in file'[u]),
           mishaps' \subseteq {"entry"} => file[u] \ {Marker} \subseteq file'[u] \cup Had'
    PROVE  FileInv'
<1>1. \A v \in Users : UserInv(v)'
      BY Others
<1>2. PlaceOK'
      BY DEF FileInv, PlaceOK, HeadDead
<1>3. InformedCommit' /\ BuildsOnHead'
      BY DEF FileInv, InformedCommit, Informed, BuildsOnHead, Undisturbed
<1>4. WorkKept'
      BY WorkKeptStep
<1>. QED BY <1>1, <1>2, <1>3, <1>4 DEF FileInv

LEMMA HandStep ==
    ASSUME FileInv, NEW u \in Users, AtHand(u), UNCHANGED human,
           NEW f \in Texts, NEW e \in EntryLines,
           file' = [file EXCEPT ![u] = f], entry' = [entry EXCEPT ![u] = e],
           LineOK(e),
           "recreated" \notin mishaps' => (e.kind = "removed" => f = NoFile),
           "entry" \notin mishaps => (e.kind = "reg" => Has(f, e.rev)),
           mishaps' \subseteq {"entry"} => Clean(f, e),
           edits' = edits \/ (edits' = edits + 1 /\ edits' \in f), edits' <= MaxEdits,
           Noting, discarded \subseteq discarded', discarded' \subseteq Edits,
           file[u] \ {Marker} \subseteq f \cup discarded'
    PROVE  FileInv'
<1>1. /\ rcs' = rcs /\ lock' = lock /\ task' = task /\ fatals' = fatals
      /\ UserInv(u) /\ TypeInv
      BY DEF human, FileInv
<1>2. file'[u] = f /\ entry'[u] = e
      BY <1>1 DEF TypeInv, TypeOK
<1>3. TypeInv'
  <2>1. edits' \in 0..MaxEdits /\ mishaps' \subseteq Mishaps
        BY <1>1, FileAssumption DEF TypeInv, TypeOK, Noting
  <2>2. \A v \in Users : lock' = v => ~At(v, "idle")'
        BY <1>1 DEF TypeInv, TypeOK, At
  <2>. QED BY <1>1, <2>1, <2>2 DEF TypeInv, TypeOK
<1>4. Undisturbed(u)
      BY <1>1 DEF Undisturbed, Extends, Noting, TypeInv, RcsFiles
<1>5. task[u].pc \in {"idle", "message"} /\ lock # u
      BY <1>1 DEF AtHand, At, UserInv, LockOf
<1>6. LockOf(u)' /\ CommitOf(u)' /\ SeenOf(u)' /\ PutOf(u)'
      BY <1>1, <1>5 DEF UserInv, LockOf, CommitOf, SeenOf, PutOf, Older, At
<1>7. EntryOf(u)'
      BY <1>1, <1>2, <1>5 DEF EntryOf, LineOK, At
<1>8. RemovedOf(u)' /\ FileOf(u)'
      BY <1>1, <1>2, <1>4, <1>5 DEF RemovedOf, FileOf, Entering, Has, At, Undisturbed
<1>9. KeptOf(u)'
      BY <1>1, <1>2, <1>5 DEF KeptOf, Clean, Text, At
<1>10. UserInv(u)'
      BY <1>6, <1>7, <1>8, <1>9 DEF UserInv
<1>11. file[u] \ {Marker} \subseteq file'[u] \cup Had'
      BY <1>2, HadHas
<1>. QED BY <1>1, <1>2, <1>3, <1>4, <1>10, <1>11, WorkStep

LEMMA HumanStep ==
    ASSUME FileInv, NEW u \in Users, Human(u)
    PROVE  FileInv'
<1>1. /\ UserInv(u) /\ file[u] \in Texts /\ entry[u] \in EntryLines
      /\ entry \in [Users -> EntryLines] /\ edits \in 0..MaxEdits
      /\ discarded \subseteq Edits
      BY DEF FileInv, TypeInv, TypeOK
<1>2. DEFINE e == [entry[u] EXCEPT !.same = FALSE]
<1>3. e \in EntryLines /\ e.kind = entry[u].kind /\ e.rev = entry[u].rev /\ ~e.same
      BY <1>1 DEF EntryLines
<1>4. LineOK(entry[u]) /\ LineOK(e)
      BY <1>1, <1>3 DEF UserInv, EntryOf, LineOK
<1>5. /\ "recreated" \notin mishaps => (entry[u].kind = "removed" => file[u] = NoFile)
      /\ mishaps \subseteq {"entry"} => Clean(file[u], entry[u])
      BY <1>1 DEF UserInv, RemovedOf, KeptOf
<1>6. AtHand(u) /\ UNCHANGED human
      BY DEF Human, Edit, Resolve, Create, Delete
<1>7. "entry" \notin mishaps => (entry[u].kind = "reg" => Has(file[u], entry[u].rev))
      BY <1>1, <1>6 DEF UserInv, FileOf, Entering, AtHand, At
<1>8. \A g : Clean(g, e)
      BY <1>3 DEF Clean
<1>9. OtherTime(u) <=> entry' = [entry EXCEPT ![u] = e]
      BY DEF OtherTime
<1>10. CASE Edit(u)
  <2>. DEFINE f == file[u] \cup {edits + 1}
  <2>1. /\ f \in Texts /\ edits' = edits + 1 /\ edits' \in f /\ edits' <= MaxEdits
        /\ file' = [file EXCEPT ![u] = f] /\ f # NoFile
    <3>1. edits' = edits + 1 /\ edits < MaxEdits /\ file' = [file EXCEPT ![u] = f]
          BY <1>10 DEF Edit, SetFile
    <3>2. edits + 1 \in Edits
          BY <3>1, <1>1, FileAssumption DEF Edits
    <3>3. f \in Texts /\ f # NoFile
          BY <3>2, <1>1 DEF Texts, NoFile
    <3>. QED BY <3>1, <3>2, <3>3, FileAssumption DEF Edits
  <2>2. "entry" \notin mishaps => (entry[u].kind = "reg" => Has(f, entry[u].rev))
        BY <1>7, <1>10 DEF Has, Edit
  <2>3. discarded' = discarded /\ file[u] \ {Marker} \subseteq f \cup discarded'
        BY <1>10 DEF Edit
  <2>4. CASE OtherTime(u) /\ UNCHANGED mishaps
    <3>1. "recreated" \notin mishaps' => (e.kind = "removed" => f = NoFile)
          BY <2>4, <1>3, <1>5, <1>10 DEF Edit
    <3>. QED BY <2>1, <2>2, <2>3, <2>4, <3>1, <1>1, <1>3, <1>4, <1>6, <1>8, <1>9, HandStep
             DEF Noting
  <2>5. CASE entry[u].same /\ Mishap("second") /\ UNCHANGED entry
    <3>1. entry' = [entry EXCEPT ![u] = entry[u]]
          BY <2>5, <1>1
    <3>2. "recreated" \notin mishaps' => (entry[u].kind = "removed" => f = NoFile)
          BY <2>5, <1>5, <1>10 DEF Edit, Mishap
    <3>3. ~(mishaps' \subseteq {"entry"}) /\ Noting
          BY <2>5 DEF Mishap, Noting, Mishaps
    <3>. QED BY <2>1, <2>2, <2>3, <3>1, <3>2, <3>3, <1>1, <1>4, <1>6, HandStep
  <2>. QED BY <1>10, <2>4, <2>5 DEF Edit
<1>11. CASE Resolve(u)
  <2>. DEFINE f == file[u] \ {Marker}
  <2>1. f \in Texts /\ file' = [file EXCEPT ![u] = f] /\ entry' = [entry EXCEPT ![u] = e]
        BY <1>1, <1>9, <1>11 DEF Resolve, SetFile, Texts
  <2>2. "recreated" \notin mishaps' => (e.kind = "removed" => f = NoFile)
        BY <1>3, <1>5, <1>11 DEF Resolve, NoFile
  <2>3. "entry" \notin mishaps => (e.kind = "reg" => Has(f, e.rev))
        BY <1>3, <1>7 DEF Has, NoFile
  <2>4. Noting /\ edits' = edits /\ edits' <= MaxEdits /\ discarded' = discarded
        BY <1>1, <1>11, FileAssumption DEF Resolve, Noting
  <2>. QED BY <2>1, <2>2, <2>3, <2>4, <1>1, <1>3, <1>4, <1>6, <1>8, HandStep
<1>12. CASE Create(u)
  <2>. DEFINE f == {edits + 1}
  <2>1. /\ f \in Texts /\ file' = [file EXCEPT ![u] = f] /\ f # NoFile
        /\ edits' = edits + 1 /\ edits' \in f /\ edits' <= MaxEdits
        /\ entry' = [entry EXCEPT ![u] = entry[u]] /\ discarded' = discarded
    <3>1. edits' = edits + 1 /\ edits < MaxEdits /\ file' = [file EXCEPT ![u] = f]
          BY <1>12 DEF Create, SetFile
    <3>2. edits + 1 \in Edits
          BY <3>1, <1>1, FileAssumption DEF Edits
    <3>3. f \in Texts /\ f # NoFile
          BY <3>2 DEF Texts, NoFile
    <3>4. entry' = [entry EXCEPT ![u] = entry[u]] /\ discarded' = discarded
          BY <1>1, <1>12 DEF Create
    <3>. QED BY <3>1, <3>2, <3>3, <3>4, FileAssumption DEF Edits
  <2>2. entry[u].kind # "reg" /\ file[u] = NoFile /\ ~entry[u].same
        BY <1>4, <1>12 DEF Create, LineOK
  <2>3. "recreated" \notin mishaps' => (entry[u].kind = "removed" => f = NoFile)
        BY <1>12 DEF Create, Mishap
  <2>4. Noting /\ Clean(f, entry[u]) /\ file[u] \ {Marker} \subseteq f
        BY <1>12, <2>2 DEF Create, Mishap, Noting, Mishaps, Clean, NoFile
  <2>. QED BY <2>1, <2>2, <2>3, <2>4, <1>1, <1>4, <1>6, HandStep
<1>13. CASE Delete(u)
  <2>1. NoFile \in Texts /\ file' = [file EXCEPT ![u] = NoFile] /\ entry' = [entry EXCEPT ![u] = e]
        BY <1>9, <1>13 DEF Delete, SetFile, Texts, NoFile
  <2>2. edits' = edits /\ edits' <= MaxEdits /\ Noting /\ Has(NoFile, e.rev)
        BY <1>1, <1>13, FileAssumption DEF Delete, Noting, Has
  <2>3. /\ discarded \subseteq discarded' /\ discarded' \subseteq Edits
        /\ file[u] \ {Marker} \subseteq discarded'
        BY <1>1, <1>13 DEF Delete, Texts
  <2>. QED BY <2>1, <2>2, <2>3, <1>1, <1>3, <1>4, <1>6, <1>8, HandStep
<1>. QED BY <1>10, <1>11, <1>12, <1>13 DEF Human

-----------------------------------------------------------------------------
(* Steps of a command that change a working directory                      *)

DirStep(u, t, f, e) ==
    /\ t \in {Idle} \cup Tasks /\ f \in Texts /\ e \in EntryLines
    /\ task' = [task EXCEPT ![u] = t]
    /\ file' = [file EXCEPT ![u] = f] /\ entry' = [entry EXCEPT ![u] = e]
    /\ lock' = lock \/ (lock \in {u, Nobody} /\ lock' \in {u, Nobody})
    /\ lock' = u => t # Idle
    /\ rcs' = rcs /\ edits' = edits /\ discarded' = discarded
    /\ fatals' \in 0..MaxFatals /\ Noting

LEMMA DirType ==
    ASSUME TypeInv, NEW u \in Users, NEW t, NEW f, NEW e, DirStep(u, t, f, e)
    PROVE  /\ TypeInv' /\ Undisturbed(u)
           /\ task'[u] = t /\ file'[u] = f /\ entry'[u] = e
<1>1. task' \in [Users -> {Idle} \cup Tasks] /\ task'[u] = t
      BY DEF TypeInv, DirStep
<1>2. /\ file' \in [Users -> Texts] /\ file'[u] = f
      /\ entry' \in [Users -> EntryLines] /\ entry'[u] = e
      BY DEF TypeInv, TypeOK, DirStep
<1>3. ASSUME NEW v \in Users, lock' = v
      PROVE  ~At(v, "idle")'
  <2>1. CASE v # u
    <3>1. lock = v
          BY <1>3, <2>1, FileAssumption DEF DirStep
    <3>. QED BY <3>1, <2>1 DEF TypeInv, TypeOK, At, DirStep
  <2>2. CASE v = u
    <3>1. t \in Tasks /\ task'[u] = t
          BY <1>3, <2>2, <1>1 DEF DirStep
    <3>2. t.pc # "idle"
          BY <3>1 DEF Tasks
    <3>. QED BY <2>2, <3>1, <3>2 DEF At
  <2>. QED BY <2>1, <2>2
<1>4. lock' \in Users \cup {Nobody} /\ mishaps' \subseteq Mishaps
      BY DEF TypeInv, TypeOK, Noting, DirStep
<1>5. TypeInv'
      BY <1>1, <1>2, <1>3, <1>4 DEF TypeInv, TypeOK, DirStep
<1>6. Undisturbed(u)
      BY DEF Undisturbed, DirStep, Extends, Noting, TypeInv, TypeOK, RcsFiles
<1>. QED BY <1>1, <1>2, <1>5, <1>6

LEMMA UnlockedFacts ==
    ASSUME NEW u \in Users, Unlocked(u)
    PROVE  /\ lock' = lock \/ (lock \in {u, Nobody} /\ lock' \in {u, Nobody})
           /\ lock' # u
BY FileAssumption DEF Unlocked

(* A revision that was read is in the RCS file.                            *)
LEMMA HeadIsThere ==
    ASSUME TypeInv, NEW r \in RcsFiles, Older(r), HasHead(r)
    PROVE  /\ HeadRev(r) \in 1..Len(rcs.revs) /\ HeadRev(r) \in DOMAIN rcs.revs
           /\ HeadRev(r) \in 0..MaxRevs
           /\ Text(r, HeadRev(r)) = rcs.revs[HeadRev(r)].text
           /\ Text(r, HeadRev(r)) \in Texts \ {NoFile}
<1>1. r.revs \in Seq(Revisions) /\ rcs.revs \in Seq(Revisions) /\ Len(rcs.revs) <= MaxRevs
      BY DEF RcsFiles, TypeInv, TypeOK
<1>2. Len(r.revs) \in DOMAIN r.revs /\ Len(r.revs) \in 1..Len(rcs.revs)
      BY <1>1 DEF HasHead, Older
<1>3. DOMAIN rcs.revs = 1..Len(rcs.revs)
      BY <1>1
<1>4. rcs.revs[Len(r.revs)] \in Revisions /\ r.revs[Len(r.revs)] = rcs.revs[Len(r.revs)]
      BY <1>1, <1>2, <1>3 DEF Older
<1>. QED BY <1>1, <1>2, <1>3, <1>4, FileAssumption DEF HeadRev, Text, Revisions

LEMMA PutEntryStep ==
    ASSUME FileInv, NEW u \in Users, PutEntry(u)
    PROVE  FileInv'
<1>. DEFINE line == task[u].line
            r == task[u].seen
<1>1. /\ TypeInv /\ UserInv(u) /\ At(u, "put") /\ task[u] \in Tasks /\ task[u] # Idle
      /\ file \in [Users -> Texts] /\ entry \in [Users -> EntryLines]
      BY DEF FileInv, TypeInv, TypeOK, PutEntry, At, Idle
<1>2. /\ line \in EntryLines /\ r \in RcsFiles /\ Older(r) /\ LineOK(line)
      /\ task[u].after \in {"done", "clear", "fetch"}
      BY <1>1 DEF Tasks, UserInv, SeenOf, PutOf
<1>3. /\ rcs' = rcs /\ edits' = edits /\ discarded' = discarded /\ Noting
      /\ fatals' \in 0..MaxFatals
      /\ file' = [file EXCEPT ![u] = file[u]] /\ entry' = [entry EXCEPT ![u] = line]
      BY <1>1 DEF PutEntry, ghosts, Noting, SetEntry, TypeInv, TypeOK
<1>4. ASSUME NEW t \in {Idle} \cup Tasks, task' = [task EXCEPT ![u] = t],
             lock' = lock \/ (lock \in {u, Nobody} /\ lock' \in {u, Nobody}),
             lock' = u => t # Idle
      PROVE  /\ TypeInv' /\ Undisturbed(u) /\ task'[u] = t
             /\ file'[u] = file[u] /\ entry'[u] = line
             /\ UserInv(u)' => FileInv'
  <2>1. /\ TypeInv' /\ Undisturbed(u) /\ task'[u] = t
        /\ file'[u] = file[u] /\ entry'[u] = line
        BY <1>1, <1>2, <1>3, <1>4, DirType DEF DirStep
  <2>. QED BY <2>1, <1>3, WorkStep
<1>5. (\A e : LineOK(e) => LineOK(e)') /\ mishaps' = mishaps
      BY <1>3 DEF LineOK, PutEntry, ghosts
<1>6. /\ "recreated" \notin mishaps => (line.kind = "removed" => file[u] = NoFile)
      /\ "entry" \notin mishaps => (line.kind = "reg" => Has(file[u], line.rev))
      /\ mishaps \subseteq {"entry"} => Clean(file[u], line)
      BY <1>1 DEF UserInv, RemovedOf, FileOf, KeptOf, Entering
<1>7. CASE task[u].after = "done"
  <2>1. task' = [task EXCEPT ![u] = Idle] /\ Unlocked(u)
        BY <1>7 DEF PutEntry, Stopped
  <2>2. /\ task'[u] = Idle /\ file'[u] = file[u] /\ entry'[u] = line /\ lock' # u
        /\ UserInv(u)' => FileInv'
        BY <2>1, <1>4, UnlockedFacts
  <2>3. LineOK(entry[u])'
        BY <1>2, <1>5, <2>2 DEF LineOK
  <2>4. LockOf(u)' /\ CommitOf(u)' /\ SeenOf(u)' /\ EntryOf(u)' /\ PutOf(u)'
        BY <2>2, <2>3 DEF LockOf, CommitOf, SeenOf, EntryOf, PutOf, At, Idle
  <2>5. RemovedOf(u)' /\ FileOf(u)' /\ KeptOf(u)'
        BY <1>3, <1>5, <1>6, <2>2 DEF RemovedOf, FileOf, KeptOf, Entering, At, Idle,
           Has, Clean, Text
  <2>. QED BY <2>2, <2>4, <2>5 DEF UserInv
<1>8. CASE task[u].after = "clear"
  <2>. DEFINE line2 == Entry("reg", HeadRev(r), FALSE, FALSE)
              t == Putting(line2, "done", NoRcs)
  <2>1. task' = [task EXCEPT ![u] = t] /\ lock' = lock
        BY <1>8 DEF PutEntry, ClearConflict, LastLine, Adding, Putting
  <2>2. HasHead(r) /\ line.kind = "reg" /\ line.rev = HeadRev(r)
        BY <1>1, <1>8 DEF UserInv, PutOf
  <2>3. HeadRev(r) \in 1..Len(rcs.revs) /\ HeadRev(r) \in 0..MaxRevs
        BY <1>1, <1>2, <2>2, HeadIsThere
  <2>4. /\ line2 \in EntryLines /\ LineOK(line2)
        /\ line2.kind = "reg" /\ line2.rev = HeadRev(r) /\ ~line2.same
        BY <2>3 DEF Entry, EntryLines, LineOK
  <2>5. /\ t \in Tasks /\ t # Idle
        /\ t.pc = "put" /\ t.line = line2 /\ t.after = "done" /\ t.seen = NoRcs
    <3>1. NoRcs \in RcsFiles
          BY NothingOK
    <3>. QED BY <2>4, <3>1, PuttingOK DEF Entry
  <2>6. /\ task'[u] = t /\ file'[u] = file[u] /\ entry'[u] = line
        /\ TypeInv' /\ (UserInv(u)' => FileInv')
        BY <2>1, <2>5, <1>4
  <2>7. SeenOf(u)'
        BY <2>5, <2>6, NothingOK DEF SeenOf
  <2>8. LineOK(entry[u])' /\ LineOK(task[u].line)'
        BY <1>2, <1>5, <2>4, <2>5, <2>6 DEF LineOK
  <2>9. LockOf(u)' /\ CommitOf(u)' /\ EntryOf(u)'
        BY <2>5, <2>6, <2>8 DEF LockOf, CommitOf, EntryOf, At
  <2>10. PutOf(u)' /\ RemovedOf(u)'
        BY <1>5, <1>6, <2>2, <2>4, <2>5, <2>6, <2>8 DEF PutOf, RemovedOf
  <2>11. FileOf(u)' /\ KeptOf(u)'
        BY <1>3, <1>5, <1>6, <2>2, <2>4, <2>5, <2>6
           DEF FileOf, KeptOf, Entering, At, Has, Clean, Text
  <2>. QED BY <2>6, <2>7, <2>9, <2>10, <2>11 DEF UserInv
<1>9. CASE task[u].after = "fetch"
  <2>. DEFINE t == Doing("fetch", r)
  <2>1. task' = [task EXCEPT ![u] = t] /\ lock' = lock
        BY <1>9 DEF PutEntry, Does, Doing
  <2>2. t \in Tasks /\ t # Idle /\ t.pc = "fetch" /\ t.seen = r
        BY <1>2, DoingOK
  <2>3. /\ task'[u] = t /\ file'[u] = file[u] /\ entry'[u] = line
        /\ UserInv(u)' => FileInv'
        BY <2>1, <2>2, <1>4
  <2>4. file[u] = NoFile /\ HasHead(r) /\ line.kind = "reg"
        BY <1>1, <1>9 DEF UserInv, PutOf
  <2>5. SeenOf(u)' /\ LockOf(u)' /\ CommitOf(u)' /\ PutOf(u)'
        BY <1>2, <1>3, <2>2, <2>3 DEF SeenOf, Older, LockOf, CommitOf, PutOf, At
  <2>6. EntryOf(u)' /\ RemovedOf(u)'
    <3>1. LineOK(entry[u])'
          BY <1>2, <1>5, <2>3 DEF LineOK
    <3>. QED BY <1>5, <1>6, <2>2, <2>3, <2>4, <3>1 DEF EntryOf, RemovedOf, At
  <2>7. FileOf(u)' /\ KeptOf(u)'
        BY <1>3, <1>5, <1>6, <2>2, <2>3, <2>4
           DEF FileOf, KeptOf, Entering, At, Has, Clean, Text, NoFile
  <2>. QED BY <2>3, <2>5, <2>6, <2>7 DEF UserInv
<1>. QED BY <1>2, <1>7, <1>8, <1>9

LEMMA ForgetStep ==
    ASSUME FileInv, NEW u \in Users, Forget(u)
    PROVE  FileInv'
<1>1. /\ TypeInv /\ UserInv(u) /\ task[u].pc \in {"forget", "drop"}
      /\ task[u] \in Tasks /\ task[u] # Idle
      BY DEF FileInv, TypeInv, Forget, At, Idle
<1>2. /\ rcs' = rcs /\ edits' = edits /\ discarded' = discarded /\ Noting
      /\ fatals' \in 0..MaxFatals /\ mishaps' = mishaps
      /\ file' = [file EXCEPT ![u] = NoFile] /\ entry' = [entry EXCEPT ![u] = NoEntry]
      /\ NoFile \in Texts /\ NoEntry \in EntryLines
      BY <1>1, NothingOK DEF Forget, ghosts, Noting, SetFile, SetEntry, TypeInv, TypeOK, NoFile, Texts
<1>3. LineOK(NoEntry)' /\ NoEntry.kind = "none" /\ ~NoEntry.same
      BY DEF LineOK, NoEntry, Entry
<1>4. mishaps' \subseteq {"entry"} => file[u] \ {Marker} \subseteq file'[u] \cup Had'
  <2>1. mishaps' \subseteq {"entry"} => file[u] \ {Marker} \subseteq Had
        BY <1>1, <1>2 DEF UserInv, KeptOf
  <2>2. Had' = Had
        BY <1>2 DEF Had
  <2>. QED BY <2>1, <2>2
<1>5. ASSUME NEW t \in {Idle} \cup Tasks, task' = [task EXCEPT ![u] = t],
             lock' = lock \/ (lock \in {u, Nobody} /\ lock' \in {u, Nobody}),
             lock' = u => t # Idle
      PROVE  /\ task'[u] = t /\ file'[u] = NoFile /\ entry'[u] = NoEntry
             /\ UserInv(u)' => FileInv'
  <2>1. /\ TypeInv' /\ Undisturbed(u) /\ task'[u] = t
        /\ file'[u] = NoFile /\ entry'[u] = NoEntry
        BY <1>1, <1>2, <1>5, DirType DEF DirStep
  <2>. QED BY <2>1, <1>2, <1>4, WorkStep
<1>6. CASE At(u, "forget")
  <2>1. task' = [task EXCEPT ![u] = Idle] /\ Unlocked(u)
        BY <1>6 DEF Forget, Stopped
  <2>2. /\ task'[u] = Idle /\ file'[u] = NoFile /\ entry'[u] = NoEntry /\ lock' # u
        /\ UserInv(u)' => FileInv'
        BY <2>1, <1>5, UnlockedFacts
  <2>3. UserInv(u)'
        BY <1>3, <2>2 DEF UserInv, LockOf, CommitOf, SeenOf, EntryOf, PutOf,
           RemovedOf, FileOf, KeptOf, Entering, At, Idle, Has, Clean
  <2>. QED BY <2>2, <2>3
<1>7. CASE ~At(u, "forget")
  <2>. DEFINE t == [task[u] EXCEPT !.pc = "bury"]
  <2>1. task' = [task EXCEPT ![u] = t] /\ lock' = lock
        BY <1>7 DEF Forget, Go
  <2>2. t \in Tasks /\ t # Idle /\ t.pc = "bury" /\ t.seen = task[u].seen
        BY <1>1 DEF Tasks, Idle
  <2>3. /\ task'[u] = t /\ file'[u] = NoFile /\ entry'[u] = NoEntry
        /\ UserInv(u)' => FileInv'
        BY <2>1, <2>2, <1>5
  <2>4. lock = u /\ HeadDead
        BY <1>1, <1>7 DEF UserInv, CommitOf, At
  <2>5. CommitOf(u)' /\ LockOf(u)' /\ SeenOf(u)'
    <3>1. HeadDead'
          BY <1>2, <2>4 DEF HeadDead
    <3>2. SeenOf(u)'
      <4>1. Older(task[u].seen) /\ task'[u].seen = task[u].seen
            BY <1>1, <2>2, <2>3 DEF SeenOf, UserInv
      <4>. QED BY <4>1, <1>2 DEF SeenOf, Older
    <3>3. CommitOf(u)' /\ LockOf(u)'
          BY <2>1, <2>2, <2>3, <2>4, <3>1 DEF CommitOf, LockOf, At
    <3>. QED BY <3>2, <3>3
  <2>6. UserInv(u)'
        BY <1>3, <2>2, <2>3, <2>5 DEF UserInv, EntryOf, PutOf, RemovedOf, FileOf, KeptOf,
           Entering, At, Has, Clean
  <2>. QED BY <2>3, <2>6
<1>. QED BY <1>6, <1>7

LEMMA FetchStep ==
    ASSUME FileInv, NEW u \in Users, Fetch(u)
    PROVE  FileInv'
<1>. DEFINE r == task[u].seen
            line == Entry("reg", HeadRev(r), TRUE, FALSE)
            t == Putting(line, "done", NoRcs)
            e == [entry[u] EXCEPT !.same = FALSE]
            f == Text(r, HeadRev(r))
<1>1. /\ TypeInv /\ UserInv(u) /\ At(u, "fetch") /\ task[u] \in Tasks /\ task[u] # Idle
      /\ entry[u] \in EntryLines
      BY DEF FileInv, TypeInv, TypeOK, Fetch, At, Idle
<1>2. r \in RcsFiles /\ Older(r) /\ HasHead(r) /\ entry[u].kind # "removed"
      BY <1>1 DEF Tasks, UserInv, SeenOf, EntryOf
<1>3. /\ HeadRev(r) \in 1..Len(rcs.revs) /\ HeadRev(r) \in 0..MaxRevs
      /\ f = rcs.revs[HeadRev(r)].text /\ f \in Texts \ {NoFile}
      BY <1>1, <1>2, HeadIsThere
<1>4. /\ line \in EntryLines /\ LineOK(line) /\ line.kind = "reg" /\ line.rev = HeadRev(r)
      /\ e \in EntryLines /\ e.kind = entry[u].kind /\ e.rev = entry[u].rev /\ ~e.same
      BY <1>1, <1>3 DEF Entry, EntryLines, LineOK
<1>5. /\ t \in Tasks /\ t # Idle
      /\ t.pc = "put" /\ t.line = line /\ t.after = "done" /\ t.seen = NoRcs
  <2>1. NoRcs \in RcsFiles
        BY NothingOK
  <2>. QED BY <1>4, <2>1, PuttingOK DEF Entry
<1>6. /\ rcs' = rcs /\ lock' = lock /\ edits' = edits /\ discarded' = discarded /\ Noting
      /\ fatals' \in 0..MaxFatals /\ mishaps' = mishaps
      /\ task' = [task EXCEPT ![u] = t]
      /\ file' = [file EXCEPT ![u] = f] /\ entry' = [entry EXCEPT ![u] = e]
      BY <1>1 DEF Fetch, repo, ghosts, Noting, SetFile, OtherTime, LastLine, Adding, Putting,
         TypeInv, TypeOK
<1>. HIDE DEF t, f, e, line
<1>7. TypeInv' /\ Undisturbed(u) /\ task'[u] = t /\ file'[u] = f /\ entry'[u] = e
  <2>1. DirStep(u, t, f, e)
        BY <1>1, <1>3, <1>4, <1>5, <1>6 DEF DirStep
  <2>. QED BY <1>1, <2>1, DirType
<1>8. LineOK(entry[u])' /\ LineOK(task[u].line)'
      BY <1>1, <1>4, <1>5, <1>6, <1>7 DEF LineOK, UserInv, EntryOf
<1>9. LockOf(u)' /\ CommitOf(u)' /\ SeenOf(u)' /\ EntryOf(u)'
      BY <1>5, <1>7, <1>8, NothingOK DEF LockOf, CommitOf, SeenOf, EntryOf, At
<1>10. PutOf(u)' /\ RemovedOf(u)'
      BY <1>2, <1>4, <1>5, <1>7, <1>8 DEF PutOf, RemovedOf
<1>11. FileOf(u)'
  <2>1. Entering(u)' /\ Has(file[u], task[u].line.rev)'
        BY <1>3, <1>4, <1>5, <1>6, <1>7 DEF Entering, At, Has
  <2>. QED BY <2>1 DEF FileOf
<1>12. KeptOf(u)'
  <2>1. Clean(file[u], entry[u])'
        BY <1>4, <1>7 DEF Clean
  <2>2. Clean(file[u], task[u].line)'
        BY <1>3, <1>4, <1>5, <1>6, <1>7 DEF Clean, Text
  <2>. QED BY <2>1, <2>2, <1>5, <1>7 DEF KeptOf
<1>13. UserInv(u)'
      BY <1>9, <1>10, <1>11, <1>12 DEF UserInv
<1>14. mishaps' \subseteq {"entry"} => file[u] \ {Marker} \subseteq file'[u] \cup Had'
  <2>1. mishaps \subseteq {"entry"} => file[u] \ {Marker} \subseteq Had
        BY <1>1 DEF UserInv, KeptOf, At
  <2>2. Had' = Had
        BY <1>6 DEF Had
  <2>. QED BY <1>6, <2>1, <2>2
<1>. QED BY <1>6, <1>7, <1>13, <1>14, WorkStep

LEMMA MergeIsText ==
    ASSUME NEW mine \in Texts, NEW base \in Texts, NEW theirs \in Texts,
           NEW overlap \in BOOLEAN
    PROVE  /\ Merged(mine, base, theirs, overlap) \in Texts
           /\ mine \subseteq Merged(mine, base, theirs, overlap) \cup base
           /\ base \ {Marker} \subseteq mine =>
                 theirs \ {Marker} \subseteq Merged(mine, base, theirs, overlap)
BY DEF Merged, Texts

LEMMA UpdateMergeStep ==
    ASSUME FileInv, NEW u \in Users, UpdateMerge(u)
    PROVE  FileInv'
<1>. DEFINE head == HeadRev(rcs)
            base == Text(rcs, entry[u].rev)
            theirs == Text(rcs, head)
            line == Entry("reg", head, TRUE, TRUE)
            e == [entry[u] EXCEPT !.same = FALSE]
<1>1. Updates(u, {"MERGE"})
      BY DEF UpdateMerge
<1>2. Opens(u) /\ lock # u /\ (\E cmd \in {"update", "update -C"} : Found(u, cmd) = "MERGE")
  <2>1. /\ Opens(u) /\ lock # u
        /\ \E cmd \in {"update", "update -C"} : Found(u, cmd) \in {"MERGE"}
        BY <1>1, UpdatesFacts
  <2>. QED BY <2>1
<1>3. /\ entry[u].kind = "reg" /\ Seen(u) = rcs /\ HasHead(rcs) /\ file[u] # NoFile
      /\ Older(rcs) /\ rcs \in RcsFiles
  <2>1. entry[u].kind = "reg" /\ Seen(u) = rcs
        BY <1>2, FoundFacts, OpensFacts
  <2>2. HasHead(Seen(u)) /\ IsModified(file[u], entry[u], Seen(u)) /\ Older(Seen(u))
        BY <1>2, FoundFacts, OpensFacts
  <2>. QED BY <2>1, <2>2 DEF IsModified, FileInv, TypeInv
<1>4. /\ TypeInv /\ UserInv(u) /\ file[u] \in Texts /\ entry[u] \in EntryLines
      BY DEF FileInv, TypeInv, TypeOK
<1>5. entry[u].rev \in DOMAIN rcs.revs /\ base = rcs.revs[entry[u].rev].text /\ base \in Texts
  <2>1. entry[u].rev \in 1..Len(rcs.revs) /\ rcs.revs \in Seq(Revisions)
        BY <1>3, <1>4 DEF UserInv, EntryOf, LineOK, RcsFiles
  <2>2. DOMAIN rcs.revs = 1..Len(rcs.revs) /\ rcs.revs[entry[u].rev] \in Revisions
        BY <2>1
  <2>. QED BY <2>1, <2>2 DEF Text, Revisions
<1>6. /\ head \in 1..Len(rcs.revs) /\ head \in 0..MaxRevs
      /\ theirs = rcs.revs[head].text /\ theirs \in Texts
      BY <1>3, <1>4, HeadIsThere
<1>7. /\ line \in EntryLines /\ LineOK(line) /\ line.kind = "reg" /\ line.rev = head
      /\ line.conflict
      /\ e \in EntryLines /\ e.kind = entry[u].kind /\ e.rev = entry[u].rev /\ ~e.same
      BY <1>4, <1>6 DEF Entry, EntryLines, LineOK
<1>8. PICK overlap \in BOOLEAN :
          /\ file' = [file EXCEPT ![u] = Merged(file[u], base, theirs, overlap)]
          /\ IF overlap THEN LastLine(u, line) ELSE Adding(u, line, "clear", rcs)
      BY <1>3 DEF UpdateMerge, SetFile
<1>. DEFINE f == Merged(file[u], base, theirs, overlap)
<1>9. PICK t \in Tasks :
          /\ task' = [task EXCEPT ![u] = t] /\ t # Idle
          /\ t.pc = "put" /\ t.line = line /\ t.after \in {"done", "clear"} /\ Older(t.seen)
          /\ t.after = "clear" => t.seen = rcs
  <2>1. CASE overlap
    <3>. DEFINE t == Putting(line, "done", NoRcs)
    <3>1. task' = [task EXCEPT ![u] = t]
          BY <1>8, <2>1 DEF LastLine, Adding, Putting
    <3>2. /\ t \in Tasks /\ t # Idle
          /\ t.pc = "put" /\ t.line = line /\ t.after = "done" /\ t.seen = NoRcs
      <4>1. NoRcs \in RcsFiles
            BY NothingOK
      <4>. QED BY <1>7, <4>1, PuttingOK DEF Entry
    <3>. QED BY <3>1, <3>2, <1>4, NothingOK
  <2>2. CASE ~overlap
    <3>. DEFINE t == Putting(line, "clear", rcs)
    <3>1. task' = [task EXCEPT ![u] = t]
          BY <1>8, <2>2 DEF Adding, Putting
    <3>2. /\ t \in Tasks /\ t # Idle
          /\ t.pc = "put" /\ t.line = line /\ t.after = "clear" /\ t.seen = rcs
          BY <1>3, <1>7, PuttingOK DEF Entry
    <3>. QED BY <3>1, <3>2, <1>3
  <2>. QED BY <2>1, <2>2
<1>10. /\ f \in Texts /\ file[u] \subseteq f \cup base
       /\ base \ {Marker} \subseteq file[u] => theirs \ {Marker} \subseteq f
      BY <1>4, <1>5, <1>6, MergeIsText
<1>11. /\ rcs' = rcs /\ lock' = lock /\ edits' = edits /\ discarded' = discarded /\ Noting
       /\ fatals' \in 0..MaxFatals /\ mishaps' = mishaps
       /\ entry' = [entry EXCEPT ![u] = e]
      BY <1>4 DEF UpdateMerge, repo, ghosts, Noting, OtherTime, TypeInv, TypeOK
<1>. HIDE DEF f, e, line, base, theirs, head
<1>12. TypeInv' /\ Undisturbed(u) /\ task'[u] = t /\ file'[u] = f /\ entry'[u] = e
  <2>1. DirStep(u, t, f, e)
        BY <1>7, <1>8, <1>9, <1>10, <1>11 DEF DirStep, f
  <2>. QED BY <1>4, <2>1, DirType
<1>13. LineOK(entry[u])' /\ LineOK(task[u].line)'
      BY <1>4, <1>7, <1>9, <1>11, <1>12 DEF LineOK, UserInv, EntryOf
<1>14. LockOf(u)' /\ CommitOf(u)' /\ SeenOf(u)' /\ EntryOf(u)'
      BY <1>2, <1>9, <1>11, <1>12, <1>13 DEF LockOf, CommitOf, SeenOf, EntryOf, At, Older
<1>15. PutOf(u)' /\ RemovedOf(u)'
  <2>1. t.after = "clear" => HasHead(t.seen) /\ t.line.rev = HeadRev(t.seen)
        BY <1>3, <1>7, <1>9 DEF head
  <2>. QED BY <2>1, <1>3, <1>7, <1>9, <1>12, <1>13 DEF PutOf, RemovedOf
<1>16. FileOf(u)'
  <2>1. Entering(u)'
        BY <1>7, <1>9, <1>12 DEF Entering, At
  <2>2. ASSUME "entry" \notin mishaps
        PROVE  Has(file[u], task[u].line.rev)'
    <3>1. base \ {Marker} \subseteq file[u]
          BY <1>2, <1>3, <1>4, <1>5, <2>2 DEF UserInv, FileOf, Entering, Opens, At, Has
    <3>. QED BY <3>1, <1>6, <1>7, <1>9, <1>10, <1>11, <1>12 DEF Has
  <2>. QED BY <2>1, <2>2, <1>11 DEF FileOf
<1>17. KeptOf(u)'
      BY <1>7, <1>9, <1>12 DEF KeptOf, Clean, At
<1>18. UserInv(u)'
      BY <1>14, <1>15, <1>16, <1>17 DEF UserInv
<1>19. file[u] \ {Marker} \subseteq file'[u] \cup Had'
  <2>1. base \subseteq Had'
        BY <1>5, <1>11, HadHas
  <2>. QED BY <1>10, <1>12, <2>1
<1>. QED BY <1>11, <1>12, <1>18, <1>19, WorkStep

LEMMA FatalStep ==
    ASSUME FileInv, NEW u \in Users, Fatal(u)
    PROVE  FileInv'
<1>1. /\ TypeInv /\ UserInv(u) /\ file[u] \in Texts /\ entry[u] \in EntryLines
      /\ file \in [Users -> Texts] /\ entry \in [Users -> EntryLines]
      BY DEF FileInv, TypeInv, TypeOK
<1>2. /\ rcs' = rcs /\ edits' = edits /\ discarded' = discarded
      /\ task' = [task EXCEPT ![u] = Idle] /\ Unlocked(u) /\ fatals' \in 0..MaxFatals
      BY <1>1, FileAssumption DEF Fatal, Stopped, TypeInv, TypeOK
<1>3. Noting
      BY FileAssumption DEF Fatal, Mishap, Noting, Mishaps
<1>. DEFINE e0 == [entry[u] EXCEPT !.same = FALSE]
<1>4. PICK f \in Texts, e \in EntryLines :
          /\ file' = [file EXCEPT ![u] = f] /\ entry' = [entry EXCEPT ![u] = e]
          /\ \/ f = file[u] /\ e = entry[u]
             \/ f = file[u] /\ e = NoEntry /\ At(u, "put")
             \/ /\ f = NoFile /\ e = e0
                /\ task[u].pc \in {"fetch", "forget", "drop"} \/ Updates(u, {"MERGE"})
  <2>1. CASE UNCHANGED << file, entry >>
        BY <1>1, <2>1
  <2>2. CASE At(u, "put") /\ SetEntry(u, NoEntry) /\ UNCHANGED file
        BY <1>1, <2>2, NothingOK DEF SetEntry
  <2>3. CASE /\ task[u].pc \in {"fetch", "forget", "drop"} \/ Updates(u, {"MERGE"})
             /\ SetFile(u, NoFile) /\ OtherTime(u)
    <3>1. NoFile \in Texts /\ e0 \in EntryLines
          BY <1>1 DEF NoFile, Texts, EntryLines
    <3>. QED BY <2>3, <3>1 DEF SetFile, OtherTime
  <2>. QED BY <2>1, <2>2, <2>3 DEF Fatal, Half
<1>5. /\ e = NoEntry \/ (e.kind = entry[u].kind /\ e.rev = entry[u].rev)
      /\ e.same => e = entry[u] /\ f = file[u]
      BY <1>1, <1>4 DEF EntryLines, NoEntry, Entry
<1>6. /\ TypeInv' /\ Undisturbed(u) /\ task'[u] = Idle /\ file'[u] = f /\ entry'[u] = e
      /\ lock' # u
  <2>1. DirStep(u, Idle, f, e)
        BY <1>2, <1>3, <1>4, UnlockedFacts DEF DirStep
  <2>. QED BY <1>1, <1>2, <2>1, DirType, UnlockedFacts
<1>7. LineOK(entry[u])'
      BY <1>1, <1>2, <1>5, <1>6 DEF LineOK, UserInv, EntryOf, NoEntry, Entry
<1>8. LockOf(u)' /\ CommitOf(u)' /\ SeenOf(u)' /\ EntryOf(u)' /\ PutOf(u)'
      BY <1>6, <1>7 DEF LockOf, CommitOf, SeenOf, EntryOf, PutOf, At, Idle
<1>9. RemovedOf(u)'
      BY <1>1, <1>4, <1>5, <1>6 DEF RemovedOf, UserInv, At, Idle, Undisturbed, NoEntry, Entry
<1>10. FileOf(u)'
  <2>1. SUFFICES ASSUME "entry" \notin mishaps', e.kind = "reg", f # NoFile
                 PROVE  Has(f, e.rev)
        BY <1>2, <1>6 DEF FileOf, Entering, At, Idle, Has
  <2>2. f = file[u] /\ e = entry[u] /\ "entry" \notin mishaps
        BY <1>4, <1>6, <2>1 DEF NoEntry, Entry, Undisturbed
  <2>3. CASE ~Entering(u)
        BY <1>1, <2>1, <2>2, <2>3 DEF UserInv, FileOf
  <2>4. CASE Entering(u)
    <3>1. Has(file[u], task[u].line.rev)
          BY <1>1, <2>2, <2>4 DEF UserInv, FileOf
    <3>2. file' = file /\ entry' = entry
          BY <1>1, <1>4, <2>2
    <3>3. ~Unentered(u) \/ Uncleared(u)
          BY <2>1, <3>2 DEF Fatal, Mishap
    <3>4. task[u].line.rev = entry[u].rev
          BY <1>1, <2>1, <2>2, <2>4, <3>3
             DEF Unentered, Uncleared, UserInv, PutOf, Entering, At
    <3>. QED BY <2>2, <3>1, <3>4
  <2>. QED BY <2>3, <2>4
<1>11. KeptOf(u)'
  <2>1. SUFFICES ASSUME mishaps' \subseteq {"entry"}
                 PROVE  Clean(f, e)
        BY <1>2, <1>6 DEF KeptOf, At, Idle, Clean, Text
  <2>2. mishaps \subseteq {"entry"}
        BY <2>1, <1>6 DEF Undisturbed
  <2>. QED BY <1>1, <1>5, <2>2 DEF UserInv, KeptOf, Clean
<1>12. UserInv(u)'
      BY <1>8, <1>9, <1>10, <1>11 DEF UserInv
<1>13. ASSUME mishaps' \subseteq {"entry"}
       PROVE  file[u] \ {Marker} \subseteq file'[u] \cup Had'
  <2>1. mishaps \subseteq {"entry"}
        BY <1>13, <1>6 DEF Undisturbed
  <2>2. CASE f = file[u]
        BY <2>2, <1>6
  <2>3. CASE task[u].pc \in {"fetch", "forget", "drop"}
    <3>1. file[u] \ {Marker} \subseteq Had
          BY <1>1, <2>1, <2>3 DEF UserInv, KeptOf
    <3>2. Had' = Had
          BY <1>2 DEF Had
    <3>. QED BY <3>1, <3>2
  <2>4. CASE Updates(u, {"MERGE"}) /\ f # file[u]
    <3>1. file' # file
          BY <2>4, <1>6
    <3>2. "merge" \in mishaps'
          BY <2>4, <3>1 DEF Fatal, Mishap
    <3>. QED BY <3>2, <1>13
  <2>. QED BY <1>4, <2>2, <2>3, <2>4
<1>. QED BY <1>2, <1>6, <1>12, <1>13, WorkStep

-----------------------------------------------------------------------------
(* Steps of a commit that change the RCS file, under the lock              *)

CommitDoes(u, t, r) ==
    /\ lock = u /\ task' = [task EXCEPT ![u] = t] /\ rcs' = r
    /\ r \in RcsFiles /\ Len(r.revs) <= MaxRevs /\ Extends(rcs.revs, r.revs)
    /\ UNCHANGED << file, entry, ghosts >>
    /\ \/ t = Idle /\ lock' = Nobody
       \/ /\ lock' = lock /\ t \in Tasks /\ t.pc \in {"write", "fetch", "drop"}
          /\ t.seen = r
          /\ t.pc = "write" =>
                /\ HasHead(r) => r.revs[HeadRev(r)].dead
                /\ r.place = "live" /\ Len(r.revs) < MaxRevs
                /\ file[u] # NoFile /\ entry[u].kind = "added"
          /\ t.pc = "fetch" => HasHead(r) /\ entry[u].kind # "removed"
          /\ t.pc = "drop" => HasHead(r) /\ r.revs[HeadRev(r)].dead
          /\ t.pc \in {"fetch", "drop"} /\ mishaps \subseteq {"entry"} =>
                file[u] \ {Marker} \subseteq Had'

LEMMA CommitStep ==
    ASSUME FileInv, NEW u \in Users, NEW t, NEW r, CommitDoes(u, t, r), ~At(u, "put"),
           PlaceOK', InformedCommit', BuildsOnHead'
    PROVE  FileInv' /\ Extends(rcs.revs, rcs'.revs)
<1>1. /\ TypeInv /\ UserInv(u) /\ rcs \in RcsFiles /\ r \in RcsFiles /\ rcs' = r
      /\ file' = file /\ entry' = entry /\ edits' = edits
      /\ discarded' = discarded /\ fatals' = fatals /\ mishaps' = mishaps
      BY DEF CommitDoes, ghosts, FileInv, TypeInv
<1>2. t \in {Idle} \cup Tasks /\ task'[u] = t /\ task' \in [Users -> {Idle} \cup Tasks]
      BY <1>1 DEF CommitDoes, TypeInv
<1>3. lock = u /\ lock' \in {u, Nobody} /\ (t = Idle => lock' # u)
  <2>1. t \in Tasks => t # Idle \/ t.pc = "idle"
        BY DEF Idle
  <2>. QED BY <2>1, FileAssumption DEF CommitDoes, Idle
<1>4. TypeInv'
  <2>1. \A v \in Users : lock' = v => ~At(v, "idle")'
    <3>1. ASSUME lock' = u
          PROVE  ~At(u, "idle")'
          BY <3>1, <1>2, <1>3 DEF At, Tasks
    <3>. QED BY <3>1, <1>3, FileAssumption
  <2>. QED BY <1>1, <1>2, <1>3, <2>1 DEF TypeInv, TypeOK, CommitDoes, RcsFiles
<1>5. Undisturbed(u)
      BY <1>1, <1>2, <1>3 DEF Undisturbed, CommitDoes
<1>6. /\ r.revs \in Seq(Revisions) /\ rcs.revs \in Seq(Revisions)
      /\ Len(rcs.revs) <= Len(r.revs)
      /\ \A n \in 1..Len(rcs.revs) : n \in DOMAIN r.revs /\ r.revs[n] = rcs.revs[n]
      BY <1>1 DEF RcsFiles, CommitDoes, Extends
<1>7. LineOK(entry[u])'
      BY <1>1, <1>6 DEF LineOK, UserInv, EntryOf
<1>8. SeenOf(u)'
  <2>1. t # Idle => t.seen = r
        BY DEF CommitDoes
  <2>. QED BY <2>1, <1>1, <1>2, <1>6 DEF SeenOf, Older
<1>9. LockOf(u)' /\ CommitOf(u)' /\ EntryOf(u)' /\ PutOf(u)'
  <2>1. CASE t = Idle /\ lock' = Nobody
        BY <2>1, <1>2, <1>7, FileAssumption DEF LockOf, CommitOf, EntryOf, PutOf, At, Idle
  <2>2. CASE t \in Tasks /\ t # Idle /\ t.pc \in {"write", "fetch", "drop"} /\ lock' = lock
    <3>1. LockOf(u)' /\ EntryOf(u)' /\ PutOf(u)'
          BY <2>2, <1>1, <1>2, <1>7 DEF LockOf, EntryOf, PutOf, At, CommitDoes
    <3>2. CommitOf(u)'
          BY <2>2, <1>1, <1>2, <1>3 DEF CommitOf, At, CommitDoes, HeadDead
    <3>. QED BY <3>1, <3>2
  <2>. QED BY <2>1, <2>2 DEF CommitDoes, Idle
<1>10. ~Entering(u) /\ task'[u].pc # "put"
      BY <1>2 DEF Entering, CommitDoes, Idle
<1>11. entry[u].kind = "reg" => entry[u].rev \in 1..Len(rcs.revs)
      BY <1>1 DEF UserInv, EntryOf, LineOK
<1>12. RemovedOf(u)' /\ FileOf(u)'
      BY <1>1, <1>6, <1>10, <1>11 DEF RemovedOf, FileOf, UserInv, Entering, At, Has
<1>13. KeptOf(u)'
  <2>1. mishaps \subseteq {"entry"} => Clean(file[u], entry[u])'
        BY <1>1, <1>6, <1>11 DEF UserInv, EntryOf, LineOK, KeptOf, Clean, Text
  <2>2. mishaps \subseteq {"entry"} /\ t.pc \in {"fetch", "forget", "drop"} =>
            file[u] \ {Marker} \subseteq Had'
        BY DEF CommitDoes, Idle
  <2>. QED BY <2>1, <2>2, <1>1, <1>2, <1>10 DEF KeptOf, At
<1>14. UserInv(u)'
      BY <1>8, <1>9, <1>12, <1>13 DEF UserInv
<1>15. WorkKept'
      BY <1>1, <1>4, <1>5, WorkKeptStep
<1>16. FileInv'
      BY <1>4, <1>5, <1>14, <1>15, Others DEF FileInv, CommitDoes
<1>. QED BY <1>5, <1>16 DEF Undisturbed

(* What is proved of a commit that opens the RCS file.                     *)
LEMMA CommitsFacts ==
    ASSUME FileInv, NEW u \in Users, NEW S, Commits(u, S)
    PROVE  /\ Opens(u) /\ lock = u /\ Seen(u) = rcs /\ Found(u, "commit") \in S
           /\ Len(rcs.revs) < MaxRevs /\ ~At(u, "put")
<1>1. Opens(u) /\ lock = u /\ Found(u, "commit") \in S /\ UserInv(u)
      BY DEF Commits, Is, Opened, FileInv
<1>2. Seen(u) = rcs
      BY <1>1, OpensFacts
<1>. QED BY <1>1, <1>2 DEF Opens, At, UserInv, LockOf

LEMMA CommitAddsStep ==
    ASSUME FileInv, NEW u \in Users, CommitAdds(u)
    PROVE  FileInv' /\ Extends(rcs.revs, rcs'.revs)
<1>. DEFINE r == [rcs EXCEPT !.place = "live"]
            t == Doing("write", r)
<1>1. /\ Opens(u) /\ lock = u /\ Seen(u) = rcs /\ Found(u, "commit") = "ADDED"
      /\ Len(rcs.revs) < MaxRevs /\ ~At(u, "put")
  <2>1. Commits(u, {"ADDED"})
        BY DEF CommitAdds
  <2>2. Found(u, "commit") \in {"ADDED"}
        BY <2>1, CommitsFacts
  <2>. QED BY <2>1, <2>2, CommitsFacts
<1>2. rcs \in RcsFiles /\ r \in RcsFiles /\ r.place = "live" /\ r.revs = rcs.revs
      BY DEF FileInv, TypeInv, RcsFiles
<1>3. /\ entry[u].kind = "added" /\ file[u] # NoFile
      /\ rcs.place = "none" \/ Dead(rcs)
      BY <1>1, FoundFacts
<1>4. HasHead(rcs) => rcs.revs[HeadRev(rcs)].dead
      BY <1>3 DEF Dead, FileInv, PlaceOK, HeadDead, HasHead
<1>5. t \in Tasks /\ t # Idle /\ t.pc = "write" /\ t.seen = r
      BY <1>2, DoingOK
<1>6. rcs' = r /\ task' = [task EXCEPT ![u] = t] /\ lock' = lock
      BY <1>1 DEF CommitAdds, Does, Doing
<1>7. CommitDoes(u, t, r)
  <2>1. Extends(rcs.revs, r.revs)
        BY <1>2 DEF Extends, RcsFiles
  <2>2. HasHead(r) => r.revs[HeadRev(r)].dead
        BY <1>2, <1>4 DEF HasHead, HeadRev
  <2>3. UNCHANGED << file, entry, ghosts >>
        BY DEF CommitAdds
  <2>4. Len(r.revs) <= MaxRevs /\ Len(r.revs) < MaxRevs
        BY <1>1, <1>2 DEF FileInv, TypeInv, TypeOK
  <2>. HIDE DEF r, t
  <2>. QED BY <1>1, <1>2, <1>3, <1>5, <1>6, <2>1, <2>2, <2>3, <2>4 DEF CommitDoes
<1>8. PlaceOK' /\ rcs'.revs = rcs.revs
      BY <1>2, <1>6 DEF PlaceOK
<1>9. InformedCommit' /\ BuildsOnHead'
      BY <1>8 DEF FileInv, InformedCommit, Informed, BuildsOnHead, CommitAdds, ghosts
<1>. QED BY <1>1, <1>7, <1>8, <1>9, CommitStep

WithRevision(r, v) == [r EXCEPT !.revs = Append(@, v)]

LEMMA Appended ==
    ASSUME NEW r \in RcsFiles, NEW v \in Revisions, NEW s, s = WithRevision(r, v)
    PROVE  /\ s \in RcsFiles /\ s.place = r.place /\ s.revs = Append(r.revs, v)
           /\ Len(s.revs) = Len(r.revs) + 1 /\ Extends(r.revs, s.revs)
           /\ \A n \in 1..Len(r.revs) : s.revs[n] = r.revs[n]
           /\ HasHead(s) /\ HeadRev(s) \in DOMAIN s.revs /\ s.revs[HeadRev(s)] = v
<1>1. r.revs \in Seq(Revisions)
      BY DEF RcsFiles
<1>2. Append(r.revs, v) \in Seq(Revisions) /\ Len(Append(r.revs, v)) = Len(r.revs) + 1
      BY <1>1
<1>3. s.place = r.place /\ s.revs = Append(r.revs, v)
      BY DEF RcsFiles, WithRevision
<1>4. s \in RcsFiles
      BY <1>2 DEF RcsFiles, WithRevision
<1>5. /\ \A n \in 1..Len(r.revs) : s.revs[n] = r.revs[n]
      /\ s.revs[Len(r.revs) + 1] = v
      BY <1>1, <1>3
<1>6. Extends(r.revs, s.revs)
      BY <1>1, <1>2, <1>3, <1>5 DEF Extends
<1>7. HasHead(s) /\ HeadRev(s) = Len(r.revs) + 1 /\ HeadRev(s) \in DOMAIN s.revs
  <2>1. Len(s.revs) # 0 /\ Len(<< >>) = 0 /\ DOMAIN s.revs = 1..Len(s.revs)
        BY <1>1, <1>2, <1>3
  <2>2. s.revs # << >>
        BY <2>1
  <2>. QED BY <1>1, <1>2, <1>3, <2>1, <2>2 DEF HasHead, HeadRev
<1>. QED BY <1>2, <1>3, <1>4, <1>5, <1>6, <1>7

(* What must hold of a new revision.                                       *)
Follows(v) ==
    LET n == Len(rcs.revs)
    IN  /\ "recreated" \notin mishaps =>
              v.base = n \/ (v.base = 0 /\ (n # 0 => rcs.revs[n].dead))
        /\ "entry" \notin mishaps /\ n # 0 /\ ~v.dead /\ ~rcs.revs[n].dead =>
              rcs.revs[n].text \ {Marker} \subseteq v.text

LEMMA NewRevision ==
    ASSUME FileInv, NEW v \in Revisions, Follows(v), mishaps' = mishaps,
           rcs' = WithRevision(rcs, v)
    PROVE  InformedCommit' /\ BuildsOnHead'
<1>1. rcs \in RcsFiles /\ rcs.revs \in Seq(Revisions)
      BY DEF FileInv, TypeInv, RcsFiles
<1>2. /\ Len(rcs'.revs) = Len(rcs.revs) + 1
      /\ \A n \in 1..Len(rcs.revs) : rcs'.revs[n] = rcs.revs[n]
      /\ rcs'.revs[Len(rcs.revs) + 1] = v
  <2>1. /\ Len(rcs'.revs) = Len(rcs.revs) + 1
        /\ \A n \in 1..Len(rcs.revs) : rcs'.revs[n] = rcs.revs[n]
        /\ rcs'.revs[HeadRev(rcs)'] = v
    <3>1. PICK s : s = rcs'
          OBVIOUS
    <3>2. s = WithRevision(rcs, v) /\ rcs \in RcsFiles
          BY <3>1, <1>1
    <3>3. /\ Len(s.revs) = Len(rcs.revs) + 1
          /\ \A n \in 1..Len(rcs.revs) : s.revs[n] = rcs.revs[n]
          /\ s.revs[HeadRev(s)] = v
          BY <3>2, Appended
    <3>. QED BY <3>1, <3>3
  <2>. QED BY <2>1 DEF HeadRev
<1>3. ASSUME NEW n \in 2..Len(rcs'.revs)
      PROVE  /\ n - 1 \in 1..Len(rcs.revs) /\ rcs'.revs[n - 1] = rcs.revs[n - 1]
             /\ \/ n \in 2..Len(rcs.revs) /\ rcs'.revs[n] = rcs.revs[n]
                \/ n - 1 = Len(rcs.revs) /\ rcs'.revs[n] = v
  <2>1. n \in 2..(Len(rcs.revs) + 1) /\ Len(rcs.revs) \in Nat
        BY <1>1, <1>2
  <2>2. n - 1 \in 1..Len(rcs.revs) /\ (n \in 2..Len(rcs.revs) \/ n = Len(rcs.revs) + 1)
        BY <2>1
  <2>. QED BY <1>2, <2>1, <2>2
<1>4. InformedCommit'
  <2>1. SUFFICES ASSUME "recreated" \notin mishaps, NEW n \in 2..Len(rcs'.revs)
                 PROVE  Informed(n)'
        BY DEF InformedCommit
  <2>2. CASE n \in 2..Len(rcs.revs) /\ rcs'.revs[n] = rcs.revs[n]
        BY <2>1, <2>2, <1>3 DEF FileInv, InformedCommit, Informed
  <2>3. CASE n - 1 = Len(rcs.revs) /\ rcs'.revs[n] = v
    <3>1. v.base = n - 1 \/ (v.base = 0 /\ rcs.revs[n - 1].dead)
          BY <2>1, <2>3, <1>1 DEF Follows
    <3>. QED BY <3>1, <2>3, <1>3 DEF Informed
  <2>. QED BY <1>3, <2>2, <2>3
<1>5. BuildsOnHead'
  <2>1. SUFFICES ASSUME "entry" \notin mishaps, NEW n \in 2..Len(rcs'.revs),
                        ~rcs'.revs[n].dead, ~rcs'.revs[n - 1].dead
                 PROVE  rcs'.revs[n - 1].text \ {Marker} \subseteq rcs'.revs[n].text
        BY DEF BuildsOnHead
  <2>2. CASE n \in 2..Len(rcs.revs) /\ rcs'.revs[n] = rcs.revs[n]
        BY <2>1, <2>2, <1>3 DEF FileInv, BuildsOnHead
  <2>3. CASE n - 1 = Len(rcs.revs) /\ rcs'.revs[n] = v
        BY <2>1, <2>3, <1>1, <1>3 DEF Follows
  <2>. QED BY <1>3, <2>2, <2>3
<1>. QED BY <1>4, <1>5

(* The revision of a file that is added, from the file as it is.           *)
LEMMA WriteStep ==
    ASSUME FileInv, NEW u \in Users, lock = u, ~At(u, "put"),
           Write(u, rcs, Revision(u, file[u], FALSE), "fetch"),
           file[u] # NoFile, rcs.place = "live", Len(rcs.revs) < MaxRevs,
           entry[u].kind # "removed", Follows(Revision(u, file[u], FALSE))
    PROVE  FileInv' /\ Extends(rcs.revs, rcs'.revs)
<1>. DEFINE v == Revision(u, file[u], FALSE)
            r == WithRevision(rcs, v)
            t == Doing("fetch", r)
<1>1. rcs \in RcsFiles /\ file[u] \in Texts /\ entry[u] \in EntryLines
      BY DEF FileInv, TypeInv, TypeOK
<1>2. v \in Revisions /\ v.text = file[u]
      BY <1>1 DEF Revision, Revisions, EntryLines
<1>3. /\ r \in RcsFiles /\ r.place = "live" /\ Extends(rcs.revs, r.revs)
      /\ Len(r.revs) <= MaxRevs /\ HasHead(r)
      /\ HeadRev(r) \in DOMAIN r.revs /\ r.revs[HeadRev(r)] = v
  <2>1. r = WithRevision(rcs, v)
        OBVIOUS
  <2>. HIDE DEF r, v
  <2>2. /\ Len(r.revs) = Len(rcs.revs) + 1
        /\ r \in RcsFiles /\ r.place = rcs.place /\ Extends(rcs.revs, r.revs)
        /\ HasHead(r) /\ HeadRev(r) \in DOMAIN r.revs /\ r.revs[HeadRev(r)] = v
        BY <1>1, <1>2, <2>1, Appended
  <2>. QED BY <1>1, <2>2, FileAssumption DEF RcsFiles
<1>4. /\ rcs' = r /\ lock' = lock /\ UNCHANGED << file, entry, ghosts >>
      /\ task' = [task EXCEPT ![u] = t] /\ mishaps' = mishaps
      BY DEF Write, Does, Doing, ghosts, WithRevision
<1>5. t \in Tasks /\ t # Idle /\ t.pc = "fetch" /\ t.seen = r
      BY <1>3, DoingOK
<1>6. file[u] \subseteq Had'
      BY <1>2, <1>3, <1>4, HadHas
<1>7. PlaceOK' /\ InformedCommit' /\ BuildsOnHead'
      BY <1>2, <1>3, <1>4, NewRevision DEF PlaceOK
<1>. HIDE DEF r, t
<1>8. CommitDoes(u, t, r)
      BY <1>3, <1>4, <1>5, <1>6 DEF CommitDoes
<1>. QED BY <1>7, <1>8, CommitStep

LEMMA CommitWritesStep ==
    ASSUME FileInv, NEW u \in Users, CommitWrites(u)
    PROVE  FileInv' /\ Extends(rcs.revs, rcs'.revs)
<1>. DEFINE v == Revision(u, file[u], FALSE)
            n == Len(rcs.revs)
<1>1. /\ UserInv(u) /\ rcs \in RcsFiles /\ n \in Nat
      /\ v.text = file[u] /\ v.base = entry[u].rev /\ ~v.dead
      BY DEF FileInv, TypeInv, RcsFiles, Revision
<1>2. CASE At(u, "write") /\ Write(u, task[u].seen, v, "fetch")
  <2>1. /\ lock = u /\ task[u].seen = rcs /\ rcs.place = "live" /\ file[u] # NoFile
        /\ (HasHead(rcs) => HeadDead) /\ entry[u].kind = "added"
        BY <1>1, <1>2 DEF UserInv, CommitOf
  <2>2. entry[u].rev = 0 /\ n < MaxRevs
        BY <1>1, <1>2, <2>1 DEF UserInv, EntryOf, LineOK, LockOf, At
  <2>3. n # 0 => rcs.revs[n].dead
    <3>1. n # 0 => HasHead(rcs)
          BY <1>1 DEF HasHead, RcsFiles
    <3>. QED BY <3>1, <2>1 DEF HeadDead, HeadRev
  <2>4. Follows(v)
        BY <1>1, <2>2, <2>3 DEF Follows
  <2>. QED BY <1>2, <2>1, <2>2, <2>4, WriteStep DEF At
<1>3. CASE Commits(u, {"MODIFIED"}) /\ Write(u, Seen(u), v, "fetch")
  <2>1. /\ Opens(u) /\ lock = u /\ Seen(u) = rcs /\ n < MaxRevs /\ ~At(u, "put")
        /\ Found(u, "commit") = "MODIFIED"
    <3>1. Found(u, "commit") \in {"MODIFIED"}
          BY <1>3, CommitsFacts
    <3>. QED BY <3>1, <1>3, CommitsFacts
  <2>2. /\ entry[u].kind = "reg" /\ entry[u].rev = n
        /\ rcs.place # "none" /\ HasHead(rcs) /\ ~Dead(rcs)
        /\ IsModified(file[u], entry[u], rcs)
        BY <2>1, FoundFacts DEF HeadRev
  <2>3. rcs.place = "live" /\ file[u] # NoFile
        BY <1>1, <2>2 DEF RcsFiles, Dead, IsModified
  <2>4. "entry" \notin mishaps => Has(file[u], n)
        BY <1>1, <2>1, <2>2 DEF UserInv, FileOf, Entering, At
  <2>5. Follows(v)
        BY <1>1, <2>2, <2>3, <2>4 DEF Follows, Has
  <2>. QED BY <1>3, <2>1, <2>2, <2>3, <2>5, WriteStep
<1>. QED BY <1>2, <1>3 DEF CommitWrites

LEMMA CommitRemovalStep ==
    ASSUME FileInv, NEW u \in Users, CommitRemoval(u)
    PROVE  FileInv' /\ Extends(rcs.revs, rcs'.revs)
<1>. DEFINE v == Revision(u, Text(rcs, HeadRev(rcs)), TRUE)
            r == WithRevision(rcs, v)
            t == Doing("drop", r)
<1>1. /\ Opens(u) /\ lock = u /\ Seen(u) = rcs /\ Found(u, "commit") = "REMOVED"
      /\ Len(rcs.revs) < MaxRevs /\ ~At(u, "put")
  <2>1. Commits(u, {"REMOVED"})
        BY DEF CommitRemoval
  <2>2. Found(u, "commit") \in {"REMOVED"}
        BY <2>1, CommitsFacts
  <2>. QED BY <2>1, <2>2, CommitsFacts
<1>2. /\ entry[u].kind = "removed"
      /\ file[u] = NoFile => entry[u].rev = HeadRev(rcs)
      BY <1>1, FoundFacts
<1>3. /\ TypeInv /\ UserInv(u) /\ rcs \in RcsFiles /\ entry[u] \in EntryLines /\ Older(rcs)
      BY <1>1, OpensFacts DEF FileInv, TypeInv, TypeOK
<1>4. HasHead(rcs)
  <2>1. entry[u].rev \in 1..Len(rcs.revs) /\ Len(rcs.revs) \in Nat /\ Len(<< >>) = 0
        BY <1>2, <1>3 DEF UserInv, EntryOf, LineOK, RcsFiles
  <2>. QED BY <2>1 DEF HasHead
<1>5. v \in Revisions /\ v.dead /\ v.base = entry[u].rev
  <2>1. Text(rcs, HeadRev(rcs)) \in Texts \ {NoFile}
        BY <1>3, <1>4, HeadIsThere
  <2>. QED BY <2>1, <1>3 DEF Revision, Revisions, EntryLines
<1>6. /\ r \in RcsFiles /\ Extends(rcs.revs, r.revs) /\ Len(r.revs) <= MaxRevs /\ HasHead(r)
      /\ HeadRev(r) \in DOMAIN r.revs /\ r.revs[HeadRev(r)] = v /\ r.place = rcs.place
  <2>1. r = WithRevision(rcs, v)
        OBVIOUS
  <2>. HIDE DEF r, v
  <2>2. /\ Len(r.revs) = Len(rcs.revs) + 1
        /\ r \in RcsFiles /\ r.place = rcs.place /\ Extends(rcs.revs, r.revs)
        /\ HasHead(r) /\ HeadRev(r) \in DOMAIN r.revs /\ r.revs[HeadRev(r)] = v
        BY <1>3, <1>5, <2>1, Appended
  <2>. QED BY <1>1, <1>3, <2>2, FileAssumption DEF RcsFiles
<1>7. /\ rcs' = r /\ lock' = lock /\ UNCHANGED << file, entry, ghosts >>
      /\ task' = [task EXCEPT ![u] = t] /\ mishaps' = mishaps
      BY <1>1 DEF CommitRemoval, Write, Does, Doing, ghosts, WithRevision
<1>8. t \in Tasks /\ t # Idle /\ t.pc = "drop" /\ t.seen = r
      BY <1>6, DoingOK
<1>9. "recreated" \notin mishaps => file[u] = NoFile
      BY <1>2, <1>3 DEF UserInv, RemovedOf
<1>10. Follows(v)
      BY <1>2, <1>5, <1>9 DEF Follows, HeadRev
<1>11. PlaceOK' /\ InformedCommit' /\ BuildsOnHead'
  <2>1. HeadDead'
        BY <1>5, <1>6, <1>7 DEF HeadDead
  <2>2. rcs.place # "none"
        BY <1>4 DEF FileInv, PlaceOK, HasHead
  <2>. QED BY <2>1, <2>2, <1>5, <1>6, <1>7, <1>10, NewRevision DEF PlaceOK
<1>12. mishaps \subseteq {"entry"} => file[u] \ {Marker} \subseteq Had'
      BY <1>9 DEF NoFile
<1>. HIDE DEF r, t
<1>13. CommitDoes(u, t, r)
      BY <1>1, <1>5, <1>6, <1>7, <1>8, <1>12 DEF CommitDoes
<1>. QED BY <1>1, <1>11, <1>13, CommitStep

LEMMA CommitBuriesStep ==
    ASSUME FileInv, NEW u \in Users, CommitBuries(u)
    PROVE  FileInv' /\ Extends(rcs.revs, rcs'.revs)
<1>. DEFINE r == [rcs EXCEPT !.place = "attic"]
<1>1. /\ At(u, "bury") /\ lock = u /\ HeadDead /\ rcs \in RcsFiles /\ Len(rcs.revs) <= MaxRevs
      BY DEF CommitBuries, FileInv, TypeInv, TypeOK, UserInv, CommitOf
<1>2. r \in RcsFiles /\ r.place = "attic" /\ r.revs = rcs.revs
      BY <1>1 DEF RcsFiles
<1>3. /\ rcs' = r /\ lock' = Nobody /\ task' = [task EXCEPT ![u] = Idle]
      /\ UNCHANGED << file, entry, ghosts >> /\ mishaps' = mishaps
      BY <1>1 DEF CommitBuries, Stopped, Unlocked, ghosts
<1>4. Extends(rcs.revs, r.revs)
      BY <1>1, <1>2 DEF Extends, RcsFiles
<1>5. PlaceOK' /\ rcs'.revs = rcs.revs
      BY <1>1, <1>2, <1>3 DEF PlaceOK, HeadDead, HasHead, HeadRev
<1>6. InformedCommit' /\ BuildsOnHead'
      BY <1>3, <1>5 DEF FileInv, InformedCommit, Informed, BuildsOnHead
<1>. HIDE DEF r
<1>7. CommitDoes(u, Idle, r)
      BY <1>1, <1>2, <1>3, <1>4 DEF CommitDoes
<1>. QED BY <1>1, <1>5, <1>6, <1>7, CommitStep DEF At

-----------------------------------------------------------------------------
(* The theorems                                                            *)

LEMMA InitFileInv ==
    ASSUME Init
    PROVE  FileInv
<1>1. /\ rcs = NoRcs /\ lock = Nobody /\ edits = 0 /\ mishaps = {}
      /\ \A u \in Users : file[u] = NoFile /\ entry[u] = NoEntry /\ task[u] = Idle
      BY DEF Init
<1>2. TypeInv
  <2>1. rcs.place = "none" /\ rcs.revs = << >> /\ Len(rcs.revs) = 0 /\ rcs.revs \in Seq(Revisions)
        BY <1>1 DEF NoRcs
  <2>2. file \in [Users -> Texts]
        BY DEF Init, NoFile, Texts
  <2>3. entry \in [Users -> EntryLines]
        BY NothingOK DEF Init
  <2>4. \A u \in Users : lock # u
        BY <1>1, FileAssumption
  <2>. QED BY <2>1, <2>2, <2>3, <2>4, <1>1, NothingOK, FileAssumption
           DEF Init, TypeInv, TypeOK, Mishaps
<1>3. rcs.revs = << >> /\ rcs.place = "none" /\ Len(rcs.revs) = 0
      BY <1>1 DEF NoRcs
<1>4. PlaceOK /\ InformedCommit /\ BuildsOnHead
      BY <1>3 DEF PlaceOK, InformedCommit, BuildsOnHead
<1>5. WorkKept
      BY <1>1 DEF WorkKept
<1>6. ASSUME NEW u \in Users
      PROVE  UserInv(u)
  <2>1. /\ file[u] = NoFile /\ entry[u] = NoEntry /\ task[u] = Idle /\ lock # u
        BY <1>1, FileAssumption
  <2>2. NoEntry.kind = "none" /\ NoEntry.rev = 0 /\ ~NoEntry.same
        BY DEF NoEntry, Entry
  <2>3. LockOf(u) /\ CommitOf(u) /\ SeenOf(u) /\ EntryOf(u) /\ PutOf(u)
        BY <2>1, <2>2 DEF LockOf, CommitOf, SeenOf, EntryOf, PutOf, LineOK, At, Idle
  <2>4. RemovedOf(u) /\ FileOf(u) /\ KeptOf(u)
        BY <2>1, <2>2 DEF RemovedOf, FileOf, KeptOf, Entering, Clean, At, Idle
  <2>. QED BY <2>3, <2>4 DEF UserInv
<1>. QED BY <1>2, <1>4, <1>5, <1>6 DEF FileInv

LEMMA StepFileInv ==
    ASSUME FileInv, [Next]_vars
    PROVE  FileInv'
<1>1. CASE UNCHANGED vars
  <2>1. /\ rcs' = rcs /\ lock' = lock /\ file' = file /\ entry' = entry /\ task' = task
        /\ edits' = edits /\ discarded' = discarded /\ fatals' = fatals /\ mishaps' = mishaps
        BY <1>1 DEF vars
  <2>2. TypeInv' /\ PlaceOK'
        BY <2>1 DEF FileInv, TypeInv, TypeOK, At, PlaceOK, HeadDead
  <2>3. InformedCommit' /\ BuildsOnHead' /\ WorkKept'
    <3>1. InformedCommit' /\ BuildsOnHead'
          BY <2>1 DEF FileInv, InformedCommit, Informed, BuildsOnHead
    <3>2. Kept' = Kept
          BY <2>1 DEF Kept
    <3>. QED BY <2>1, <3>1, <3>2 DEF FileInv, WorkKept
  <2>4. ASSUME NEW u \in Users
        PROVE  UserInv(u)'
    <3>1. \A p : At(u, p)' <=> At(u, p)
          BY <2>1 DEF At
    <3>2. (HeadDead' <=> HeadDead) /\ Had' = Had /\ (Entering(u)' <=> Entering(u))
          BY <2>1, <3>1 DEF HeadDead, Had, Entering
    <3>3. UserInv(u)
          BY DEF FileInv
    <3>4. LockOf(u)' /\ CommitOf(u)' /\ SeenOf(u)'
          BY <2>1, <3>1, <3>2, <3>3 DEF UserInv, LockOf, CommitOf, SeenOf, Older
    <3>5. EntryOf(u)' /\ PutOf(u)' /\ RemovedOf(u)'
          BY <2>1, <3>1, <3>3 DEF UserInv, EntryOf, PutOf, RemovedOf, LineOK
    <3>6. FileOf(u)' /\ KeptOf(u)'
          BY <2>1, <3>1, <3>2, <3>3 DEF UserInv, FileOf, KeptOf, Has, Clean, Text
    <3>. QED BY <3>4, <3>5, <3>6 DEF UserInv
  <2>. QED BY <2>2, <2>3, <2>4 DEF FileInv
<1>2. CASE Next
  <2>1. PICK u \in Users :
            Human(u) \/ Shared(u) \/ Update(u) \/ Commit(u) \/ AddOrRemove(u) \/ Fatal(u)
        BY <1>2 DEF Next
  <2>2. CASE Human(u)
        BY <2>2, HumanStep
  <2>3. CASE Shared(u)
        BY <2>3, StartStep, NotLiveStep, PutEntryStep, ForgetStep, FetchStep DEF Shared
  <2>4. CASE Update(u)
        BY <2>4, StopSteps, UpdateCheckoutStep, UpdateBackupStep, UpdateResolvedStep,
           UpdateMergeStep, UpdateRemovesStep DEF Update
  <2>5. CASE Commit(u)
        BY <2>5, StopSteps, CommitAffectedStep, CommitLockStep, CommitAddsStep,
           CommitWritesStep, CommitRemovalStep, CommitBuriesStep DEF Commit
  <2>6. CASE AddOrRemove(u)
        BY <2>6, StopSteps, AddResurrectsStep, AddsStep, RemoveForgetsStep,
           RemoveSchedulesStep DEF AddOrRemove
  <2>7. CASE Fatal(u)
        BY <2>7, FatalStep
  <2>. QED BY <2>1, <2>2, <2>3, <2>4, <2>5, <2>6, <2>7
<1>. QED BY <1>1, <1>2

(* What commands go by, at every step: the inductive invariant.            *)
THEOREM FileInvariant == Spec => []FileInv
<1>1. Init => FileInv
      BY InitFileInv
<1>2. FileInv /\ [Next]_vars => FileInv'
      BY StepFileInv
<1>. QED BY <1>1, <1>2, PTL DEF Spec

(* The variables of cvs keep their types, and who holds the lock runs.     *)
THEOREM TypeCorrect == Spec => []TypeOK
<1>1. FileInv => TypeOK
      BY DEF FileInv, TypeInv
<1>. QED BY <1>1, FileInvariant, PTL

(* No user commits over a revision he has not seen, whoever else commits   *)
(* while he types his message and whatever is interrupted (commit.c).      *)
THEOREM InformedCommitAlways == Spec => []InformedCommit
<1>1. FileInv => InformedCommit
      BY DEF FileInv
<1>. QED BY <1>1, FileInvariant, PTL

(* No commit undoes what is in the revision before it (file.c, commit.c).  *)
THEOREM BuildsOnHeadAlways == Spec => []BuildsOnHead
<1>1. FileInv => BuildsOnHead
      BY DEF FileInv
<1>. QED BY <1>1, FileInvariant, PTL

(* No edit goes away that nobody has thrown away, though update, commit    *)
(* and remove end half way (checkout.c, update.c, commit.c, remove.c).     *)
THEOREM WorkKeptAlways == Spec => []WorkKept
<1>1. FileInv => WorkKept
      BY DEF FileInv
<1>. QED BY <1>1, FileInvariant, PTL

(* No revision is lost or changed, whichever copies of the RCS file are    *)
(* read before and written after another commit (rcs.c, commit.c).         *)
THEOREM HistoryStaysAlways == Spec => HistoryStays
<1>1. ASSUME FileInv, [Next]_vars
      PROVE  [Extends(rcs.revs, rcs'.revs)]_rcs
  <2>1. CASE UNCHANGED vars
        BY <2>1 DEF vars
  <2>2. ASSUME NEW u \in Users,
               CommitAdds(u) \/ CommitWrites(u) \/ CommitRemoval(u) \/ CommitBuries(u)
        PROVE  Extends(rcs.revs, rcs'.revs)
        BY <1>1, <2>2, CommitAddsStep, CommitWritesStep, CommitRemovalStep, CommitBuriesStep
  <2>3. ASSUME NEW u \in Users, Human(u) \/ Shared(u) \/ Fatal(u)
        PROVE  rcs' = rcs
        BY <2>3 DEF Human, Edit, Resolve, Create, Delete, human, Shared, Start, NotLive,
           PutEntry, Forget, Fetch, repo, Fatal
  <2>4. ASSUME NEW u \in Users, Update(u) \/ AddOrRemove(u)
        PROVE  rcs' = rcs
        BY <2>4 DEF Update, UpdateNothing, UpdateCheckout, UpdateBackup, UpdateResolved,
           UpdateMerge, UpdateRemoves, AddOrRemove, AddNothing, AddResurrects, Adds,
           RemoveNothing, RemoveForgets, RemoveSchedules, Stop, repo
  <2>5. ASSUME NEW u \in Users,
               CommitNothing(u) \/ CommitAffected(u) \/ CommitAborted(u) \/ CommitLock(u)
        PROVE  rcs' = rcs
        BY <2>5 DEF CommitNothing, CommitAffected, CommitAborted, CommitLock, Stop, repo
  <2>. QED BY <1>1, <2>1, <2>2, <2>3, <2>4, <2>5 DEF Next, Commit
<1>. QED BY <1>1, FileInvariant, PTL DEF Spec, HistoryStays

=============================================================================
