# A verification development for baseutils

baseutils is a collection of OpenBSD userland utilities ported to other
systems: some seventy small programs and two or three large ones. Most of them
are sequential filters whose state is their data. The parts with protocols,
concurrency, retries, crash windows or state that outlives a command are few, and
this development is about those:

* `tftp`, the one program that speaks an unreliable protocol;
* `cvs`: the locks of the repository, the administrative files of a working
  directory, and one file on its way between working directories and repository;
* `rcs`: one RCS file, its deltas and locks, under `ci`, `co` and `rcs`;
* `xargs`: the argument buffer and the pool of children;
* `ed`: its buffer with the undo stack.

The specifications are TLA+, checked by TLC on small instances; theorems about
them are proved with TLAPS for every value of the constants.

## Inventory

| Component | State | Operations | What is hard | Correct when |
|---|---|---|---|---|
| `tftp`: `sendfile()` (`tftp.c`) | block number, first-trip flag, the two peers (`serv`, `peer`), silence counter, `amount`, negotiated `segment_size`, `intrflag` | make request, read block, send, wait, take ACK / OACK / ERROR, resynchronise, give up, abort | lost, repeated, late and reordered packets; several server instances after a repeated request; ^C at any point | what is reported or counted as sent is stored by a server, once and in order; it ends |
| `tftp`: `recvfile()` (`tftp.c`) | the same, and the ACK in `ackbuf`, the result of the last `recvfrom()` | the same in the other direction, flush on abort | the same; ACKs that run ahead of the file; the abort label is also the normal exit | the local file is a beginning of the remote one, all of it when reported; no ACK before its data is kept |
| `tftp`: buffers (`tftpsubs.c`) | two buffers with counters, `current`, `nextone` | `readit`, `read_ahead`, `writeit`, `write_behind` | two indices moved by different functions | the buffer waiting for its ACK is not refilled; every buffer is flushed |
| `tftp`: command loop (`main.c`) | the socket, `intrflag`, options; all survive a transfer | `put`, `get`, `connect`, settings, `intr` | state of one transfer reaching the next | transfers do not mix |
| `cvs`: repository locks (`repository.c`) | lock files of other processes | lock, wait, give up, unlock, cleanup at exit | check then create; same user twice; fatal exits | one writer in a directory; every lock goes away |
| `cvs`: Entries (`entries.c`) | list in memory, `Entries`, `Entries.Log`, `Entries.Backup` | open, add, remove, close | crash between two system calls | the next command reads the list as it was; no file is listed twice |
| `cvs`: one file (`file.c`, `update.c`, `checkout.c`, `commit.c`, `add.c`, `remove.c`) | the RCS file and where it is, the working files, their entries | edit, update, merge, commit, add, remove, die half way | what a command goes by is old when it acts; a status table of some twenty cases; times compared by the second | nobody commits over what he has not seen; no edit disappears |
| `xargs` | argument buffer, quote state, children | parse, run, wait | the buffer filling inside an argument; the pool of children; early exits | every argument passed once, in order; never more than `-P` children; the exit status tells how they ended |
| `rcs` (`rcs.c`, `ci.c`, `co.c`, `rcsprog.c`) | head, deltas, locks, strict mode; working files | check in, check out, lock, unlock, outdate | each text depends on its neighbour's; a command that stops half way is written all the same | every revision can be got unchanged; a lock protects what was read |
| `ed`: undo, signals | ring of lines, undo stack, `mutex` | add, delete, move, undo; deferred signals | undo of undo; a signal inside an update | undo restores the buffer; undo twice is the identity |
| `libopenbsd`: `ohash` | open-addressing table with tombstones | lookup, insert, remove, resize | lookup moves entries; resize | it is a map |
| `awk`: record and fields | `$0`, fields, `NF`, two validity flags | get, set, rebuild | each is a cache of the other | every read sees the last write |
| the other programs | their data | filters, walkers, translators | nothing concurrent or persistent of their own | listed in `PROJECT.json`, not modelled |

### How the parts of tftp interact

`put()` and `get()` (`main.c`) open one file after the other and call
`sendfile()` or `recvfile()`; the socket `f`, `segment_size` and `intrflag` are
globals that survive from one call to the next. The transfer functions hand
packets to the socket with `sendto()` and wait in `poll()`; between the two they
call `read_ahead()` or `write_behind()` so that the disk works while the server
answers. A request goes to the well-known port; each copy of it that arrives makes
the server start an instance that answers from a port of its own, and the port of
the first answer becomes `serv`. SIGINT sets `intrflag`, which the loops test.

### How the parts of cvs and ed interact

Each `cvs` command is a process; processes meet in the directories of the
repository only, through the lock files. A command walks the directories
(`cvs_file_walkdir()`) and for each of them locks, or waits until nobody holds the
lock; what it has locked is noted on `repo_locks`, which `cvs_cleanup()` works off at
every exit, whether regular, by `fatal()`, or after a signal.

For each file the command opens the RCS file, in the directory or its Attic, and
`cvs_file_classify()` decides by it, the working file and the line in `CVS/Entries`
what the state of the file is; the handler of the command acts on that. A commit
does this twice: before it asks for the log message, and again under the lock. What
the handler changes in the working directory is entered with `cvs_ent_add()` and
`cvs_ent_remove()`.

`ci`, `co` and `rcs` read an RCS file whole, work on what they read, and put a new file
in its place. They call each other's halves: `ci` ends in `checkout_rev()`, which
sets and removes locks too. `xargs` and its children meet in `waitpid()` only.

In `ed` every command that changes lines goes through a few functions: they relink
the ring in a section between `SPL1()` and `SPL0()`, in which signals are deferred,
and push an entry on the undo stack in the same section. A global command runs other
commands in its command list and holds pointers to the lines it has yet to visit.
Outside of the sections SIGINT jumps back to the command loop.

## Modules

| Module | Models | State and actions |
|---|---|---|
| `FileTransfer` | what a transfer promises | `dest` grows along `Source`; one `verdict` |
| `TftpBuffers` | `tftpsubs.c` | no variables: operators from buffer state to buffer state, one per C function or per part of one that a step may split |
| `TftpWire` | packets, network, socket | `up`, `down`: packets under way; `sock`: packets queued in the client's socket; `Deliver` |
| `TftpSend` | `sendfile()` and the loop of `put()` | see below |
| `TftpRecv` | `recvfile()` and the loop of `get()` | the same shape |
| `TftpSendInv`, `TftpRecvInv` | the inductive invariants of the first transfer of a `put` and of a `get` | no new state |
| `TftpSend_proofs`, `TftpRecv_proofs` | their proofs | |
| `CvsLock` | `repository.c` of cvs, `cvs_cleanup()`, signals | `lockfile`; per process the call it is making, `tries`, `repo_locks`, `cvs_quit` |
| `CvsCommands` | the calls that commit, tag, checkout and update make | no variables |
| `CvsLock_proofs` | its proofs | |
| `CvsStatus` | `cvs_file_classify()` and `cvs_merge_file()` | no variables: the status of a file as a function of working file, entry and RCS file |
| `CvsFile` | one file under `update`, `commit`, `add`, `remove` and its users' editing | `rcs`, `lock`; per user `file`, `entry`, and what is left of the command (`task`) |
| `CvsFileInv` | its inductive invariant | no new state |
| `CvsFile_proofs` | its proofs | |
| `EntriesMap` | what the administrative files promise | `map`, one name at a time |
| `CvsEntries` | `entries.c` | `entries`, `log`, `backup` on disk; `list` in memory |
| `CvsEntries_proofs` | its proofs | |
| `RcsArchive` | what an RCS file promises | `texts` by revision |
| `Rcs` | `ci`, `co`, `rcs` on one file, and `rcs_write()` | `rcs`: the file; `work` and `seen` per user; `stopped`: whether a write that failed ended the last command |
| `Rcs_proofs` | its inductive invariant and the proofs | |
| `Xargs` | `parse_input()`, `run()`, `waitchildren()` | the statics of `xargs.c`; `runs`, `child`, `reaped` |
| `Xargs_proofs` | proofs about its arguments and its children | |
| `EdBuffer` | `buf.c` of ed and the ring part of `main.c` and `undo.c` | no variables: operators from buffer to buffer |
| `EdUndo` | the commands that change lines, the undo stack, global commands, SIGINT | `buf`, `ustack`, `u_current_addr`, `u_addr_last`, `heap`, `active`, `task` |
| `EdUndo_proofs` | its inductive invariant and the proofs | |
| `EdLines` | what `u` promises | `text` and what `u` brings back |
| `MC...` | values of the constants for TLC | |

**Control.** `pc` is `"top"` at the head of the `do` loop, `"loop"` at the head of
the wait loop, `"poll"` in `poll()`, `"done"` after the return. A step of the client
is the code between two of these points. In `TftpSend`:

| Action | Code in `tftp.c` |
|---|---|
| `MakeRequest`, `ReadIt` | 149-161, the two branches at the head of the `do` loop; `ReadIt` includes the nak of a read error |
| `Transmit`, `Skip`, `GiveUp` | 164-182, the head of the wait loop: send and read ahead; send nothing after a packet that did not match; the timeout |
| `PollTimeout`, `PollInterrupted`, `SocketFails` | 184-211 |
| `PortMismatch`, `GotOack`, `GotError`, `GotAck`, `GotOtherAck` | 212-248, by what was received |
| `EndTrip` (part of the above), `Interrupted` | 251-257, which an interrupted wait reaches too |
| `NextFile` | the loop of `put()`, `main.c` 400-414 |
| `Interrupt` | `intr()`, at any moment |

`TftpRecv` has `NewAck` (the RRQ or the next ACK) in the place of the first two,
`GotData` and `GotOtherData` in that of the ACKs, and `AbortAfter` for the label
`abort`, which a complete transfer reaches as well. `EndTrip` there is `writeit()`
and what follows it.

In `CvsLock` a process is the sequence of its calls (`Program`, from `CvsCommands`).
One pass of the loop in `cvs_repository_lock()` (`repository.c` 61-78) is `Free`, `Own`,
`Wait`, `Stranger` or `Quit`, by what `stat()` finds; `TimedOut` is its end. `Open` and
`OpenFails` are the `open()` that follows, a step of its own because other processes
run in between. `Unlock` is `cvs_repository_unlock()`; `Finish`, `Cleanup` and `Exit` are
the way out; every call of `fatal()` leads to `Cleanup` as well. The sleep between two
tries is not modelled: nothing depends on its length.

In `CvsFile` a command is classified in the state in which it opens the RCS file, and
`task` keeps that file (`seen`) until the command is done with it. Commands begin
alike: which one it is stays open until then, but for a commit that has its lock. What it does in
the working directory is one step per system call sequence that somebody else, or
`fatal()`, could tell apart. `Half` is a command that dies within such a step. Texts are
sets of edits, so that a merge is a set operation and a lost edit shows; `Marker`
stands for conflict markers. `CvsFile` has the lock of the directory as one variable;
`CvsLock` has the files it is made of. In the same way `entry` is what `CvsEntries`
keeps in three files.

In `CvsEntries` a step is the code between two system calls that change a file.
`Replace` and `Replaced` are the two halves of a `cvs_ent_add()` for a name that is
listed already, between which a crash finds the name gone. `Crash` may come anywhere
but between `rename()` and `unlink()`, unless `MayTear` allows it there too. `Rename`
fails if `MayFail` allows it, and the cleanup of `fatal()` then closes the emptied list again.

In `Rcs` a command is one step: it reads the whole file and replaces it. Nobody runs
between its system calls, but the places where it may fail are within the step: `Outcomes` has
what `rcs_write()` and `rcs_movefile()` may leave in the place of the file, and whether the
command goes on or ends with an error. `ci` removes the working file, writes, and then
checks out again (`GivenUp`), in that order, so that a write that fails leaves no working file
(`ci.c` 569 and 572, 689 and 692); `co` has written the working file by then
(`Fetched`). A command that has changed nothing does not write (`RCS_SYNCED`). The operators
`RevAdd`, `RevRemove`, `TextSet`, `LockAdd`, ... are the functions of `rcs.c` with the
same names; the actions string them together as `ci.c`, `co.c` and `rcsprog.c` do. A text
is a model value, a patch the pair of what it applies to and what it gives:
`rcs_patchfile()` gives nothing when it is applied to something else.

In `Xargs` a step is one character, with the run it may lead to up to the `vfork()`;
then one step for each child that `waitpid()` reports. Only `waitchildren()` depends on
what the children do meanwhile. `Words` is what the words of an input are, from the manual
page: `Onward` goes on in the input by one character, from one `Places` to the next, knows of
no buffer, and is used by the properties only.

**Mishaps.** `CvsFile` and `Rcs` name the situations that the code is known not to
survive, and a run says in `MayMishap` which of them may happen. In `Rcs` the run has
`write` only; in `CvsFile` all may happen, and the properties say which of them they
exclude. Each of them but `write` does break a property when it is let in, and each is a
hazard in `PROJECT.json`:

| Module | Mishap | What it breaks |
|---|---|---|
| `CvsFile` | `second`: an edit within the second of the checkout is not noticed (`file.c` 793) | `WorkKept` |
| | `left`: a merged file with conflicts has the time of its entry, so that the next `update` takes it for unmodified and replaces it by the new head | `WorkKept`, `NeedsCheckoutIsClean` |
| | `recreated`: a file made anew after `cvs remove` hides that the head has moved (`file.c` 888) | `InformedCommit` |
| | `merge`: `cvs` dies after it has unlinked the file it is to merge, or before it has cleared the conflict | `WorkKept` |
| | `entry`: `cvs` dies when a newer revision is in the working file and the entry still names the one before | `BuildsOnHead` (see "What is proved") |
| `Rcs` | `empty`: with an empty head every older revision comes out empty (`rcs.c` 946), for good after `rcs -o` | `ImplementsArchive` |
| | `number`: a new head with a smaller second component hides old revisions (`rcs.c` 923) | `ImplementsArchive`, `NoLater` |
| | `locked`: a locked revision is outdated; `rcs_open()` refuses the file ever after (`rcs.c` 123) | `TypeOK` |
| | `unseen`: `rcs -l` locks a revision the user has never had | `InformedCheckIn` |
| | `write`: `rcs_write()` ends the command with an error, before the new file is in place or, when `chmod()` fails, after that (`rcs.c` 226, 341, 364-372) | nothing that is stated: `ci` then has lost the working file, which is neither in the directory nor in the RCS file, but it says so. `NothingLost` excludes just this (`stopped`) |
| | `copy`: the new file is copied from another file system, which fails; `rcs_movefile()` removes the RCS file and, if it was reading or writing, reports success (`rcs.c` 386-420) | `NothingLost`: `ci` ends well, and the text is nowhere; nor are the other revisions |

In `EdUndo` an action of the group "Commands" is what a command does before its first
section: it checks its addresses and clears the undo stack unless a global command is
running. `task` is then what is left of it, and each further action is one section or
the code between two: `Put` (`put_sbuf_line()` and the push), `Delete`
(`delete_lines()`), `Move`, one line of a copy or of a substitution, and so on.
`Interrupt` drops the task; input that ends and calls that fail have the same effect.
`EdBuffer` keeps the position that `get_addressed_line_node()` caches, and each call of it
is a `Seek`. `before` is a history variable: the text at the moment the undo stack was
cleared, or before the last `u`.

**External parts.** The servers and the network are not in the repository. The
servers follow RFC 1350: they acknowledge the block they expect, repeat the
acknowledgement of the one before, retransmit, may fail, and may accept, refuse or
ignore the block size option. The network may lose, repeat and reorder packets.

**Data.** Octets are integers that are all different, so that a lost, repeated or
misplaced one shows. In `EdUndo` a line is its node: undo has to bring back the very
nodes. Names, modes, tracing and statistics are left out. The text
of an OACK counts as one octet after its header. In netascii mode the modelled
file is the converted stream.

## What the runs check

Two ports are enough for a late or second server instance, a window of two packets
each way and a socket queue of two for reordering, a full block and a short one for
a retransmission while the neighbour is in the other buffer, two timeouts for one
retransmission. The ports are interchangeable, so the safety runs use symmetry.

| Run | Question | Bounds |
|---|---|---|
| `send_safe` | What `sendfile()` reports and counts as sent is stored, in order, once; a retransmission carries the octets of the first transmission; the transfer implements `FileTransfer`; the invariant of the proofs holds. Reading, the socket and the servers may fail, and ^C may come, at any point | 2 ports, 3 octets in blocks of 2, 1 duplication by the network, 1 retransmission by a server, 2 client timeouts |
| `send_command` | Two files through one socket, with options, wrapping block numbers and ^C: the command ends; the first file is stored when reported | block numbers modulo 2, no reordering (`Window` = 1), nothing repeated by network or server |
| `recv_safe` | The local file is a beginning of the remote one, all of it when reported, with the number of octets that is reported; ACKs do not run ahead; refinement; the invariant of the proofs holds | 5 octets in blocks of 2, otherwise as `send_safe`, without ^C (see below) |
| `recv_command` | as `send_command` | as `send_command` |
| `cvs_lock` | No lock file is left behind; the locks of a commit stay in directories that nobody unlocks; commits that lock in one order do not all fail; every command ends | 4 processes of 4 users in 2 directories: two commits, a checkout, a commit without write access; a signal to one of them at any point; one user without a name; 2 tries |
| `ed_undo` | At any point of any sequence of commands: the ring, the cached position and the undo stack agree; undoing gives a sound ring; lines are freed once; a global command finds its lines; undo implements `EdLines`, each `u` its `Undo` | 2 lines at the start, 3 nodes, 3 entries on the stack; pushes may fail, SIGINT may come between any two sections |
| `cvs_work` | Two users work on one file in every order: nobody commits over a revision he has not seen; no commit undoes another's edits; no edit disappears; the history only grows; no lock is left; the invariant of the proofs holds | 3 edits, 3 revisions, 1 command that dies |
| `cvs_entries` | After any crash the next command reads what the last one had in memory; the three files together are one map that changes one name at a time | 2 files, 2 lines, 4 changes in the log |
| `xargs` | Every word is used once, whole and in order; runs are as long as allowed and no longer; no more than `-P` children; the exit status; xargs ends | all inputs of up to 4 (for some characters 5) characters under 19 settings of `-n`, `-s`, `-x`, `-L`, `-0`, `-E`, `-r`; pools of 2 and 3 with children that end in 6 ways |
| `rcs_file` | Every revision that is there comes out as it went in; under strict locking nobody replaces a head he has not had; a `ci` that ends without an error has lost no working file; head, order, links and locks agree | 2 users, 2 texts, numbers up to 2.2, 3 revisions, 2 locks; any write of the RCS file may fail (`write`) |

Block numbers are taken modulo 2 only together with `Window` = 1: with reordering a
packet of two blocks earlier is indistinguishable from the present one, and TLC
finds the corruption; with 65536 numbers such a packet would have to be overtaken
by 65536 others. With options nothing is repeated, because a repeated OACK
breaks the transfer (see below).

Two tries stand for the five of `CVS_LOCK_TRIES`: one that fails and one that
finds the lock released. Three nodes are enough for a line that is added, changed and
moved next to two others, three entries for a move (two of them) or a change within
what another command of the same global one has done. `ed_undo` identifies states
that differ in `modified` and `changed` only (`VIEW`): no action but the warning of `q`
looks at them. Nodes are interchangeable and used as a symmetry set.

Three edits and three revisions in `cvs_work` are one that is in the repository and
one more of each user: enough for a merge, with and without a conflict, and for a
commit between another's check and lock; three revisions are also a removal and a
resurrection. Four changes in the log of `cvs_entries` are two replaced entries, so that
a crash falls between the halves of the second. In `xargs` a buffer of three octets is
full inside the second argument of an input of four characters; what the bytes of a fresh
buffer are is open (`Anything`), since `strcmp()` reads them. Three revisions in `rcs_file`
are one at either end and one between, the three cases of `rcs_rev_remove()`; the number 2.1
may be given with `-r`. The users and the texts of `rcs_file` and the users of
`cvs_work` are interchangeable. `rcs_file` identifies states that differ in `stopped` only
(`VIEW`): no action and no invariant depends on it, and `NothingLost`, which reads its value after a
step, is checked on every step.

The properties are explained where they are defined. Each of them is also checked
against a variant of the code (`PROJECT.json`, `mutants`) that breaks it: an
unguarded refill, a missing flush, an off-by-one in the file loop, and so on; the
variants stand in the modules next to the operator they vary, marked "Variant".

**Fairness.** `FairSpec` has weak fairness of the client's step and nothing else:
the operating system schedules the process, and `poll()` returns after `rexmtval`
seconds at the latest. Neither the network nor the servers are fair. Termination
then rests on `timeouts` growing with every silent wait and on the bounded number
of packets a behaviour holds; a server that keeps sending packets that do not match
would keep the client waiting, because such packets restart `poll()` without being
counted (`tftp.c` 184-190). `CvsLock` has weak fairness of each process: it is
scheduled, and a process that waits counts its tries, so that `AllExit` needs no
assumption about the others. `Xargs` has weak fairness of xargs and of the utilities
together: without the second, a utility that never ends keeps `waitpid()` waiting.

## What disagrees with the documentation

Two runs are expected to fail (`findings` in `PROJECT.json`).

| Run | What happens |
|---|---|
| `xargs_eof` | `-E`: the argument is compared before it is terminated; after a first run in the same buffer the marker is missed, and it and all that follows is passed to the utility |
| `rcs_number` | with the head at 2.1, `co -r1.2` gives 2.1, which is later than the revision asked for |

Seven configurations stand beside them for those who want to see the rest; TLC finds
the violation in seconds (`tlc -config X.cfg M`).

| Module, configuration | Property | What happens |
|---|---|---|
| `MCTftpSend`, `TftpSend_dup_oack` | `SentIsStored` | a repeated OACK is taken for the ACK of a DATA packet (`tftp.c` 225) |
| `MCTftpSend`, `TftpSend_late_server` | `ServIsValid` | a late answer to the request of one file receives the next file (`tftp.c` 212) |
| `MCTftpRecv`, `TftpRecv_disk_full` | `ReceivedIsFile` | a failed write is not noticed; the file is reported received (`tftpsubs.c` 223) |
| `MCTftpRecv`, `TftpRecv_interrupted` | `OnlyFileWritten` | an interrupted wait writes what the buffer happens to hold (`tftp.c` 400) |
| `MCCvsLock`, `CvsLock_tag` | `LocksStay` | a tag that has unlocked a directory removes, when it exits, the lock that a commit of somebody else has taken there since (`repository.c` 37) |
| `MCCvsFile`, `CvsFile_conflict` | `NeedsCheckoutIsClean` | a file with unresolved conflicts counts as "Needs Checkout", of which `cvs.1` says "the file has not been modified" |
| `MCEdUndo`, `EdUndo_read` | `ChangesNoted` | lines of an interrupted `r` are in the buffer, but `modified` is not set: `q` quits without the error. It holds when every command but `r` may be interrupted (`MayInterrupt = {"other"}`) |

More are found by changing one constant: `TftpSend_safe` with `Convert = TRUE` (in
netascii mode a read error ends the transfer as if the file ended: `SentIsStored`),
`TftpRecv_safe` with `OptBlksize = 3` (a repeated OACK makes a block be written twice:
`FileIsPrefix`), `TftpRecv_safe` with `Files <- TwoFiles` (a late block of one file is written
to the next: `ReceivedIsFile`), `CvsEntries_crash` with `MayTear = TRUE` (a crash between
`rename()` and `unlink()` of `cvs_ent_close()` replays the log over the new `Entries`, and
a file is listed twice: `ListIsOnDisk`) or with `MayFail = TRUE` (a `rename()` that fails ends in
`fatal()`, whose cleanup closes the same, now empty, list again and renames it over `Entries`:
`ListIsOnDisk`), `Rcs_file` with `MayMishap = {"copy"}` (`NothingLost`, after an edit and a
`ci`), and the other mishaps above.

Known, and not modelled or not stated as a property:

* `cvs`: commits that lock the directories in different orders (the order is that of the
  affected files) can all give up, which `SomeoneSucceeds` excludes only because the
  commits of `cvs_lock` lock in one order. A new file whose commit dies after its RCS file
  was created leaves it without a head, and the name is blocked. `fputs()` to
  `Entries.Backup` is not checked, so that a full disk can shorten `Entries`.
* `ed`: `clear_undo_stack()` runs with signals enabled: SIGINT inside it leaves `u_p` at
  -1, or a stack of which a part has been popped.
* `rcs`: `ci` removes the working file before it writes the RCS file, so that the text is
  lost when that fails, though not silently. `rcs_movefile()` "Returns 0 on success, -1 on
  failure" (`rcs.c` 353), but 0 when its copy has failed and it has removed the file (the
  mishap `copy`). `fputs()` and `fclose()` on the new file are not checked, so that a full disk
  can cut it short. Nothing locks the RCS file itself, so that of two commands at once the later one
  wins. `rcs -l` takes no notice of others' locks, though `co.1` says that no other user may
  check out a locked file. `ci -l` by a user with other locks leaves him without a working
  file, because `checkout_rev()` refuses. `co -u` gives the lock up before it asks whether
  the working file may be overwritten.
* `xargs`: `-x` without `-L` runs the utility at every separator (`Lflag <= count` holds with
  `Lflag` 0); a first line that is empty counts for `-L`; an empty quoted argument at the
  end of an input without a newline is dropped, and an open quote there is not reported, when
  the buffer is empty; a NUL without `-0` cuts its argument; children that xargs inherits
  are counted as its own; the early exits with 124 to 127 leave children behind.

## What is proved

`TftpSend_proofs` proves, for any file, any number of ports, any timeouts, any
number of duplications, any window and socket queue:

* `TypeCorrect`: `Spec => []TypeInv`, without further assumption;
* under `FirstTransfer` (no blksize option, a first file of less than
  `BlockMod - 2` blocks, no netascii read errors; any number of files):
  `FirstInvariant`, and from it `FirstIsStored`;
* under `OneTransfer` (the first file is the only one): `SendInvariant`, and from it
  `SentIsStored`, `StoredIsPrefix`, `CountedIsStored` and `RetransmitsTheSame`.

The assumptions are those the violated configurations show to be needed: with options a
repeated OACK breaks `SentIsStored`, with several files a late server breaks it,
with wrapping block numbers reordering does.

None of the properties is inductive. `SendInv` strengthens them with: what every
packet under way contains in terms of the file (`UpOK`), that every ACK under way
is of a block its sender has stored (`DownOK`), how much each instance has stored in
terms of the block it expects (`SrvOK`), what the current and the read-ahead buffer
hold in terms of `amount` (`BufOK`), and that the instance the client talks to has
every block before the current one (`ClientOK`). The step that matters is
`AckEndsTrip`: an ACK with the number of the current block can only come from the
instance the client talks to, and only if that instance has the block. The
invariant is itself checked by TLC in `send_safe`.

Once the first file has been reported, late packets may do to the second what they like:
the instance that has the first one has come to its end (an instance is open only while
what it has is whole blocks, `SrvOK`), and an instance that is closed stores no more. That is all
that `FirstInvariant` keeps of the first transfer (`FirstKept`). TLC checks `FirstIsStored` in
`send_command` with options and wrapping block numbers but without repetition; the theorem is
for no option and any repetition.

`CvsLock_proofs` proves, for any processes, users, directories and programs:

* `TypeCorrect` and `LockHasOwnerAlways`, with no assumption but that of the module.
  The invariant is inductive together with the type invariant: a lock file appears
  with an entry in the worklist of a process of its owner and goes before the entry.
* `CommitLocksStayAlways`, under `OneProcessPerUser` and without superusers: a
  directory that nobody unlocks stays locked by whoever locked it. `open()` has no
  `O_EXCL`; what replaces it is that the lock file, of mode 0755, cannot be opened by
  another user. The strengthening: a process has such a directory on its worklist
  once (`LockedOnce`), and not yet when it is about to open (`OpensFresh`), so that the
  entry and the file go together. Two processes of one user do share locks, and the one that
  ends first removes them, so the assumption is needed.
* `SomeoneSucceedsAlways`, under `OneOrder` and with at least one contender: every contender
  that waits for a directory has fewer before it than when it took any earlier one. Users,
  superusers and what else the programs do are left open. The strengthening is `TurnInv`: of
  every directory that is contended, there is a process that locked it last, which nobody's
  lock there keeps waiting now (`LastIn`). If all contenders had failed, take the one whose
  directory has the fewest after it; who locked that directory last went on and failed in one with
  fewer still.

`TftpSend_proofs` also proves, under `OneTransfer`, `SendImplementsFileTransfer`: the
initial states are initial states of `FileTransfer`, and every step is one of its steps
or leaves the stored octets and the verdict alone.

`TftpRecv_proofs` proves the other direction: `TypeCorrect` without further assumption,
under `FirstTransfer` (no blksize option, less than `BlockMod - 2` blocks, a disk with room
for the files) `FirstInvariant` and `FirstIsReceived`, and under `OneTransfer` (one file only)
`RecvInvariant`, and from it `ReceivedIsFile`, `FileIsPrefix` and
`AckedIsKept`. The network, the servers and the socket may do what they do in the
model, and the user may press ^C at any point. The strengthening: what has been
received, up to `amount`, is the file followed by what `write_behind()` has yet to flush
(`BufOK`), and nothing is pending while recvfile() waits in `poll()`, so that a packet that is
thrown away spoils nothing; a DATA packet under way carries the block its number says
(`DownOK`); no server instance is at a later block than the client awaits, and one the client
does not talk to is at the first (`SrvOK`), so that none can have come to the end; and an
ACK under way is of a block received (`UpOK`). The step that matters is `GotData`: the block
goes behind what is in the other buffer only because that one has been flushed
since. After ^C `recvfile()` writes what the buffer happens to hold, so
`RecvImplementsFileTransfer` assumes `~MayInterrupt`, and `FileIsPrefix` speaks of files
that are not reported interrupted; the configuration `TftpRecv_interrupted` shows why.

`CvsFile_proofs` proves, for any users, numbers of edits and revisions, any number of commands
that die half way and any choice of the mishaps, that `FileInv` is inductive, and from it
`TypeOK`, `InformedCommit`, `BuildsOnHead`, `WorkKept` and the action property `HistoryStays`. The
argument is about what each command goes by. Who is past `CommitLock` holds the lock, and the
RCS file he has seen since is the one that is there, but for its place in the Attic
(`LockOf`, `CommitOf`); what a command without the lock has seen is the file as it was at some
earlier moment, of which the revisions still are a beginning (`SeenOf`); an entry names a
revision that exists, and one about to be put does too (`EntryOf`, `PutOf`); a working file
contains the text of the revision its entry names, or will name (`FileOf`), which is what makes a
merge keep the head; and a file with the time of its entry is that revision, so that replacing it
loses nothing (`KeptOf`).

The proof corrected the model. `BuildsOnHead` used to be stated without an exception, and TLC
found no violation within its bounds. The attempt to prove it failed at `update`, which fetches a
newer file and may die before it has entered it: the entry then names an older revision than
the file is. If the text of that revision comes back later (a removal and an addition), a
merge takes the entry for its base and silently undoes what the head has. With three
users, six revisions and two commands that die, TLC confirms it in 77 steps. This is the
mishap `entry`, which `BuildsOnHead` now excludes by name; `WorkKept` holds in spite of it.

`CvsEntries_proofs` proves, for any names and lines, any length of the log and any number of
commands killed at any point but between `rename()` and the `unlink()` of the log (`~MayTear`),
if no `rename()` fails (`~MayFail`), `EntriesInvariant`, and from it `ListIsOnDisk` and the refinement of `EntriesMap`. Most of
the proof is about `Replay`, the recursive function that reads the log: one more change in the
log is one more change of the list (`ReplayLast`). That is an induction over the log.
The induction theorems of the library take an operator for the claim and cannot be
used; the proof takes the least number for which the claim fails instead (`LeastNat`, from
the theorem that the numbers are well-founded). It builds, for each log, the list of
the lists the changes lead through (`TraceExists`), shows that there is one only
(`TraceUnique`), so that a function exists that does what the equation of `Replay` asks for
(`ReplayStep`), and that its value is the end of the trace (`ReplayIsEnd`). The rest is
that a list without duplicates stands for a map, in which a change of the list is a change
of one name (`LookedAppend`, `LookedWithout`). The cases that are excluded are real ones: in
the first the log is read on top of the `Entries` it has gone into already, in the
second `Entries` is emptied.

`Xargs_proofs` proves, for any options and any input:

* `PoolInvariant` and `PoolIsToldAlways`, for any number of children and any order in which
  they end, with no assumption but that of the module;
* `FitInvariant` and `RunsFitAlways`, and `WordsInvariant` and `WordsInOrderAlways`, for any
  bytes that `malloc()` leaves in the buffer, if there is no NUL in an input that is read
  without `-0` (`TextsWithoutNul`).

That assumption is needed: such a NUL is added to the argument like a letter and cuts it. Those of
the module are what `main()` sees to: `strtonum()` lets `-P` and `-n` be no less than 1, there is
room for a byte or xargs ends with "insufficient space", an end of file is not a
character, and a child exits or is killed by a signal.

In `PoolInv` `curprocs` counts the children that `waitpid()` has not reported (`PoolCounted`), not
those that run, which is the weaker claim the property makes; it is below `-P` whenever a
character is read, because `waitchildren()` blocks otherwise. Whatever the character, the step
forks once, leaves the pool alone or ends xargs (`ReadParses`).

In `FitInv` the buffer holds whole arguments side by side, each terminated just before the next
one begins (`Placed`), then the beginning of one, and always has room for its NUL
(`BufferHolds`). So the argument vector, which is places in the buffer, reads as the texts between
them (`RunIs`), and the bytes of a run are the place after the last. That a run was not cut
short depends on an argument that is not read yet; what is inductive is that the run and what
there is of the first argument of the next one would not have fitted together
(`Crowded`, `FirstLen`), which stays true while the argument grows.

In `WordInv` the words of the input are what the runs got, then what the buffer holds, then
what `Words` makes of the rest of the input from the place that the parser is at, with the
part of a word that lies in the buffer and the quote that is open (`Here`, `WordsAreKept`).
`WordsFrom` is a recursive function on places; `WordsFromIs` shows that its equation has a
solution, by the least length of an input for which it would not. `CharSays` compares the two
parsers character by character: one is added on both sides, ends a word on both, or turns the quote
on both. `OverflowsKeepsWords` is the case the design is about: the buffer is full inside a word,
the words before it are run, and its bytes are moved to the start. `QuoteWasLast` is there for the
one word that may get lost, an empty one in quotes that nothing follows.

The reference parser was written anew for this, as a step from place to place where it had been
three mutually recursive operators, and `Bytes` as a function; the actions are the same.

`Rcs_proofs` proves, for any users and texts, any numbers and any number of revisions:

* `RcsInvariant`, with no assumption but that of the module;
* `NothingLostAlways`, if no copy from another file system fails (`"copy" \notin MayMishap`);
* `TypeOKAlways`, if no locked revision is outdated (`"locked" \notin MayMishap`);
* `InformedCheckInAlways`, if no locked revision is outdated and none locked unseen;
* `RcsImplementsArchive`, if no file without a character is checked in and no number
  that hides an older revision.

Writes that fail may happen in all of them, and `copy` in all but the second. The mishaps that
are assumed away are things the commands do permit or that a system may do: `rcs -o` of a locked
revision leaves a file that `rcs_open()` refuses; an empty head makes `rcs_getrev()` return an
empty text for every revision; 1.5 cannot be got under a head 2.1; of a copy that fails `ci` does not learn. Other mishaps
than the ones a theorem names may happen.

The invariant has two layers. `RcsInv` says that the file is sound: the head is the first
revision, the numbers go down, and each revision names the one after it (`Sound`). That is
enough for `NothingLost`, because the head is stored whole. That old revisions keep their texts
needs `Intact`: there is a history of texts, one for each revision, of which the first is
what the head holds and each other what its patch makes of the one before (`History`), and the
numbers go down in both components, so that no revision seems to be above the head
(`Flat`). The work is in what the operations do to such a file. `rcs_getrev()` is a recursive
function over revisions and texts; `WalkIs` shows that it is one, by the same argument by the least number
as in `CvsEntries_proofs`, and `GetRevGets` that it ends at the revision asked for with the
text of the history. `RevRemoveKeeps` shows that `rcs_rev_remove()` patches the right
neighbour, `LeftIsIntact` that the loop of `rcs -o` may be stopped after any number of removals,
and `RevAddKeeps` that a check-in does no harm, because the patch of the old head leads from the new
text to the old one. `StepIs` then sorts the commands by what they do to file, working
files and users (`Tended`, `CheckedIn`, `Worked`, `Relocks`, `Outdated`; `Spoilt` is a `ci` whose write
fails, `Vanished` a copy that does), and each theorem looks at these cases. `OutcomesAre` and
`WrittenIs` say what there is after `rcs_write()`: the file as it was, the new one, or none, which is
as sound as the file that `rcs -i` makes (`NoFileIntact`). For `InformedCheckIn` the strengthening is that whoever holds a lock has
had the revision it is on (`LocksSeen`). TLC has checked `RcsInv`, `Intact` and
`LocksSeen` on the instance of `rcs_file`.

Two definitions were changed so that they could be reasoned about. `GetRev` and
`NewRev` had a `CASE` whose guards overlapped, which TLA+ leaves open and TLC decides by the
order; they are `IF`s now, in the order of the code. The loop of `rcs -o` is a
function of how many revisions it has passed (`Left`).

`EdUndo_proofs` proves, for any nodes, any file at the start, any bound on the stack, pushes
that fail or not and SIGINT between any two sections, with no assumption but those of the
modules: `UndoInvariant`, and from it `RingSoundAlways`, `UndoSoundAlways`,
`AccountedAlways` and `UndoImplementsLines`, which says of every step that it is one of
`EdLines` and of every `u` that it is the `Undo` there. Those assumptions are that there are finitely many
nodes, that the head of the ring is not one of them, that the stack has room for an entry
and that `Nothing` is not a text.

None of the properties is inductive: each speaks of what popping the whole stack would give, and
an entry is a pair of pointers, whose meaning is in links that other entries have changed
since. `Inv` (with `Kept` and `Past`) says what the stack means instead:

* There is a history `hist` of rings, one before the first entry and one after each, from the
  lines that were noted (`Noted`) to those of the buffer. Each entry leads from one
  to the next: it inserts a segment, takes one out (`Changed`), or, for `m`, is one of two
  that do both (`Moved`, `Pairs`). A line that leaves never comes back (`Course`, `Fresh`): a
  new line is a new node while the old one is on the stack.
* The nodes an entry has taken out still point at each other and at their neighbours of
  that time (`Loose`, `Dangling`). This is what `pop_undo_stack()` relies on when it links
  them in again and `clear_undo_stack()` when it walks from `h` to `t`.
* An entry of no lines, whose `h` is the head, is what the `delete_lines()` of `e` pushes on an
  empty buffer. It is on the stack only until that `e` clears it or, if `e` is
  interrupted, the next command does (`Headless`, `Between`, `NoLines`).
* What is left of the command fits the buffer: its addresses are there, and the entry that
  the next line extends ends at the current line (`Ready`, `Continues`). The list of a global
  command has lines of the ring only (`Listed`).

`Undone` on one entry goes one step back in `hist`; `UndoneAllIs` puts these steps together,
`HistoryReversed` shows that the stack with its entries turned over is such a history the other way
round, which is why `u` is its own inverse. `RingSize`, `SpanIs` and `FreedIs`
say what the loops along `q_forw` visit. These operators (`Along`, `Only`, `UndoneAll`, `Turn`)
are recursive functions, which `Recursion` shows to satisfy their equations, by the least
number as above. TLC does not evaluate `Inv`, which says that there is a history; its
consequences are the invariants of `ed_undo`.

For these proofs the loops of `EdBuffer` became recursive functions, `MaxUndo` must
be at least 1, and `Nothing` must not be a text; the actions are the same.

Only model-checked: the second and later transfers by one command, but for what they leave of the
first; and liveness (ENABLED and fairness are out of the prover's reach).

## Not modelled

Of `tftp`: the netascii conversion, the `tsize` and `timeout` options, the command
parser. Of the locks of `cvs`: `-n` and read-only repositories (no locks are taken) and
SIGKILL (locks are left behind). Of `cvs` otherwise: sticky tags and dates, branches,
`-j`, keyword options, directories, triggers, the client and the server, import, and
every command that only reads. Of `rcs`: branches, `rcsmerge`, `rcsdiff`, `rlog`, `ident`,
keyword expansion (the text that comes out of a `co` counts as the one that went in), an RCS
file that is cut short, a working file that `co` fails to write, dates,
states, authors, access lists, symbols but for the failure of `ci -n`, file modes, two commands
at once. Of `xargs`: `-I`, `-J`, `-R`. Of `ed`: the text of lines, the scratch file,
regular expressions, marks, printing, and the current address that `;` sets within an
address, which counts as the one before the command.

Of the repository: the translators (`lex`, `yacc`, `m4`, `bc`, `awk`, `sed`, ...) and the text
algorithms (`diff`, `patch`, `compress`, ...), which make up most of its lines, are
sequential programs from an input to an output. Their state is the data, and what a bounded
model could say of them is what their regression tests say with more inputs. The same
holds of the file system walkers (`pax`, `cp`, `find`, ...), which make one system call after
the other, and of the filters of one loop. The notes of the components in
`PROJECT.json` have the reason for each.

## Plan

Done: `tftp` (wire, buffers, send, receive, abstract transfer) with proofs for the first
transfer of a command in either direction; the locks of `cvs` with proofs; one file of `cvs` with proofs; the entries of
a working directory with proofs; `xargs` with proofs; `rcs`
with proofs; the buffer and undo stack of `ed` with proofs.

Every safety property and every refinement that a passing run checks has a theorem, for `tftp`
as far as "What is proved" says.
