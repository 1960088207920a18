------------------------------- MODULE Xargs -------------------------------
(***************************************************************************)
(* xargs: the standard input is cut into arguments, which are collected in *)
(* one buffer; as soon as the buffer or the argument vector is full, or    *)
(* enough lines are read, the utility is run with them.  As many as -P of  *)
(* the utilities run at once.                                              *)
(*                                                                         *)
(* parse_input() takes one character.  It and the run() it may end in are  *)
(* one step up to the fork: nothing but waitchildren() depends on what the *)
(* children do.  -I and -J hand over the same arguments in other places of *)
(* the command line and are left out.                                      *)
(***************************************************************************)
EXTENDS Integers, SequencesExt

CONSTANTS
    Cases,      \* the possible options and standard inputs, without NUL for texts
    Ends,       \* how the utility may end
    Fresh       \* what the bytes of a new buffer may be

Nul == "\\0"   Blank == " "   Newline == "\n"   Backslash == "\\"
Quotes == {"'", "\""}
None == "none"
EOF == "eof"
Junk == "junk"  \* any byte that malloc() may leave

(* -P and -n take no less than one, and the buffer has room for a byte; an *)
(* end of file is not a character; a child exits or is killed.             *)
ASSUME XargsAssumption ==
    /\ \A c \in Cases :
          /\ c[1].maxprocs \in Nat \ {0} /\ c[1].nargs \in Nat \ {0}
          /\ c[1].nline \in Nat \ {0} /\ c[1].zero \in BOOLEAN
          /\ c[2] \in Seq(STRING) /\ EOF \notin ToSet(c[2])
    /\ Ends \subseteq {"zero", "other", "126", "127", "255", "signal"}

VARIABLES
    opt,        \* the options: nargs, nline, x, L, zero, eof, runeof, maxprocs, ask
    input,      \* the whole of the standard input
    rest,       \* what getchar() has not read
    buf,        \* the bytes from bbp on
    p, argp,    \* the end of the buffered bytes, the start of the argument
    args,       \* av from bxp to xp, as places in buf
    quote,      \* the quote that is open: insingle, indouble
    wasquoted, hadblank, count,
    runs,       \* the arguments of every run so far
    child,      \* how each forked child ended, "running" before
    reaped,     \* those waitpid() has reported
    curprocs, rval,
    pc,         \* "read", "wait", "drain", "exited"
    code        \* the exit status

parser == << rest, buf, p, argp, args, quote, wasquoted, hadblank, count >>
pool == << child, reaped, curprocs, rval >>
vars == << opt, input, parser, runs, pool, pc, code >>

xflag == opt.x \/ opt.L > 0
Ebp == opt.nline - 1
Statuses == [ s \in {"126", "127", "255", "signal"} |->
                CASE s = "126" -> 126 [] s = "127" -> 127
                  [] s = "255" -> 124 [] s = "signal" -> 125 ]

-----------------------------------------------------------------------------
(* The buffer                                                              *)

CString(b, at) ==
    LET end == CHOOSE i \in at..opt.nline :
                   b[i] = Nul /\ \A j \in at..(i - 1) : b[j] # Nul
    IN  [ i \in 1..(end - at) |-> b[at + i - 1] ]

(* strcmp(argp, eofstr) == 0: the argument is not terminated yet.          *)
FoundEof ==
    /\ opt.eof # << >>
    /\ argp + Len(opt.eof) <= opt.nline
    /\ \A i \in 1..Len(opt.eof) : buf[argp + i - 1] = opt.eof[i]
    /\ buf[argp + Len(opt.eof)] = Nul

-----------------------------------------------------------------------------
(* Running the utility                                                     *)

Exit(status) == pc' = "exited" /\ code' = status

Fail == Exit(1) /\ UNCHANGED << parser, runs, pool >>

Argv(b, where) == [ i \in DOMAIN where |-> CString(b, where[i]) ]

(* prerun() and run(), as far as the fork, which may fail; the user may    *)
(* say no to -p.                                                           *)
Run(b, where, last) ==
    /\ runs' = Append(runs, Argv(b, where))
    /\ \/ /\ child' = Append(child, "running") /\ curprocs' = curprocs + 1
          /\ pc' = IF last THEN "drain" ELSE "wait"
          /\ UNCHANGED code
       \/ /\ opt.ask /\ pc' = IF last THEN "drain" ELSE "read"
          /\ UNCHANGED << child, curprocs, code >>
       \/ Exit(1) /\ UNCHANGED << child, curprocs >>
    /\ UNCHANGED << reaped, rval >>

(* Variant: waitpid() never blocks before the input ends.                  *)
MayHangAlways == pc = "drain"

(* waitpid() blocks when the pool is full, and at the end.                 *)
MayHang == pc = "drain" \/ curprocs >= opt.maxprocs

Children == DOMAIN child \ reaped

(* waitchildren(): one child is reported ...                               *)
Reap(i) ==
    /\ pc \in {"wait", "drain"}
    /\ i \in Children /\ child[i] # "running"
    /\ reaped' = reaped \cup {i} /\ curprocs' = curprocs - 1
    /\ IF child[i] \in DOMAIN Statuses
       THEN Exit(Statuses[child[i]]) /\ UNCHANGED rval
       ELSE /\ rval' = IF child[i] = "zero" THEN rval ELSE 123
            /\ UNCHANGED << pc, code >>
    /\ UNCHANGED << opt, input, parser, runs, child >>

(* Variant: without a child, waitpid() is tried again.                     *)
NoMoreAgain ==
    /\ pc \in {"wait", "drain"} /\ Children # {}
    /\ \A i \in Children : ~ MayHang /\ child[i] = "running"
    /\ IF pc = "wait" THEN pc' = "read" /\ UNCHANGED code ELSE Exit(rval)
    /\ UNCHANGED << opt, input, parser, runs, pool >>

(* ... or none has ended, or there is none.                                *)
NoMore ==
    /\ pc \in {"wait", "drain"}
    /\ \A i \in Children : ~ MayHang /\ child[i] = "running"
    /\ IF pc = "wait" THEN pc' = "read" /\ UNCHANGED code ELSE Exit(rval)
    /\ UNCHANGED << opt, input, parser, runs, pool >>

ChildEnds(i, s) ==
    /\ child[i] = "running"
    /\ child' = [child EXCEPT ![i] = s]
    /\ UNCHANGED << opt, input, parser, runs, reaped, curprocs, rval, pc, code >>

-----------------------------------------------------------------------------
(* parse_input()                                                           *)

(* addch, for a character that leaves the given input.                     *)
Fits(c) ==
    /\ p < Ebp
    /\ buf' = [buf EXCEPT ![p] = c] /\ p' = p + 1
    /\ UNCHANGED << argp, args, quote, wasquoted, count, runs, pool, pc, code >>

(* Variant: the bytes of the unfinished argument are not moved.            *)
OverflowsLost(c) ==
    /\ p >= Ebp /\ args # << >> /\ ~ xflag
    /\ Run(buf, args, FALSE)
    /\ buf' = [buf EXCEPT ![0] = c] /\ p' = 1
    /\ argp' = 0 /\ args' = << >>
    /\ UNCHANGED << quote, wasquoted, count >>

Overflows(c) ==
    /\ p >= Ebp /\ args # << >> /\ ~ xflag
    /\ Run(buf, args, FALSE)
    /\ LET cnt == Ebp - argp
       IN  /\ buf' = [ i \in 0..opt.nline |->
                          IF i < cnt THEN buf[argp + i]
                          ELSE IF i = cnt THEN c ELSE buf[i] ]
           /\ p' = cnt + 1
    /\ argp' = 0 /\ args' = << >>
    /\ UNCHANGED << quote, wasquoted, count >>

AddCh(c, left, hasblank) ==
    \/ (Fits(c) \/ Overflows(c)) /\ rest' = left /\ hadblank' = hasblank
    \/ p >= Ebp /\ (args = << >> \/ xflag) /\ Fail

(* Variant: one argument more than -n.                                     *)
IsFullOfArgs(n, end, c, lines, foundeof) ==
    n = opt.nargs + 1 \/ end > Ebp \/ c = EOF \/ (xflag /\ opt.L <= lines) \/ foundeof

(* arg2: the end of an argument, or of nothing.                            *)
IsFull(n, end, c, lines, foundeof) ==
    n = opt.nargs \/ end > Ebp \/ c = EOF \/ (xflag /\ opt.L <= lines) \/ foundeof

EndArg(c, lines, hasblank) ==
    LET foundeof == FoundEof
        isarg == (argp # p \/ wasquoted) /\ ~ foundeof
        b == IF isarg THEN [buf EXCEPT ![p] = Nul] ELSE buf
        end == IF isarg THEN p + 1 ELSE p
        where == IF isarg THEN Append(args, argp) ELSE args
        full == IsFull(Len(where), end, c, lines, foundeof)
        toobig == xflag /\ Len(where) # opt.nargs /\ end > Ebp
    IN  \/ full /\ toobig /\ Fail
        \/ /\ full /\ ~ toobig
           /\ Run(b, where, c = EOF \/ foundeof)
           /\ p' = 0 /\ argp' = 0 /\ args' = << >> /\ count' = 0
           /\ buf' = b /\ wasquoted' = FALSE
           /\ rest' = IF c = EOF THEN rest ELSE Tail(rest)
           /\ hadblank' = hasblank /\ UNCHANGED quote
        \/ /\ ~ full
           /\ p' = end /\ argp' = end /\ args' = where /\ count' = lines
           /\ buf' = b /\ wasquoted' = FALSE
           /\ rest' = Tail(rest) /\ hadblank' = hasblank
           /\ UNCHANGED << quote, runs, pool, pc, code >>

Next1 == IF rest = << >> THEN EOF ELSE Head(rest)
Left == Tail(rest)
Reading == pc = "read" /\ UNCHANGED << opt, input >>

ReadBlank ==
    /\ Reading /\ Next1 = Blank
    /\ IF quote # None THEN AddCh(Blank, Left, FALSE)
       ELSE IF opt.zero THEN AddCh(Blank, Left, TRUE)
       ELSE EndArg(Blank, count, TRUE)

ReadNewline ==
    /\ Reading /\ Next1 = Newline
    /\ IF opt.zero THEN AddCh(Newline, Left, FALSE)
       ELSE IF quote # None THEN Fail
       ELSE EndArg(Newline, IF hadblank THEN count ELSE count + 1, TRUE)

ReadNul ==
    /\ Reading /\ Next1 = Nul
    /\ IF opt.zero THEN EndArg(Nul, count + 1, FALSE) ELSE AddCh(Nul, Left, FALSE)

ReadQuote ==
    /\ Reading /\ Next1 \in Quotes
    /\ IF opt.zero \/ quote \notin {None, Next1}
       THEN AddCh(Next1, Left, FALSE)
       ELSE /\ quote' = IF quote = None THEN Next1 ELSE None
            /\ wasquoted' = TRUE /\ hadblank' = FALSE /\ rest' = Left
            /\ UNCHANGED << buf, p, argp, args, count, runs, pool, pc, code >>

ReadBackslash ==
    /\ Reading /\ Next1 = Backslash
    /\ IF opt.zero \/ quote # None THEN AddCh(Backslash, Left, FALSE)
       ELSE IF Left = << >> THEN Fail
       ELSE AddCh(Head(Left), Tail(Left), FALSE)

ReadLetter ==
    /\ Reading
    /\ Next1 \notin Quotes \cup {Blank, Newline, Nul, Backslash, EOF}
    /\ AddCh(Next1, Left, FALSE)

(* The end of the input; with nothing in the buffer, even an open quote or *)
(* an empty argument is forgotten.                                         *)
ReadEOF ==
    /\ Reading /\ Next1 = EOF
    /\ IF p # 0
       THEN IF quote # None THEN Fail ELSE EndArg(EOF, count, FALSE)
       ELSE /\ IF opt.runeof /\ runs = << >> THEN Run(buf, args, TRUE)
               ELSE pc' = "drain" /\ UNCHANGED << runs, pool, code >>
            /\ UNCHANGED parser

-----------------------------------------------------------------------------
Init ==
    /\ \E c \in Cases : opt = c[1] /\ input = c[2]
    /\ rest = input
    /\ \E byte \in Fresh : buf = [ i \in 0..opt.nline |-> byte ]
    /\ p = 0 /\ argp = 0 /\ args = << >>
    /\ quote = None /\ wasquoted = FALSE /\ hadblank = FALSE /\ count = 0
    /\ runs = << >> /\ child = << >> /\ reaped = {} /\ curprocs = 0
    /\ rval = 0 /\ pc = "read" /\ code = 0

Waitchildren == NoMore \/ \E i \in DOMAIN child : Reap(i)

Xargs ==
    \/ ReadBlank \/ ReadNewline \/ ReadNul \/ ReadQuote \/ ReadBackslash
    \/ ReadLetter \/ ReadEOF \/ Waitchildren

Utility == \E i \in DOMAIN child, s \in Ends : ChildEnds(i, s)

Next == Xargs \/ Utility

Spec == Init /\ [][Next]_vars

(* The utility ends, and xargs is scheduled.                               *)
FairSpec == Spec /\ WF_vars(Xargs) /\ WF_vars(Utility)

-----------------------------------------------------------------------------
(* The words of an input, as xargs.1 tells them                            *)

Inputs == { c[2] : c \in Cases }
Char == UNION { ToSet(i) : i \in Inputs }

(* Of an input, this is left; so much of a word is read, in an open quote  *)
(* or not; with -0 only a NUL is special.                                  *)
Places == [zero : BOOLEAN, left : Seq(Char), word : Seq(Char),
           open : Quotes \cup {None}, begun : BOOLEAN]

Start(s, zero) ==
    [zero |-> zero, left |-> s, word |-> << >>, open |-> None, begun |-> FALSE]

Ended(x) == IF x.begun THEN << x.word >> ELSE << >>

Separates(x) ==
    IF x.zero THEN Head(x.left) = Nul
    ELSE x.open = None /\ Head(x.left) \in {Blank, Newline}

(* A newline in quotes, and a backslash before nothing.                    *)
Wrong(x) ==
    /\ ~ x.zero
    /\ \/ x.open # None /\ Head(x.left) = Newline
       \/ x.open = None /\ Head(x.left) = Backslash /\ Tail(x.left) = << >>

Adds(x, c, left) ==
    [x EXCEPT !.left = left, !.word = Append(@, c), !.begun = TRUE]

(* A text after its first character; a backslash takes one more with it.   *)
Unquoted(x) ==
    LET c == Head(x.left)
        t == Tail(x.left)
    IN  IF c \in Quotes THEN [x EXCEPT !.left = t, !.open = c, !.begun = TRUE]
        ELSE IF c = Backslash THEN Adds(x, Head(t), Tail(t))
        ELSE Adds(x, c, t)

Quoted(x) ==
    IF Head(x.left) = x.open
    THEN [x EXCEPT !.left = Tail(@), !.open = None, !.begun = TRUE]
    ELSE Adds(x, Head(x.left), Tail(x.left))

Onward(x) ==
    IF Separates(x) THEN [x EXCEPT !.left = Tail(@), !.word = << >>, !.begun = FALSE]
    ELSE IF x.zero THEN Adds(x, Head(x.left), Tail(x.left))
    ELSE IF x.open = None THEN Unquoted(x)
    ELSE Quoted(x)

WordsFrom[x \in Places] ==
    IF x.left = << >> THEN Ended(x)
    ELSE IF Wrong(x) THEN << >>
    ELSE IF Separates(x) THEN Ended(x) \o WordsFrom[Onward(x)]
    ELSE WordsFrom[Onward(x)]

WordsOf == [ c \in Inputs \X BOOLEAN |-> WordsFrom[Start(c[1], c[2])] ]

Words == WordsOf[<< input, opt.zero >>]
Used == FlattenSeq(runs)
ExitsWell == pc = "exited" /\ code \in {0, 123}

-----------------------------------------------------------------------------
(* Properties                                                              *)

(* The runs together get the words of the input, each once, in its order   *)
(* and whole, wherever the buffer and the vector were full; and xargs does *)
(* not end well before all are used.  Two words may be left: an empty one  *)
(* in quotes that ends an input without a newline, and what follows -E.    *)
WordsInOrder ==
    /\ IsPrefix(Used, Words)
    /\ ExitsWell /\ opt.eof = << >> =>
          \/ Used = Words
          \/ Used = Front(Words) /\ Last(Words) = << >> /\ Last(input) \in Quotes

(* No run has more arguments or bytes than allowed, and without -x and -L  *)
(* one that is not the last is as long as it can be: the argument after it *)
(* would not have fitted.                                                  *)
Bytes(run) ==
    LET sum[i \in 0..Len(run)] == IF i = 0 THEN 0 ELSE sum[i - 1] + Len(run[i]) + 1
    IN  sum[Len(run)]

RunsFit ==
    \A i \in DOMAIN runs :
        /\ Len(runs[i]) <= opt.nargs /\ Bytes(runs[i]) <= opt.nline
        /\ i < Len(runs) /\ ~ xflag /\ runs[i + 1] # << >> =>
              \/ Len(runs[i]) = opt.nargs
              \/ Bytes(runs[i]) + Len(runs[i + 1][1]) + 1 > opt.nline

(* No more than -P utilities run at once; the exit status 0 says that each *)
(* ended with 0, 123 that each ended and one of them not with 0, and any   *)
(* other but 1 that one ended as this status tells.                        *)
PoolIsTold ==
    /\ Cardinality({ i \in DOMAIN child : child[i] = "running" }) <= opt.maxprocs
    /\ ExitsWell =>
          /\ reaped = DOMAIN child
          /\ ToSet(child) \subseteq {"zero", "other"}
          /\ code = 0 <=> "other" \notin ToSet(child)
    /\ pc = "exited" /\ code > 123 =>
          \E s \in DOMAIN Statuses \cap ToSet(child) : Statuses[s] = code

(* xargs ends, however full the pool is and whatever its children do.      *)
Terminates == <>(pc = "exited")

(* xargs.1: eofstr is a logical EOF marker.                                *)
EofEnds ==
    \A i \in DOMAIN Words :
        ExitsWell /\ Words[i] = opt.eof /\ opt.eof \notin ToSet(SubSeq(Words, 1, i - 1))
            => Used = SubSeq(Words, 1, i - 1)
=============================================================================
