------------------------------ MODULE MCXargs ------------------------------
(* Inputs and options for model checking Xargs.                            *)
EXTENDS Xargs

CONSTANT MaxLen

Plain == [nargs |-> 2, nline |-> 6, x |-> FALSE, L |-> 0, zero |-> FALSE,
          eof |-> << >>, runeof |-> TRUE, maxprocs |-> 1, ask |-> FALSE]

(* All short texts, under every limit that a short text can meet.          *)
TextChars == {"a", Blank, Newline, "'", "\"", Backslash}

TextOptions ==
    { [Plain EXCEPT !.nargs = n, !.nline = size] : n \in {1, 2, 3}, size \in {2, 3, 4} }
    \cup { [Plain EXCEPT !.L = lines, !.nline = 3] : lines \in {1, 2} }
    \cup { [Plain EXCEPT !.x = TRUE, !.nline = 3],
           [Plain EXCEPT !.runeof = FALSE] }

ZeroOptions ==
    { [Plain EXCEPT !.zero = TRUE, !.nline = size, !.L = lines] :
        size \in {2, 3}, lines \in {0, 2} }

(* One argument for each run, so that the runs are many.                   *)
PoolOptions ==
    { [Plain EXCEPT !.nargs = 1, !.maxprocs = n, !.ask = a] : n \in {2, 3}, a \in BOOLEAN }

EofOptions ==
    { [Plain EXCEPT !.nargs = n, !.eof = << "b" >>] : n \in {1, 2} }

Shorts(chars) == BoundedSeq(chars, MaxLen)

AllCases ==
    (TextOptions \X Shorts(TextChars))
    \cup (TextOptions \X BoundedSeq({"a", Blank, "'"}, MaxLen + 1))
    \cup (ZeroOptions \X Shorts({"a", Nul}))
    \cup (ZeroOptions \X BoundedSeq({"a", Blank, Newline, "'", Backslash, Nul}, MaxLen - 1))
    \cup (PoolOptions \X { << "a", Blank, "b", Blank, "a", Blank, "b" >> })
    \cup (EofOptions \X Shorts({"a", "b", Newline}))

Zeroed == {Nul}
Anything == {Nul, Junk}

EofCases == EofOptions \X Shorts({"a", "b", Newline})
=============================================================================
