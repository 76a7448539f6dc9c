------------------------------ MODULE EmptyQuery ------------------------------
(***************************************************************************)
(* is_empty_query: does a query consist of blanks, semicolons and comments *)
(* only, so that pywire answers it without Python?  The scanner is a step  *)
(* per character or pair it consumes; the reference below says when a text *)
(* is empty without scanning it.                                           *)
(***************************************************************************)
EXTENDS Integers, Sequences, SequencesExt, FiniteSetsExt

CONSTANTS
    MaxLength,    \* bound on the length of a query
    MaxComment    \* bound on the length of one of "/" and "*" alone

ASSUME LengthAssumption == MaxLength \in Nat /\ MaxComment \in Nat

\* "n" ends a line; " " is every other blank and the semicolon.  Outside a
\* comment "*" is as good as any other character, and so is " " inside one.
Chars == {" ", "n", "-", "/", "*"}
Texts == BoundedSeq(Chars, MaxLength) \cup BoundedSeq({"/", "*"}, MaxComment)

VARIABLES
    sql,      \* the query
    at,       \* the position of the next character
    mode,     \* between tokens, in a line comment, in a block comment, done
    depth,    \* of nested block comments
    answer    \* the result, once done

vars == <<sql, at, mode, depth, answer>>

Init ==
    /\ sql \in Texts
    /\ at = 1 /\ mode = "text" /\ depth = 0 /\ answer = FALSE

-----------------------------------------------------------------------------
(* The scanner *)

More == at <= Len(sql)
Pair(a, b) == at < Len(sql) /\ sql[at] = a /\ sql[at + 1] = b
Blank(c) == c \in {" ", "n"}

Go(n, m, d) == at' = at + n /\ mode' = m /\ depth' = d /\ UNCHANGED <<sql, answer>>
Return(result) == mode' = "done" /\ answer' = result /\ UNCHANGED <<sql, at, depth>>

Text ==
    /\ mode = "text"
    /\ CASE ~More -> Return(TRUE)
         [] More /\ Blank(sql[at]) -> Go(1, "text", 0)
         [] Pair("-", "-") -> Go(2, "line", 0)
         [] Pair("/", "*") -> Go(2, "block", 1)
         [] OTHER -> Return(FALSE)

Line ==
    /\ mode = "line"
    /\ CASE ~More -> Go(0, "text", 0)
         [] More /\ sql[at] = "n" -> Go(1, "text", 0)
         [] OTHER -> Go(1, "line", 0)

\* (The mutant does not nest comments.)
BlockFlat ==
    /\ mode = "block"
    /\ CASE ~More -> Return(FALSE)
         [] Pair("*", "/") -> Go(2, "text", 0)
         [] OTHER -> Go(1, "block", depth)
Block ==
    /\ mode = "block"
    /\ CASE ~More -> Return(FALSE)
         [] Pair("/", "*") -> Go(2, "block", depth + 1)
         [] Pair("*", "/") -> IF depth = 1 THEN Go(2, "text", 0) ELSE Go(2, "block", depth - 1)
         [] OTHER -> Go(1, "block", depth)

Done == mode = "done" /\ UNCHANGED vars

Next == Text \/ Line \/ Block \/ Done

Spec == Init /\ [][Next]_vars

-----------------------------------------------------------------------------
(* The reference *)

\* Where "/*" stands, and where "*/" does.
OpenAt(t, i) == i < Len(t) /\ t[i] = "/" /\ t[i + 1] = "*"
CloseAt(t, i) == i < Len(t) /\ t[i] = "*" /\ t[i + 1] = "/"
Mark(t, i) == OpenAt(t, i) \/ CloseAt(t, i)

\* The marks in a block comment that opens at from: where a comment opens or
\* closes, taken from left to right without overlap.
Taken(t, from) ==
    LET taken[i \in (from - 1)..Len(t)] == i >= from /\ Mark(t, i) /\ ~taken[i - 1] IN taken
Opens(t, from) == {i \in from..Len(t) : Taken(t, from)[i] /\ OpenAt(t, i)}
Closes(t, from) == {i \in from..Len(t) : Taken(t, from)[i] /\ CloseAt(t, i)}

\* Where the comment that opens at from ends: at the first close by which as
\* many comments have closed as opened.
LeftOf(S, i) == Cardinality({x \in S : x < i})
Balanced(t, from, c) == LeftOf(Opens(t, from), c) = LeftOf(Closes(t, from), c + 1)
Ends(t, from) == {c + 2 : c \in {c \in Closes(t, from) : Balanced(t, from, c)}}

\* A text is empty from i on if nothing follows, or something empty follows a
\* blank, a line comment or a closed block comment.
LineEnds(t, i) == {k \in (i + 2)..Len(t) : t[k] = "n"}
EmptyAt(t, empty, i) ==
    \/ i = Len(t) + 1
    \/ i <= Len(t) /\ Blank(t[i]) /\ empty[i + 1]
    \/ /\ i < Len(t) /\ t[i] = "-" /\ t[i + 1] = "-"
       /\ LineEnds(t, i) = {} \/ empty[Min(LineEnds(t, i)) + 1]
    \/ OpenAt(t, i) /\ Ends(t, i) # {} /\ empty[Min(Ends(t, i))]
EmptyFrom(t) == LET empty[i \in 1..(Len(t) + 1)] == EmptyAt(t, empty, i) IN empty
IsEmpty(t) == EmptyFrom(t)[1]

-----------------------------------------------------------------------------
(* Properties *)

\* is_empty_query answers as the reference does, for comments nested, open at
\* the end, and sharing characters ("/*/", "*/*") alike.
AnswersReference == mode = "done" => answer = IsEmpty(sql)

=============================================================================
