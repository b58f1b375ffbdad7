-------------------------------- MODULE Text --------------------------------
(***************************************************************************)
(* The string helpers of common/util.cpp.  A text is a sequence of         *)
(* symbols: words that are never cut, digits, blanks and punctuation.      *)
(***************************************************************************)
EXTENDS Integers, Sequences, SequencesExt, FiniteSetsExt, TLC

Blanks == {" ", "\t", "\r", "\n"}

\* The elements of a sequence that are in a set, in their order.  (A fold, for
\* unlike SelectSeq it has a definition that proofs can expand.)
Only(s, kept) == FoldLeft(LAMBDA some, x : IF x \in kept THEN Append(some, x) ELSE some, <<>>, s)

\* trim takes out every character of chars, wherever it is.
Trim(text, chars) == Only(text, Range(text) \ chars)

\* trim_head_tail takes them off both ends, except from a text that holds
\* nothing else.
TrimHeadTail(text, chars) ==
    LET kept == {i \in DOMAIN text : text[i] \notin chars}
    IN IF kept = {} THEN text ELSE SubSeq(text, Min(kept), Max(kept))

\* The pieces between the separators, the empty ones included.
Pieces(src, tok) ==
    FoldLeft(LAMBDA v, c : IF c \in tok THEN Append(v, <<>>)
                           ELSE [v EXCEPT ![Len(v)] = Append(@, c)],
             << <<>> >>, src)

\* parse_string as its callers use it, with trim: any character of tok
\* separates, and empty pieces are dropped.
ParseString(src, tok) ==
    LET pieces == Pieces(src, tok) IN Only(pieces, Range(pieces) \ {<<>>})

\* The number the digits at the head of a text stand for.
IsDigit(c) == \E d \in 0 .. 9 : ToString(d) = c
Digit(c) == CHOOSE d \in 0 .. 9 : ToString(d) = c
LeadingDigits(text) == SubSeq(text, 1, Min({i \in 0 .. Len(text) :
                            i = Len(text) \/ ~ IsDigit(text[i + 1])}))
Atoi(text) == FoldLeft(LAMBDA n, c : 10 * n + Digit(c), 0, LeadingDigits(text))

\* What >> of a stringstream finds in a text, before it is cut to the type; and
\* the cut to a signed one: a number beyond it becomes its first or last.
Extracted(text) == IF Head(text) = "-" THEN -Atoi(Tail(text)) ELSE Atoi(text)
Cut(number, last) == Max({-(last + 1), Min({number, last})})
=============================================================================
