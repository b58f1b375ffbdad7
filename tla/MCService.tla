----------------------------- MODULE MCService -----------------------------
(***************************************************************************)
(* Instances of Service for TLC: a table with an INT and a STRING index    *)
(* whose input file shrinks and grows from one version to the next.        *)
(***************************************************************************)
EXTENDS Service

\* The second is another writing of the first as a number, and the first a
\* prefix of the third as a string, the largest int of five bits; a negative
\* number that wraps around to the first, and one that is too large for an int.
A == <<"1">>
OA == <<"0", "1">>
AB == <<"1", "5">>
Minus == <<"-", "3", "1">>
Large == <<"2", "0">>
MCTexts == {A, OA, AB, Minus, Large}
MCSymbols == {"-", "0", "1", "2", "3", "5"}

Row(i, s, d) == [id |-> i, name |-> s, dept |-> d]

MCFields == {"id", "name", "dept"}
MCIndexSeq == <<"id", "name">>
MCFaultSets == {{"crash", "open"}, {"crash", "rename"}, {"open", "disk"}}
MCTables ==
    << << Row(A, A, A), Row(AB, A, AB), Row(OA, AB, AB), Row(A, A, A) >>,
       << Row(Minus, AB, A), Row(Large, AB, AB) >>,
       << Row(OA, A, AB), Row(Large, OA, A), Row(Minus, AB, A) >> >>
=============================================================================
