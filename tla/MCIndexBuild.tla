---------------------------- MODULE MCIndexBuild ----------------------------
(***************************************************************************)
(* Instances of IndexBuild for TLC: schema files in several writings, and  *)
(* small input directories.                                                *)
(***************************************************************************)
EXTENDS IndexBuild

-----------------------------------------------------------------------------
(* Schemes and ways to write them *)

Named(name, type, length, index, is_index) ==
    [strName |-> <<name>>, type |-> <<type>>, max_length |-> length, index |-> index,
     is_index |-> is_index]

\* An int and a string that are indexed, and a string that is not.
Wide == [sep |-> {"|"}, vFields |-> <<
    Named("id", "int", DefaultLength, 0, TRUE), Named("name", "string", 2, 1, TRUE),
    Named("desc", "string", 2, 2, FALSE)>>]

\* One index, a string of the default length, another separator.
Narrow == [sep |-> {";"}, vFields |-> <<
    Named("name", "string", DefaultLength, 0, TRUE),
    Named("cost", "float", DefaultLength, 1, FALSE)>>]

\* Its strings have different lengths.
Uneven == [Wide EXCEPT !.vFields[2].max_length = DefaultLength]

\* Its only index is not its first field; and one without an index.
Trailing == [Wide EXCEPT !.vFields[1].is_index = FALSE]
Plain == [Narrow EXCEPT !.vFields[1].is_index = FALSE, !.sep = {"|"}]

Joined(texts, separator) ==
    FoldLeft(LAMBDA all, text : IF all = <<>> THEN text ELSE all \o <<separator>> \o text,
             <<>>, texts)

Written(field) ==
    field.strName \o <<",", " ">> \o field.type
        \o IF IsString(field) /\ field.max_length # DefaultLength
           THEN <<",", ToString(field.max_length)>> ELSE <<>>

SepOf(scheme) == CHOOSE c \in scheme.sep : TRUE
SepLine(scheme) == <<"table_separator", ":", " ", SepOf(scheme)>>
FieldsLine(scheme) ==
    <<"table_fields", ":">>
        \o Joined([f \in DOMAIN scheme.vFields |-> Written(scheme.vFields[f])], SepOf(scheme))
IndexLine(scheme) ==
    <<"table_index", ":">>
        \o Joined([f \in DOMAIN vIndexs(scheme) |-> vIndexs(scheme)[f].strName], ",")

KeyLines(scheme) ==
    {SepLine(scheme), FieldsLine(scheme)}
        \union (IF vIndexs(scheme) = <<>> THEN {} ELSE {IndexLine(scheme)})

Noise == << <<"#", "table_fields", ":", "id">>, <<" ", "\t">>, <<>> >>
Repeated == << <<"table_index", ":", "desc">>, <<"table_separator", ":", ",">>,
               <<"table_fields", ":", "name", ",", "int">> >>

Writings(scheme) ==
    LET orders == SetToSeqs(KeyLines(scheme)) IN
    orders
        \union {InsertAt(lines, i, noise) : lines \in orders, i \in 1 .. 2, noise \in Range(Noise)}
        \union (IF vIndexs(scheme) = <<>> THEN {} ELSE {lines \o Repeated : lines \in orders})
        \union (IF scheme.sep # {"|"} THEN {}
                ELSE SetToSeqs(KeyLines(scheme) \ {SepLine(scheme)}))

\* Files nobody means anything by: a line that is no pair, a field without a
\* type, and one with an unknown type.
Senseless == {
    << SepLine(Wide), <<"table_fields">> >>,
    << <<"table_fields", ":", "id", "|", "name", ",", "string">> >>,
    << <<"table_fields", ":", "id", ",", "text">> >> }

\* What is meant by a file without table_fields is a table without fields.
NoFields == [sep |-> {"|"}, vFields |-> <<>>]
Fieldless == { << SepLine(Wide) >>, << SepLine(Wide), <<"table_index", ":", "id", ",", "int">> >> }

-----------------------------------------------------------------------------
(* Input directories *)

Short == <<"a">>
Lines == { <<"a", "|", "b", "|", "b", "b">>, <<"b", " ", "|", "b", "|", " ", "a", " ">>,
           <<"a", "|", "b", "b", "|", "a", "b">>, Short }
BadLines == { <<"a", "|", "b">>, <<"b", "|", "|", "a", "|", "b", "|", "a">>,
              <<"a", "|", "b", "b", "b", "|", "a">>, <<"a", "|", "b", "|", "a", "a", "a">>,
              <<"c", "|", "d", "|", "a">> }

Conf(names) == << <<"#", "tables">>, <<"tables", " ", "=", " ">> \o Joined(names, ";"),
                  <<"work_threads", "=", "4">>, <<"tables", "=", "other">> >>

One(meant, lines, content, changes) ==
    [conf |-> Conf(<< <<"t1">> >>), tables |-> << <<"t1">> >>, schemas |-> (<<"t1">> :> lines),
     meant |-> (<<"t1">> :> meant), files |-> (<<"t1">> :> content), edits |-> changes]

Plainly(meant) == <<IndexLine(meant), SepLine(meant), FieldsLine(meant)>>
TwoLines == << <<"a", "|", "b", "|", "b">>, <<"a", ";", "b">> >>

Two(first, second) ==
    [conf |-> Conf(<< <<"t1">>, <<"t2">> >>), tables |-> << <<"t1">>, <<"t2">> >>,
     schemas |-> (<<"t1">> :> Plainly(Wide)) @@ (<<"t2">> :> Plainly(Wide)),
     meant |-> (<<"t1">> :> Wide) @@ (<<"t2">> :> Wide),
     files |-> (<<"t1">> :> first) @@ (<<"t2">> :> second), edits |-> 0]

MCInputs ==
    {One(Wide, Plainly(Wide), content, 0) : content \in BoundedSeq(Lines, 3)}
    \union {One(Wide, Plainly(Wide), content, 0) : content \in BoundedSeq(Lines \union BadLines, 2)}
    \union {One(Wide, Plainly(Wide), content, 2) : content \in BoundedSeq(Lines, 2)}
    \union {One(Wide, Plainly(Wide), content, 1) : content \in BoundedSeq(Lines \ {Short}, 3)}
    \union UNION {{One(scheme, lines, TwoLines, 0) : lines \in Writings(scheme)}
                    : scheme \in {Wide, Narrow, Trailing, Plain}}
    \union {One(Uneven, Plainly(Uneven), << <<"a", "|", "d", "d", "d", "|", "d">> >>, 0)}
    \union {One(Unwritten, lines, TwoLines, 0) : lines \in Senseless}
    \union {One(NoFields, lines, TwoLines, 0) : lines \in Fieldless}
    \union {Two(first, second) : first \in BoundedSeq(Lines \ {Short}, 1),
                                 second \in BoundedSeq(Lines \ {Short}, 2)}
    \union {[One(Wide, Plainly(Wide), TwoLines, 0) EXCEPT !.conf = conf, !.tables = Unwritten]
                : conf \in { << <<"tables">> >>, <<>>, << <<"tables", "=", ";">> >> }}
    \union {[One(Wide, Plainly(Wide), TwoLines, 0) EXCEPT !.conf = Conf(names), !.tables = names]
                : names \in { << <<"t1">>, <<"t1">> >>, << <<"t1">>, <<"t2">> >> }}

MCRewrites == { <<>>, << Short, <<"b", "|", "b", "|", "a">>, <<"a", "|", "b", "|", "a">> >>,
                << <<"a", "|", "b", "|", "b", "b">> >> }
MCNewLines == { <<"a", "|", "b", "|", "a">>, <<"c", "|", "b", "|", "a">> }
MCSymbols ==
    Blanks \union {"|", ";", ",", ":", "=", "#", "2", "3", "4", "a", "b", "c", "d", "t1", "t2"}
           \union {"table_separator", "table_fields", "table_index", "tables", "work_threads"}
           \union {"id", "name", "desc", "cost", "int", "string", "float", "text", "other"}
MCColliding == { <<"c">>, <<"d">>, <<"d", "d", "d">> }
=============================================================================
