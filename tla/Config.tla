------------------------------- MODULE Config -------------------------------
(***************************************************************************)
(* common/conf.cpp: the configuration file and the schema files, from      *)
(* their lines to what clustered_index and clustered_server work with.     *)
(***************************************************************************)
EXTENDS Text

CONSTANTS
    DefaultLength,  \* DEFAULT_MAX_STRINGLEN
    IntSize         \* the bytes of a field that is no string

ASSUME ConfigAssumption == DefaultLength \in Nat /\ IntSize \in Nat \ {0}

-----------------------------------------------------------------------------
(* What the loops over the lines of parse_conf and parse_scheme share *)

\* Blanks go from everywhere in a line; comments and empty lines are skipped.
Content(lines) ==
    LET trimmed == [i \in DOMAIN lines |-> Trim(lines[i], Blanks)]
    IN Only(trimmed, {line \in Range(trimmed) : line # <<>> /\ line[1] # "#"})

Pairs(lines, tok) ==
    LET content == Content(lines)
    IN [i \in DOMAIN content |-> ParseString(content[i], {tok})]

\* One line without exactly a key and a value fails the whole file.
WellFormed(pairs) == \A i \in DOMAIN pairs : Len(pairs[i]) = 2

Mentions(pairs, key) == {i \in DOMAIN pairs : pairs[i][1] = <<key>>}

\* Mutant of ValueOf: the last line with a key counts.
ValueOfLast(pairs, key, otherwise) ==
    LET at == Mentions(pairs, key) IN IF at = {} THEN otherwise ELSE pairs[Max(at)][2]

\* The first line with a key counts.
ValueOf(pairs, key, otherwise) ==
    LET at == Mentions(pairs, key) IN IF at = {} THEN otherwise ELSE pairs[Min(at)][2]

-----------------------------------------------------------------------------
(* parse_scheme *)

FieldTypes == {<<"int">>, <<"string">>, <<"float">>, <<"double">>}

\* One of the descriptions in table_fields, the number-th from 0.
ReadField(text, number, idxtokens) ==
    LET tokens == ParseString(text, {","}) IN
    [strName |-> tokens[1], type |-> tokens[2],
     max_length |-> IF Len(tokens) = 3 THEN Atoi(tokens[3]) ELSE DefaultLength,
     index |-> number, is_index |-> tokens[1] \in Range(idxtokens)]

GoodField(text) ==
    LET tokens == ParseString(text, {","}) IN Len(tokens) >= 2 /\ tokens[2] \in FieldTypes

\* GET_VALUE leaves value as it was for a key the file does not mention, so
\* each key inherits the value of the one asked for before it.
Separator(pairs) ==
    LET value == ValueOf(pairs, "table_separator", <<>>)
    IN IF value = <<>> THEN <<"|">> ELSE value

IndexValue(pairs) ==
    ValueOf(pairs, "table_index", ValueOf(pairs, "table_separator", <<>>))

FieldTexts(pairs) ==
    ParseString(ValueOf(pairs, "table_fields", IndexValue(pairs)), Range(Separator(pairs)))

\* parse_scheme returns 0.
SchemeParses(lines) ==
    LET pairs == Pairs(lines, ":")
    IN  /\ WellFormed(pairs)
        /\ \A i \in DOMAIN FieldTexts(pairs) : GoodField(FieldTexts(pairs)[i])

\* The table_scheme it leaves.
ParseScheme(lines) ==
    LET pairs == Pairs(lines, ":")
        texts == FieldTexts(pairs)
        idxtokens == ParseString(IndexValue(pairs), {","})
    IN  [sep |-> Range(Separator(pairs)),
         vFields |-> [i \in DOMAIN texts |-> ReadField(texts[i], i - 1, idxtokens)]]

vIndexs(scheme) == Only(scheme.vFields, {field \in Range(scheme.vFields) : field.is_index})

-----------------------------------------------------------------------------
(* Records *)

IsString(field) == field.type = <<"string">>
Size(field) == IF IsString(field) THEN field.max_length ELSE IntSize

\* get_max_record_size, and where a record of the .dat file holds field f.
Offset(scheme, f) == FoldLeft(LAMBDA n, field : n + Size(field), 0,
                              SubSeq(scheme.vFields, 1, f - 1))
RecSize(scheme) == Offset(scheme, Len(scheme.vFields) + 1)

-----------------------------------------------------------------------------
(* parse_conf *)

\* The fields of g_config; a key the file does not mention stays empty.
Keys == {"input_dir", "output_dir", "tables", "max_queue_num", "work_threads",
         "tcp_path", "tcp_port", "udp_port", "udp_path"}

ParseConf(lines) ==
    [key \in Keys |-> ValueOf(Pairs(lines, "="), key, <<>>)]

\* parse_tables: the names of the tables, in order.
TableNames(conf) == ParseString(conf["tables"], {";"})
=============================================================================
