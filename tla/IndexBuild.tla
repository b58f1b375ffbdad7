----------------------------- MODULE IndexBuild -----------------------------
(***************************************************************************)
(* clustered_index (index/index.cpp): parse_conf (Config) finds the tables *)
(* and counts the lines of each, and gen_indexs_for_tables runs            *)
(* create_index on one after the other with one index_builder.  A first    *)
(* pass over the input file stores the records and counts the keys of each *)
(* index, the counts become start positions, a second pass gives every     *)
(* line its position, and output_index_and_data writes, per index, the     *)
(* records in that order.                                                  *)
(*                                                                         *)
(* The input file is opened by its name three times.  Another process may  *)
(* meanwhile rename a new file to that name, or append a line.             *)
(*                                                                         *)
(* Fields, indexes and vTables count from 1, lines and positions from 0 as *)
(* in the code.  A byte of memory is a sequence: the character a string    *)
(* has there, the text a number was read from, or <<>> for NUL.            *)
(***************************************************************************)
EXTENDS Config, FiniteSets

CONSTANTS
    Symbols,    \* what texts are made of
    Inputs,     \* what a run may find: records of conf and tables, schemas
                \* and meant, files and edits
    Rewrites,   \* what another process may put into the place of a file
    NewLines,   \* the lines it may append
    Colliding,  \* texts with one and the same digest
    Unwritten   \* what nobody could mean by a file

ASSUME IndexBuildAssumption ==
    /\ \A in \in Inputs :
        /\ in.conf \in Seq(Seq(Symbols))
        /\ in.files \in [DOMAIN in.schemas -> Seq(Seq(Symbols))]
        /\ in.schemas \in [DOMAIN in.schemas -> Seq(Seq(Symbols))]
        /\ DOMAIN in.meant = DOMAIN in.schemas
        /\ in.edits \in Nat
    /\ Rewrites \subseteq Seq(Seq(Symbols)) /\ NewLines \subseteq Seq(Symbols)

VARIABLES
    input,      \* one of Inputs; it never changes
    file,       \* the input files, by table name
    edits,      \* how often one was changed
    pc,         \* the phase of main
    vTables,    \* g_config->vTables
    t,          \* the table of it that is being indexed
    stream,     \* what the open ifstream reads
    attached,   \* it still is the file of that name
    n,          \* lines read in this pass
    counted,    \* history: what the first pass read, as far as it got
    str_text, g_hashText,   \* builder.str_filter
    record_index,   \* the records stored, in file order
    pidxmap,    \* record_count_map: per index, from a digest to its count
    lnm,        \* lines accepted in the second pass
    pRank       \* per index, from a position to the number of the line there

builderVars == <<str_text, g_hashText, record_index, pidxmap, lnm, pRank>>
writerVars == <<input, file, edits, attached>>
vars == <<writerVars, pc, vTables, t, stream, n, counted, builderVars>>

Init ==
    /\ input \in Inputs /\ file = input.files /\ edits = 0
    /\ pc = "config" /\ vTables = <<>> /\ t = 0
    /\ stream = <<>> /\ attached = FALSE /\ n = 0 /\ counted = <<>>
    /\ str_text = <<>> /\ g_hashText = <<>> /\ record_index = <<>>
    /\ pidxmap = <<>> /\ lnm = 0 /\ pRank = <<>>

\* get_md5, cut to 64 bits.
Md5(text) == IF text \in Colliding THEN CHOOSE c \in Colliding : TRUE ELSE text

-----------------------------------------------------------------------------
(* The configuration *)

Names == TableNames(ParseConf(input.conf))

ConfigParses ==
    /\ WellFormed(Pairs(input.conf, "="))
    /\ Names # <<>>
    /\ \A name \in Range(Names) : name \in DOMAIN file /\ SchemeParses(input.schemas[name])

\* parse_table; getlinenum counts every line, accepted or not.
ParseTable(name) ==
    [table_name |-> name, table_scheme |-> ParseScheme(input.schemas[name]),
     file_linenum |-> Len(file[name])]

\* parse_conf: one bad line or table fails the run.
ReadConfig ==
    /\ pc = "config"
    /\ IF ConfigParses
       THEN pc' = "start" /\ vTables' = [k \in DOMAIN Names |-> ParseTable(Names[k])]
       ELSE pc' = "failed" /\ UNCHANGED vTables
    /\ UNCHANGED <<writerVars, t, stream, n, counted, builderVars>>

\* The table at hand.
Scheme == vTables[t].table_scheme
Fields == Scheme.vFields
nField == Len(Fields)
IndexFields == vIndexs(Scheme)
nIndex == Len(IndexFields)
LineNum == vTables[t].file_linenum

\* What create_index makes of a line, and whether it takes it.
Tokens(line) ==
    LET pieces == ParseString(line, Scheme.sep)
    IN [i \in DOMAIN pieces |-> TrimHeadTail(pieces[i], Blanks)]

\* No more is asked than that every index has its token.
Accepted(line) ==
    Len(Tokens(line)) > 0 /\ \A i \in 1 .. nIndex : IndexFields[i].index < Len(Tokens(line))

Key(line, i) == Md5(Tokens(line)[IndexFields[i].index + 1])

-----------------------------------------------------------------------------
(* init_index_builder, and create_index up to its first pass *)

\* Nobody looks at what init_index_builder returns: after a failed allocation
\* create_index works on the builder as the table before left it.
StartTable ==
    /\ pc = "start" /\ t < Len(vTables)
    /\ t' = t + 1
    /\ LET tab == vTables[t + 1]
           indexes == Len(vIndexs(tab.table_scheme))
       IN \/ /\ pc' = IF indexes = 0 \/ tab.file_linenum = 0 THEN "failed" ELSE "count"
             /\ str_text' = <<>> /\ record_index' = <<>>
             /\ pidxmap' = [i \in 1 .. indexes |-> <<>>]
             /\ pRank' = [i \in 1 .. indexes |-> [p \in 0 .. tab.file_linenum - 1 |-> 0]]
             /\ stream' = file[tab.table_name] /\ attached' = TRUE
             /\ n' = 0 /\ counted' = stream' /\ lnm' = 0
             /\ UNCHANGED g_hashText
          \/ /\ pc' \in {"failed", "undefined"}     \* ifstream, calloc
             /\ UNCHANGED <<attached, stream, n, counted, builderVars>>
    /\ UNCHANGED <<input, file, edits, vTables>>

-----------------------------------------------------------------------------
(* The first pass *)

\* An unordered_map with one more entry.
With(map, key, entry) ==
    [k \in DOMAIN map \union {key} |-> IF k = key THEN entry ELSE map[k]]

\* get_position: the first text with a digest stands for all of them.
GetPosition(filter, key) ==
    IF Md5(key) \in DOMAIN filter.hash THEN filter
    ELSE [text |-> filter.text \o key,
          hash |-> With(filter.hash, Md5(key),
                        [start_pos |-> Len(filter.text), length |-> Len(key)])]

Filtered(tokens) ==
    FoldLeft(LAMBDA filter, field : IF IsString(field)
                                    THEN GetPosition(filter, tokens[field.index + 1])
                                    ELSE filter,
             [text |-> str_text, hash |-> g_hashText], Fields)

\* add_data for every field.
Record(tokens, hash) ==
    [f \in 1 .. nField |-> IF IsString(Fields[f]) THEN hash[Md5(tokens[f])] ELSE tokens[f]]

Incremented(map, digest) ==
    IF digest \in DOMAIN map THEN [map EXCEPT ![digest].length = @ + 1]
    ELSE With(map, digest, [length |-> 1, start_pos |-> 0, rank_pos |-> 0])

\* Reading a token the line does not have, counting into the map of an index
\* that does not exist (pidxmap is indexed with the field's number), and
\* storing more records than there were lines is undefined.
CountOverruns(tokens) ==
    \/ Len(tokens) < nField
    \/ \E f \in 1 .. nField : Fields[f].is_index /\ f > nIndex
    \/ Len(record_index) >= LineNum

CountLine ==
    LET tokens == Tokens(stream[n + 1])
        filter == Filtered(tokens)
    IN
    /\ pc = "count" /\ n < Len(stream)
    /\ n' = n + 1
    /\ \/ ~ Accepted(stream[n + 1])
          /\ UNCHANGED <<pc, str_text, g_hashText, record_index, pidxmap>>
       \/ /\ Accepted(stream[n + 1]) /\ CountOverruns(tokens)
          /\ pc' = "overrun"
          /\ UNCHANGED <<str_text, g_hashText, record_index, pidxmap>>
       \/ /\ Accepted(stream[n + 1]) /\ ~ CountOverruns(tokens)
          /\ str_text' = filter.text /\ g_hashText' = filter.hash
          /\ record_index' = Append(record_index, Record(tokens, filter.hash))
          /\ pidxmap' = [i \in DOMAIN pidxmap |->
                IF Fields[i].is_index THEN Incremented(pidxmap[i], Md5(tokens[i]))
                ELSE pidxmap[i]]
          /\ UNCHANGED pc
    /\ UNCHANGED <<writerVars, vTables, t, stream, counted, lnm, pRank>>

-----------------------------------------------------------------------------
(* The counts become positions *)

\* Mutant of Before: a key's own count is in its start position.
BeforeInclusive(map, walk, k) ==
    FoldLeft(LAMBDA sum, digest : sum + map[digest].length, 0, SubSeq(walk, 1, k))

\* The counts of the keys that come before the k-th of a walk.
Before(map, walk, k) ==
    FoldLeft(LAMBDA sum, digest : sum + map[digest].length, 0, SubSeq(walk, 1, k - 1))

\* An unordered_map is walked in an order of its own.
Summed(map) ==
    {[digest \in DOMAIN map |->
        LET before == Before(map, walk, CHOOSE k \in DOMAIN walk : walk[k] = digest)
        IN [map[digest] EXCEPT !.start_pos = before, !.rank_pos = before]]
     : walk \in SetToSeqs(DOMAIN map)}

\* The end of the first pass; the second opens the file anew.
SumCounts ==
    /\ pc = "count" /\ n = Len(stream)
    /\ n' = 0
    /\ \/ /\ pc' = "rank"
          /\ pidxmap' \in {maps \in [DOMAIN pidxmap -> UNION {Summed(pidxmap[i]) : i \in DOMAIN pidxmap}] :
                            \A i \in DOMAIN pidxmap : maps[i] \in Summed(pidxmap[i])}
          /\ stream' = file[vTables[t].table_name] /\ attached' = TRUE
       \/ /\ pc' = "failed"     \* ifstream::open
          /\ UNCHANGED <<pidxmap, stream, attached>>
    /\ UNCHANGED <<input, file, edits, vTables, t, counted, str_text, g_hashText,
                   record_index, lnm, pRank>>

-----------------------------------------------------------------------------
(* The second pass *)

\* get_incr_rank_pos, -1 for a key the first pass did not meet; as an unsigned
\* number that is as far out of pRank as a position behind the last line.
Rank(line, i) ==
    IF Key(line, i) \in DOMAIN pidxmap[i] THEN pidxmap[i][Key(line, i)].rank_pos ELSE -1

RankOverruns(line) == \E i \in 1 .. nIndex : Rank(line, i) \notin 0 .. LineNum - 1

\* get_incr_rank_pos and the assignment to pRank, for every index.
RankLine ==
    LET line == stream[n + 1] IN
    /\ pc = "rank" /\ n < Len(stream)
    /\ n' = n + 1
    /\ \/ ~ Accepted(line) /\ UNCHANGED <<pc, pidxmap, lnm, pRank>>
       \/ /\ Accepted(line) /\ RankOverruns(line)
          /\ pc' = "overrun"
          /\ UNCHANGED <<pidxmap, lnm, pRank>>
       \/ /\ Accepted(line) /\ ~ RankOverruns(line)
          /\ pRank' = [i \in 1 .. nIndex |->
                [pRank[i] EXCEPT ![Rank(line, i)] = lnm]]
          /\ pidxmap' = [i \in 1 .. nIndex |->
                [pidxmap[i] EXCEPT ![Key(line, i)].rank_pos = @ + 1]]
          /\ lnm' = lnm + 1
          /\ UNCHANGED pc
    /\ UNCHANGED <<writerVars, vTables, t, stream, counted, str_text, g_hashText, record_index>>

-----------------------------------------------------------------------------
(* output_index_and_data *)

\* Record number m; memory calloc returned and nobody wrote holds zeros.
Stored(m) ==
    IF m < Len(record_index) THEN record_index[m + 1]
    ELSE [f \in 1 .. nField |->
            IF IsString(Fields[f]) THEN [start_pos |-> 0, length |-> 0] ELSE <<>>]

\* A character of the texts, or what is behind the last one.
Char(at) == IF at \in DOMAIN str_text THEN <<str_text[at]>> ELSE <<>>

\* The bytes convert_struct copies for a field: those of a string however
\* long, and of nothing else more than its own.
Bytes(f, value) ==
    IF IsString(Fields[f]) THEN [b \in 1 .. value.length |-> Char(value.start_pos + b)]
    ELSE [b \in 1 .. IntSize |-> value]

Put(record, at, bytes) ==
    [b \in DOMAIN record |-> IF b \in at + 1 .. at + Len(bytes) THEN bytes[b - at] ELSE record[b]]

ConvertStruct(raw) ==
    FoldLeft(LAMBDA record, f : Put(record, Offset(Scheme, f), Bytes(f, raw[f])),
             [b \in 1 .. RecSize(Scheme) |-> <<>>], [f \in 1 .. nField |-> f])

\* The lines of the .idx file, and the .dat file: one record per line of the
\* input, accepted or not.
Idx(i) == {[md5 |-> digest, start_pos |-> pidxmap[i][digest].start_pos,
            length |-> pidxmap[i][digest].length] : digest \in DOMAIN pidxmap[i]}
Dat(i) == [p \in 0 .. LineNum - 1 |-> ConvertStruct(Stored(pRank[i][p]))]

\* A line number behind the last record, or a string behind the last field.
OutputOverruns ==
    \/ \E i \in 1 .. nIndex : \E p \in 0 .. LineNum - 1 : pRank[i][p] >= LineNum
    \/ \E m \in 0 .. Len(record_index) - 1 : \E f \in 1 .. nField :
        Offset(Scheme, f) + Len(Bytes(f, Stored(m)[f])) > RecSize(Scheme)

\* How the files get to their places, and what fails there, is in Service.
Output ==
    /\ pc = "rank" /\ n = Len(stream)
    /\ pc' = IF OutputOverruns THEN "overrun" ELSE "written"
    /\ UNCHANGED <<writerVars, vTables, t, stream, n, counted, builderVars>>

\* Mutant of FreeBuilder: the texts' positions survive the table.
FreeBuilderKept ==
    /\ pc = "written"
    /\ pc' = IF t < Len(vTables) THEN "start" ELSE "done"
    /\ UNCHANGED <<writerVars, vTables, t, stream, n, counted, builderVars>>

\* free_index_builder, and on to the next table.
FreeBuilder ==
    /\ pc = "written"
    /\ pc' = IF t < Len(vTables) THEN "start" ELSE "done"
    /\ g_hashText' = <<>>
    /\ UNCHANGED <<writerVars, vTables, t, stream, n, counted, str_text, record_index,
                   pidxmap, lnm, pRank>>

-----------------------------------------------------------------------------
(* Another process; what it does before or after the file is in use is as   *)
(* if it had done it for another input.                                     *)

InUse(name) ==
    /\ pc \in {"start", "count", "rank"}
    /\ \E k \in DOMAIN vTables : k >= t /\ vTables[k].table_name = name

IsOpen(name) == pc # "start" /\ attached /\ vTables[t].table_name = name

Replace(name) ==
    /\ edits < input.edits /\ InUse(name)
    /\ \E content \in Rewrites : file' = [file EXCEPT ![name] = content]
    /\ edits' = edits + 1
    /\ attached' = (attached /\ ~ IsOpen(name))
    /\ UNCHANGED <<input, pc, vTables, t, stream, n, counted, builderVars>>

AppendLine(name) ==
    /\ edits < input.edits /\ InUse(name)
    /\ \E line \in NewLines :
        /\ file' = [file EXCEPT ![name] = Append(@, line)]
        /\ stream' = IF IsOpen(name) THEN file'[name] ELSE stream
        /\ counted' = IF IsOpen(name) /\ pc = "count" THEN stream' ELSE counted
    /\ edits' = edits + 1
    /\ UNCHANGED <<input, attached, pc, vTables, t, n, builderVars>>

-----------------------------------------------------------------------------
Indexer ==
    \/ ReadConfig \/ StartTable \/ CountLine \/ SumCounts \/ RankLine \/ Output \/ FreeBuilder

Next == Indexer \/ \E name \in DOMAIN file : Replace(name) \/ AppendLine(name)

Spec == Init /\ [][Next]_vars

-----------------------------------------------------------------------------
(* What the configuration and an index promise *)

Described(name) == Mentions(Pairs(input.schemas[name], ":"), "table_fields") # {}

\* A configuration file gives the tables its author meant, and a schema file
\* that mentions its fields the scheme, in any order of the lines, with
\* comments, with a default separator and with later lines for a key that was
\* there; and only files without meaning and missing tables fail.  Without
\* table_fields the value of table_index is read in its place.
ConfigAsWritten ==
    /\ vTables # <<>> => [k \in DOMAIN vTables |-> vTables[k].table_name] = input.tables
    /\ \A k \in DOMAIN vTables : LET name == vTables[k].table_name IN
        /\ input.meant[name] # Unwritten
        /\ Described(name) => vTables[k].table_scheme = input.meant[name]
    /\ pc = "failed" /\ vTables = <<>> =>
        \/ input.tables = Unwritten
        \/ \E name \in Range(input.tables) : name \notin DOMAIN file
        \/ \E name \in Range(input.tables) : ~ Described(name) \/ input.meant[name] = Unwritten

\* The lines of a content the table's indexes are about.
Good(content) == Only(content, {line \in Range(content) : Accepted(line)})

Texts(content) == UNION {Range(Tokens(line)) : line \in Range(Good(content))}

Whole(content) == \A line \in Range(Good(content)) : Len(Tokens(line)) >= nField

Fits(content) == \A line \in Range(Good(content)) : \A f \in 1 .. nField :
    IsString(Fields[f]) => Len(Tokens(line)[f]) <= Fields[f].max_length

LeadingIndexes == \A f \in 1 .. nField : Fields[f].is_index => f <= nIndex

\* No access leaves the builder's arrays while the lines are whole, the texts
\* fit, no two of different lengths have one digest, the indexes are the
\* leading fields, the first pass met no more good lines than were counted, and
\* the second pass met the lines of the first: the sums over the counts keep
\* every position in its array, and a text that stands for another is no longer.
StaysInBounds ==
    pc = "overrun" =>
        \/ ~ LeadingIndexes \/ ~ Whole(counted) \/ ~ Fits(counted)
        \/ \E s, u \in Texts(counted) : Md5(s) = Md5(u) /\ Len(s) # Len(u)
        \/ Len(Good(counted)) > LineNum
        \/ stream # counted

\* What the server reads where the field is.
ReadBack(record, f) ==
    LET slot == SubSeq(record, Offset(Scheme, f) + 1, Offset(Scheme, f + 1))
        ends == {b \in DOMAIN slot : slot[b] = <<>>}
    IN IF IsString(Fields[f])
       THEN FlattenSeq(IF ends = {} THEN slot ELSE SubSeq(slot, 1, Min(ends) - 1))
       ELSE slot[1]

\* If both passes met the same lines, no two texts share a digest and every
\* text fits: looking a key up in the .idx file and reading that range of the
\* .dat file yields exactly the records with that key, in the input's order,
\* with the fields they had -- whatever the line count was before, the file
\* became after, and the table before left in the builder.
LookupIsExact ==
    (/\ pc = "written" /\ stream = counted /\ Fits(counted)
     /\ \A s, u \in Texts(counted) : Md5(s) = Md5(u) => s = u) =>
        \A i \in 1 .. nIndex :
            /\ {e.md5 : e \in Idx(i)} = {Key(line, i) : line \in Range(Good(counted))}
            /\ \A e \in Idx(i) :
                LET rows == Only(Good(counted),
                                 {line \in Range(Good(counted)) : Key(line, i) = e.md5})
                IN
                /\ e.length = Len(rows)
                /\ \A p \in 1 .. Len(rows) : \A f \in 1 .. nField :
                    ReadBack(Dat(i)[e.start_pos + p - 1], f) = Tokens(rows[p])[f]
=============================================================================
