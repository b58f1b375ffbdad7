------------------------------- MODULE Service -------------------------------
(***************************************************************************)
(* clustered_index and clustered_server around one table's files.          *)
(*                                                                         *)
(* The indexer (index/index.cpp) reads the input file and publishes a .idx *)
(* and a .dat file per indexed field, each written under a temporary name  *)
(* and renamed.  The server (server/server.cpp) loads the .idx files when  *)
(* it starts and opens a .dat file for every query, so a query may meet    *)
(* files of different indexer runs.  Queries leave no trace in the server: *)
(* they are the operator Answer, evaluated in every state.                 *)
(*                                                                         *)
(* A file is named by the version of the table it was made from; what is   *)
(* in it is given by Idx and Dat, the result IndexBuild arrives at.        *)
(***************************************************************************)
EXTENDS Text, FiniteSets

CONSTANTS
    Tables,     \* the input file's successive contents, rows by field
    Fields,     \* vFields
    FirstField, \* vFields[0]
    Unknown,    \* the name of a field the schema does not have
    IndexSeq,   \* vIndexs, in order
    IntFields,  \* the INT fields; the others are STRING fields
    Symbols,    \* what texts are made of
    Texts,      \* what a field may hold
    MaxInt,     \* the largest int
    MaxLength,  \* max_length of every STRING field
    FaultSets,  \* what may go wrong together, see FaultKinds
    None,       \* no file, no version
    Partial     \* a file whose writer has not finished

\* The indexer is killed, cannot open a file, fails to rename one without
\* noticing, or writes one only in part without noticing.
FaultKinds == {"crash", "open", "rename", "disk"}

\* What is behind a string.
NUL == ""

ASSUME ServiceAssumption ==
    /\ Tables \in Seq(Seq([Fields -> Texts])) /\ Tables # <<>>
    /\ IndexSeq \in Seq(Fields) /\ IndexSeq # <<>>
    /\ FirstField \in Fields /\ Unknown \notin Fields
    /\ IntFields \subseteq Fields
    /\ MaxInt \in Nat
    /\ Texts \subseteq Seq(Symbols) /\ NUL \notin Symbols
    /\ MaxLength \in Nat /\ \A t \in Texts : t # <<>> /\ Len(t) <= MaxLength
    /\ FaultSets \subseteq SUBSET FaultKinds
    /\ {None, Partial} \intersect Nat = {} /\ None # Partial

Versions == 1 .. Len(Tables)
IndexFields == Range(IndexSeq)

VARIABLES
    faults,             \* one of FaultSets; it never changes
    input,              \* the version of the input file
    idx, dat,           \* the published files of each index
    tmpIdx, tmpDat,     \* the same with TMP_SUFFIX
    ipc, made, m,       \* the indexer: phase, version it reads, index it writes
    spc, li, loaded,    \* the server: phase, next index to load, loaded files
    complete,           \* history: the last indexer run reached its end
    settled             \* history: ... before the server started, none since

fileVars == <<idx, dat, tmpIdx, tmpDat>>
indexerVars == <<ipc, made, m>>
serverVars == <<spc, li, loaded>>
vars == <<faults, input, fileVars, indexerVars, serverVars, complete, settled>>

Init ==
    /\ faults \in FaultSets
    /\ input = 1
    /\ idx = [f \in IndexFields |-> None] /\ dat = [f \in IndexFields |-> None]
    /\ tmpIdx = [f \in IndexFields |-> None] /\ tmpDat = [f \in IndexFields |-> None]
    /\ ipc = "idle" /\ made = None /\ m = 1
    /\ spc = "down" /\ li = 1 /\ loaded = [f \in IndexFields |-> None]
    /\ complete = FALSE /\ settled = FALSE

\* The operator puts a new file in place between two runs of the indexer.
ReplaceInput ==
    /\ ipc = "idle" /\ input < Len(Tables)
    /\ input' = input + 1
    /\ UNCHANGED <<faults, fileVars, indexerVars, serverVars, complete, settled>>

-----------------------------------------------------------------------------
(* The indexer *)

Exit == ipc' = "idle" /\ made' = None /\ m' = 1

StartIndexer ==
    /\ ipc = "idle"
    /\ made' = input
    /\ ipc' = "openIdx" /\ m' = 1
    /\ complete' = FALSE /\ settled' = FALSE
    /\ UNCHANGED <<faults, input, fileVars, serverVars>>

\* Mutant of OpenIdx: a temporary file that is there is not truncated.
OpenIdxKept ==
    /\ ipc = "openIdx"
    /\ tmpIdx' = [tmpIdx EXCEPT ![IndexSeq[m]] = IF @ = None THEN Partial ELSE @]
    /\ ipc' = "writeIdx"
    /\ UNCHANGED <<faults, input, idx, dat, tmpDat, made, m, serverVars, complete, settled>>

\* ofstream truncates an earlier temporary file.
OpenIdx ==
    /\ ipc = "openIdx"
    /\ \/ /\ tmpIdx' = [tmpIdx EXCEPT ![IndexSeq[m]] = Partial]
          /\ ipc' = "writeIdx" /\ UNCHANGED <<made, m>>
       \/ "open" \in faults /\ Exit /\ UNCHANGED tmpIdx
    /\ UNCHANGED <<faults, input, idx, dat, tmpDat, serverVars, complete, settled>>

\* A full disk cuts the file short, and nobody looks at the stream.
WriteIdx ==
    /\ ipc = "writeIdx"
    /\ \/ tmpIdx' = [tmpIdx EXCEPT ![IndexSeq[m]] = made]
       \/ "disk" \in faults /\ UNCHANGED tmpIdx
    /\ ipc' = "openDat"
    /\ UNCHANGED <<faults, input, idx, dat, tmpDat, made, m, serverVars, complete, settled>>

\* Mutant of OpenDat: the file is written under its own name.
OpenDatInPlace ==
    /\ ipc = "openDat"
    /\ dat' = [dat EXCEPT ![IndexSeq[m]] = Partial]
    /\ tmpDat' = [tmpDat EXCEPT ![IndexSeq[m]] = Partial]
    /\ ipc' = "writeDat"
    /\ UNCHANGED <<faults, input, idx, tmpIdx, made, m, serverVars, complete, settled>>

OpenDat ==
    /\ ipc = "openDat"
    /\ \/ /\ tmpDat' = [tmpDat EXCEPT ![IndexSeq[m]] = Partial]
          /\ ipc' = "writeDat" /\ UNCHANGED <<made, m>>
       \/ "open" \in faults /\ Exit /\ UNCHANGED tmpDat
    /\ UNCHANGED <<faults, input, idx, dat, tmpIdx, serverVars, complete, settled>>

WriteDat ==
    /\ ipc = "writeDat"
    /\ \/ tmpDat' = [tmpDat EXCEPT ![IndexSeq[m]] = made]
       \/ "disk" \in faults /\ UNCHANGED tmpDat
    /\ ipc' = "renameIdx"
    /\ UNCHANGED <<faults, input, idx, dat, tmpIdx, made, m, serverVars, complete, settled>>

\* The result of rename is not looked at either.
RenameIdx ==
    /\ ipc = "renameIdx"
    /\ \/ /\ idx' = [idx EXCEPT ![IndexSeq[m]] = tmpIdx[IndexSeq[m]]]
          /\ tmpIdx' = [tmpIdx EXCEPT ![IndexSeq[m]] = None]
       \/ "rename" \in faults /\ UNCHANGED <<idx, tmpIdx>>
    /\ ipc' = "renameDat"
    /\ UNCHANGED <<faults, input, dat, tmpDat, made, m, serverVars, complete, settled>>

\* After the last index the run is over.
RenameDat ==
    /\ ipc = "renameDat"
    /\ \/ /\ dat' = [dat EXCEPT ![IndexSeq[m]] = tmpDat[IndexSeq[m]]]
          /\ tmpDat' = [tmpDat EXCEPT ![IndexSeq[m]] = None]
       \/ "rename" \in faults /\ UNCHANGED <<dat, tmpDat>>
    /\ \/ /\ m < Len(IndexSeq)
          /\ m' = m + 1 /\ ipc' = "openIdx"
          /\ UNCHANGED <<made, complete>>
       \/ /\ m = Len(IndexSeq)
          /\ Exit
          /\ complete' = TRUE
    /\ UNCHANGED <<faults, input, idx, tmpIdx, serverVars, settled>>

\* Killed at any point: the files stay as they are.
CrashIndexer ==
    /\ "crash" \in faults
    /\ ipc # "idle"
    /\ Exit
    /\ UNCHANGED <<faults, input, fileVars, serverVars, complete, settled>>

-----------------------------------------------------------------------------
(* The server *)

StartServer ==
    /\ spc = "down"
    /\ spc' = "loading" /\ li' = 1
    /\ settled' = complete
    /\ UNCHANGED <<faults, input, fileVars, indexerVars, loaded, complete>>

StopServer ==
    /\ spc # "down"
    /\ spc' = "down" /\ li' = 1
    /\ loaded' = [f \in IndexFields |-> None]
    /\ UNCHANGED <<faults, input, fileVars, indexerVars, complete, settled>>

\* init_field_index; a file that cannot be opened ends the server.
LoadIndex ==
    LET f == IndexSeq[li] IN
    /\ spc = "loading"
    /\ \/ /\ idx[f] # None
          /\ loaded' = [loaded EXCEPT ![f] = idx[f]]
          /\ \/ li < Len(IndexSeq) /\ li' = li + 1 /\ UNCHANGED spc
             \/ li = Len(IndexSeq) /\ li' = 1 /\ spc' = "up"
       \/ /\ idx[f] = None
          /\ loaded' = [g \in IndexFields |-> None]
          /\ li' = 1 /\ spc' = "down"
    /\ UNCHANGED <<faults, input, fileVars, indexerVars, complete, settled>>

Next ==
    \/ ReplaceInput \/ StartIndexer \/ CrashIndexer
    \/ OpenIdx \/ WriteIdx \/ OpenDat \/ WriteDat \/ RenameIdx \/ RenameDat
    \/ StartServer \/ StopServer \/ LoadIndex

Spec == Init /\ [][Next]_vars

-----------------------------------------------------------------------------
(* The contents of the files *)

\* string2int32 and string2uint32, as the bits they leave.  A number beyond
\* an int is cut to the largest one when it is stored, and to the largest
\* unsigned when it is asked for; a negative one wraps around for both.
MaxUInt == 2 * MaxInt + 1
Bits(number) == IF number < 0 THEN number + MaxUInt + 1 ELSE number
Stored == [t \in Texts |-> Bits(Cut(Extracted(t), MaxInt))]
Asked == [t \in Texts |->
            IF Extracted(t) \in -MaxUInt .. MaxUInt THEN Bits(Extracted(t)) ELSE MaxUInt]

\* A string has NULs behind it.
Padded(t) == t \o [i \in 1 .. MaxLength - Len(t) |-> NUL]
CString(s) == Only(s, Range(s) \ {NUL})

\* What add_data and convert_struct make of a row.
Record(row) ==
    [f \in Fields |-> IF f \in IntFields THEN Stored[row[f]] ELSE Padded(row[f])]

Rows(v, f, t) == Only(Tables[v], {row \in Range(Tables[v]) : row[f] = t})

\* The keys of a field in the order the indexer's map is walked.
KeyOrder(v, f) == SetToSeq({Tables[v][p][f] : p \in DOMAIN Tables[v]})

\* The .dat file: the rows of the first key, of the second, ...
Dat(v, f) == FlattenSeq([p \in DOMAIN KeyOrder(v, f) |-> Rows(v, f, KeyOrder(v, f)[p])])

\* The .idx file's line for a key that occurs: where its rows are.
Start(v, f, t) ==
    LET places == {p \in DOMAIN Dat(v, f) : Dat(v, f)[p][f] = t}
    IN  (CHOOSE p \in places : \A o \in places : p <= o) - 1
Length(v, f, t) == Len(Rows(v, f, t))

-----------------------------------------------------------------------------
(* A query: get_results and get_data *)

\* What calloc leaves where fread finds no record.
ZeroRecord == [f \in Fields |-> IF f \in IntFields THEN 0 ELSE Padded(<<>>)]

\* valid_raw_record: numbers are compared as unsigned numbers, and of a string
\* only the first strlen(record) characters.
Same(f, stored, asked) ==
    IF f \in IntFields THEN stored = Asked[asked] ELSE IsPrefix(CString(stored), asked)

\* mFields[name] makes up a field of type INT, and get_pos ends behind the
\* record: at the next one that was fetched, or at whatever is behind the last.
Behind(records, p, asked, luck) ==
    IF p < Len(records) /\ FirstField \in IntFields
    THEN Same(FirstField, records[p + 1][FirstField], asked)
    ELSE luck

\* Mutant of Valid: any condition will do.
ValidAny(records, p, q, luck) ==
    \E o \in DOMAIN q : q[o].name # Unknown /\ Same(q[o].name, records[p][q[o].name], q[o].value)

Valid(records, p, q, luck) ==
    \A o \in DOMAIN q :
        IF q[o].name = Unknown THEN Behind(records, p, q[o].value, luck)
        ELSE Same(q[o].name, records[p][q[o].name], q[o].value)

\* The conditions of the query whose field has an index.
OnIndex(q) == {p \in DOMAIN q : q[p].name \in IndexFields}
Hits(p, q) == Length(loaded[q[p].name], q[p].name, q[p].value)

\* The index with the fewest records, the first of them on a tie.
Best(q) ==
    CHOOSE p \in OnIndex(q) : \A o \in OnIndex(q) :
        Hits(p, q) < Hits(o, q) \/ (Hits(p, q) = Hits(o, q) /\ p <= o)

\* The records of the .dat file as it is now, at the place the .idx file gave
\* when the server started.
Fetched(f, t) ==
    [p \in 1 .. Length(loaded[f], f, t) |->
        LET at == Start(loaded[f], f, t) + p IN
        IF at <= Len(Dat(dat[f], f)) THEN Record(Dat(dat[f], f)[at]) ELSE ZeroRecord]

\* build_response: numbers are written as unsigned ones, and a string is all
\* of its max_length bytes.
Response(record) ==
    [f \in Fields |-> IF f \in IntFields THEN ToString(record[f]) ELSE record[f]]

\* No answer without an index, or with a key the index does not have.
Answer(q, luck) ==
    IF OnIndex(q) = {} \/ \E p \in OnIndex(q) : Hits(p, q) = 0 THEN <<>>
    ELSE LET c == q[Best(q)]
             records == Fetched(c.name, c.value)
             valid == Only([p \in DOMAIN records |-> p],
                           {p \in DOMAIN records : Valid(records, p, q, luck)})
         IN IF dat[c.name] = None THEN <<>>
            ELSE [n \in DOMAIN valid |-> Response(records[valid[n]])]

-----------------------------------------------------------------------------
(* What the service promises *)

Queries ==
    UNION {[1 .. k -> [name : Fields \union {Unknown}, value : Texts]] : k \in 1 .. 2}

\* Whoever opens a published file, after a crash of the indexer too, finds a
\* whole file, unless the disk cut it short: index.cpp writes under TMP_SUFFIX
\* and renames.
WholeFiles ==
    "disk" \notin faults =>
        \A f \in IndexFields : Partial \notin {idx[f], dat[f], loaded[f]}

Known(q) == {p \in DOMAIN q : q[p].name # Unknown}
Equal(row, q) == \A p \in Known(q) : row[q[p].name] = q[p].value

\* Numbers an int can hold and uint322string writes back.
Fits(t) == Extracted(t) \in 0 .. MaxInt
AllFit(row) == \A f \in IntFields : Fits(row[f])

\* A row equals the query where it can be asked for, strings as far as they go;
\* a negative number asks for the row of another.
Alike(row, q) == \A p \in Known(q) : LET f == q[p].name IN
    IF f \in IntFields
    THEN Fits(row[f]) /\ Extracted(q[p].value) >= 0 => Extracted(row[f]) = Extracted(q[p].value)
    ELSE IsPrefix(row[f], q[p].value)

\* What the client is told is that row.
Shows(response, row) == \A f \in Fields :
    IF f \in IntFields THEN Fits(row[f]) => response[f] = ToString(Extracted(row[f]))
    ELSE CString(response[f]) = row[f]

\* A server started after an indexer run that reached its end, with none
\* since, answers from one version of the table: it returns each of its rows
\* that equals the query as often as the table has it, and others only if
\* they are alike, none more often than it is there, and with the texts and
\* numbers the input had.  That is said of numbers from 0 to the largest int.
\* A field the schema does not have may cost rows, and adds none.  (A run that
\* did not notice a failed write or rename promises nothing.)
AnswersRight ==
    faults \intersect {"disk", "rename"} = {} /\ settled /\ spc = "up" =>
        \E v \in Versions : \A q \in Queries : \A luck \in BOOLEAN :
            OnIndex(q) # {} =>
                LET answer == Answer(q, luck) IN
                /\ \A response \in Range(answer) :
                    Cardinality({n \in DOMAIN answer : answer[n] = response})
                        <= Cardinality({p \in DOMAIN Tables[v] :
                                Shows(response, Tables[v][p]) /\ Alike(Tables[v][p], q)})
                /\ \A row \in Range(Tables[v]) :
                    AllFit(row) /\ Equal(row, q) /\ Known(q) = DOMAIN q =>
                        Cardinality({n \in DOMAIN answer : Shows(answer[n], row)})
                            >= Cardinality({p \in DOMAIN Tables[v] : Tables[v][p] = row})

\* A temporary file left by a run that died or failed is never published: a
\* file that appears is of the run that publishes it.
NoLeftover ==
    [][\A f \in IndexFields :
        /\ idx'[f] # idx[f] => idx'[f] \in {made, Partial}
        /\ dat'[f] # dat[f] => dat'[f] \in {made, Partial}]_vars
=============================================================================
