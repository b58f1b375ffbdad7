---------------------------- MODULE ServiceProofs ----------------------------
(***************************************************************************)
(* What the files of Service hold: no published file is cut short, none is *)
(* a leftover of an earlier run, and a server that was started after a     *)
(* whole run works on one version of the table.                            *)
(***************************************************************************)
EXTENDS Service, TextProofs

-----------------------------------------------------------------------------
(* The inductive invariant *)

Contents == Versions \union {None, Partial}

\* What every variable may hold, and where the two programs may be.
Types ==
    /\ faults \in SUBSET FaultKinds
    /\ input \in Versions
    /\ idx \in [IndexFields -> Contents] /\ dat \in [IndexFields -> Contents]
    /\ tmpIdx \in [IndexFields -> Contents] /\ tmpDat \in [IndexFields -> Contents]
    /\ ipc \in {"idle", "openIdx", "writeIdx", "openDat", "writeDat", "renameIdx", "renameDat"}
    /\ made \in Versions \union {None} /\ (ipc = "idle" <=> made = None)
    /\ m \in 1 .. Len(IndexSeq)
    /\ spc \in {"down", "loading", "up"}
    /\ li \in 1 .. Len(IndexSeq)
    /\ loaded \in [IndexFields -> Contents]
    /\ complete \in BOOLEAN /\ settled \in BOOLEAN

\* What a file that was opened and written in this run may hold.
Written(content) ==
    content \in {made, Partial} /\ ("disk" \notin faults => content = made)

\* A temporary file is renamed by the run that opened and wrote it.
Temporary ==
    /\ ipc = "writeIdx" => tmpIdx[IndexSeq[m]] = Partial
    /\ ipc \in {"openDat", "writeDat", "renameIdx"} => Written(tmpIdx[IndexSeq[m]])
    /\ ipc = "writeDat" => tmpDat[IndexSeq[m]] = Partial
    /\ ipc \in {"renameIdx", "renameDat"} => Written(tmpDat[IndexSeq[m]])

\* The files a run has published are still there, and a complete run has
\* published them all.
Published ==
    faults \intersect {"disk", "rename"} = {} =>
        /\ ipc # "idle" => \A n \in 1 .. m - 1 :
                idx[IndexSeq[n]] = made /\ dat[IndexSeq[n]] = made
        /\ ipc = "renameDat" => idx[IndexSeq[m]] = made
        /\ complete => \E v \in Versions : \A f \in IndexFields : idx[f] = v /\ dat[f] = v

\* Until the indexer runs again, what a server has loaded is what is there.
Loaded ==
    /\ complete => ipc = "idle"
    /\ settled => complete
    /\ settled /\ spc = "loading" => \A n \in 1 .. li - 1 : loaded[IndexSeq[n]] = idx[IndexSeq[n]]
    /\ settled /\ spc = "up" => \A f \in IndexFields : loaded[f] = idx[f]

ServiceInv == Types /\ Temporary /\ WholeFiles /\ Published /\ Loaded

\* A server started after an indexer run that reached its end, with none since
\* and without a write or rename that failed unnoticed, answers from the .idx
\* and .dat files of one version of the table.
ServesOneVersion ==
    faults \intersect {"disk", "rename"} = {} /\ settled /\ spc = "up" =>
        \E v \in Versions : \A f \in IndexFields : loaded[f] = v /\ dat[f] = v
USE DEF fileVars, indexerVars, serverVars

-----------------------------------------------------------------------------
(* Constants *)

\* What the assumption says of the indexes and the versions.
LEMMA Indexes ==
    /\ Len(IndexSeq) \in Nat \ {0}
    /\ \A n \in 1 .. Len(IndexSeq) : IndexSeq[n] \in IndexFields
    /\ \A f \in IndexFields : \E n \in 1 .. Len(IndexSeq) : f = IndexSeq[n]
    /\ Len(Tables) \in Nat \ {0} /\ 1 \in Versions
    /\ None \notin Versions /\ Partial \notin Versions /\ None # Partial
    /\ \A n \in Versions : n \in Nat
<1>1. IndexSeq \in Seq(Fields) /\ IndexSeq # <<>>
  BY ServiceAssumption
<1>2. Tables \in Seq(Seq([Fields -> Texts])) /\ Tables # <<>>
  BY ServiceAssumption
<1>3. Len(IndexSeq) \in Nat \ {0} /\ DOMAIN IndexSeq = 1 .. Len(IndexSeq)
  BY <1>1
<1>4. Len(Tables) \in Nat \ {0}
  BY <1>2
<1>5. /\ \A n \in 1 .. Len(IndexSeq) : IndexSeq[n] \in IndexFields
      /\ \A f \in IndexFields : \E n \in 1 .. Len(IndexSeq) : f = IndexSeq[n]
  BY <1>3 DEF IndexFields, Range
<1>6. 1 \in Versions /\ \A n \in Versions : n \in Nat
  BY <1>4 DEF Versions
<1>7. None \notin Nat /\ Partial \notin Nat /\ None # Partial
  BY ServiceAssumption
<1> QED
  BY <1>3, <1>4, <1>5, <1>6, <1>7

-----------------------------------------------------------------------------
(* The steps *)

\* There are no files to start with.
LEMMA InitService == Init => ServiceInv
<1> SUFFICES ASSUME Init PROVE ServiceInv
  OBVIOUS
<1>1. Types
  <2>1. faults \in SUBSET FaultKinds
    BY ServiceAssumption DEF Init
  <2>2. 1 \in 1 .. Len(IndexSeq) /\ None \in Contents
    BY Indexes DEF Contents
  <2> QED
    BY <2>1, <2>2, Indexes DEF Init, Types
<1>2. Temporary /\ Published /\ Loaded
  BY DEF Init, Temporary, Published, Loaded
<1>3. WholeFiles
  BY Indexes DEF Init, WholeFiles
<1> QED
  BY <1>1, <1>2, <1>3 DEF ServiceInv

\* Every step keeps the types.
LEMMA TypesStep == Types /\ [Next]_vars => Types'
<1> SUFFICES ASSUME Types, [Next]_vars PROVE Types'
  OBVIOUS
<1>1. /\ 1 \in 1 .. Len(IndexSeq) /\ None \in Contents /\ Partial \in Contents
      /\ \A v \in Versions : v \in Contents /\ v # None
      /\ IndexSeq[m] \in IndexFields /\ IndexSeq[li] \in IndexFields
      /\ Len(IndexSeq) \in Nat
  BY Indexes DEF Contents, Types
<1>2. CASE ReplaceInput
  <2>1. input + 1 \in Versions
    BY <1>2, Indexes DEF ReplaceInput, Types, Versions
  <2> QED
    BY <1>2, <2>1 DEF ReplaceInput, Types
<1>3. CASE StartIndexer
  BY <1>1, <1>3 DEF StartIndexer, Types
<1>4. CASE OpenIdx \/ OpenDat
  BY <1>1, <1>4 DEF OpenIdx, OpenDat, Exit, Types
<1>5. CASE WriteIdx \/ WriteDat
  <2>1. made \in Contents
    BY <1>1 DEF Types
  <2> QED
    BY <1>1, <1>5, <2>1 DEF WriteIdx, WriteDat, Types
<1>6. CASE RenameIdx
  BY <1>1, <1>6 DEF RenameIdx, Types
<1>7. CASE RenameDat
  <2>1. m' \in 1 .. Len(IndexSeq)
    BY <1>1, <1>7 DEF RenameDat, Exit, Types
  <2> QED
    BY <1>1, <1>7, <2>1 DEF RenameDat, Exit, Types
<1>8. CASE CrashIndexer
  BY <1>1, <1>8 DEF CrashIndexer, Exit, Types
<1>9. CASE StartServer \/ StopServer
  BY <1>1, <1>9 DEF StartServer, StopServer, Types
<1>10. CASE LoadIndex
  <2>1. li' \in 1 .. Len(IndexSeq)
    BY <1>1, <1>10 DEF LoadIndex, Types
  <2>2. loaded' \in [IndexFields -> Contents]
    BY <1>1, <1>10 DEF LoadIndex, Types
  <2> QED
    BY <1>1, <1>10, <2>1, <2>2 DEF LoadIndex, Types
<1>11. CASE UNCHANGED vars
  BY <1>11 DEF vars, Types
<1> QED
  BY <1>2, <1>3, <1>4, <1>5, <1>6, <1>7, <1>8, <1>9, <1>10, <1>11 DEF Next

\* Steps that are not the indexer's.
Outside == UNCHANGED <<faults, fileVars, indexerVars, complete>>

\* Whoever does not write leaves the files, and the run, alone.
LEMMA OutsideSteps ==
    ASSUME [Next]_vars
    PROVE  \/ Outside
           \/ StartIndexer \/ OpenIdx \/ WriteIdx \/ OpenDat \/ WriteDat
           \/ RenameIdx \/ RenameDat \/ CrashIndexer
BY DEF Next, Outside, ReplaceInput, StartServer, StopServer, LoadIndex, vars

\* A temporary file that is open or written is this run's.
LEMMA TemporaryStep == Types /\ Temporary /\ [Next]_vars => Temporary'
<1> SUFFICES ASSUME Types, Temporary, [Next]_vars PROVE Temporary'
  OBVIOUS
<1>1. IndexSeq[m] \in IndexFields
  BY Indexes DEF Types
<1>2. CASE Outside
  BY <1>2 DEF Outside, Temporary, Written
<1>3. CASE StartIndexer \/ CrashIndexer
  BY <1>3 DEF StartIndexer, CrashIndexer, Exit, Temporary
<1>4. CASE OpenIdx
  BY <1>1, <1>4 DEF OpenIdx, Exit, Temporary, Types
<1>5. CASE WriteIdx
  BY <1>1, <1>5 DEF WriteIdx, Temporary, Types, Written
<1>6. CASE OpenDat
  BY <1>1, <1>6 DEF OpenDat, Exit, Temporary, Types, Written
<1>7. CASE WriteDat
  BY <1>1, <1>7 DEF WriteDat, Temporary, Types, Written
<1>8. CASE RenameIdx
  BY <1>1, <1>8 DEF RenameIdx, Temporary, Types, Written
<1>9. CASE RenameDat
  BY <1>1, <1>9 DEF RenameDat, Exit, Temporary
<1> QED
  BY <1>2, <1>3, <1>4, <1>5, <1>6, <1>7, <1>8, <1>9, OutsideSteps

\* Only a written file takes the name of a published one.
LEMMA PublishSteps ==
    ASSUME Types, Temporary, [Next]_vars, NEW f \in IndexFields
    PROVE  /\ idx'[f] # idx[f] => Written(idx'[f])
           /\ dat'[f] # dat[f] => Written(dat'[f])
<1>1. CASE UNCHANGED <<idx, dat>>
  BY <1>1
<1>2. CASE RenameIdx
  BY <1>2 DEF RenameIdx, Temporary, Types
<1>3. CASE RenameDat
  BY <1>3 DEF RenameDat, Temporary, Types
<1>4. CASE StartIndexer \/ OpenIdx \/ WriteIdx \/ OpenDat \/ WriteDat \/ CrashIndexer \/ Outside
  BY <1>1, <1>4 DEF StartIndexer, OpenIdx, WriteIdx, OpenDat, WriteDat, CrashIndexer, Outside
<1> QED
  BY <1>2, <1>3, <1>4, OutsideSteps

\* A server loads published files.
LEMMA LoadSteps ==
    ASSUME Types, [Next]_vars, NEW f \in IndexFields
    PROVE  loaded'[f] \in {loaded[f], idx[f], None}
<1>1. CASE LoadIndex
  BY <1>1, Indexes DEF LoadIndex, Types
<1>2. CASE StopServer
  BY <1>2 DEF StopServer
<1>3. CASE loaded' = loaded
  BY <1>3
<1> QED
  BY <1>1, <1>2, <1>3
     DEF Next, ReplaceInput, StartIndexer, CrashIndexer, OpenIdx, WriteIdx, OpenDat, WriteDat,
         RenameIdx, RenameDat, StartServer, vars

\* What was whole stays whole, and what comes is.
LEMMA WholeStep == Types /\ Temporary /\ WholeFiles /\ [Next]_vars => WholeFiles'
<1> SUFFICES ASSUME Types, Temporary, WholeFiles, [Next]_vars, "disk" \notin faults',
                    NEW f \in IndexFields
             PROVE  Partial \notin {idx'[f], dat'[f], loaded'[f]}
  BY DEF WholeFiles
<1>1. faults' = faults
  BY DEF Next, ReplaceInput, StartIndexer, CrashIndexer, OpenIdx, WriteIdx, OpenDat, WriteDat,
         RenameIdx, RenameDat, StartServer, StopServer, LoadIndex, vars
<1>2. Partial \notin {idx[f], dat[f], loaded[f]}
  BY <1>1 DEF WholeFiles
<1>3. made # Partial /\ None # Partial
  BY Indexes DEF Types
<1> QED
  BY <1>1, <1>2, <1>3, PublishSteps, LoadSteps DEF Written

\* A run leaves what it has published, and when it is over everything is.
LEMMA PublishedStep == Types /\ Temporary /\ Published /\ Loaded /\ [Next]_vars => Published'
<1> SUFFICES ASSUME Types, Temporary, Published, Loaded, [Next]_vars,
                    (faults \intersect {"disk", "rename"})' = {}
             PROVE  /\ ipc' # "idle" => \A n \in 1 .. m' - 1 :
                            idx'[IndexSeq[n]] = made' /\ dat'[IndexSeq[n]] = made'
                    /\ ipc' = "renameDat" => idx'[IndexSeq[m']] = made'
                    /\ complete' => \E v \in Versions :
                            \A f \in IndexFields : idx'[f] = v /\ dat'[f] = v
  BY DEF Published
<1>1. faults' = faults
  BY DEF Next, ReplaceInput, StartIndexer, CrashIndexer, OpenIdx, WriteIdx, OpenDat, WriteDat,
         RenameIdx, RenameDat, StartServer, StopServer, LoadIndex, vars
<1>2. "disk" \notin faults /\ "rename" \notin faults
  BY <1>1
<1>3. /\ ipc # "idle" => \A n \in 1 .. m - 1 : idx[IndexSeq[n]] = made /\ dat[IndexSeq[n]] = made
      /\ ipc = "renameDat" => idx[IndexSeq[m]] = made
      /\ complete => \E v \in Versions : \A f \in IndexFields : idx[f] = v /\ dat[f] = v
  BY <1>1 DEF Published
<1>4. /\ m \in 1 .. Len(IndexSeq) /\ Len(IndexSeq) \in Nat
      /\ \A n \in 1 .. Len(IndexSeq) : IndexSeq[n] \in IndexFields
      /\ \A f \in IndexFields : \E n \in 1 .. Len(IndexSeq) : f = IndexSeq[n]
  BY Indexes DEF Types
<1>5. ipc # "idle" => ~complete
  BY DEF Loaded
<1>6. CASE Outside
  BY <1>3, <1>6 DEF Outside
<1>7. CASE StartIndexer
  BY <1>7 DEF StartIndexer
<1>8. CASE OpenIdx \/ OpenDat
  BY <1>3, <1>5, <1>8 DEF OpenIdx, OpenDat, Exit
<1>9. CASE WriteIdx \/ WriteDat
  BY <1>3, <1>5, <1>9 DEF WriteIdx, WriteDat
<1>10. CASE CrashIndexer
  BY <1>5, <1>10 DEF CrashIndexer, Exit
<1>11. CASE RenameIdx
  <2>1. /\ ipc = "renameIdx" /\ ipc' = "renameDat" /\ m' = m /\ made' = made
        /\ dat' = dat /\ complete' = complete
        /\ idx' = [idx EXCEPT ![IndexSeq[m]] = tmpIdx[IndexSeq[m]]]
    BY <1>2, <1>11 DEF RenameIdx
  <2>2. tmpIdx[IndexSeq[m]] = made
    BY <1>2, <2>1 DEF Temporary, Written
  <2>3. \A f \in IndexFields : idx'[f] = IF f = IndexSeq[m] THEN made ELSE idx[f]
    BY <2>1, <2>2 DEF Types
  <2>4. \A n \in 1 .. m - 1 : n \in 1 .. Len(IndexSeq)
    BY <1>4
  <2> QED
    BY <1>3, <1>4, <1>5, <2>1, <2>3, <2>4
<1>12. CASE RenameDat
  <2>1. /\ ipc = "renameDat" /\ idx' = idx
        /\ dat' = [dat EXCEPT ![IndexSeq[m]] = tmpDat[IndexSeq[m]]]
    BY <1>2, <1>12 DEF RenameDat
  <2>2. tmpDat[IndexSeq[m]] = made
    BY <1>2, <2>1 DEF Temporary, Written
  <2>3. \A f \in IndexFields : dat'[f] = IF f = IndexSeq[m] THEN made ELSE dat[f]
    BY <2>1, <2>2 DEF Types
  <2>4. \A n \in 1 .. m : n \in 1 .. Len(IndexSeq)
    BY <1>4
  <2>5. \A n \in 1 .. m : idx'[IndexSeq[n]] = made /\ dat'[IndexSeq[n]] = made
    BY <1>3, <1>4, <2>1, <2>3, <2>4
  <2>6. CASE m < Len(IndexSeq) /\ m' = m + 1 /\ ipc' = "openIdx" /\ UNCHANGED <<made, complete>>
    BY <1>4, <1>5, <2>1, <2>5, <2>6
  <2>7. CASE m = Len(IndexSeq) /\ Exit /\ complete' = TRUE
    <3>1. made \in Versions
      BY <2>1 DEF Types
    <3>2. \A f \in IndexFields : idx'[f] = made /\ dat'[f] = made
      BY <1>4, <2>5, <2>7
    <3> QED
      BY <2>7, <3>1, <3>2 DEF Exit
  <2> QED
    BY <1>12, <2>6, <2>7 DEF RenameDat
<1> QED
  BY <1>6, <1>7, <1>8, <1>9, <1>10, <1>11, <1>12, OutsideSteps

\* As long as no indexer has run, what a server loads is what the files are.
LEMMA LoadedStep == Types /\ Loaded /\ [Next]_vars => Loaded'
<1> SUFFICES ASSUME Types, Loaded, [Next]_vars PROVE Loaded'
  OBVIOUS
<1>1. /\ li \in 1 .. Len(IndexSeq) /\ Len(IndexSeq) \in Nat
      /\ \A n \in 1 .. Len(IndexSeq) : IndexSeq[n] \in IndexFields
      /\ \A f \in IndexFields : \E n \in 1 .. Len(IndexSeq) : f = IndexSeq[n]
  BY Indexes DEF Types
<1>2. CASE UNCHANGED vars \/ ReplaceInput
  BY <1>2 DEF ReplaceInput, Loaded, vars
<1>3. CASE StartIndexer
  BY <1>3 DEF StartIndexer, Loaded
<1>4. CASE OpenIdx \/ WriteIdx \/ OpenDat \/ WriteDat \/ RenameIdx \/ RenameDat \/ CrashIndexer
  <2>1. ~complete /\ ~settled /\ settled' = settled
    BY <1>4 DEF Loaded, OpenIdx, WriteIdx, OpenDat, WriteDat, RenameIdx, RenameDat, CrashIndexer
  <2>2. complete' => ipc' = "idle"
    BY <1>4, <2>1
       DEF OpenIdx, WriteIdx, OpenDat, WriteDat, RenameIdx, RenameDat, CrashIndexer, Exit
  <2> QED
    BY <2>1, <2>2 DEF Loaded
<1>5. CASE StartServer
  BY <1>5 DEF StartServer, Loaded
<1>6. CASE StopServer
  BY <1>6 DEF StopServer, Loaded
<1>7. CASE LoadIndex
  <2>1. UNCHANGED <<settled, complete, ipc, idx>> /\ spc = "loading"
    BY <1>7 DEF LoadIndex
  <2>2. CASE /\ loaded' = [loaded EXCEPT ![IndexSeq[li]] = idx[IndexSeq[li]]]
             /\ \/ li < Len(IndexSeq) /\ li' = li + 1 /\ UNCHANGED spc
                \/ li = Len(IndexSeq) /\ li' = 1 /\ spc' = "up"
    <3>1. \A f \in IndexFields : loaded'[f] = IF f = IndexSeq[li] THEN idx[f] ELSE loaded[f]
      BY <2>2 DEF Types
    <3>2. \A n \in 1 .. li : n \in 1 .. Len(IndexSeq)
      BY <1>1
    <3>3. settled => \A n \in 1 .. li : loaded'[IndexSeq[n]] = idx[IndexSeq[n]]
      BY <1>1, <2>1, <3>1, <3>2 DEF Loaded
    <3>4. CASE li < Len(IndexSeq) /\ li' = li + 1 /\ UNCHANGED spc
      BY <1>1, <2>1, <3>3, <3>4 DEF Loaded
    <3>5. CASE li = Len(IndexSeq) /\ li' = 1 /\ spc' = "up"
      BY <1>1, <2>1, <3>3, <3>5 DEF Loaded
    <3> QED
      BY <2>2, <3>4, <3>5
  <2>3. CASE spc' = "down"
    BY <2>1, <2>3 DEF Loaded
  <2> QED
    BY <1>7, <2>2, <2>3 DEF LoadIndex
<1> QED
  BY <1>2, <1>3, <1>4, <1>5, <1>6, <1>7 DEF Next

-----------------------------------------------------------------------------
(* Numbers and texts *)

Row == [Fields -> Texts]

\* What the assumption says of tables and texts.
LEMMA TablesAreRows ==
    ASSUME NEW v \in Versions
    PROVE  /\ Tables[v] \in Seq(Row) /\ Len(Tables[v]) \in Nat
           /\ \A p \in 1 .. Len(Tables[v]) : Tables[v][p] \in Row
<1>1. Tables \in Seq(Seq(Row))
  BY ServiceAssumption DEF Row
<1>2. Tables[v] \in Seq(Row)
  BY <1>1 DEF Versions
<1> QED
  BY <1>2

\* A text stands for a number.
LEMMA TextIsNumber ==
    ASSUME NEW t \in Texts
    PROVE  t \in Seq(Symbols) /\ Len(t) \in 1 .. MaxLength /\ Extracted(t) \in Int
<1>1. t \in Seq(Symbols) /\ Len(t) <= MaxLength /\ t # <<>> /\ MaxLength \in Nat
  BY ServiceAssumption
<1>2. Len(t) \in 1 .. MaxLength /\ Tail(t) \in Seq(Symbols)
  BY <1>1
<1>3. Atoi(t) \in Nat /\ Atoi(Tail(t)) \in Nat
  BY <1>1, <1>2, AtoiType
<1> QED
  BY <1>1, <1>2, <1>3 DEF Extracted

\* A number the type can hold is not cut.
LEMMA CutFits == ASSUME NEW last \in Nat, NEW n \in 0 .. last PROVE Cut(n, last) = n
<1>1. Min({n, last}) = n
  <2>1. \E x \in {n, last} : \A y \in {n, last} : x =< y
    OBVIOUS
  <2>2. Min({n, last}) \in {n, last} /\ \A y \in {n, last} : Min({n, last}) =< y
    BY <2>1 DEF Min
  <2> QED
    BY <2>2
<1>2. Max({-(last + 1), n}) = n
  <2>1. \E x \in {-(last + 1), n} : \A y \in {-(last + 1), n} : x >= y
    OBVIOUS
  <2>2. /\ Max({-(last + 1), n}) \in {-(last + 1), n}
        /\ \A y \in {-(last + 1), n} : Max({-(last + 1), n}) >= y
    BY <2>1 DEF Max
  <2> QED
    BY <2>2
<1> QED
  BY <1>1, <1>2 DEF Cut

\* It is stored as it is.
LEMMA StoredFits == ASSUME NEW t \in Texts, Fits(t) PROVE Stored[t] = Extracted(t)
<1>1. MaxInt \in Nat /\ Extracted(t) \in 0 .. MaxInt
  BY ServiceAssumption DEF Fits
<1>2. Cut(Extracted(t), MaxInt) = Extracted(t)
  BY <1>1, CutFits
<1>3. Stored[t] = Bits(Cut(Extracted(t), MaxInt))
  BY DEF Stored
<1> QED
  BY <1>1, <1>2, <1>3 DEF Bits

\* A number from 0 that finds it is the same one.
LEMMA AskedIsStored ==
    ASSUME NEW s \in Texts, NEW t \in Texts, Fits(s)
    PROVE  /\ Extracted(t) >= 0 /\ Stored[s] = Asked[t] => Extracted(s) = Extracted(t)
           /\ Stored[s] = Asked[s]
<1>1. MaxInt \in Nat /\ Extracted(s) \in 0 .. MaxInt /\ MaxUInt = 2 * MaxInt + 1
  BY ServiceAssumption DEF Fits, MaxUInt
<1>2. Stored[s] = Extracted(s) /\ Extracted(t) \in Int
  BY StoredFits, TextIsNumber
<1>3. \A x \in Texts : Asked[x] = IF Extracted(x) \in -MaxUInt .. MaxUInt THEN Bits(Extracted(x)) ELSE MaxUInt
  BY DEF Asked
<1>4. Asked[s] = Extracted(s)
  <2>1. Asked[s] = IF Extracted(s) \in -MaxUInt .. MaxUInt THEN Bits(Extracted(s)) ELSE MaxUInt
    BY <1>3
  <2>2. Extracted(s) \in -MaxUInt .. MaxUInt /\ ~ (Extracted(s) < 0)
    BY <1>1
  <2> QED
    BY <2>1, <2>2 DEF Bits
<1>5. ASSUME Extracted(t) >= 0, Stored[s] = Asked[t] PROVE Extracted(s) = Extracted(t)
  <2>1. Asked[t] = IF Extracted(t) \in -MaxUInt .. MaxUInt THEN Bits(Extracted(t)) ELSE MaxUInt
    BY <1>3
  <2>2. Bits(Extracted(t)) = Extracted(t)
    BY <1>2, <1>5 DEF Bits
  <2> QED
    BY <1>1, <1>2, <1>5, <2>1, <2>2
<1> QED
  BY <1>2, <1>4, <1>5

\* A string that is stored is read back up to the NULs behind it.
LEMMA StoredText == ASSUME NEW t \in Texts PROVE CString(Padded(t)) = t
<1> DEFINE N == MaxLength
           L == Len(t)
           S == Symbols \union {NUL}
           all == Padded(t)
           kept == Range(all) \ {NUL}
           First(k) == SubSeq(all, 1, k)
<1>1. /\ N \in Nat /\ L \in 1 .. N /\ t \in Seq(Symbols) /\ NUL \notin Symbols
      /\ \A k \in 1 .. L : t[k] \in Symbols
  BY TextIsNumber, ServiceAssumption
<1>2. /\ all \in Seq(S) /\ Len(all) = N /\ \A k \in 1 .. L : all[k] = t[k]
      /\ \A k \in L + 1 .. N : all[k] = NUL
  <2> DEFINE nuls == [i \in 1 .. N - L |-> NUL]
  <2>1. nuls \in Seq(S) /\ Len(nuls) = N - L /\ t \in Seq(S) /\ all = t \o nuls
    <3>1. N - L \in Nat /\ nuls \in Seq(S) /\ Len(nuls) = N - L
      BY <1>1
    <3>2. t = [k \in 1 .. L |-> t[k]] /\ L \in Nat /\ \A k \in 1 .. L : t[k] \in S
      BY <1>1
    <3>3. t \in Seq(S)
      <4> HIDE DEF L, S
      <4> QED
        BY <3>2, IsSequence
    <3> QED
      BY <3>1, <3>3 DEF Padded
  <2>2. \A k \in 1 .. N - L : nuls[k] = NUL
    OBVIOUS
  <2> HIDE DEF nuls, all, S
  <2>3. /\ all \in Seq(S) /\ Len(all) = L + (N - L)
        /\ \A k \in 1 .. L : all[k] = t[k]
        /\ \A k \in 1 .. N - L : all[L + k] = nuls[k]
    BY <2>1, BehindAt
  <2>4. ASSUME NEW k \in L + 1 .. N PROVE all[k] = NUL
    <3>1. k - L \in 1 .. N - L /\ k = L + (k - L)
      BY <1>1
    <3> QED
      BY <2>2, <2>3, <3>1
  <2> QED
    BY <1>1, <2>3, <2>4
<1> DEFINE got(k) == Only(First(k), kept)
           want(k) == IF k <= L THEN SubSeq(t, 1, k) ELSE t
<1>3. /\ got(0) = <<>> /\ got(N) = Only(all, kept)
      /\ \A k \in 1 .. N : got(k) = IF all[k] \in kept THEN Append(got(k - 1), all[k]) ELSE got(k - 1)
  <2> HIDE DEF all, S, kept
  <2>1. First(0) = <<>> /\ First(N) = all
    BY <1>1, <1>2
  <2>2. ASSUME NEW k \in 1 .. N
        PROVE  First(k - 1) \in Seq(S) /\ all[k] \in S /\ First(k) = Append(First(k - 1), all[k])
    BY <1>2, FirstElements
  <2> HIDE DEF First
  <2>3. ASSUME NEW k \in 1 .. N
        PROVE  got(k) = IF all[k] \in kept THEN Append(got(k - 1), all[k]) ELSE got(k - 1)
    <3>1. \A q \in Seq(S) : \A x \in S :
            Only(Append(q, x), kept) = IF x \in kept THEN Append(Only(q, kept), x) ELSE Only(q, kept)
      BY OnlyAppend
    <3> QED
      BY <2>2, <3>1
  <2> QED
    BY <2>1, <2>3, OnlyEmpty
<1>4. /\ want(0) = <<>> /\ want(N) = t
      /\ \A k \in 1 .. L : want(k) = Append(want(k - 1), t[k])
      /\ \A k \in L + 1 .. N : want(k) = want(k - 1)
  <2>1. SubSeq(t, 1, 0) = <<>> /\ SubSeq(t, 1, L) = t
    BY <1>1
  <2>2. ASSUME NEW k \in 1 .. L PROVE want(k) = Append(want(k - 1), t[k])
    <3>1. SubSeq(t, 1, k) = Append(SubSeq(t, 1, k - 1), t[k])
      BY <1>1, FirstElements
    <3>2. k <= L /\ k - 1 <= L
      BY <1>1
    <3> QED
      BY <3>1, <3>2
  <2>3. ASSUME NEW k \in L + 1 .. N PROVE want(k) = want(k - 1)
    <3>1. ~ (k <= L) /\ (k - 1 = L \/ ~ (k - 1 <= L))
      BY <1>1
    <3>2. k - 1 = L => want(k - 1) = t
      BY <1>1, <2>1
    <3>3. ~ (k - 1 <= L) => want(k - 1) = t
      OBVIOUS
    <3>4. want(k) = t
      BY <3>1
    <3> HIDE DEF want
    <3> QED
      BY <3>1, <3>2, <3>3, <3>4
  <2>4. 0 <= L /\ (N = L \/ ~ (N <= L))
    BY <1>1
  <2>5. want(N) = t /\ want(0) = <<>>
    BY <2>1, <2>4
  <2> QED
    BY <2>2, <2>3, <2>5
<1> DEFINE Held == {k \in 0 .. N : got(k) = want(k)}
<1>5. ASSUME NEW k \in 1 .. N PROVE IF k <= L THEN all[k] \in kept /\ all[k] = t[k] ELSE all[k] \notin kept
  <2> HIDE DEF all, S
  <2>1. all[k] \in Range(all)
    BY <1>2 DEF Range
  <2> QED
    BY <1>1, <1>2, <2>1
<1> HIDE DEF got, want, all, kept, L
<1>6. 0 \in Held
  BY <1>1, <1>3, <1>4
<1>7. ASSUME NEW k \in 1 .. N, k - 1 \in Held PROVE k \in Held
  <2>1. got(k - 1) = want(k - 1) /\ (k \in 1 .. L \/ k \in L + 1 .. N)
    BY <1>1, <1>7
  <2>2. CASE k \in 1 .. L
    <3>1. all[k] \in kept /\ all[k] = t[k]
      BY <1>1, <1>5, <2>2
    <3>2. got(k) = Append(got(k - 1), all[k]) /\ want(k) = Append(want(k - 1), t[k])
      BY <1>3, <1>4, <2>2, <3>1
    <3> QED
      BY <2>1, <3>1, <3>2
  <2>3. CASE k \in L + 1 .. N
    <3>1. all[k] \notin kept
      BY <1>1, <1>5, <2>3
    <3>2. got(k) = got(k - 1) /\ want(k) = want(k - 1)
      BY <1>3, <1>4, <2>3, <3>1
    <3> QED
      BY <2>1, <3>2
  <2> QED
    BY <2>1, <2>2, <2>3
<1>8. Only(all, kept) = t
  <2>1. N \in Held
    <3> HIDE DEF Held
    <3> QED
      BY <1>1, <1>6, <1>7, UpTo
  <2> QED
    BY <1>3, <1>4, <2>1
<1> QED
  BY <1>8 DEF CString, all, kept

-----------------------------------------------------------------------------
(* The files *)

\* Of a row of the table, what is asked for and what has it.
With(v, f, t) == {row \in Range(Tables[v]) : row[f] = t}

\* The rows of a key are those of the table, each once.
LEMMA RowsAreTheTables ==
    ASSUME NEW v \in Versions, NEW f \in Fields, NEW t
    PROVE  /\ Rows(v, f, t) \in Seq(Row) /\ Len(Rows(v, f, t)) \in Nat
           /\ \A p \in 1 .. Len(Rows(v, f, t)) : Rows(v, f, t)[p] \in Row /\ Rows(v, f, t)[p][f] = t
           /\ \A row \in Range(Tables[v]) : row[f] = t => Len(Rows(v, f, t)) # 0
           /\ Len(Rows(v, f, t)) # 0 => t \in {Tables[v][p][f] : p \in DOMAIN Tables[v]}
           /\ \E at : PlacesOf(at, Tables[v], With(v, f, t), Rows(v, f, t), Len(Tables[v]))
<1> DEFINE kept == With(v, f, t)
           rows == Rows(v, f, t)
           table == Tables[v]
<1>1. table \in Seq(Row) /\ Len(table) \in Nat
  BY TablesAreRows
<1>2. rows = Only(table, kept)
  BY DEF Rows, With
<1> HIDE DEF rows, table
<1>3. rows \in Seq(Row) /\ Len(rows) \in Nat
  <2>1. Only(table, kept) \in Seq(Row)
    <3> HIDE DEF kept
    <3> QED
      BY <1>1, OnlyType
  <2>2. \A q \in Seq(Row) : Len(q) \in Nat
    OBVIOUS
  <2> QED
    BY <1>2, <2>1, <2>2
<1>4. PICK at : PlacesOf(at, table, kept, rows, Len(table))
  BY <1>1, <1>2, OnlyPlaces
<1>5. /\ \A k \in 1 .. Len(rows) : at[k] \in 1 .. Len(table) /\ rows[k] = table[at[k]] /\ table[at[k]] \in kept
      /\ \A p \in 1 .. Len(table) : table[p] \in kept => \E k \in 1 .. Len(rows) : at[k] = p
  BY <1>4 DEF PlacesOf
<1>6. \A row : row \in kept <=> row \in Range(table) /\ row[f] = t
  BY DEF With, table
<1>7. DOMAIN table = 1 .. Len(table) /\ Range(table) = {table[p] : p \in 1 .. Len(table)}
  BY <1>1 DEF Range
<1> HIDE DEF kept
<1>8. \A p \in 1 .. Len(rows) : rows[p] \in Row /\ rows[p][f] = t
  BY <1>3, <1>5, <1>6
<1>9. \A row \in Range(table) : row[f] = t => Len(rows) # 0
  <2> SUFFICES ASSUME NEW row \in Range(table), row[f] = t PROVE Len(rows) # 0
    OBVIOUS
  <2>1. PICK p \in 1 .. Len(table) : row = table[p]
    BY <1>7
  <2>2. PICK k \in 1 .. Len(rows) : at[k] = p
    BY <1>5, <1>6, <2>1
  <2> QED
    BY <1>3, <2>2
<1>10. Len(rows) # 0 => t \in {table[p][f] : p \in DOMAIN table}
  <2> SUFFICES ASSUME Len(rows) # 0 PROVE t \in {table[p][f] : p \in DOMAIN table}
    OBVIOUS
  <2>1. 1 \in 1 .. Len(rows)
    BY <1>3
  <2>2. at[1] \in DOMAIN table /\ table[at[1]][f] = t
    BY <1>5, <1>7, <1>8, <2>1
  <2> QED
    BY <2>2
<1> QED
  BY <1>3, <1>4, <1>8, <1>9, <1>10 DEF rows, table, kept

\* The keys of a field, in the order of the index, each at one place.
LEMMA KeysInOrder ==
    ASSUME NEW v \in Versions, NEW f \in Fields
    PROVE  \E K \in Nat :
                /\ DOMAIN KeyOrder(v, f) = 1 .. K
                /\ \A i, j \in 1 .. K : KeyOrder(v, f)[i] = KeyOrder(v, f)[j] => i = j
                /\ \A p \in DOMAIN Tables[v] : \E i \in 1 .. K : KeyOrder(v, f)[i] = Tables[v][p][f]
<1> DEFINE table == Tables[v]
           keys == {table[p][f] : p \in DOMAIN table}
           key == [p \in DOMAIN table |-> table[p][f]]
<1>1. table \in Seq(Row) /\ Len(table) \in Nat /\ DOMAIN table = 1 .. Len(table)
  BY TablesAreRows
<1>2. IsFiniteSet(keys)
  <2>1. IsFiniteSet(DOMAIN table)
    BY <1>1, FS_Interval
  <2>2. key \in Surjection(DOMAIN table, keys)
    BY DEF Surjection
  <2> HIDE DEF key, keys, table
  <2> QED
    BY <2>1, <2>2, FS_Surjection
<1>3. \A p \in DOMAIN table : table[p][f] \in keys
  OBVIOUS
<1>4. KeyOrder(v, f) = SetToSeq(keys)
  BY DEF KeyOrder
<1> HIDE DEF keys, table
<1>5. /\ Cardinality(keys) \in Nat /\ SetToSeq(keys) \in [1 .. Cardinality(keys) -> keys]
      /\ \A i, j \in 1 .. Cardinality(keys) : SetToSeq(keys)[i] = SetToSeq(keys)[j] => i = j
      /\ \A x \in keys : \E i \in 1 .. Cardinality(keys) : SetToSeq(keys)[i] = x
  BY <1>2, Enumerated
<1> QED
  BY <1>3, <1>4, <1>5 DEF table

\* The place the .idx file gives for a key is where the .dat file has its rows.
LEMMA DatHasRows ==
    ASSUME NEW v \in Versions, NEW f \in Fields, NEW t, Length(v, f, t) # 0,
           NEW p \in 1 .. Length(v, f, t)
    PROVE  /\ Start(v, f, t) + p <= Len(Dat(v, f))
           /\ Dat(v, f)[Start(v, f, t) + p] = Rows(v, f, t)[p]
<1> DEFINE order == KeyOrder(v, f)
           blocks == [i \in DOMAIN order |-> Rows(v, f, order[i])]
           all == Dat(v, f)
           L == Len(Rows(v, f, t))
           places == {o \in DOMAIN all : all[o][f] = t}
<1>1. PICK K \in Nat :
            /\ DOMAIN order = 1 .. K
            /\ \A i, j \in 1 .. K : order[i] = order[j] => i = j
            /\ \A o \in DOMAIN Tables[v] : \E i \in 1 .. K : order[i] = Tables[v][o][f]
  BY KeysInOrder
<1>2. L \in Nat \ {0} /\ p \in 1 .. L /\ t \in {Tables[v][o][f] : o \in DOMAIN Tables[v]}
  BY RowsAreTheTables DEF Length
<1>3. PICK j \in 1 .. K : order[j] = t
  BY <1>1, <1>2
<1>4. /\ blocks = [i \in 1 .. K |-> blocks[i]]
      /\ \A i \in 1 .. K : blocks[i] = Rows(v, f, order[i])
  BY <1>1
<1>5. FlattenSeq(blocks) = all
  BY DEF Dat
<1> HIDE DEF blocks, order, all
<1>6. \A i \in 1 .. K : blocks[i] \in Seq(Row) /\ \A o \in 1 .. Len(blocks[i]) : blocks[i][o][f] = order[i]
  <2> SUFFICES ASSUME NEW i \in 1 .. K
               PROVE  /\ blocks[i] \in Seq(Row)
                      /\ \A o \in 1 .. Len(blocks[i]) : blocks[i][o][f] = order[i]
    OBVIOUS
  <2>1. blocks[i] = Rows(v, f, order[i])
    BY <1>4
  <2> QED
    BY <2>1, RowsAreTheTables
<1>7. all \in Seq(Row) /\ \E before : BlockAt(all, blocks, K, j, before)
  BY <1>4, <1>5, <1>6, FlattenBlocks
<1>8. PICK before : BlockAt(all, blocks, K, j, before)
  BY <1>7
<1>9. /\ before \in Nat /\ before + L <= Len(all) /\ Len(all) \in Nat
      /\ \A o \in 1 .. L : all[before + o] = Rows(v, f, t)[o]
      /\ \A x \in 1 .. Len(all) : x \in before + 1 .. before + L
                                    \/ \E i \in 1 .. K : i # j /\ all[x] \in Range(blocks[i])
  <2>1. blocks[j] = Rows(v, f, t)
    BY <1>3, <1>4
  <2> QED
    BY <1>7, <1>8, <2>1 DEF BlockAt
<1>10. \A x : x \in places <=> x \in before + 1 .. before + L
  <2>1. ASSUME NEW x \in before + 1 .. before + L PROVE x \in DOMAIN all /\ all[x][f] = t
    <3>1. x - before \in 1 .. L /\ x = before + (x - before) /\ x \in 1 .. Len(all)
      BY <1>2, <1>9
    <3>2. all[x] = Rows(v, f, t)[x - before]
      BY <1>9, <3>1
    <3>3. Rows(v, f, t)[x - before][f] = t
      BY <3>1, RowsAreTheTables
    <3> QED
      BY <1>7, <3>1, <3>2, <3>3
  <2>2. ASSUME NEW x \in DOMAIN all, all[x][f] = t PROVE x \in before + 1 .. before + L
    <3>1. x \in 1 .. Len(all)
      BY <1>7
    <3>2. ASSUME NEW i \in 1 .. K, i # j, all[x] \in Range(blocks[i]) PROVE FALSE
      <4>1. PICK o \in 1 .. Len(blocks[i]) : all[x] = blocks[i][o]
        BY <1>6, <3>2 DEF Range
      <4>2. order[i] = order[j]
        BY <1>3, <1>6, <2>2, <4>1
      <4> QED
        BY <1>1, <3>2, <4>2
    <3> QED
      BY <1>9, <3>1, <3>2
  <2> QED
    BY <2>1, <2>2
<1>11. Start(v, f, t) = before
  <2> DEFINE first == CHOOSE o \in places : \A r \in places : o <= r
  <2>1. Start(v, f, t) = first - 1
    BY DEF Start, all
  <2> HIDE DEF places, L
  <2>2. before + 1 \in places /\ \A r \in places : before + 1 <= r
    <3>1. before + 1 \in before + 1 .. before + L /\ \A r \in before + 1 .. before + L : before + 1 <= r
      BY <1>2, <1>9
    <3> QED
      BY <1>10, <3>1
  <2>3. first \in places /\ \A r \in places : first <= r
    BY <2>2
  <2>4. first = before + 1
    <3> HIDE DEF first
    <3>1. first <= before + 1 /\ before + 1 <= first /\ first \in before + 1 .. before + L
      BY <1>10, <2>2, <2>3
    <3> QED
      BY <1>2, <1>9, <3>1
  <2> HIDE DEF first
  <2> QED
    BY <1>9, <2>1, <2>4
<1> QED
  BY <1>2, <1>9, <1>11 DEF all

-----------------------------------------------------------------------------
(* The answers *)

\* The server and the .dat files are of version v.
OnVersion(v) == \A f \in IndexFields : loaded[f] = v /\ dat[f] = v

\* What is read for a key are the records of its rows.
LEMMA FetchedAreRows ==
    ASSUME NEW v \in Versions, OnVersion(v), NEW f \in IndexFields, NEW t, Length(v, f, t) # 0
    PROVE  Fetched(f, t) = [p \in 1 .. Len(Rows(v, f, t)) |-> Record(Rows(v, f, t)[p])]
<1>1. loaded[f] = v /\ dat[f] = v /\ f \in Fields
  <2>1. IndexSeq \in Seq(Fields)
    BY ServiceAssumption
  <2> QED
    BY <2>1 DEF OnVersion, IndexFields, Range
<1>2. \A p \in 1 .. Length(v, f, t) : /\ Start(v, f, t) + p <= Len(Dat(v, f))
                                      /\ Dat(v, f)[Start(v, f, t) + p] = Rows(v, f, t)[p]
  BY <1>1, DatHasRows
<1>3. Fetched(f, t) = [p \in 1 .. Length(v, f, t) |->
            IF Start(v, f, t) + p <= Len(Dat(v, f)) THEN Record(Dat(v, f)[Start(v, f, t) + p]) ELSE ZeroRecord]
  BY <1>1 DEF Fetched
<1>4. Fetched(f, t) = [p \in 1 .. Length(v, f, t) |-> Record(Rows(v, f, t)[p])]
  BY <1>2, <1>3
<1> QED
  BY <1>4 DEF Length

\* The conditions of a query are of fields that exist, or of the unknown one.
LEMMA QueryTypes ==
    ASSUME NEW q \in Queries
    PROVE  /\ \A p \in DOMAIN q : q[p].name \in Fields \union {Unknown} /\ q[p].value \in Texts
           /\ OnIndex(q) \in SUBSET Nat /\ OnIndex(q) \subseteq DOMAIN q
           /\ \A p \in OnIndex(q) : q[p].name \in IndexFields /\ q[p].name \in Fields
           /\ \A p \in Known(q) : p \in DOMAIN q /\ q[p].name \in Fields
<1>1. PICK k \in 1 .. 2 : q \in [1 .. k -> [name : Fields \union {Unknown}, value : Texts]]
  BY DEF Queries
<1>2. IndexFields \subseteq Fields
  <2>1. IndexSeq \in Seq(Fields)
    BY ServiceAssumption
  <2> QED
    BY <2>1 DEF IndexFields, Range
<1>3. \A p \in DOMAIN q : p \in Nat /\ q[p].name \in Fields \union {Unknown} /\ q[p].value \in Texts
  BY <1>1
<1> QED
  BY <1>2, <1>3 DEF OnIndex, Known

\* There is a best index.
LEMMA BestIsOne ==
    ASSUME NEW v \in Versions, OnVersion(v), NEW q \in Queries, OnIndex(q) # {}
    PROVE  Best(q) \in OnIndex(q) /\ \A p \in OnIndex(q) : Hits(p, q) = Length(v, q[p].name, q[p].value)
<1>1. \A p \in OnIndex(q) : Hits(p, q) = Length(v, q[p].name, q[p].value)
  BY QueryTypes DEF Hits, OnVersion
<1>2. \A p \in OnIndex(q) : Hits(p, q) \in Nat
  <2> SUFFICES ASSUME NEW p \in OnIndex(q) PROVE Hits(p, q) \in Nat
    OBVIOUS
  <2>1. q[p].name \in Fields
    BY QueryTypes
  <2> QED
    BY <1>1, <2>1, RowsAreTheTables DEF Length
<1> DEFINE counts == {Hits(p, q) : p \in OnIndex(q)}
<1>3. PICK c \in counts : \A d \in counts : c <= d
  <2>1. counts \in SUBSET Nat /\ counts # {}
    BY <1>2
  <2> HIDE DEF counts
  <2> QED
    BY <2>1, Least
<1> DEFINE fewest == {p \in OnIndex(q) : Hits(p, q) = c}
<1>4. PICK b \in fewest : \A o \in fewest : b <= o
  <2>1. fewest \in SUBSET Nat
    BY QueryTypes
  <2>2. fewest # {}
    BY <1>3
  <2> HIDE DEF fewest
  <2> QED
    BY <2>1, <2>2, Least
<1>5. \A o \in OnIndex(q) : Hits(b, q) < Hits(o, q) \/ (Hits(b, q) = Hits(o, q) /\ b <= o)
  <2> SUFFICES ASSUME NEW o \in OnIndex(q), ~ (Hits(b, q) < Hits(o, q))
               PROVE  Hits(b, q) = Hits(o, q) /\ b <= o
    OBVIOUS
  <2>1. b \in OnIndex(q) /\ Hits(b, q) = c /\ c <= Hits(o, q)
    BY <1>3, <1>4
  <2> DEFINE x == Hits(b, q)
             y == Hits(o, q)
  <2>2. x \in Nat /\ y \in Nat /\ x <= y /\ ~ (x < y)
    BY <1>2, <2>1
  <2>3. x = y
    <3> HIDE DEF x, y
    <3> QED
      BY <2>2
  <2>4. o \in fewest
    BY <2>1, <2>3
  <2> QED
    BY <1>4, <2>3, <2>4
<1>6. b \in OnIndex(q)
  BY <1>4
<1>7. Best(q) \in OnIndex(q)
  BY <1>5, <1>6, Zenon DEF Best
<1> QED
  BY <1>1, <1>7

\* What is told of a record is what its row has.
LEMMA ResponseShows == ASSUME NEW row \in Row PROVE Shows(Response(Record(row)), row)
<1> SUFFICES ASSUME NEW f \in Fields
             PROVE  IF f \in IntFields
                    THEN Fits(row[f]) => Response(Record(row))[f] = ToString(Extracted(row[f]))
                    ELSE CString(Response(Record(row))[f]) = row[f]
  BY DEF Shows
<1>1. row[f] \in Texts
  BY DEF Row
<1>2. Record(row)[f] = IF f \in IntFields THEN Stored[row[f]] ELSE Padded(row[f])
  BY DEF Record
<1>3. Response(Record(row))[f] = IF f \in IntFields THEN ToString(Record(row)[f]) ELSE Record(row)[f]
  BY DEF Response
<1>4. CASE f \in IntFields
  <2>1. Response(Record(row))[f] = ToString(Stored[row[f]])
    BY <1>2, <1>3, <1>4
  <2>2. Fits(row[f]) => Stored[row[f]] = Extracted(row[f])
    BY <1>1, StoredFits
  <2> QED
    BY <1>4, <2>1, <2>2
<1>5. CASE f \notin IntFields
  BY <1>1, <1>2, <1>3, <1>5, StoredText
<1> QED
  BY <1>4, <1>5

\* What valid_raw_record says of a record, in terms of its row.
LEMMA SameOfRow ==
    ASSUME NEW row \in Row, NEW f \in Fields, NEW t \in Texts
    PROVE  /\ Same(f, Record(row)[f], t) =>
                IF f \in IntFields
                THEN Fits(row[f]) /\ Extracted(t) >= 0 => Extracted(row[f]) = Extracted(t)
                ELSE IsPrefix(row[f], t)
           /\ row[f] = t /\ (f \in IntFields => Fits(row[f])) => Same(f, Record(row)[f], t)
<1>1. row[f] \in Texts
  BY DEF Row
<1>2. Record(row)[f] = IF f \in IntFields THEN Stored[row[f]] ELSE Padded(row[f])
  BY DEF Record
<1>3. CASE f \in IntFields
  <2>1. Same(f, Record(row)[f], t) <=> Stored[row[f]] = Asked[t]
    BY <1>2, <1>3 DEF Same
  <2> QED
    BY <1>1, <1>3, <2>1, AskedIsStored
<1>4. CASE f \notin IntFields
  <2>1. Same(f, Record(row)[f], t) <=> IsPrefix(CString(Padded(row[f])), t)
    BY <1>2, <1>4 DEF Same
  <2>2. CString(Padded(row[f])) = row[f]
    BY <1>1, StoredText
  <2>3. IsPrefix(t, t)
    BY TextIsNumber DEF IsPrefix
  <2> QED
    BY <1>4, <2>1, <2>2, <2>3
<1> QED
  BY <1>3, <1>4

\* An answer is made of rows of the table that are alike, each once, and of all
\* that equal the query.
Finds(g, L, answer, table, q) ==
    /\ L \in Nat /\ g \in [1 .. L -> 1 .. Len(table)] /\ DOMAIN answer = 1 .. L
    /\ \A i, j \in 1 .. L : g[i] = g[j] => i = j
    /\ \A i \in 1 .. L : answer[i] = Response(Record(table[g[i]])) /\ Alike(table[g[i]], q)
    /\ Known(q) = DOMAIN q =>
            \A p \in 1 .. Len(table) : AllFit(table[p]) /\ Equal(table[p], q) =>
                \E i \in 1 .. L : g[i] = p

\* A key that does not occur: no row equals the query.
LEMMA NothingFinds ==
    ASSUME NEW v \in Versions, OnVersion(v), NEW q \in Queries, NEW luck,
           NEW p \in OnIndex(q), Hits(p, q) = 0
    PROVE  Finds(<<>>, 0, Answer(q, luck), Tables[v], q)
<1>1. Answer(q, luck) = <<>>
  BY DEF Answer
<1>2. /\ p \in DOMAIN q /\ p \in Known(q) => q[p].name \in Fields
      /\ q[p].name \in Fields /\ Len(Rows(v, q[p].name, q[p].value)) = 0
  <2>1. Hits(p, q) = Length(v, q[p].name, q[p].value)
    BY BestIsOne
  <2> QED
    BY <2>1, QueryTypes DEF Length
<1>3. p \in Known(q)
  <2>1. q[p].name # Unknown /\ p \in DOMAIN q
    BY <1>2, ServiceAssumption, QueryTypes
  <2> QED
    BY <2>1 DEF Known
<1>4. \A row \in Range(Tables[v]) : row[q[p].name] # q[p].value
  BY <1>2, RowsAreTheTables
<1>5. \A o \in 1 .. Len(Tables[v]) : ~ Equal(Tables[v][o], q)
  <2> SUFFICES ASSUME NEW o \in 1 .. Len(Tables[v]), Equal(Tables[v][o], q) PROVE FALSE
    OBVIOUS
  <2>1. Tables[v][o] \in Range(Tables[v])
    BY TablesAreRows DEF Range
  <2>2. Tables[v][o][q[p].name] = q[p].value
    BY <1>3 DEF Equal
  <2> QED
    BY <1>4, <2>1, <2>2
<1>6. <<>> \in [1 .. 0 -> 1 .. Len(Tables[v])] /\ DOMAIN <<>> = 1 .. 0 /\ 1 .. 0 = {}
  OBVIOUS
<1> QED
  BY <1>1, <1>5, <1>6 DEF Finds

\* A record that is not thrown away is of a row that is alike, and that of a row
\* that equals the query is not.
LEMMA ValidIsAlike ==
    ASSUME NEW row \in Row, NEW q \in Queries, NEW luck, NEW records, NEW p, records[p] = Record(row)
    PROVE  /\ Valid(records, p, q, luck) => Alike(row, q)
           /\ Known(q) = DOMAIN q /\ AllFit(row) /\ Equal(row, q) => Valid(records, p, q, luck)
<1>1. ASSUME Valid(records, p, q, luck) PROVE Alike(row, q)
  <2> SUFFICES ASSUME NEW o \in Known(q)
               PROVE  IF q[o].name \in IntFields
                      THEN Fits(row[q[o].name]) /\ Extracted(q[o].value) >= 0 =>
                                Extracted(row[q[o].name]) = Extracted(q[o].value)
                      ELSE IsPrefix(row[q[o].name], q[o].value)
    BY Zenon DEF Alike
  <2>1. o \in DOMAIN q /\ q[o].name # Unknown /\ q[o].name \in Fields /\ q[o].value \in Texts
    BY QueryTypes DEF Known
  <2>2. Same(q[o].name, records[p][q[o].name], q[o].value)
    BY <1>1, <2>1 DEF Valid
  <2> QED
    BY <2>1, <2>2, SameOfRow
<1>2. ASSUME Known(q) = DOMAIN q, AllFit(row), Equal(row, q) PROVE Valid(records, p, q, luck)
  <2> SUFFICES ASSUME NEW o \in DOMAIN q
               PROVE  q[o].name # Unknown /\ Same(q[o].name, records[p][q[o].name], q[o].value)
    BY DEF Valid
  <2>1. o \in Known(q) /\ q[o].name # Unknown /\ q[o].name \in Fields /\ q[o].value \in Texts
    BY <1>2, QueryTypes DEF Known
  <2>2. row[q[o].name] = q[o].value
    BY <1>2, <2>1 DEF Equal
  <2>3. q[o].name \in IntFields => Fits(row[q[o].name])
    BY <1>2 DEF AllFit
  <2> QED
    BY <2>1, <2>2, <2>3, SameOfRow
<1> QED
  BY <1>1, <1>2

\* The records of the best index that are valid: the rows behind them.
LEMMA SomethingFinds ==
    ASSUME NEW v \in Versions, OnVersion(v), NEW q \in Queries, NEW luck, OnIndex(q) # {},
           \A p \in OnIndex(q) : Hits(p, q) # 0
    PROVE  \E g, L : Finds(g, L, Answer(q, luck), Tables[v], q)
<1> DEFINE b == Best(q)
           f == q[b].name
           t == q[b].value
           table == Tables[v]
           rows == Rows(v, f, t)
           N == Len(rows)
           records == Fetched(f, t)
           kept == {p \in DOMAIN records : Valid(records, p, q, luck)}
           valid == Only([p \in DOMAIN records |-> p], kept)
           L == Len(valid)
           answer == Answer(q, luck)
<1>1. /\ b \in OnIndex(q) /\ b \in DOMAIN q /\ f \in IndexFields /\ f \in Fields /\ t \in Texts
      /\ Length(v, f, t) # 0
  <2>1. b \in OnIndex(q) /\ Hits(b, q) = Length(v, f, t)
    BY BestIsOne
  <2> HIDE DEF b
  <2> QED
    BY <2>1, QueryTypes
<1>2. dat[f] # None
  BY <1>1, Indexes DEF OnVersion
<1>3. answer = [i \in DOMAIN valid |-> Response(records[valid[i]])]
  <2>1. ~ (OnIndex(q) = {} \/ \E p \in OnIndex(q) : Hits(p, q) = 0)
    OBVIOUS
  <2> QED
    BY <1>2, <2>1 DEF Answer
<1> HIDE DEF b, answer
<1>4. records = [p \in 1 .. N |-> Record(rows[p])]
  BY <1>1, FetchedAreRows
<1>5. N \in Nat /\ \A p \in 1 .. N : rows[p] \in Row /\ rows[p][f] = t
  BY <1>1, RowsAreTheTables
<1>6. PICK at : PlacesOf(at, table, With(v, f, t), rows, Len(table))
  BY <1>1, RowsAreTheTables
<1>7. table \in Seq(Row) /\ Len(table) \in Nat /\ \A p \in 1 .. Len(table) : table[p] \in Row
  BY TablesAreRows
<1> HIDE DEF f, t, table, rows, records
<1>8. DOMAIN records = 1 .. N /\ \A p \in 1 .. N : records[p] = Record(rows[p])
  BY <1>4
<1> DEFINE numbers == [p \in 1 .. N |-> p]
<1>9. numbers \in Seq(Nat) /\ Len(numbers) = N /\ valid = Only(numbers, kept)
  BY <1>5, <1>8
<1>10. valid \in Seq(Nat) /\ \E pick : PlacesOf(pick, numbers, kept, valid, N)
  <2> HIDE DEF numbers, kept, valid
  <2> QED
    BY <1>9, OnlyType, OnlyPlaces
<1>11. PICK pick : PlacesOf(pick, numbers, kept, valid, N)
  BY <1>10
<1>12. L \in Nat /\ DOMAIN valid = 1 .. L
  <2> HIDE DEF valid
  <2> QED
    BY <1>10
<1>13. \A p : p \in kept <=> p \in 1 .. N /\ Valid(records, p, q, luck)
  BY <1>8
<1>14. \A p \in 1 .. N : numbers[p] = p
  OBVIOUS
<1> HIDE DEF numbers, kept, valid, L, N
<1>15. /\ pick \in [1 .. L -> 1 .. N]
       /\ \A i \in 1 .. L : valid[i] = numbers[pick[i]] /\ numbers[pick[i]] \in kept
       /\ \A i, j \in 1 .. L : pick[i] = pick[j] => i = j
       /\ \A p \in 1 .. N : numbers[p] \in kept => \E i \in 1 .. L : pick[i] = p
  BY <1>11 DEF PlacesOf, L
<1>16. /\ at \in [1 .. N -> 1 .. Len(table)]
       /\ \A k \in 1 .. N : rows[k] = table[at[k]]
       /\ \A k, l \in 1 .. N : at[k] = at[l] => k = l
       /\ \A p \in 1 .. Len(table) : table[p] \in With(v, f, t) => \E k \in 1 .. N : at[k] = p
  BY <1>6 DEF PlacesOf, N
<1> DEFINE g == [i \in 1 .. L |-> at[pick[i]]]
<1>17. g \in [1 .. L -> 1 .. Len(table)] /\ DOMAIN answer = 1 .. L
  BY <1>3, <1>12, <1>15, <1>16
<1>18. \A i, j \in 1 .. L : g[i] = g[j] => i = j
  BY <1>15, <1>16
<1>19. ASSUME NEW i \in 1 .. L PROVE answer[i] = Response(Record(table[g[i]])) /\ Alike(table[g[i]], q)
  <2>1. pick[i] \in 1 .. N /\ valid[i] = pick[i] /\ Valid(records, pick[i], q, luck)
    BY <1>13, <1>14, <1>15
  <2>2. records[pick[i]] = Record(table[g[i]]) /\ table[g[i]] \in Row
    BY <1>7, <1>8, <1>16, <1>17, <2>1
  <2>3. answer[i] = Response(records[valid[i]])
    BY <1>3, <1>12
  <2> HIDE DEF g
  <2>4. Alike(table[g[i]], q)
    BY <2>1, <2>2, ValidIsAlike
  <2> QED
    BY <2>1, <2>2, <2>3, <2>4
<1>20. ASSUME Known(q) = DOMAIN q, NEW p \in 1 .. Len(table), AllFit(table[p]), Equal(table[p], q)
       PROVE  \E i \in 1 .. L : g[i] = p
  <2>1. table[p] \in With(v, f, t)
    <3>1. table[p][f] = t
      BY <1>1, <1>20 DEF Equal, f, t
    <3>2. table[p] \in Range(table)
      BY <1>7 DEF Range
    <3> QED
      BY <3>1, <3>2 DEF With, table
  <2>2. PICK k \in 1 .. N : at[k] = p
    BY <1>16, <2>1
  <2>3. records[k] = Record(table[p]) /\ table[p] \in Row
    BY <1>7, <1>8, <1>16, <2>2
  <2>4. Valid(records, k, q, luck)
    BY <1>20, <2>3, ValidIsAlike
  <2>5. PICK i \in 1 .. L : pick[i] = k
    BY <1>13, <1>14, <1>15, <2>4
  <2> QED
    BY <2>2, <2>5
<1>21. Finds(g, L, answer, table, q)
  <2> HIDE DEF g
  <2> QED
    BY <1>12, <1>17, <1>18, <1>19, <1>20 DEF Finds
<1> QED
  BY <1>21 DEF answer, table

\* What the counts have to be.
AtMost(answer, v, q, response) ==
    Cardinality({i \in DOMAIN answer : answer[i] = response})
        <= Cardinality({p \in DOMAIN Tables[v] :
                Shows(response, Tables[v][p]) /\ Alike(Tables[v][p], q)})
AtLeast(answer, v, row) ==
    Cardinality({i \in DOMAIN answer : Shows(answer[i], row)})
        >= Cardinality({p \in DOMAIN Tables[v] : Tables[v][p] = row})

\* No answer is counted more often than there are rows it could be of.
LEMMA NoneTooOften ==
    ASSUME NEW v \in Versions, NEW q, NEW g, NEW L, NEW answer, Finds(g, L, answer, Tables[v], q),
           NEW response
    PROVE  AtMost(answer, v, q, response)
<1> DEFINE table == Tables[v]
           told == {i \in DOMAIN answer : answer[i] = response}
           there == {p \in DOMAIN table : Shows(response, table[p]) /\ Alike(table[p], q)}
           h == [i \in told |-> g[i]]
<1>1. /\ Len(table) \in Nat /\ DOMAIN table = 1 .. Len(table)
      /\ \A p \in 1 .. Len(table) : table[p] \in Row
  BY TablesAreRows
<1>2. /\ g \in [1 .. L -> 1 .. Len(table)] /\ DOMAIN answer = 1 .. L
      /\ \A i, j \in 1 .. L : g[i] = g[j] => i = j
      /\ \A i \in 1 .. L : answer[i] = Response(Record(table[g[i]])) /\ Alike(table[g[i]], q)
  BY DEF Finds
<1> HIDE DEF table
<1>3. ASSUME NEW i \in told PROVE g[i] \in there
  <2>1. i \in 1 .. L /\ answer[i] = response /\ g[i] \in DOMAIN table /\ table[g[i]] \in Row
    BY <1>1, <1>2
  <2>2. Shows(response, table[g[i]])
    BY <1>2, <2>1, ResponseShows
  <2> QED
    BY <1>2, <2>1, <2>2
<1>4. h \in Injection(told, there)
  <2>1. h \in [told -> there]
    BY <1>3
  <2>2. \A i, j \in told : h[i] = h[j] => i = j
    BY <1>2
  <2>3. DOMAIN h = told
    OBVIOUS
  <2> HIDE DEF h, told, there
  <2> QED
    BY <2>1, <2>2, <2>3 DEF Injection, IsInjective
<1>5. IsFiniteSet(there)
  <2>1. IsFiniteSet(DOMAIN table) /\ there \in SUBSET DOMAIN table
    BY <1>1, FS_Interval
  <2> HIDE DEF there
  <2> QED
    BY <2>1, FS_Subset
<1>6. Cardinality(told) <= Cardinality(there)
  <2> HIDE DEF h, told, there
  <2> QED
    BY <1>4, <1>5, FS_Injection
<1> QED
  BY <1>6 DEF AtMost, table

\* And no row that equals the query is told less often than it is there.
LEMMA NoneTooSeldom ==
    ASSUME NEW v \in Versions, NEW q, NEW g, NEW L, NEW answer, Finds(g, L, answer, Tables[v], q),
           NEW row, AllFit(row), Equal(row, q), Known(q) = DOMAIN q
    PROVE  AtLeast(answer, v, row)
<1> DEFINE table == Tables[v]
           told == {i \in DOMAIN answer : Shows(answer[i], row)}
           there == {p \in DOMAIN table : table[p] = row}
           h == [p \in there |-> CHOOSE i \in 1 .. L : g[i] = p]
<1>1. /\ Len(table) \in Nat /\ DOMAIN table = 1 .. Len(table)
      /\ \A p \in 1 .. Len(table) : table[p] \in Row
  BY TablesAreRows
<1>2. /\ L \in Nat /\ g \in [1 .. L -> 1 .. Len(table)] /\ DOMAIN answer = 1 .. L
      /\ \A i \in 1 .. L : answer[i] = Response(Record(table[g[i]]))
      /\ \A p \in 1 .. Len(table) : AllFit(table[p]) /\ Equal(table[p], q) => \E i \in 1 .. L : g[i] = p
  BY DEF Finds
<1> HIDE DEF table
<1>3. ASSUME NEW p \in there PROVE h[p] \in told /\ g[h[p]] = p
  <2>1. p \in 1 .. Len(table) /\ table[p] = row /\ row \in Row
    BY <1>1
  <2>2. \E i \in 1 .. L : g[i] = p
    BY <1>2, <2>1
  <2>3. h[p] = CHOOSE i \in 1 .. L : g[i] = p
    OBVIOUS
  <2> HIDE DEF h
  <2>4. h[p] \in 1 .. L /\ g[h[p]] = p
    BY <2>2, <2>3
  <2>5. Shows(answer[h[p]], row)
    BY <1>2, <2>1, <2>4, ResponseShows
  <2> QED
    BY <1>2, <2>4, <2>5
<1>4. h \in Injection(there, told)
  <2>1. DOMAIN h = there /\ h = [p \in there |-> h[p]]
    OBVIOUS
  <2> HIDE DEF h, told, there
  <2>2. h \in [there -> told]
    BY <1>3, <2>1
  <2>3. \A p, o \in there : h[p] = h[o] => p = o
    BY <1>3
  <2> QED
    BY <2>1, <2>2, <2>3 DEF Injection, IsInjective
<1>5. IsFiniteSet(told)
  <2>1. IsFiniteSet(DOMAIN answer) /\ told \in SUBSET DOMAIN answer
    BY <1>2, FS_Interval
  <2> HIDE DEF told
  <2> QED
    BY <2>1, FS_Subset
<1>6. Cardinality(there) <= Cardinality(told) /\ Cardinality(told) \in Nat /\ Cardinality(there) \in Nat
  <2> HIDE DEF h, told, there
  <2> QED
    BY <1>4, <1>5, FS_Injection, FS_CardinalityType
<1>7. Cardinality(told) >= Cardinality(there)
  <2> HIDE DEF told, there
  <2> QED
    BY <1>6
<1> QED
  BY <1>7 DEF AtLeast, table

-----------------------------------------------------------------------------
(* Theorems *)

\* Whatever the tables, the indexes and the faults: the files are what their
\* names promise, and the server holds what was published.
THEOREM ServiceInvariant == Spec => []ServiceInv
<1>1. Init => ServiceInv
  BY InitService
<1>2. ServiceInv /\ [Next]_vars => ServiceInv'
  BY TypesStep, TemporaryStep, WholeStep, PublishedStep, LoadedStep DEF ServiceInv
<1> QED
  BY <1>1, <1>2, PTL DEF Spec

\* Nobody who opens a published .idx or .dat file, and no running server, meets
\* a file cut short, however often the indexer was killed, unless the disk was
\* full: index.cpp writes under TMP_SUFFIX and renames.
THEOREM ServiceWholeFiles == Spec => []WholeFiles
<1>1. ServiceInv => WholeFiles
  BY DEF ServiceInv
<1> QED
  BY <1>1, ServiceInvariant, PTL

\* rename never publishes a temporary file that an earlier run left behind.
THEOREM ServiceNoLeftover == Spec => NoLeftover
<1> DEFINE Fresh == \A f \in IndexFields :
                        /\ idx'[f] # idx[f] => idx'[f] \in {made, Partial}
                        /\ dat'[f] # dat[f] => dat'[f] \in {made, Partial}
<1>1. ServiceInv /\ [Next]_vars => Fresh
  BY PublishSteps DEF ServiceInv, Written
<1>2. ServiceInv /\ [Next]_vars => [Fresh]_vars
  BY <1>1
<1> HIDE DEF Fresh
<1>3. Spec => [][Fresh]_vars
  BY <1>2, ServiceInvariant, PTL DEF Spec
<1> QED
  BY <1>3 DEF Fresh, NoLeftover

\* init_field_index at start-up and get_data at every query read files of one
\* and the same run of the indexer, as long as that run reached its end before
\* the server started and no other was begun.
THEOREM ServiceOneVersion == Spec => []ServesOneVersion
<1>1. ServiceInv => ServesOneVersion
  <2> SUFFICES ASSUME ServiceInv, faults \intersect {"disk", "rename"} = {}, settled, spc = "up"
               PROVE  \E v \in Versions : \A f \in IndexFields : loaded[f] = v /\ dat[f] = v
    BY DEF ServesOneVersion
  <2>1. complete /\ \A f \in IndexFields : loaded[f] = idx[f]
    BY DEF ServiceInv, Loaded
  <2>2. PICK v \in Versions : \A f \in IndexFields : idx[f] = v /\ dat[f] = v
    BY <2>1 DEF ServiceInv, Published
  <2> QED
    BY <2>1, <2>2
<1> QED
  BY <1>1, ServiceInvariant, PTL

\* What get_results and get_data answer.  A server that was started after an
\* indexer run that reached its end, with none since, returns from one version of
\* the table each row that equals the query as often as the table has it, and
\* others only if they are alike, none more often than it is there.
THEOREM ServiceAnswers == Spec => []AnswersRight
<1>1. ServesOneVersion => AnswersRight
  <2> SUFFICES ASSUME ServesOneVersion, faults \intersect {"disk", "rename"} = {}, settled, spc = "up"
               PROVE  \E v \in Versions : \A q \in Queries : \A luck \in BOOLEAN :
                        OnIndex(q) # {} =>
                            LET answer == Answer(q, luck) IN
                            /\ \A response \in Range(answer) :
                                Cardinality({i \in DOMAIN answer : answer[i] = response})
                                    <= Cardinality({p \in DOMAIN Tables[v] :
                                            Shows(response, Tables[v][p]) /\ Alike(Tables[v][p], q)})
                            /\ \A row \in Range(Tables[v]) :
                                AllFit(row) /\ Equal(row, q) /\ Known(q) = DOMAIN q =>
                                    Cardinality({i \in DOMAIN answer : Shows(answer[i], row)})
                                        >= Cardinality({p \in DOMAIN Tables[v] : Tables[v][p] = row})
    BY DEF AnswersRight
  <2>1. PICK v \in Versions : OnVersion(v)
    BY DEF ServesOneVersion, OnVersion
  <2>2. ASSUME NEW q \in Queries, NEW luck \in BOOLEAN, OnIndex(q) # {}
        PROVE  \E g, L : Finds(g, L, Answer(q, luck), Tables[v], q)
    <3>1. CASE \E p \in OnIndex(q) : Hits(p, q) = 0
      <4>1. Finds(<<>>, 0, Answer(q, luck), Tables[v], q)
        BY <2>1, <3>1, NothingFinds
      <4> QED
        BY <4>1
    <3>2. CASE \A p \in OnIndex(q) : Hits(p, q) # 0
      BY <2>1, <2>2, <3>2, SomethingFinds
    <3> QED
      BY <3>1, <3>2
  <2>3. ASSUME NEW q \in Queries, NEW luck \in BOOLEAN, OnIndex(q) # {}
        PROVE  LET answer == Answer(q, luck) IN
               /\ \A response \in Range(answer) :
                    Cardinality({i \in DOMAIN answer : answer[i] = response})
                        <= Cardinality({p \in DOMAIN Tables[v] :
                                Shows(response, Tables[v][p]) /\ Alike(Tables[v][p], q)})
               /\ \A row \in Range(Tables[v]) :
                    AllFit(row) /\ Equal(row, q) /\ Known(q) = DOMAIN q =>
                        Cardinality({i \in DOMAIN answer : Shows(answer[i], row)})
                            >= Cardinality({p \in DOMAIN Tables[v] : Tables[v][p] = row})
    <3> DEFINE answer == Answer(q, luck)
    <3>1. PICK g, L : Finds(g, L, answer, Tables[v], q)
      BY <2>2, <2>3
    <3> HIDE DEF answer
    <3>2. \A response : AtMost(answer, v, q, response)
      BY <2>1, <3>1, NoneTooOften
    <3>3. \A row : AllFit(row) /\ Equal(row, q) /\ Known(q) = DOMAIN q => AtLeast(answer, v, row)
      BY <2>1, <3>1, NoneTooSeldom
    <3> QED
      BY <3>2, <3>3, Zenon DEF AtMost, AtLeast, answer
  <2> QED
    BY <2>3, Zenon
<1> QED
  BY <1>1, ServiceOneVersion, PTL
=============================================================================
