-------------------------- MODULE IndexBuildProofs --------------------------
(***************************************************************************)
(* Theorems about IndexBuild, for every input, edit and digest: the        *)
(* builder stays in its arrays, and what it writes answers every key.      *)
(***************************************************************************)
EXTENDS IndexBuild, TextProofs

-----------------------------------------------------------------------------
(* The configuration *)

FieldSet ==
    [strName : Seq(Symbols), type : Seq(Symbols), max_length : Nat, index : Nat,
     is_index : BOOLEAN]

\* What parse_scheme leaves: fields with their numbers.
SchemeOk(scheme) ==
    /\ scheme.vFields \in Seq(FieldSet)
    /\ \A f \in 1 .. Len(scheme.vFields) : scheme.vFields[f].index = f - 1

\* The lines that count are texts, and so are the keys and values on them.
LEMMA PairsType ==
    ASSUME NEW S, NEW lines \in Seq(Seq(S)), NEW tok
    PROVE  Pairs(lines, tok) \in Seq(Seq(Seq(S)))
<1> DEFINE trimmed == [i \in DOMAIN lines |-> Trim(lines[i], Blanks)]
<1>1. trimmed \in Seq(Seq(S))
  <2>1. \A text \in Seq(S) : Trim(text, Blanks) \in Seq(S)
    BY OnlyType DEF Trim
  <2>2. Len(lines) \in Nat /\ DOMAIN lines = 1 .. Len(lines) /\ \A i \in DOMAIN lines : lines[i] \in Seq(S)
    OBVIOUS
  <2>3. trimmed = [i \in 1 .. Len(lines) |-> trimmed[i]] /\ \A i \in 1 .. Len(lines) : trimmed[i] \in Seq(S)
    BY <2>1, <2>2
  <2> HIDE DEF trimmed
  <2> QED
    BY <2>2, <2>3, IsSequence
<1>2. Content(lines) \in Seq(Seq(S))
  <2> HIDE DEF trimmed
  <2>1. \A kept : Only(trimmed, kept) \in Seq(Seq(S))
    BY <1>1, OnlyType
  <2> QED
    BY <2>1 DEF Content, trimmed
<1> DEFINE content == Content(lines)
           pairs == [i \in DOMAIN content |-> ParseString(content[i], {tok})]
<1> HIDE DEF content
<1>3. Len(content) \in Nat /\ DOMAIN content = 1 .. Len(content)
  BY <1>2 DEF content
<1>4. \A i \in 1 .. Len(content) : content[i] \in Seq(S)
  BY <1>2 DEF content
<1>5. \A text \in Seq(S) : ParseString(text, {tok}) \in Seq(Seq(S))
  BY ParseStringType
<1>6. /\ pairs = [i \in 1 .. Len(content) |-> pairs[i]]
      /\ \A i \in 1 .. Len(content) : pairs[i] \in Seq(Seq(S))
  BY <1>3, <1>4, <1>5
<1>7. Pairs(lines, tok) = pairs
  BY DEF Pairs, content
<1> HIDE DEF pairs
<1> QED
  BY <1>3, <1>6, <1>7, IsSequence

\* A value is a text.
LEMMA ValueType ==
    ASSUME NEW S, NEW pairs \in Seq(Seq(Seq(S))), WellFormed(pairs), NEW key,
           NEW otherwise \in Seq(S)
    PROVE  ValueOf(pairs, key, otherwise) \in Seq(S)
<1> DEFINE at == Mentions(pairs, key)
<1>1. CASE at = {}
  BY <1>1 DEF ValueOf
<1>2. CASE at # {}
  <2>1. Len(pairs) \in Nat /\ at \in SUBSET (1 .. Len(pairs))
    BY DEF Mentions
  <2>2. Min(at) \in at
    <3> HIDE DEF at
    <3> QED
      BY <1>2, <2>1, MinMax
  <2>3. Min(at) \in 1 .. Len(pairs)
    <3> HIDE DEF at
    <3> QED
      BY <2>1, <2>2
  <2>4. ValueOf(pairs, key, otherwise) = pairs[Min(at)][2]
    BY <1>2 DEF ValueOf
  <2>5. \A i \in 1 .. Len(pairs) : pairs[i][2] \in Seq(S)
    BY DEF WellFormed
  <2> QED
    BY <2>3, <2>4, <2>5
<1> QED
  BY <1>1, <1>2

\* The names of the tables are texts.
LEMMA NamesType ==
    ASSUME NEW S, NEW lines \in Seq(Seq(S)), WellFormed(Pairs(lines, "="))
    PROVE  TableNames(ParseConf(lines)) \in Seq(Seq(S))
<1>1. ValueOf(Pairs(lines, "="), "tables", <<>>) \in Seq(S)
  <2>1. Pairs(lines, "=") \in Seq(Seq(Seq(S))) /\ <<>> \in Seq(S)
    BY PairsType
  <2> QED
    BY <2>1, ValueType
<1>2. ParseConf(lines)["tables"] = ValueOf(Pairs(lines, "="), "tables", <<>>)
  BY DEF ParseConf, Keys
<1> QED
  BY <1>1, <1>2, ParseStringType DEF TableNames

\* A field that parses is one.
LEMMA FieldType ==
    ASSUME NEW text \in Seq(Symbols), GoodField(text), NEW number \in Nat, NEW idxtokens
    PROVE  /\ ReadField(text, number, idxtokens) \in FieldSet
           /\ ReadField(text, number, idxtokens).index = number
<1> DEFINE tokens == ParseString(text, {","})
<1>1. tokens \in Seq(Seq(Symbols)) /\ Len(tokens) >= 2
  BY ParseStringType DEF GoodField
<1> HIDE DEF tokens
<1>2. tokens[1] \in Seq(Symbols) /\ tokens[2] \in Seq(Symbols)
  BY <1>1
<1>3. Len(tokens) = 3 => Atoi(tokens[3]) \in Nat
  <2>1. \A q \in Seq(Symbols) : Atoi(q) \in Nat
    BY AtoiType
  <2>2. Len(tokens) = 3 => tokens[3] \in Seq(Symbols)
    <3>1. \A k \in 1 .. Len(tokens) : tokens[k] \in Seq(Symbols)
      BY <1>1
    <3>2. Len(tokens) = 3 => 3 \in 1 .. Len(tokens)
      OBVIOUS
    <3> QED
      BY <3>1, <3>2
  <2> QED
    BY <2>1, <2>2
<1>4. DefaultLength \in Nat
  BY ConfigAssumption
<1>5. (tokens[1] \in Range(idxtokens)) \in BOOLEAN
  OBVIOUS
<1> QED
  BY <1>2, <1>3, <1>4, <1>5 DEF ReadField, FieldSet, tokens

\* So a schema file that parses yields fields.
LEMMA SchemeType ==
    ASSUME NEW lines \in Seq(Seq(Symbols)), SchemeParses(lines)
    PROVE  SchemeOk(ParseScheme(lines))
<1> DEFINE pairs == Pairs(lines, ":")
           texts == FieldTexts(pairs)
           idxtokens == ParseString(IndexValue(pairs), {","})
<1>1. pairs \in Seq(Seq(Seq(Symbols))) /\ WellFormed(pairs)
  BY PairsType DEF SchemeParses
<1>2. texts \in Seq(Seq(Symbols))
  <2> HIDE DEF pairs
  <2>1. <<>> \in Seq(Symbols)
    OBVIOUS
  <2>2. ValueOf(pairs, "table_separator", <<>>) \in Seq(Symbols)
    BY <1>1, <2>1, ValueType
  <2>3. IndexValue(pairs) \in Seq(Symbols)
    BY <1>1, <2>2, ValueType DEF IndexValue
  <2>4. ValueOf(pairs, "table_fields", IndexValue(pairs)) \in Seq(Symbols)
    BY <1>1, <2>3, ValueType
  <2> QED
    BY <2>4, ParseStringType DEF FieldTexts
<1>3. \A i \in DOMAIN texts : GoodField(texts[i])
  BY DEF SchemeParses
<1>4. ParseScheme(lines).vFields = [i \in DOMAIN texts |-> ReadField(texts[i], i - 1, idxtokens)]
  BY DEF ParseScheme
<1> HIDE DEF texts, idxtokens
<1>5. \A i \in DOMAIN texts : /\ ReadField(texts[i], i - 1, idxtokens) \in FieldSet
                              /\ ReadField(texts[i], i - 1, idxtokens).index = i - 1
  <2> SUFFICES ASSUME NEW i \in DOMAIN texts
               PROVE  /\ ReadField(texts[i], i - 1, idxtokens) \in FieldSet
                      /\ ReadField(texts[i], i - 1, idxtokens).index = i - 1
    OBVIOUS
  <2>1. texts[i] \in Seq(Symbols) /\ i - 1 \in Nat /\ GoodField(texts[i])
    BY <1>2, <1>3
  <2> QED
    BY <2>1, FieldType
<1>6. Len(texts) \in Nat /\ DOMAIN texts = 1 .. Len(texts)
  BY <1>2
<1> HIDE DEF FieldSet
<1> DEFINE fields == [i \in 1 .. Len(texts) |-> ReadField(texts[i], i - 1, idxtokens)]
<1>7. fields \in Seq(FieldSet) /\ \A f \in 1 .. Len(fields) : fields[f].index = f - 1
  <2>1. /\ fields = [i \in 1 .. Len(texts) |-> fields[i]]
        /\ \A i \in 1 .. Len(texts) : fields[i] \in FieldSet /\ fields[i].index = i - 1
    BY <1>5, <1>6
  <2> HIDE DEF fields
  <2> QED
    BY <1>6, <2>1, IsSequence
<1>8. ParseScheme(lines).vFields = fields
  BY <1>4, <1>6
<1> QED
  BY <1>7, <1>8 DEF SchemeOk

-----------------------------------------------------------------------------
(* Sizes, and sums of counts *)

\* The space some fields take.
Space(s) == FoldLeft(LAMBDA m, field : m + Size(field), 0, s)

\* A field's size is a number.
LEMMA SizeType == ASSUME NEW field \in FieldSet PROVE Size(field) \in Nat
BY ConfigAssumption DEF Size, FieldSet

\* The space the first fields take.
SpaceSteps(f, s) ==
    /\ f[0] = 0 /\ Space(s) = f[Len(s)]
    /\ \A k \in 1 .. Len(s) : f[k] = f[k - 1] + Size(s[k])

\* There are such steps, and their values are of the type of the result.
LEMMA SpaceFold ==
    ASSUME NEW s \in Seq(FieldSet)
    PROVE  \E f : SpaceSteps(f, s) /\ \A k \in 0 .. Len(s) : f[k] \in Nat
<1> DEFINE N == Len(s)
           Values == Nat
           op(v, x) == v + Size(x)
           step == [p \in Values \X (1 .. N) |-> op(p[1], s[p[2]])]
           Recurrent(it) == it = [T \in SUBSET DOMAIN s |->
                IF T = {} THEN 0 ELSE op(it[T \ {Max(T)}], s[Max(T)])]
<1>1. N \in Nat /\ DOMAIN s = 1 .. N /\ 0 \in Values
  OBVIOUS
<1>2. ASSUME NEW v \in Values, NEW k \in 1 .. N PROVE op(v, s[k]) \in Values
  <2>1. s[k] \in FieldSet
    OBVIOUS
  <2> QED
    BY <2>1, SizeType
<1>3. Space(s) = (CHOOSE it : Recurrent(it))[1 .. N]
  BY <1>1 DEF Space, FoldLeft, MapThenFoldSet
<1> HIDE DEF N, Values, op
<1>4. \E it : Recurrent(it)
  <2>1. step \in [Values \X (1 .. N) -> Values]
    BY <1>2
  <2>2. PICK it \in [SUBSET (1 .. N) -> Values] : Recurs(it, N, 0, step)
    BY <1>1, <2>1, FoldExists
  <2>3. ASSUME NEW T \in SUBSET (1 .. N)
        PROVE  it[T] = IF T = {} THEN 0 ELSE op(it[T \ {Max(T)}], s[Max(T)])
    <3> DEFINE g == [U \in SUBSET (1 .. N) |->
                        IF U = {} THEN 0 ELSE step[<<it[U \ {Max(U)}], Max(U)>>]]
    <3>1. it = g
      BY <2>2 DEF Recurs
    <3>2. g[T] = IF T = {} THEN 0 ELSE step[<<it[T \ {Max(T)}], Max(T)>>]
      OBVIOUS
    <3>3. T # {} => <<it[T \ {Max(T)}], Max(T)>> \in Values \X (1 .. N)
      <4> SUFFICES ASSUME T # {} PROVE <<it[T \ {Max(T)}], Max(T)>> \in Values \X (1 .. N)
        OBVIOUS
      <4>1. Max(T) \in T
        BY <1>1, MinMax
      <4> QED
        BY <4>1
    <3> HIDE DEF g
    <3> QED
      BY <3>1, <3>2, <3>3
  <2>4. it = [T \in SUBSET DOMAIN s |-> it[T]]
    BY <1>1
  <2> HIDE DEF step
  <2>5. Recurrent(it)
    BY <1>1, <2>3, <2>4
  <2> QED
    BY <2>5
<1>5. PICK c : Recurrent(c) /\ Space(s) = c[1 .. N]
  <2> HIDE DEF Recurrent
  <2> QED
    BY <1>3, <1>4
<1> DEFINE f == [k \in 0 .. N |-> c[1 .. k]]
           g == [T \in SUBSET (1 .. N) |->
                    IF T = {} THEN 0 ELSE op(c[T \ {Max(T)}], s[Max(T)])]
<1>6. c = g
  BY <1>1, <1>5
<1>7. f[0] = 0
  <2>1. 1 .. 0 = {} /\ g[{}] = 0 /\ f[0] = c[1 .. 0]
    BY <1>1
  <2> HIDE DEF f, g
  <2> QED
    BY <1>6, <2>1
<1>8. ASSUME NEW k \in 1 .. N PROVE f[k] = op(f[k - 1], s[k])
  <2>0. k \in Nat \ {0} /\ k \in 1 .. k /\ 1 .. k \subseteq 1 .. N
    BY <1>1
  <2>1. 1 .. k \in SUBSET (1 .. N) /\ 1 .. k # {} /\ Max(1 .. k) = k /\ (1 .. k) \ {k} = 1 .. k - 1
    BY <2>0, LastOfAll
  <2>2. g[1 .. k] = op(c[1 .. k - 1], s[k])
    BY <2>1
  <2>3. f[k] = c[1 .. k] /\ f[k - 1] = c[1 .. k - 1]
    BY <1>1
  <2> HIDE DEF f, g
  <2> QED
    BY <1>6, <2>2, <2>3
<1>9. f[N] = c[1 .. N] /\ f = [k \in 0 .. N |-> f[k]]
  BY <1>1
<1> HIDE DEF f
<1>10. \A k \in 0 .. N : f[k] \in Values
  <2> DEFINE Held == {k \in 0 .. N : f[k] \in Values}
  <2>1. 0 \in Held
    BY <1>1, <1>7
  <2>2. \A k \in 1 .. N : k - 1 \in Held => k \in Held
    BY <1>1, <1>2, <1>8
  <2>3. \A k \in 0 .. N : k \in Held
    <3> HIDE DEF Held
    <3> QED
      BY <1>1, <2>1, <2>2, UpTo
  <2> QED
    BY <2>3
<1> QED
  BY <1>5, <1>7, <1>8, <1>9, <1>10 DEF N, Values, op, SpaceSteps

\* One more field takes its own.
LEMMA SpaceAppend ==
    ASSUME NEW s \in Seq(FieldSet), NEW x \in FieldSet
    PROVE  Space(Append(s, x)) = Space(s) + Size(x)
<1> DEFINE N == Len(s)
           more == Append(s, x)
<1>1. /\ N \in Nat /\ more \in Seq(FieldSet) /\ Len(more) = N + 1 /\ more[N + 1] = x
      /\ \A k \in 1 .. N : more[k] = s[k]
  BY AppendAt
<1> HIDE DEF more
<1>2. PICK f : SpaceSteps(f, s)
  BY SpaceFold
<1>3. PICK g : SpaceSteps(g, more)
  BY <1>1, SpaceFold
<1>4. /\ N \in Nat /\ f[0] = g[0]
      /\ \A k \in 1 .. N : f[k - 1] = g[k - 1] => f[k] = g[k]
  BY <1>1, <1>2, <1>3 DEF SpaceSteps
<1>5. f[N] = g[N]
  <2> HIDE DEF N
  <2> QED
    BY <1>4, SameSteps
<1>6. g[N + 1] = g[N] + Size(x)
  <2>1. N + 1 \in 1 .. N + 1 /\ (N + 1) - 1 = N
    BY <1>1
  <2> QED
    BY <1>1, <1>3, <2>1 DEF SpaceSteps
<1>7. Space(s) = f[N] /\ Space(more) = g[N + 1]
  BY <1>1, <1>2, <1>3 DEF SpaceSteps
<1> QED
  BY <1>5, <1>6, <1>7 DEF more

\* Space is a number.
LEMMA SpaceType == ASSUME NEW s \in Seq(FieldSet) PROVE Space(s) \in Nat
<1>1. PICK f : SpaceSteps(f, s) /\ \A k \in 0 .. Len(s) : f[k] \in Nat
  BY SpaceFold
<1>2. Len(s) \in Nat
  OBVIOUS
<1> QED
  BY <1>1, <1>2 DEF SpaceSteps

\* The fields follow one another without a gap, and the record holds them all.
LEMMA Offsets ==
    ASSUME NEW scheme, SchemeOk(scheme), NEW f \in 1 .. Len(scheme.vFields)
    PROVE  /\ Offset(scheme, f) \in Nat /\ Size(scheme.vFields[f]) \in Nat
           /\ Offset(scheme, f + 1) = Offset(scheme, f) + Size(scheme.vFields[f])
           /\ Offset(scheme, f + 1) <= RecSize(scheme) /\ RecSize(scheme) \in Nat
           /\ \A g \in 1 .. Len(scheme.vFields) :
                g # f => \/ Offset(scheme, g + 1) <= Offset(scheme, f)
                         \/ Offset(scheme, f + 1) <= Offset(scheme, g)
<1> DEFINE s == scheme.vFields
           N == Len(s)
           At(g) == Offset(scheme, g)
<1>1. s \in Seq(FieldSet) /\ N \in Nat /\ f \in 1 .. N
  BY DEF SchemeOk
<1>2. \A g : At(g) = Space(SubSeq(s, 1, g - 1))
  BY DEF Offset, Space
<1>3. ASSUME NEW g \in 1 .. N
      PROVE  At(g) \in Nat /\ Size(s[g]) \in Nat /\ At(g + 1) = At(g) + Size(s[g])
  <2> DEFINE before == SubSeq(s, 1, g - 1)
  <2>1. before \in Seq(FieldSet) /\ s[g] \in FieldSet /\ SubSeq(s, 1, g) = Append(before, s[g])
    BY <1>1, FirstElements
  <2>2. At(g) = Space(before) /\ At(g + 1) = Space(Append(before, s[g]))
    <3>1. (g + 1) - 1 = g
      OBVIOUS
    <3> HIDE DEF At
    <3> QED
      BY <1>2, <2>1, <3>1
  <2> HIDE DEF before, At
  <2> QED
    BY <2>1, <2>2, SpaceType, SpaceAppend, SizeType
<1>4. RecSize(scheme) = At(N + 1)
  BY DEF RecSize
<1> HIDE DEF s, At, N
<1> DEFINE at == [g \in 1 .. N + 1 |-> At(g)]
           size == [g \in 1 .. N |-> Size(s[g])]
<1>5. \A g \in 1 .. N : at[g] \in Nat /\ size[g] \in Nat /\ at[g + 1] = at[g] + size[g]
  <2>1. \A g \in 1 .. N : g + 1 \in 1 .. N + 1 /\ g \in 1 .. N + 1
    BY <1>1
  <2> QED
    BY <1>3, <2>1
<1>6. \A g \in 1 .. N + 1 : at[g] = At(g)
  OBVIOUS
<1> HIDE DEF at, size
<1>7. /\ at[f + 1] <= at[N + 1] /\ at[N + 1] \in Nat
      /\ \A g \in 1 .. N : g # f => at[g + 1] <= at[f] \/ at[f + 1] <= at[g]
  BY <1>1, <1>5, Layout
<1>8. /\ At(f + 1) <= At(N + 1) /\ At(N + 1) \in Nat
      /\ \A g \in 1 .. N : g # f => At(g + 1) <= At(f) \/ At(f + 1) <= At(g)
  <2>1. /\ f \in 1 .. N + 1 /\ f + 1 \in 1 .. N + 1 /\ N + 1 \in 1 .. N + 1
        /\ \A g \in 1 .. N : g \in 1 .. N + 1 /\ g + 1 \in 1 .. N + 1
    BY <1>1
  <2> QED
    BY <1>6, <1>7, <2>1
<1> QED
  BY <1>1, <1>3, <1>4, <1>8 DEF s, At, N

\* The lengths of some keys' entries together.
Total(map, s) == FoldLeft(LAMBDA sum, digest : sum + map[digest].length, 0, s)

\* What the first of them have.
TotalSteps(f, map, s) ==
    /\ f[0] = 0 /\ Total(map, s) = f[Len(s)]
    /\ \A k \in 1 .. Len(s) : f[k] = f[k - 1] + map[s[k]].length

\* There are such steps, and their values are of the type of the result.
LEMMA TotalFold ==
    ASSUME NEW K, NEW map, \A d \in K : map[d].length \in Nat, NEW s \in Seq(K)
    PROVE  \E f : TotalSteps(f, map, s) /\ \A k \in 0 .. Len(s) : f[k] \in Nat
<1> DEFINE N == Len(s)
           Values == Nat
           op(v, x) == v + map[x].length
           step == [p \in Values \X (1 .. N) |-> op(p[1], s[p[2]])]
           Recurrent(it) == it = [T \in SUBSET DOMAIN s |->
                IF T = {} THEN 0 ELSE op(it[T \ {Max(T)}], s[Max(T)])]
<1>1. N \in Nat /\ DOMAIN s = 1 .. N /\ 0 \in Values
  OBVIOUS
<1>2. ASSUME NEW v \in Values, NEW k \in 1 .. N PROVE op(v, s[k]) \in Values
  <2>1. s[k] \in K
    OBVIOUS
  <2> QED
    BY <2>1
<1>3. Total(map, s) = (CHOOSE it : Recurrent(it))[1 .. N]
  BY <1>1 DEF Total, FoldLeft, MapThenFoldSet
<1> HIDE DEF N, Values, op
<1>4. \E it : Recurrent(it)
  <2>1. step \in [Values \X (1 .. N) -> Values]
    BY <1>2
  <2>2. PICK it \in [SUBSET (1 .. N) -> Values] : Recurs(it, N, 0, step)
    BY <1>1, <2>1, FoldExists
  <2>3. ASSUME NEW T \in SUBSET (1 .. N)
        PROVE  it[T] = IF T = {} THEN 0 ELSE op(it[T \ {Max(T)}], s[Max(T)])
    <3> DEFINE g == [U \in SUBSET (1 .. N) |->
                        IF U = {} THEN 0 ELSE step[<<it[U \ {Max(U)}], Max(U)>>]]
    <3>1. it = g
      BY <2>2 DEF Recurs
    <3>2. g[T] = IF T = {} THEN 0 ELSE step[<<it[T \ {Max(T)}], Max(T)>>]
      OBVIOUS
    <3>3. T # {} => <<it[T \ {Max(T)}], Max(T)>> \in Values \X (1 .. N)
      <4> SUFFICES ASSUME T # {} PROVE <<it[T \ {Max(T)}], Max(T)>> \in Values \X (1 .. N)
        OBVIOUS
      <4>1. Max(T) \in T
        BY <1>1, MinMax
      <4> QED
        BY <4>1
    <3> HIDE DEF g
    <3> QED
      BY <3>1, <3>2, <3>3
  <2>4. it = [T \in SUBSET DOMAIN s |-> it[T]]
    BY <1>1
  <2> HIDE DEF step
  <2>5. Recurrent(it)
    BY <1>1, <2>3, <2>4
  <2> QED
    BY <2>5
<1>5. PICK c : Recurrent(c) /\ Total(map, s) = c[1 .. N]
  <2> HIDE DEF Recurrent
  <2> QED
    BY <1>3, <1>4
<1> DEFINE f == [k \in 0 .. N |-> c[1 .. k]]
           g == [T \in SUBSET (1 .. N) |->
                    IF T = {} THEN 0 ELSE op(c[T \ {Max(T)}], s[Max(T)])]
<1>6. c = g
  BY <1>1, <1>5
<1>7. f[0] = 0
  <2>1. 1 .. 0 = {} /\ g[{}] = 0 /\ f[0] = c[1 .. 0]
    BY <1>1
  <2> HIDE DEF f, g
  <2> QED
    BY <1>6, <2>1
<1>8. ASSUME NEW k \in 1 .. N PROVE f[k] = op(f[k - 1], s[k])
  <2>0. k \in Nat \ {0} /\ k \in 1 .. k /\ 1 .. k \subseteq 1 .. N
    BY <1>1
  <2>1. 1 .. k \in SUBSET (1 .. N) /\ 1 .. k # {} /\ Max(1 .. k) = k /\ (1 .. k) \ {k} = 1 .. k - 1
    BY <2>0, LastOfAll
  <2>2. g[1 .. k] = op(c[1 .. k - 1], s[k])
    BY <2>1
  <2>3. f[k] = c[1 .. k] /\ f[k - 1] = c[1 .. k - 1]
    BY <1>1
  <2> HIDE DEF f, g
  <2> QED
    BY <1>6, <2>2, <2>3
<1>9. f[N] = c[1 .. N] /\ f = [k \in 0 .. N |-> f[k]]
  BY <1>1
<1> HIDE DEF f
<1>10. \A k \in 0 .. N : f[k] \in Values
  <2> DEFINE Held == {k \in 0 .. N : f[k] \in Values}
  <2>1. 0 \in Held
    BY <1>1, <1>7
  <2>2. \A k \in 1 .. N : k - 1 \in Held => k \in Held
    BY <1>1, <1>2, <1>8
  <2>3. \A k \in 0 .. N : k \in Held
    <3> HIDE DEF Held
    <3> QED
      BY <1>1, <2>1, <2>2, UpTo
  <2> QED
    BY <2>3
<1> QED
  BY <1>5, <1>7, <1>8, <1>9, <1>10 DEF N, Values, op, TotalSteps

\* One more key adds its own.
LEMMA TotalAppend ==
    ASSUME NEW K, NEW map, \A d \in K : map[d].length \in Nat, NEW s \in Seq(K), NEW x \in K
    PROVE  Total(map, Append(s, x)) = Total(map, s) + map[x].length
<1> DEFINE N == Len(s)
           more == Append(s, x)
<1>1. /\ N \in Nat /\ more \in Seq(K) /\ Len(more) = N + 1 /\ more[N + 1] = x
      /\ \A k \in 1 .. N : more[k] = s[k]
  BY AppendAt
<1> HIDE DEF more
<1>2. PICK f : TotalSteps(f, map, s)
  BY TotalFold
<1>3. PICK g : TotalSteps(g, map, more)
  BY <1>1, TotalFold
<1>4. /\ N \in Nat /\ f[0] = g[0]
      /\ \A k \in 1 .. N : f[k - 1] = g[k - 1] => f[k] = g[k]
  BY <1>1, <1>2, <1>3 DEF TotalSteps
<1>5. f[N] = g[N]
  <2> HIDE DEF N
  <2> QED
    BY <1>4, SameSteps
<1>6. g[N + 1] = g[N] + map[x].length
  <2>1. N + 1 \in 1 .. N + 1 /\ (N + 1) - 1 = N
    BY <1>1
  <2> QED
    BY <1>1, <1>3, <2>1 DEF TotalSteps
<1>7. Total(map, s) = f[N] /\ Total(map, more) = g[N + 1]
  BY <1>1, <1>2, <1>3 DEF TotalSteps
<1> QED
  BY <1>5, <1>6, <1>7 DEF more

\* A total is a number.
LEMMA TotalType ==
    ASSUME NEW K, NEW map, \A d \in K : map[d].length \in Nat, NEW s \in Seq(K)
    PROVE  Total(map, s) \in Nat
<1>1. PICK f : TotalSteps(f, map, s) /\ \A k \in 0 .. Len(s) : f[k] \in Nat
  BY TotalFold
<1>2. Len(s) \in Nat
  OBVIOUS
<1> QED
  BY <1>1, <1>2 DEF TotalSteps

\* Maps with the same lengths have the same total.
LEMMA TotalAgree ==
    ASSUME NEW K, NEW map, NEW more, NEW s \in Seq(K),
           \A d \in K : map[d].length \in Nat /\ more[d].length = map[d].length
    PROVE  Total(more, s) = Total(map, s)
<1> DEFINE N == Len(s)
<1>1. PICK f : TotalSteps(f, map, s)
  BY TotalFold
<1>2. PICK g : TotalSteps(g, more, s)
  BY TotalFold
<1>3. /\ N \in Nat /\ f[0] = g[0]
      /\ \A k \in 1 .. N : f[k - 1] = g[k - 1] => f[k] = g[k]
  <2>1. \A k \in 1 .. N : s[k] \in K
    OBVIOUS
  <2> QED
    BY <1>1, <1>2, <2>1 DEF TotalSteps
<1>4. f[N] = g[N]
  <2> HIDE DEF N
  <2> QED
    BY <1>3, SameSteps
<1> QED
  BY <1>1, <1>2, <1>4 DEF TotalSteps

\* Of empty entries it is nothing.
LEMMA TotalZero ==
    ASSUME NEW K, NEW map, NEW s \in Seq(K), \A d \in K : map[d].length = 0
    PROVE  Total(map, s) = 0
<1> DEFINE N == Len(s)
<1>1. PICK f : TotalSteps(f, map, s)
  BY TotalFold
<1> DEFINE Held == {k \in 0 .. N : f[k] = 0}
<1>2. N \in Nat /\ 0 \in Held /\ \A k \in 1 .. N : k - 1 \in Held => k \in Held
  <2>1. \A k \in 1 .. N : s[k] \in K
    OBVIOUS
  <2> QED
    BY <1>1, <2>1 DEF TotalSteps
<1>3. N \in Held
  <2> HIDE DEF Held, N
  <2> QED
    BY <1>2, UpTo
<1> QED
  BY <1>1, <1>3 DEF TotalSteps

\* No element is there twice.
Distinct(s) == \A j, k \in 1 .. Len(s) : s[j] = s[k] => j = k

\* There is one more for one key.
OneMore(K, map, more, key) ==
    \A d \in K : /\ map[d].length \in Nat
                 /\ more[d].length = map[d].length + IF d = key THEN 1 ELSE 0

\* One more for one key makes at most one more of all, if no key is there twice.
LEMMA TotalOneMore ==
    ASSUME NEW K, NEW map, NEW more, NEW key, NEW s \in Seq(K),
           Distinct(s), OneMore(K, map, more, key)
    PROVE  Total(more, s) <= Total(map, s) + 1
<1> USE DEF Distinct, OneMore
<1> DEFINE N == Len(s)
           Met(k) == \E j \in 1 .. k : s[j] = key
<1>1. PICK f : TotalSteps(f, map, s) /\ \A k \in 0 .. N : f[k] \in Nat
  BY TotalFold
<1>2. PICK g : TotalSteps(g, more, s)
  <2>1. \A d \in K : more[d].length \in Nat
    OBVIOUS
  <2> QED
    BY <2>1, TotalFold
<1> DEFINE Held == {k \in 0 .. N : g[k] = f[k] + IF Met(k) THEN 1 ELSE 0}
<1>3. 0 \in Held
  <2>1. f[0] = 0 /\ g[0] = 0
    BY <1>1, <1>2 DEF TotalSteps
  <2>2. ~ Met(0) /\ 0 \in 0 .. N
    OBVIOUS
  <2> HIDE DEF Met
  <2> QED
    BY <2>1, <2>2
<1>4. ASSUME NEW k \in 1 .. N, k - 1 \in Held PROVE k \in Held
  <2>1. /\ s[k] \in K /\ f[k] = f[k - 1] + map[s[k]].length
        /\ g[k] = g[k - 1] + more[s[k]].length /\ f[k - 1] \in Nat
    BY <1>1, <1>2 DEF TotalSteps
  <2>2. Met(k) <=> Met(k - 1) \/ s[k] = key
    <3>1. /\ \A j \in 1 .. k : j = k \/ j \in 1 .. k - 1
          /\ k \in 1 .. k /\ \A j \in 1 .. k - 1 : j \in 1 .. k
      OBVIOUS
    <3> QED
      BY <3>1
  <2>3. ~ (Met(k - 1) /\ s[k] = key)
    OBVIOUS
  <2>4. g[k - 1] = f[k - 1] + IF Met(k - 1) THEN 1 ELSE 0
    BY <1>4
  <2>5. /\ map[s[k]].length \in Nat
        /\ more[s[k]].length = map[s[k]].length + IF s[k] = key THEN 1 ELSE 0
    BY <2>1
  <2>6. g[k] = f[k] + IF Met(k) THEN 1 ELSE 0
    <3> HIDE DEF Met
    <3>1. CASE Met(k - 1)
      BY <2>1, <2>2, <2>3, <2>4, <2>5, <3>1
    <3>2. CASE ~ Met(k - 1)
      BY <2>1, <2>2, <2>4, <2>5, <3>2
    <3> QED
      BY <3>1, <3>2
  <2> HIDE DEF Met
  <2> QED
    BY <2>6
<1>5. N \in Held
  <2>1. N \in Nat
    OBVIOUS
  <2> HIDE DEF Held, N
  <2> QED
    BY <1>3, <1>4, <2>1, UpTo
<1>6. f[N] \in Nat
  BY <1>1
<1> QED
  BY <1>1, <1>2, <1>5, <1>6 DEF TotalSteps

-----------------------------------------------------------------------------
(* What a table makes of its lines, whatever the state *)

Strings == Seq(Symbols)
Contents == Seq(Strings)

TokensIn(scheme, line) ==
    LET pieces == ParseString(line, scheme.sep)
    IN [i \in DOMAIN pieces |-> TrimHeadTail(pieces[i], Blanks)]

\* The lines that count.
GoodLines(scheme) ==
    {line \in Strings :
        /\ Len(TokensIn(scheme, line)) > 0
        /\ \A i \in 1 .. Len(vIndexs(scheme)) :
                vIndexs(scheme)[i].index < Len(TokensIn(scheme, line))}

KeyIn(scheme, line, i) == Md5(TokensIn(scheme, line)[vIndexs(scheme)[i].index + 1])

GoodIn(scheme, content) == Only(content, GoodLines(scheme))

\* The lines with a key.
Rows(scheme, lines, i, d) == Only(lines, {line \in Strings : KeyIn(scheme, line, i) = d})

\* The tokens of a line are texts.
LEMMA TokensType ==
    ASSUME NEW scheme, NEW line \in Strings
    PROVE  TokensIn(scheme, line) \in Contents
<1> DEFINE pieces == ParseString(line, scheme.sep)
           tokens == [i \in DOMAIN pieces |-> TrimHeadTail(pieces[i], Blanks)]
<1>1. pieces \in Seq(Strings)
  BY ParseStringType DEF Strings
<1> HIDE DEF pieces
<1>2. Len(pieces) \in Nat /\ DOMAIN pieces = 1 .. Len(pieces)
  BY <1>1
<1>3. \A text \in Strings : TrimHeadTail(text, Blanks) \in Strings
  BY TrimHeadTailType DEF Strings
<1>4. /\ tokens = [i \in 1 .. Len(pieces) |-> tokens[i]]
      /\ \A i \in 1 .. Len(pieces) : tokens[i] \in Strings
  BY <1>1, <1>2, <1>3
<1>5. TokensIn(scheme, line) = tokens
  BY DEF TokensIn, pieces
<1> HIDE DEF tokens
<1> QED
  BY <1>2, <1>4, <1>5, IsSequence DEF Contents

\* One more line is one more good line, or none.
LEMMA GoodAppend ==
    ASSUME NEW scheme, NEW content \in Contents, NEW line \in Strings
    PROVE  /\ GoodIn(scheme, content) \in Seq(GoodLines(scheme))
           /\ GoodIn(scheme, Append(content, line)) =
                IF line \in GoodLines(scheme) THEN Append(GoodIn(scheme, content), line)
                ELSE GoodIn(scheme, content)
<1>1. Strings \intersect GoodLines(scheme) = GoodLines(scheme)
  BY DEF GoodLines
<1>2. Only(content, GoodLines(scheme)) \in Seq(Strings \intersect GoodLines(scheme))
  BY OnlyType DEF Contents
<1>3. Only(Append(content, line), GoodLines(scheme)) =
            IF line \in GoodLines(scheme) THEN Append(Only(content, GoodLines(scheme)), line)
            ELSE Only(content, GoodLines(scheme))
  BY OnlyAppend DEF Contents
<1> QED
  BY <1>1, <1>2, <1>3 DEF GoodIn

\* Good lines are texts.
LEMMA GoodType ==
    ASSUME NEW scheme, NEW content \in Contents
    PROVE  GoodIn(scheme, content) \in Contents
BY OnlyType DEF GoodIn, Contents

\* What one more line does to the rows of a key.
RowsMore(scheme, lines, line, i, d) ==
    /\ Rows(scheme, lines, i, d) \in Contents
    /\ Rows(scheme, Append(lines, line), i, d) =
            IF KeyIn(scheme, line, i) = d THEN Append(Rows(scheme, lines, i, d), line)
            ELSE Rows(scheme, lines, i, d)

\* One more line is one more row of its key.
LEMMA RowsAppend ==
    ASSUME NEW scheme, NEW lines \in Contents, NEW line \in Strings, NEW i, NEW d
    PROVE  RowsMore(scheme, lines, line, i, d)
<1> DEFINE kept == {l \in Strings : KeyIn(scheme, l, i) = d}
<1>1. line \in kept <=> KeyIn(scheme, line, i) = d
  OBVIOUS
<1>2. Rows(scheme, lines, i, d) = Only(lines, kept)
      /\ Rows(scheme, Append(lines, line), i, d) = Only(Append(lines, line), kept)
  BY DEF Rows
<1> HIDE DEF kept
<1>3. Only(lines, kept) \in Seq(Strings)
  BY OnlyType DEF Contents
<1>4. Only(Append(lines, line), kept) =
            IF line \in kept THEN Append(Only(lines, kept), line) ELSE Only(lines, kept)
  BY OnlyAppend DEF Contents
<1> QED
  BY <1>1, <1>2, <1>3, <1>4 DEF Contents, RowsMore

\* The rows of some keys are no more than the lines.
LEMMA TotalBound ==
    ASSUME NEW scheme, NEW lines \in Contents, NEW i, NEW K, NEW map,
           \A d \in K : map[d].length = Len(Rows(scheme, lines, i, d)),
           NEW s \in Seq(K), Distinct(s)
    PROVE  Total(map, s) <= Len(lines) /\ \A d \in K : map[d].length \in Nat
<1> DEFINE N == Len(lines)
           First(m) == SubSeq(lines, 1, m)
           count(m) == [d \in K |-> [length |-> Len(Rows(scheme, First(m), i, d))]]
           Held == {m \in 0 .. N : Total(count(m), s) <= m}
<1>1. N \in Nat /\ First(N) = lines /\ First(0) = <<>>
  BY DEF Contents
<1>2. 0 \in Held
  <2>1. \A d \in K : count(0)[d].length = 0
    <3>1. \A d : Rows(scheme, <<>>, i, d) = <<>>
      BY OnlyEmpty DEF Rows
    <3> HIDE DEF First
    <3>2. \A d \in K : count(0)[d].length = Len(<<>>)
      BY <1>1, <3>1
    <3> QED
      BY <3>2
  <2> HIDE DEF count
  <2>2. Total(count(0), s) = 0
    BY <2>1, TotalZero
  <2> QED
    BY <1>1, <2>2
<1>3. ASSUME NEW m \in 1 .. N
      PROVE  First(m - 1) \in Contents /\ lines[m] \in Strings /\ First(m) = Append(First(m - 1), lines[m])
  BY FirstElements DEF Contents
<1> HIDE DEF First
<1>4. ASSUME NEW m \in 1 .. N, m - 1 \in Held PROVE m \in Held
  <2> DEFINE key == KeyIn(scheme, lines[m], i)
             before == First(m - 1)
  <2>1. before \in Contents /\ lines[m] \in Strings /\ First(m) = Append(before, lines[m])
    BY <1>3
  <2> HIDE DEF before
  <2>2. ASSUME NEW d \in K
        PROVE  /\ Len(Rows(scheme, before, i, d)) \in Nat
               /\ Len(Rows(scheme, First(m), i, d)) =
                        Len(Rows(scheme, before, i, d)) + IF d = key THEN 1 ELSE 0
    <3>1. /\ Rows(scheme, before, i, d) \in Contents
          /\ Rows(scheme, First(m), i, d) =
                IF key = d THEN Append(Rows(scheme, before, i, d), lines[m])
                ELSE Rows(scheme, before, i, d)
      <4>1. RowsMore(scheme, before, lines[m], i, d)
        BY <2>1, RowsAppend
      <4> QED
        BY <2>1, <4>1 DEF RowsMore
    <3> HIDE DEF key
    <3>2. \A q \in Contents : Len(q) \in Nat /\ Len(Append(q, lines[m])) = Len(q) + 1
      BY <2>1, AppendAt DEF Contents
    <3> QED
      BY <3>1, <3>2
  <2> DEFINE map1 == count(m - 1)
             map2 == count(m)
  <2>3. OneMore(K, map1, map2, key)
    <3> HIDE DEF key
    <3> QED
      BY <2>2 DEF before, OneMore
  <2> HIDE DEF key, map1, map2
  <2>4. Total(map2, s) <= Total(map1, s) + 1
    BY <2>3, TotalOneMore
  <2>5. Total(map1, s) \in Nat /\ Total(map2, s) \in Nat
    <3>1. \A d \in K : map1[d].length \in Nat /\ map2[d].length \in Nat
      BY <2>3 DEF OneMore
    <3> QED
      BY <3>1, TotalType
  <2>6. Total(map1, s) <= m - 1
    BY <1>4 DEF map1
  <2>7. Total(map2, s) <= m
    BY <1>1, <2>4, <2>5, <2>6
  <2> QED
    BY <2>7 DEF map2
<1>5. Total(count(N), s) <= N
  <2>1. N \in Held
    <3> HIDE DEF Held, N
    <3> QED
      BY <1>1, <1>2, <1>4, UpTo
  <2> QED
    BY <2>1
<1>6. \A d \in K : map[d].length \in Nat
  <2>1. \A d \in K : Rows(scheme, lines, i, d) \in Contents
    BY OnlyType DEF Rows, Contents
  <2>2. \A q \in Contents : Len(q) \in Nat
    BY DEF Contents
  <2> QED
    BY <2>1, <2>2
<1>7. Total(map, s) = Total(count(N), s)
  <2> DEFINE whole == count(N)
  <2>1. \A d \in K : whole[d].length \in Nat /\ map[d].length = whole[d].length
    BY <1>1, <1>6
  <2> HIDE DEF whole
  <2>2. Total(map, s) = Total(whole, s)
    BY <2>1, TotalAgree
  <2> QED
    BY <2>2 DEF whole
<1> QED
  BY <1>5, <1>6, <1>7

-----------------------------------------------------------------------------
(* What holds of the builder while it works on a table *)

\* The first elements of a sequence are another.
Prefix(a, b) == Len(a) <= Len(b) /\ \A k \in 1 .. Len(a) : b[k] = a[k]

\* An entry of the text filter is where the text is.
Holds(text, entry, s) ==
    /\ entry.length = Len(s)
    /\ entry.start_pos + Len(s) <= Len(text)
    /\ \A b \in 1 .. Len(s) : text[entry.start_pos + b] = s[b]

\* It stands for a text with that digest, on one of the lines.
Stands(scheme, lines, text, entry, d) ==
    \E m \in 1 .. Len(lines) : \E f \in 1 .. Len(TokensIn(scheme, lines[m])) :
        /\ Md5(TokensIn(scheme, lines[m])[f]) = d
        /\ Holds(text, entry, TokensIn(scheme, lines[m])[f])

Entry == [start_pos : Nat, length : Nat]
Counter == [length : Nat, start_pos : Nat, rank_pos : Nat]

\* The text filter.
FilterOk(scheme, lines, text, hash) ==
    /\ text \in Strings
    /\ hash = [d \in DOMAIN hash |-> hash[d]]
    /\ \A d \in DOMAIN hash : hash[d] \in Entry /\ Stands(scheme, lines, text, hash[d], d)

\* A record has what its line has.
RecordOk(scheme, lines, text, record, line) ==
    /\ Len(TokensIn(scheme, line)) >= Len(scheme.vFields)
    /\ \A f \in 1 .. Len(scheme.vFields) :
        IF IsString(scheme.vFields[f])
        THEN /\ record[f] \in Entry
             /\ Stands(scheme, lines, text, record[f], Md5(TokensIn(scheme, line)[f]))
        ELSE record[f] = TokensIn(scheme, line)[f]

\* There is one record per line.
RecordsOk(scheme, lines, text, records) ==
    /\ records = [m \in 1 .. Len(lines) |-> records[m]]
    /\ \A m \in 1 .. Len(lines) : RecordOk(scheme, lines, text, records[m], lines[m])

\* An index has the keys of the lines, and how many lines have each.
CountsOk(scheme, lines, map, i) ==
    /\ map = [d \in DOMAIN map |-> map[d]]
    /\ \A d : d \in DOMAIN map <=> \E m \in 1 .. Len(lines) : KeyIn(scheme, lines[m], i) = d
    /\ \A d \in DOMAIN map : map[d] \in Counter /\ map[d].length = Len(Rows(scheme, lines, i, d))

\* The ranges of the keys are in the array, and apart.
StartsOk(size, map) ==
    \A d \in DOMAIN map :
        /\ map[d].start_pos + map[d].length <= size
        /\ \A e \in DOMAIN map :
            e # d => \/ map[d].start_pos + map[d].length <= map[e].start_pos
                     \/ map[e].start_pos + map[e].length <= map[d].start_pos

\* What a key's next line gets is behind what its lines so far got.
RanksOk(scheme, ranked, map, i) ==
    \A d \in DOMAIN map : map[d].rank_pos = map[d].start_pos + Len(Rows(scheme, ranked, i, d))

\* A position has no number of a line that was not met.
NumbersOk(size, many, numbers) ==
    /\ numbers = [p \in 0 .. size - 1 |-> numbers[p]]
    /\ \A p \in 0 .. size - 1 : numbers[p] \in Nat /\ (numbers[p] = 0 \/ numbers[p] < many)

\* The positions of a key have the numbers of its lines, in their order.
PlacedOk(scheme, lines, ranked, map, numbers, i) ==
    \A d \in DOMAIN map : \A p \in 1 .. Len(Rows(scheme, ranked, i, d)) :
        /\ numbers[map[d].start_pos + p - 1] < Len(lines)
        /\ lines[numbers[map[d].start_pos + p - 1] + 1] = Rows(scheme, ranked, i, d)[p]

\* The good lines the first pass met so far, and those the second did.
Met == GoodIn(Scheme, IF pc = "count" THEN SubSeq(counted, 1, n) ELSE counted)
Ranked == GoodIn(Scheme, SubSeq(stream, 1, n))

TablesOk ==
    /\ vTables = [k \in 1 .. Len(vTables) |-> vTables[k]] /\ Len(vTables) \in Nat
    /\ \A k \in 1 .. Len(vTables) :
        /\ vTables[k].table_name \in DOMAIN file /\ SchemeOk(vTables[k].table_scheme)
        /\ vTables[k].file_linenum \in Nat

TypeOk ==
    /\ input \in Inputs
    /\ file \in [DOMAIN input.schemas -> Contents]
    /\ TablesOk /\ t \in 0 .. Len(vTables)
    /\ stream \in Contents /\ counted \in Contents /\ n \in 0 .. Len(stream)
    /\ attached \in BOOLEAN
    /\ pc \in {"config", "start"} => g_hashText = <<>>
    /\ pc = "config" => t = 0

\* While a table is worked on.
AtWork ==
    /\ t > 0 /\ nIndex > 0 /\ LineNum > 0
    /\ pc = "count" => counted = stream
    /\ attached /\ pc # "written" => stream = file[vTables[t].table_name]

CountInv ==
    /\ Len(Met) <= LineNum /\ (Met # <<>> => LeadingIndexes)
    /\ FilterOk(Scheme, Met, str_text, g_hashText)
    /\ RecordsOk(Scheme, Met, str_text, record_index)
    /\ DOMAIN pidxmap = 1 .. nIndex
    /\ \A i \in 1 .. nIndex : CountsOk(Scheme, Met, pidxmap[i], i)

\* What the second pass works on, and what it has done.
RankInv ==
    /\ lnm = Len(Ranked)
    /\ \A i \in 1 .. nIndex :
        /\ StartsOk(Len(Met), pidxmap[i])
        /\ RanksOk(Scheme, Ranked, pidxmap[i], i)
        /\ n <= Len(counted) /\ SubSeq(stream, 1, n) = SubSeq(counted, 1, n) =>
            PlacedOk(Scheme, Met, Ranked, pidxmap[i], pRank[i], i)

ArrayInv ==
    /\ DOMAIN pRank = 1 .. nIndex
    /\ \A i \in 1 .. nIndex : NumbersOk(LineNum, lnm, pRank[i])
    /\ pc = "count" => lnm = 0

IndexInv ==
    /\ TypeOk
    /\ pc \in {"count", "rank", "written"} => AtWork /\ CountInv /\ ArrayInv
    /\ pc \in {"rank", "written"} => RankInv
    /\ pc = "written" => n = Len(stream)
    /\ StaysInBounds

-----------------------------------------------------------------------------
(* More lines *)

\* What is kept of the first elements are the first that are kept of all.
LEMMA OnlyGrows ==
    ASSUME NEW S, NEW s \in Seq(S), NEW kept, NEW k \in 0 .. Len(s)
    PROVE  Prefix(Only(SubSeq(s, 1, k), kept), Only(s, kept))
<1> DEFINE First(m) == SubSeq(s, 1, m)
           Kept(m) == Only(First(m), kept)
           Held == {m \in 0 .. Len(s) : m >= k => Prefix(Kept(k), Kept(m))}
<1>1. Len(s) \in Nat /\ First(Len(s)) = s /\ \A m \in 0 .. Len(s) : First(m) \in Seq(S)
  OBVIOUS
<1>2. ASSUME NEW m \in 1 .. Len(s)
      PROVE  First(m) = Append(First(m - 1), s[m]) /\ First(m - 1) \in Seq(S) /\ s[m] \in S
  BY FirstElements
<1> HIDE DEF First
<1>3. \A m \in 0 .. Len(s) : Kept(m) \in Seq(S)
  BY <1>1, OnlyType
<1>4. \A q \in Seq(S) : Prefix(q, q)
  BY DEF Prefix
<1>5. ASSUME NEW m \in 1 .. Len(s), m - 1 \in Held PROVE m \in Held
  <2>1. CASE m = k
    BY <1>3, <1>4, <2>1
  <2>2. CASE m # k
    <3> SUFFICES ASSUME m >= k PROVE Prefix(Kept(k), Kept(m))
      OBVIOUS
    <3>1. Prefix(Kept(k), Kept(m - 1))
      BY <1>5, <2>2
    <3>2. Kept(m) = IF s[m] \in kept THEN Append(Kept(m - 1), s[m]) ELSE Kept(m - 1)
      <4>1. \A q \in Seq(S) : \A x \in S :
                Only(Append(q, x), kept) =
                    IF x \in kept THEN Append(Only(q, kept), x) ELSE Only(q, kept)
        BY OnlyAppend
      <4>2. Only(Append(First(m - 1), s[m]), kept) =
                IF s[m] \in kept THEN Append(Only(First(m - 1), kept), s[m])
                ELSE Only(First(m - 1), kept)
        BY <1>2, <4>1
      <4> QED
        BY <1>2, <4>2
    <3>3. Kept(k) \in Seq(S) /\ Kept(m - 1) \in Seq(S) /\ s[m] \in S
      BY <1>2, <1>3
    <3> HIDE DEF Kept
    <3>4. \A p, q \in Seq(S) : \A x \in S : Prefix(p, q) => Prefix(p, Append(q, x))
      BY DEF Prefix
    <3> QED
      BY <3>1, <3>2, <3>3, <3>4
  <2> QED
    BY <2>1, <2>2
<1>6. 0 \in Held
  BY <1>1, <1>3, <1>4
<1>7. Len(s) \in Held
  <2>1. Len(s) \in Nat
    OBVIOUS
  <2> HIDE DEF Held
  <2> QED
    BY <1>5, <1>6, <2>1, UpTo
<1>8. Prefix(Kept(k), Kept(Len(s)))
  <2> HIDE DEF Kept
  <2> QED
    BY <1>7
<1> QED
  BY <1>1, <1>8 DEF First

\* A sequence that starts with another has it as its first elements.
LEMMA PrefixFirst ==
    ASSUME NEW S, NEW a \in Seq(S), NEW b \in Seq(S), Prefix(a, b)
    PROVE  a = SubSeq(b, 1, Len(a)) /\ Len(a) \in 0 .. Len(b)
BY DEF Prefix

\* The good lines of the first lines are the first good lines, and with one more
\* good line the first of them.
LEMMA GoodGrows ==
    ASSUME NEW scheme, NEW content \in Contents, NEW k \in 0 .. Len(content)
    PROVE  /\ SubSeq(content, 1, k) \in Contents /\ GoodIn(scheme, content) \in Contents
           /\ GoodIn(scheme, SubSeq(content, 1, k)) \in Contents
           /\ Prefix(GoodIn(scheme, SubSeq(content, 1, k)), GoodIn(scheme, content))
<1>1. SubSeq(content, 1, k) \in Contents
  BY DEF Contents
<1>2. Prefix(Only(SubSeq(content, 1, k), GoodLines(scheme)), Only(content, GoodLines(scheme)))
  BY OnlyGrows DEF Contents
<1> QED
  BY <1>1, <1>2, GoodType DEF GoodIn

\* The next line is one more good line, or none.
LEMMA GoodNext ==
    ASSUME NEW scheme, NEW content \in Contents, NEW k \in 0 .. Len(content) - 1
    PROVE  /\ content[k + 1] \in Strings /\ k + 1 \in 0 .. Len(content)
           /\ GoodIn(scheme, SubSeq(content, 1, k + 1)) =
                IF content[k + 1] \in GoodLines(scheme)
                THEN Append(GoodIn(scheme, SubSeq(content, 1, k)), content[k + 1])
                ELSE GoodIn(scheme, SubSeq(content, 1, k))
<1>1. Len(content) \in Nat /\ k + 1 \in 1 .. Len(content) /\ (k + 1) - 1 = k
  BY DEF Contents
<1>2. /\ SubSeq(content, 1, k) \in Contents /\ content[k + 1] \in Strings
      /\ SubSeq(content, 1, k + 1) = Append(SubSeq(content, 1, k), content[k + 1])
  <2>1. \A m \in 1 .. Len(content) :
            /\ SubSeq(content, 1, m - 1) \in Contents /\ content[m] \in Strings
            /\ SubSeq(content, 1, m) = Append(SubSeq(content, 1, m - 1), content[m])
    BY FirstElements DEF Contents
  <2>2. DEFINE m == k + 1
  <2>3. SubSeq(content, 1, m - 1) = SubSeq(content, 1, k)
    BY <1>1
  <2> QED
    BY <1>1, <2>1, <2>3
<1> DEFINE first == SubSeq(content, 1, k)
           line == content[k + 1]
<1> HIDE DEF first, line
<1>3. GoodIn(scheme, Append(first, line)) =
            IF line \in GoodLines(scheme) THEN Append(GoodIn(scheme, first), line)
            ELSE GoodIn(scheme, first)
  BY <1>2, GoodAppend DEF first, line
<1>4. k + 1 \in 0 .. Len(content)
  BY <1>1
<1> QED
  BY <1>2, <1>3, <1>4 DEF first, line

\* The rows of the first lines are the first rows.
LEMMA RowsGrow ==
    ASSUME NEW scheme, NEW a \in Contents, NEW b \in Contents, Prefix(a, b), NEW i, NEW d
    PROVE  /\ Rows(scheme, a, i, d) \in Contents /\ Rows(scheme, b, i, d) \in Contents
           /\ Prefix(Rows(scheme, a, i, d), Rows(scheme, b, i, d))
<1> DEFINE kept == {line \in Strings : KeyIn(scheme, line, i) = d}
<1>1. a = SubSeq(b, 1, Len(a)) /\ Len(a) \in 0 .. Len(b)
  BY PrefixFirst DEF Contents
<1> HIDE DEF kept
<1>2. Prefix(Only(SubSeq(b, 1, Len(a)), kept), Only(b, kept))
  BY <1>1, OnlyGrows DEF Contents
<1>3. Only(a, kept) \in Contents /\ Only(b, kept) \in Contents
  BY OnlyType DEF Contents
<1> QED
  BY <1>1, <1>2, <1>3 DEF Rows, kept

\* What an entry stands for stays when there is more text and there are more
\* lines.
LEMMA StandsMore ==
    ASSUME NEW scheme, NEW lines \in Contents, NEW all \in Contents, Prefix(lines, all),
           NEW text \in Strings, NEW more \in Strings, Prefix(text, more),
           NEW entry \in Entry, NEW d, Stands(scheme, lines, text, entry, d)
    PROVE  Stands(scheme, all, more, entry, d)
<1>1. PICK m \in 1 .. Len(lines) : \E f \in 1 .. Len(TokensIn(scheme, lines[m])) :
        /\ Md5(TokensIn(scheme, lines[m])[f]) = d
        /\ Holds(text, entry, TokensIn(scheme, lines[m])[f])
  BY DEF Stands
<1>2. m \in 1 .. Len(all) /\ all[m] = lines[m] /\ lines[m] \in Strings
  BY DEF Prefix, Contents
<1>3. PICK f \in 1 .. Len(TokensIn(scheme, lines[m])) :
        /\ Md5(TokensIn(scheme, lines[m])[f]) = d
        /\ Holds(text, entry, TokensIn(scheme, lines[m])[f])
  BY <1>1
<1> DEFINE s == TokensIn(scheme, lines[m])[f]
<1>4. s \in Strings
  <2>1. TokensIn(scheme, lines[m]) \in Contents
    BY <1>2, TokensType
  <2> QED
    BY <2>1 DEF Contents
<1> HIDE DEF s
<1>5. Holds(text, entry, s) => Holds(more, entry, s)
  <2> SUFFICES ASSUME Holds(text, entry, s) PROVE Holds(more, entry, s)
    OBVIOUS
  <2>1. Len(s) \in Nat /\ Len(text) \in Nat /\ Len(more) \in Nat
        /\ entry.start_pos \in Nat
    BY <1>4 DEF Strings, Entry
  <2>2. /\ entry.length = Len(s) /\ entry.start_pos + Len(s) <= Len(more)
    BY <2>1 DEF Holds, Prefix
  <2>3. ASSUME NEW b \in 1 .. Len(s) PROVE more[entry.start_pos + b] = s[b]
    <3>1. entry.start_pos + b \in 1 .. Len(text)
      BY <2>1 DEF Holds
    <3> QED
      BY <3>1 DEF Holds, Prefix
  <2> QED
    BY <2>2, <2>3 DEF Holds
<1> QED
  BY <1>2, <1>3, <1>5 DEF Stands, s

\* So do the filter's entries.
LEMMA FilterMore ==
    ASSUME NEW scheme, NEW lines \in Contents, NEW all \in Contents, Prefix(lines, all),
           NEW text, NEW hash, FilterOk(scheme, lines, text, hash)
    PROVE  FilterOk(scheme, all, text, hash)
<1>1. text \in Strings /\ Prefix(text, text)
  BY DEF FilterOk, Prefix, Strings
<1>2. ASSUME NEW d \in DOMAIN hash PROVE Stands(scheme, all, text, hash[d], d)
  <2>1. hash[d] \in Entry /\ Stands(scheme, lines, text, hash[d], d)
    BY DEF FilterOk
  <2> QED
    BY <1>1, <2>1, StandsMore
<1> QED
  BY <1>2 DEF FilterOk

\* And so do records.
LEMMA RecordMore ==
    ASSUME NEW scheme, NEW lines \in Contents, NEW all \in Contents, Prefix(lines, all),
           NEW text \in Strings, NEW more \in Strings, Prefix(text, more),
           NEW record, NEW line, RecordOk(scheme, lines, text, record, line)
    PROVE  RecordOk(scheme, all, more, record, line)
<1>1. ASSUME NEW f \in 1 .. Len(scheme.vFields), IsString(scheme.vFields[f])
      PROVE  /\ record[f] \in Entry
             /\ Stands(scheme, all, more, record[f], Md5(TokensIn(scheme, line)[f]))
  <2>1. /\ record[f] \in Entry
        /\ Stands(scheme, lines, text, record[f], Md5(TokensIn(scheme, line)[f]))
    BY <1>1 DEF RecordOk
  <2> QED
    BY <2>1, StandsMore
<1> QED
  BY <1>1 DEF RecordOk

\* The texts that are there stay, and so do the digests.
FilterGrows(filter, more) ==
    /\ Prefix(filter.text, more.text)
    /\ \A d \in DOMAIN filter.hash : d \in DOMAIN more.hash

\* A token of one of the lines gets an entry.
LEMMA GetPositionOk ==
    ASSUME NEW scheme, NEW lines \in Contents, NEW filter,
           FilterOk(scheme, lines, filter.text, filter.hash),
           NEW m \in 1 .. Len(lines), NEW f \in 1 .. Len(TokensIn(scheme, lines[m]))
    PROVE  LET key == TokensIn(scheme, lines[m])[f]
               more == GetPosition(filter, key)
           IN /\ FilterOk(scheme, lines, more.text, more.hash)
              /\ FilterGrows(filter, more) /\ Md5(key) \in DOMAIN more.hash
<1> DEFINE key == TokensIn(scheme, lines[m])[f]
           more == GetPosition(filter, key)
<1>1. filter.text \in Strings /\ Prefix(filter.text, filter.text)
  BY DEF FilterOk, Prefix, Strings
<1>2. CASE Md5(key) \in DOMAIN filter.hash
  <2>1. more = filter
    BY <1>2 DEF GetPosition
  <2> QED
    BY <1>1, <1>2, <2>1 DEF FilterGrows
<1>3. CASE Md5(key) \notin DOMAIN filter.hash
  <2> DEFINE entry == [start_pos |-> Len(filter.text), length |-> Len(key)]
             text == filter.text \o key
             hash == With(filter.hash, Md5(key), entry)
  <2>1. more = [text |-> text, hash |-> hash]
    BY <1>3 DEF GetPosition
  <2>2. key \in Strings
    <3>1. lines[m] \in Strings
      BY DEF Contents
    <3>2. TokensIn(scheme, lines[m]) \in Contents
      BY <3>1, TokensType
    <3> QED
      BY <3>2 DEF Contents
  <2>3. /\ text \in Strings /\ Prefix(filter.text, text) /\ entry \in Entry
        /\ Holds(text, entry, key)
    <3> HIDE DEF key
    <3>1. text \in Strings
      BY <1>1, <2>2 DEF Strings
    <3>2. /\ Len(text) = Len(filter.text) + Len(key) /\ Len(filter.text) \in Nat /\ Len(key) \in Nat
          /\ \A k \in 1 .. Len(filter.text) : text[k] = filter.text[k]
          /\ \A b \in 1 .. Len(key) : text[Len(filter.text) + b] = key[b]
      BY <1>1, <2>2 DEF Strings
    <3>3. entry \in Entry /\ entry.start_pos = Len(filter.text) /\ entry.length = Len(key)
      BY <3>2 DEF Entry
    <3>4. Prefix(filter.text, text)
      <4> HIDE DEF text
      <4> QED
        BY <3>2 DEF Prefix
    <3> HIDE DEF text, entry
    <3>5. Holds(text, entry, key)
      BY <3>2, <3>3 DEF Holds
    <3> QED
      BY <3>1, <3>3, <3>4, <3>5
  <2>4. /\ DOMAIN hash = DOMAIN filter.hash \union {Md5(key)} /\ hash[Md5(key)] = entry
        /\ \A d \in DOMAIN filter.hash : hash[d] = filter.hash[d]
        /\ hash = [d \in DOMAIN hash |-> hash[d]]
    BY <1>3 DEF With
  <2>5. Stands(scheme, lines, text, entry, Md5(key))
    BY <2>3 DEF Stands
  <2> HIDE DEF text, hash, entry
  <2>6. ASSUME NEW d \in DOMAIN hash
        PROVE  hash[d] \in Entry /\ Stands(scheme, lines, text, hash[d], d)
    <3>1. CASE d = Md5(key)
      BY <2>3, <2>4, <2>5, <3>1
    <3>2. CASE d \in DOMAIN filter.hash
      <4>1. filter.hash[d] \in Entry /\ Stands(scheme, lines, filter.text, filter.hash[d], d)
        BY <3>2 DEF FilterOk
      <4>2. Prefix(lines, lines)
        BY DEF Prefix, Contents
      <4>3. Stands(scheme, lines, text, filter.hash[d], d)
        BY <1>1, <2>3, <4>1, <4>2, StandsMore
      <4> QED
        BY <2>4, <3>2, <4>1, <4>3
    <3> QED
      BY <2>4, <3>1, <3>2
  <2>7. FilterOk(scheme, lines, text, hash)
    BY <2>3, <2>4, <2>6 DEF FilterOk
  <2> HIDE DEF key, more
  <2>8. more.text = text /\ more.hash = hash
    BY <2>1
  <2> QED
    BY <2>3, <2>4, <2>7, <2>8 DEF FilterGrows, key, more
<1> QED
  BY <1>2, <1>3

\* What get_position may leave, with what was there before.
Hashes == UNION {[D -> Entry] : D \in SUBSET {Md5(s) : s \in Strings}}
Filters(scheme, lines, filter) ==
    {more \in [text : Strings, hash : Hashes] :
        FilterOk(scheme, lines, more.text, more.hash) /\ FilterGrows(filter, more)}

\* A filter that is right is one.
LEMMA FilterType ==
    ASSUME NEW scheme, NEW lines \in Contents, NEW text, NEW hash,
           FilterOk(scheme, lines, text, hash)
    PROVE  [text |-> text, hash |-> hash] \in [text : Strings, hash : Hashes]
<1>1. ASSUME NEW d \in DOMAIN hash PROVE d \in {Md5(s) : s \in Strings}
  <2>1. Stands(scheme, lines, text, hash[d], d)
    BY DEF FilterOk
  <2>2. PICK m \in 1 .. Len(lines) : \E f \in 1 .. Len(TokensIn(scheme, lines[m])) :
            Md5(TokensIn(scheme, lines[m])[f]) = d
    BY <2>1 DEF Stands
  <2>3. TokensIn(scheme, lines[m]) \in Contents
    <3>1. lines[m] \in Strings
      BY DEF Contents
    <3> QED
      BY <3>1, TokensType
  <2> QED
    BY <2>2, <2>3 DEF Contents
<1>2. hash \in [DOMAIN hash -> Entry] /\ DOMAIN hash \in SUBSET {Md5(s) : s \in Strings}
  BY <1>1 DEF FilterOk
<1>3. hash \in Hashes
  BY <1>2 DEF Hashes
<1> QED
  BY <1>3 DEF FilterOk

\* The filter of one record after its fields.
FilteredBy(fields, tokens, filter) ==
    FoldLeft(LAMBDA some, field : IF IsString(field)
                                  THEN GetPosition(some, tokens[field.index + 1])
                                  ELSE some,
             filter, fields)

\* What it is after the first of them.
FilteredSteps(f, fields, tokens, filter) ==
    /\ f[0] = filter /\ FilteredBy(fields, tokens, filter) = f[Len(fields)]
    /\ \A k \in 1 .. Len(fields) : f[k] = IF IsString(fields[k]) THEN GetPosition(f[k - 1], tokens[fields[k].index + 1]) ELSE f[k - 1]

\* There are such steps, and their values are of the type of the result.
LEMMA FilteredFold ==
    ASSUME NEW scheme, SchemeOk(scheme), NEW lines \in Contents, NEW filter,
           filter = [text |-> filter.text, hash |-> filter.hash],
           FilterOk(scheme, lines, filter.text, filter.hash), NEW fields, NEW tokens,
           fields = scheme.vFields, NEW m \in 1 .. Len(lines),
           tokens = TokensIn(scheme, lines[m]), Len(tokens) >= Len(fields)
    PROVE  \E f : FilteredSteps(f, fields, tokens, filter) /\ \A k \in 0 .. Len(fields) : f[k] \in Filters(scheme, lines, filter)
<1> DEFINE N == Len(fields)
           Values == Filters(scheme, lines, filter)
           op(v, x) == IF IsString(x) THEN GetPosition(v, tokens[x.index + 1]) ELSE v
           step == [p \in Values \X (1 .. N) |-> op(p[1], fields[p[2]])]
           Recurrent(it) == it = [T \in SUBSET DOMAIN fields |->
                IF T = {} THEN filter ELSE op(it[T \ {Max(T)}], fields[Max(T)])]
<1>1. N \in Nat /\ DOMAIN fields = 1 .. N /\ filter \in Values
  <2>1. filter \in [text : Strings, hash : Hashes]
    BY FilterType
  <2>2. FilterGrows(filter, filter)
    BY <2>1 DEF FilterGrows, Prefix, Strings
  <2> QED
    BY <2>1, <2>2 DEF Filters, SchemeOk
<1>2. ASSUME NEW v \in Values, NEW k \in 1 .. N PROVE op(v, fields[k]) \in Values
  <2> DEFINE field == fields[k]
  <2>1. /\ fields \in Seq(FieldSet) /\ Len(fields) \in Nat /\ field.index = k - 1
        /\ k \in 1 .. Len(tokens)
    <3>1. Len(tokens) \in Nat
      <4>1. lines[m] \in Strings
        BY DEF Contents
      <4>2. tokens \in Contents
        BY <4>1, TokensType
      <4> QED
        BY <4>2 DEF Contents
    <3>2. fields \in Seq(FieldSet) /\ field.index = k - 1
      BY DEF SchemeOk
    <3> QED
      BY <3>1, <3>2
  <2>2. field.index + 1 = k
    BY <2>1
  <2> DEFINE more == GetPosition(v, tokens[k])
  <2>3. /\ v \in [text : Strings, hash : Hashes]
        /\ FilterOk(scheme, lines, v.text, v.hash) /\ FilterGrows(filter, v)
    BY DEF Filters
  <2>4. FilterOk(scheme, lines, more.text, more.hash) /\ FilterGrows(v, more)
    BY <2>1, <2>3, GetPositionOk
  <2>5. more = [text |-> more.text, hash |-> more.hash]
    BY <2>3 DEF GetPosition
  <2> HIDE DEF more
  <2>6. more \in [text : Strings, hash : Hashes]
    BY <2>4, <2>5, FilterType
  <2>7. FilterGrows(filter, more)
    BY <2>3, <2>4, <2>6 DEF FilterGrows, Prefix, Strings
  <2>8. more \in Filters(scheme, lines, filter)
    BY <2>4, <2>6, <2>7 DEF Filters
  <2> QED
    BY <2>2, <2>8 DEF more
<1>3. FilteredBy(fields, tokens, filter) = (CHOOSE it : Recurrent(it))[1 .. N]
  BY <1>1 DEF FilteredBy, FoldLeft, MapThenFoldSet
<1> HIDE DEF N, Values, op
<1>4. \E it : Recurrent(it)
  <2>1. step \in [Values \X (1 .. N) -> Values]
    BY <1>2
  <2>2. PICK it \in [SUBSET (1 .. N) -> Values] : Recurs(it, N, filter, step)
    BY <1>1, <2>1, FoldExists
  <2>3. ASSUME NEW T \in SUBSET (1 .. N)
        PROVE  it[T] = IF T = {} THEN filter ELSE op(it[T \ {Max(T)}], fields[Max(T)])
    <3> DEFINE g == [U \in SUBSET (1 .. N) |->
                        IF U = {} THEN filter ELSE step[<<it[U \ {Max(U)}], Max(U)>>]]
    <3>1. it = g
      BY <2>2 DEF Recurs
    <3>2. g[T] = IF T = {} THEN filter ELSE step[<<it[T \ {Max(T)}], Max(T)>>]
      OBVIOUS
    <3>3. T # {} => <<it[T \ {Max(T)}], Max(T)>> \in Values \X (1 .. N)
      <4> SUFFICES ASSUME T # {} PROVE <<it[T \ {Max(T)}], Max(T)>> \in Values \X (1 .. N)
        OBVIOUS
      <4>1. Max(T) \in T
        BY <1>1, MinMax
      <4> QED
        BY <4>1
    <3> HIDE DEF g
    <3> QED
      BY <3>1, <3>2, <3>3
  <2>4. it = [T \in SUBSET DOMAIN fields |-> it[T]]
    BY <1>1
  <2> HIDE DEF step
  <2>5. Recurrent(it)
    BY <1>1, <2>3, <2>4
  <2> QED
    BY <2>5
<1>5. PICK c : Recurrent(c) /\ FilteredBy(fields, tokens, filter) = c[1 .. N]
  <2> HIDE DEF Recurrent
  <2> QED
    BY <1>3, <1>4
<1> DEFINE f == [k \in 0 .. N |-> c[1 .. k]]
           g == [T \in SUBSET (1 .. N) |->
                    IF T = {} THEN filter ELSE op(c[T \ {Max(T)}], fields[Max(T)])]
<1>6. c = g
  BY <1>1, <1>5
<1>7. f[0] = filter
  <2>1. 1 .. 0 = {} /\ g[{}] = filter /\ f[0] = c[1 .. 0]
    BY <1>1
  <2> HIDE DEF f, g
  <2> QED
    BY <1>6, <2>1
<1>8. ASSUME NEW k \in 1 .. N PROVE f[k] = op(f[k - 1], fields[k])
  <2>0. k \in Nat \ {0} /\ k \in 1 .. k /\ 1 .. k \subseteq 1 .. N
    BY <1>1
  <2>1. 1 .. k \in SUBSET (1 .. N) /\ 1 .. k # {} /\ Max(1 .. k) = k /\ (1 .. k) \ {k} = 1 .. k - 1
    BY <2>0, LastOfAll
  <2>2. g[1 .. k] = op(c[1 .. k - 1], fields[k])
    BY <2>1
  <2>3. f[k] = c[1 .. k] /\ f[k - 1] = c[1 .. k - 1]
    BY <1>1
  <2> HIDE DEF f, g
  <2> QED
    BY <1>6, <2>2, <2>3
<1>9. f[N] = c[1 .. N] /\ f = [k \in 0 .. N |-> f[k]]
  BY <1>1
<1> HIDE DEF f
<1>10. \A k \in 0 .. N : f[k] \in Values
  <2> DEFINE Held == {k \in 0 .. N : f[k] \in Values}
  <2>1. 0 \in Held
    BY <1>1, <1>7
  <2>2. \A k \in 1 .. N : k - 1 \in Held => k \in Held
    BY <1>1, <1>2, <1>8
  <2>3. \A k \in 0 .. N : k \in Held
    <3> HIDE DEF Held
    <3> QED
      BY <1>1, <2>1, <2>2, UpTo
  <2> QED
    BY <2>3
<1> QED
  BY <1>5, <1>7, <1>8, <1>9, <1>10 DEF N, Values, op, FilteredSteps

\* Every string of the record has its entry then.
LEMMA FilteredOk ==
    ASSUME NEW scheme, SchemeOk(scheme), NEW lines \in Contents, NEW filter,
           filter = [text |-> filter.text, hash |-> filter.hash],
           FilterOk(scheme, lines, filter.text, filter.hash), NEW m \in 1 .. Len(lines),
           Len(TokensIn(scheme, lines[m])) >= Len(scheme.vFields)
    PROVE  LET tokens == TokensIn(scheme, lines[m])
               more == FilteredBy(scheme.vFields, tokens, filter)
           IN /\ more \in Filters(scheme, lines, filter)
              /\ \A k \in 1 .. Len(scheme.vFields) :
                    IsString(scheme.vFields[k]) => Md5(tokens[k]) \in DOMAIN more.hash
<1> DEFINE fields == scheme.vFields
           tokens == TokensIn(scheme, lines[m])
           N == Len(fields)
<1>1. PICK f : FilteredSteps(f, fields, tokens, filter)
               /\ \A k \in 0 .. N : f[k] \in Filters(scheme, lines, filter)
  BY FilteredFold
<1>2. N \in Nat /\ \A k \in 1 .. N : fields[k].index + 1 = k
  <2>1. N \in Nat
    BY DEF SchemeOk
  <2>2. \A k \in 1 .. N : fields[k].index = k - 1
    BY DEF SchemeOk
  <2>3. \A k \in 1 .. N : (k - 1) + 1 = k
    BY <2>1
  <2> HIDE DEF fields
  <2> QED
    BY <2>1, <2>2, <2>3
<1>3. Len(tokens) \in Nat
  <2>1. lines[m] \in Strings
    BY DEF Contents
  <2>2. tokens \in Contents
    BY <2>1, TokensType
  <2> QED
    BY <2>2 DEF Contents
<1> DEFINE Has(k, j) == IsString(fields[j]) => Md5(tokens[j]) \in DOMAIN f[k].hash
           Held == {k \in 0 .. N : \A j \in 1 .. k : Has(k, j)}
<1>4. ASSUME NEW k \in 1 .. N, k - 1 \in Held PROVE k \in Held
  <2>1. f[k] = IF IsString(fields[k]) THEN GetPosition(f[k - 1], tokens[k]) ELSE f[k - 1]
    BY <1>1, <1>2 DEF FilteredSteps
  <2>2. FilterOk(scheme, lines, f[k - 1].text, f[k - 1].hash)
    BY <1>1, <1>2 DEF Filters
  <2>3. k \in 1 .. Len(tokens)
    BY <1>2, <1>3
  <2>4. /\ FilterGrows(f[k - 1], GetPosition(f[k - 1], tokens[k]))
        /\ Md5(tokens[k]) \in DOMAIN GetPosition(f[k - 1], tokens[k]).hash
    BY <2>2, <2>3, GetPositionOk
  <2>5. Has(k, k)
    BY <2>1, <2>4
  <2>6. \A j \in 1 .. k - 1 : Has(k - 1, j) => Has(k, j)
    BY <2>1, <2>4 DEF FilterGrows
  <2>7. \A j \in 1 .. k : j = k \/ j \in 1 .. k - 1
    OBVIOUS
  <2> HIDE DEF Has
  <2> QED
    BY <2>5, <2>6, <2>7, <1>4
<1>5. 0 \in Held
  BY <1>2
<1>6. N \in Held
  <2> HIDE DEF Held, N
  <2> QED
    BY <1>2, <1>4, <1>5, UpTo
<1>7. N \in 0 .. N /\ FilteredBy(fields, tokens, filter) = f[N]
  BY <1>1, <1>2 DEF FilteredSteps
<1>8. f[N] \in Filters(scheme, lines, filter) /\ \A j \in 1 .. N : Has(N, j)
  BY <1>1, <1>6, <1>7
<1> QED
  BY <1>7, <1>8

-----------------------------------------------------------------------------
(* Counting *)

\* The elements of a sequence with one more.
LEMMA SomeOfMore ==
    ASSUME NEW lines \in Contents, NEW line \in Strings, NEW P
    PROVE  (\E m \in 1 .. Len(Append(lines, line)) : Append(lines, line)[m] \in P) <=>
                (\E m \in 1 .. Len(lines) : lines[m] \in P) \/ line \in P
<1> DEFINE more == Append(lines, line)
<1>1. /\ Len(more) = Len(lines) + 1 /\ Len(lines) \in Nat /\ more[Len(lines) + 1] = line
      /\ \A k \in 1 .. Len(lines) : more[k] = lines[k]
  BY AppendAt DEF Contents
<1> HIDE DEF more
<1>2. \A m \in 1 .. Len(more) : m \in 1 .. Len(lines) \/ m = Len(lines) + 1
  BY <1>1
<1>3. Len(lines) + 1 \in 1 .. Len(more) /\ \A m \in 1 .. Len(lines) : m \in 1 .. Len(more)
  BY <1>1
<1> QED
  BY <1>1, <1>2, <1>3 DEF more

\* A key no line has has no rows.
LEMMA NoRows ==
    ASSUME NEW scheme, NEW lines \in Contents, NEW i, NEW d,
           \A m \in 1 .. Len(lines) : KeyIn(scheme, lines[m], i) # d
    PROVE  Len(Rows(scheme, lines, i, d)) = 0
<1> DEFINE S == {lines[m] : m \in 1 .. Len(lines)}
           kept == {line \in Strings : KeyIn(scheme, line, i) = d}
<1>1. lines \in Seq(S)
  BY DEF Contents
<1>2. S \intersect kept = {}
  OBVIOUS
<1> HIDE DEF S, kept
<1>3. Only(lines, kept) \in Seq(S \intersect kept)
  BY <1>1, OnlyType
<1>4. \A q \in Seq({}) : Len(q) = 0
  OBVIOUS
<1> QED
  BY <1>2, <1>3, <1>4 DEF Rows, kept

\* One more line counts for its key.
LEMMA CountsAppend ==
    ASSUME NEW scheme, NEW lines \in Contents, NEW line \in Strings, NEW i, NEW map,
           CountsOk(scheme, lines, map, i)
    PROVE  CountsOk(scheme, Append(lines, line), Incremented(map, KeyIn(scheme, line, i)), i)
<1> DEFINE key == KeyIn(scheme, line, i)
           all == Append(lines, line)
           more == Incremented(map, key)
           many(d) == Len(Rows(scheme, lines, i, d))
<1>1. ASSUME NEW d
      PROVE  /\ many(d) \in Nat
             /\ Len(Rows(scheme, all, i, d)) = many(d) + IF d = key THEN 1 ELSE 0
  <2>1. RowsMore(scheme, lines, line, i, d)
    BY RowsAppend
  <2>2. /\ Rows(scheme, lines, i, d) \in Contents
        /\ Rows(scheme, all, i, d) = IF key = d THEN Append(Rows(scheme, lines, i, d), line)
                                     ELSE Rows(scheme, lines, i, d)
    BY <2>1 DEF RowsMore
  <2>3. \A q \in Contents : Len(q) \in Nat /\ Len(Append(q, line)) = Len(q) + 1
    BY AppendAt DEF Contents
  <2> HIDE DEF key, all
  <2> QED
    BY <2>2, <2>3
<1>2. ASSUME NEW d
      PROVE  (\E m \in 1 .. Len(all) : KeyIn(scheme, all[m], i) = d) <=> d \in DOMAIN map \/ d = key
  <2> DEFINE P == {l \in Strings : KeyIn(scheme, l, i) = d}
  <2>1. (\E m \in 1 .. Len(all) : all[m] \in P) <=>
            (\E m \in 1 .. Len(lines) : lines[m] \in P) \/ line \in P
    <3> HIDE DEF P
    <3> QED
      BY SomeOfMore
  <2>2. /\ \A m \in 1 .. Len(all) : all[m] \in Strings
        /\ \A m \in 1 .. Len(lines) : lines[m] \in Strings
    <3>1. all \in Contents
      BY AppendAt DEF Contents
    <3> HIDE DEF all
    <3> QED
      BY <3>1 DEF Contents
  <2>3. d \in DOMAIN map <=> \E m \in 1 .. Len(lines) : KeyIn(scheme, lines[m], i) = d
    BY DEF CountsOk
  <2> HIDE DEF all
  <2> QED
    BY <2>1, <2>2, <2>3
<1>3. \A d \in DOMAIN map : map[d] \in Counter /\ map[d].length = many(d)
  BY DEF CountsOk
<1> HIDE DEF all, many
<1>4. CASE key \in DOMAIN map
  <2> HIDE DEF key
  <2>1. /\ more = [map EXCEPT ![key].length = @ + 1] /\ DOMAIN more = DOMAIN map
        /\ more = [d \in DOMAIN more |-> more[d]]
    BY <1>4 DEF Incremented
  <2>2. \A c \in Counter : /\ [c EXCEPT !.length = @ + 1] \in Counter
                           /\ [c EXCEPT !.length = @ + 1].length = c.length + 1
    BY DEF Counter
  <2>3. ASSUME NEW d \in DOMAIN map
        PROVE  more[d] \in Counter /\ more[d].length = many(d) + IF d = key THEN 1 ELSE 0
    <3>1. CASE d = key
      <4>1. more[d] = [map[d] EXCEPT !.length = @ + 1]
        BY <2>1, <3>1
      <4> HIDE DEF more
      <4> QED
        BY <1>3, <2>2, <3>1, <4>1
    <3>2. CASE d # key
      <4>1. more[d] = map[d]
        BY <2>1, <3>2
      <4>2. many(d) \in Nat
        BY <1>1
      <4> HIDE DEF more
      <4> QED
        BY <1>3, <3>2, <4>1, <4>2
    <3> QED
      BY <3>1, <3>2
  <2> HIDE DEF more
  <2> QED
    BY <1>1, <1>2, <1>4, <2>1, <2>3 DEF CountsOk, more, key, all
<1>5. CASE key \notin DOMAIN map
  <2> DEFINE one == [length |-> 1, start_pos |-> 0, rank_pos |-> 0]
  <2>1. many(key) = 0
    <3>1. \A m \in 1 .. Len(lines) : KeyIn(scheme, lines[m], i) # key
      BY <1>5 DEF CountsOk
    <3> HIDE DEF key
    <3> QED
      BY <3>1, NoRows DEF many
  <2> HIDE DEF key
  <2>2. more = With(map, key, one)
    BY <1>5 DEF Incremented
  <2>3. one \in Counter /\ one.length = 1
    BY DEF Counter
  <2> HIDE DEF one
  <2>4. /\ DOMAIN more = DOMAIN map \union {key} /\ more = [d \in DOMAIN more |-> more[d]]
        /\ more[key] = one /\ \A d \in DOMAIN map : more[d] = map[d]
    BY <1>5, <2>2 DEF With
  <2>5. ASSUME NEW d \in DOMAIN more
        PROVE  more[d] \in Counter /\ more[d].length = many(d) + IF d = key THEN 1 ELSE 0
    <3>1. CASE d = key
      BY <2>1, <2>3, <2>4, <3>1
    <3>2. CASE d \in DOMAIN map
      <4>1. many(d) \in Nat /\ d # key
        BY <1>1, <1>5, <3>2
      <4> QED
        BY <1>3, <2>4, <3>2, <4>1
    <3> QED
      BY <2>4, <3>1, <3>2
  <2> HIDE DEF more
  <2> QED
    BY <1>1, <1>2, <2>4, <2>5 DEF CountsOk, more, key, all
<1> QED
  BY <1>4, <1>5

-----------------------------------------------------------------------------
(* The counts become positions *)

\* A walk over a finite set meets every element once.
LEMMA WalkMeetsAll ==
    ASSUME NEW K, IsFiniteSet(K), NEW walk \in SetToSeqs(K)
    PROVE  walk \in Seq(K) /\ Distinct(walk) /\ \A d \in K : \E k \in 1 .. Len(walk) : walk[k] = d
<1> DEFINE N == Cardinality(K)
           D == 1 .. N
<1>1. N \in Nat
  BY FS_CardinalityType
<1>2. walk \in [D -> K] /\ \A j, k \in D : j # k => walk[j] # walk[k]
  BY DEF SetToSeqs
<1>3. IsFiniteSet(D) /\ Cardinality(D) = N
  BY <1>1, FS_Interval
<1>4. walk \in Injection(D, K)
  BY <1>2 DEF Injection, IsInjective
<1>5. walk \in Surjection(D, K)
  <2> HIDE DEF D
  <2>1. Cardinality(D) = Cardinality(K)
    BY <1>3
  <2> QED
    BY <1>4, <2>1, FS_Injection
<1>6. walk \in Seq(K) /\ Len(walk) = N
  <2> HIDE DEF N
  <2>1. walk = [k \in 1 .. N |-> walk[k]] /\ \A k \in 1 .. N : walk[k] \in K
    BY <1>2
  <2> QED
    BY <1>1, <2>1, IsSequence
<1>7. \A d \in K : \E k \in D : walk[k] = d
  BY <1>5 DEF Surjection
<1> QED
  BY <1>2, <1>6, <1>7 DEF Distinct

\* The keys of some lines are finitely many.
LEMMA FewKeys ==
    ASSUME NEW scheme, NEW lines \in Contents, NEW i, NEW map, CountsOk(scheme, lines, map, i)
    PROVE  IsFiniteSet(DOMAIN map)
<1> DEFINE D == 1 .. Len(lines)
           f == [m \in D |-> KeyIn(scheme, lines[m], i)]
           K == DOMAIN map
<1>1. IsFiniteSet(D)
  <2>1. Len(lines) \in Int /\ 1 \in Int
    BY DEF Contents
  <2> QED
    BY <2>1, FS_Interval
<1>2. \A d : d \in K <=> \E m \in D : f[m] = d
  BY DEF CountsOk
<1> HIDE DEF K, D
<1>3. f \in [D -> K]
  BY <1>2
<1>4. f \in Surjection(D, K)
  BY <1>2, <1>3 DEF Surjection
<1> HIDE DEF f
<1> QED
  BY <1>1, <1>4, FS_Surjection DEF K

\* Whatever the walk, the ranges of the keys are in the array, and apart.
LEMMA Starts ==
    ASSUME NEW scheme, NEW lines \in Contents, NEW i, NEW map, CountsOk(scheme, lines, map, i),
           NEW more \in Summed(map)
    PROVE  /\ CountsOk(scheme, lines, more, i) /\ StartsOk(Len(lines), more)
           /\ \A d \in DOMAIN more : more[d].rank_pos = more[d].start_pos
<1> DEFINE K == DOMAIN map
<1>1. PICK walk \in SetToSeqs(K) :
        more = [digest \in K |->
            LET before == Before(map, walk, CHOOSE k \in DOMAIN walk : walk[k] = digest)
            IN [map[digest] EXCEPT !.start_pos = before, !.rank_pos = before]]
  BY DEF Summed
<1>2. walk \in Seq(K) /\ Distinct(walk) /\ \A d \in K : \E k \in 1 .. Len(walk) : walk[k] = d
  BY FewKeys, WalkMeetsAll
<1> DEFINE N == Len(walk)
           Place(d) == CHOOSE k \in DOMAIN walk : walk[k] = d
           at == [k \in 1 .. N + 1 |-> Before(map, walk, k)]
           size == [k \in 1 .. N |-> map[walk[k]].length]
<1>3. N \in Nat /\ DOMAIN walk = 1 .. N
  BY <1>2
<1>4. \A d \in K : Place(d) \in 1 .. N /\ walk[Place(d)] = d
  BY <1>2, <1>3
<1>5. \A d \in K : map[d] \in Counter /\ map[d].length \in Nat
  BY DEF CountsOk, Counter
<1>6. \A k \in 1 .. N + 1 : at[k] = Total(map, SubSeq(walk, 1, k - 1))
  BY DEF Before, Total
<1>7. ASSUME NEW k \in 1 .. N
      PROVE  at[k] \in Nat /\ size[k] \in Nat /\ at[k + 1] = at[k] + size[k]
  <2> DEFINE before == SubSeq(walk, 1, k - 1)
  <2>1. before \in Seq(K) /\ walk[k] \in K /\ SubSeq(walk, 1, k) = Append(before, walk[k])
    BY <1>2, FirstElements
  <2>2. /\ k \in 1 .. N + 1 /\ k + 1 \in 1 .. N + 1 /\ (k + 1) - 1 = k
    BY <1>3
  <2>3. at[k] = Total(map, before) /\ at[k + 1] = Total(map, Append(before, walk[k]))
    <3> HIDE DEF at
    <3> QED
      BY <1>6, <2>1, <2>2
  <2>4. size[k] = map[walk[k]].length
    OBVIOUS
  <2> HIDE DEF before, at, size, K
  <2>5. \A d \in K : map[d].length \in Nat
    BY <1>5
  <2>6. Total(map, before) \in Nat
    BY <2>1, <2>5, TotalType
  <2>7. Total(map, Append(before, walk[k])) = Total(map, before) + map[walk[k]].length
    BY <2>1, <2>5, TotalAppend
  <2> QED
    BY <2>1, <2>3, <2>4, <2>5, <2>6, <2>7
<1>8. at[N + 1] <= Len(lines)
  <2>1. at[N + 1] = Total(map, walk)
    <3>1. N + 1 \in 1 .. N + 1 /\ (N + 1) - 1 = N /\ SubSeq(walk, 1, N) = walk
      BY <1>2, <1>3
    <3> HIDE DEF at
    <3> QED
      BY <1>6, <3>1
  <2>2. \A d \in K : map[d].length = Len(Rows(scheme, lines, i, d))
    BY DEF CountsOk
  <2> HIDE DEF K
  <2>3. Total(map, walk) <= Len(lines)
    BY <1>2, <2>2, TotalBound
  <2> QED
    BY <2>1, <2>3
<1>9. ASSUME NEW d \in K
      PROVE  /\ more[d] = [map[d] EXCEPT !.start_pos = at[Place(d)], !.rank_pos = at[Place(d)]]
             /\ at[Place(d)] \in Nat
  <2>1. Place(d) \in 1 .. N + 1 /\ Place(d) \in 1 .. N
    <3> HIDE DEF Place
    <3> QED
      BY <1>3, <1>4
  <2>2. at[Place(d)] = Before(map, walk, Place(d))
    BY <2>1
  <2> HIDE DEF at
  <2>3. at[Place(d)] \in Nat
    <3> HIDE DEF Place
    <3> QED
      BY <1>7, <2>1
  <2> QED
    BY <1>1, <2>2, <2>3
<1> HIDE DEF Place, at, size
<1>10. DOMAIN more = K /\ more = [d \in DOMAIN more |-> more[d]]
  <2> DEFINE New(digest) ==
                LET before == Before(map, walk, CHOOSE k \in DOMAIN walk : walk[k] = digest)
                IN [map[digest] EXCEPT !.start_pos = before, !.rank_pos = before]
  <2>1. more = [digest \in K |-> New(digest)]
    BY <1>1
  <2> HIDE DEF New, K
  <2> QED
    BY <2>1
<1>12. ASSUME NEW d \in K
       PROVE  /\ more[d] \in Counter /\ more[d].length = map[d].length
              /\ more[d].start_pos = at[Place(d)] /\ more[d].rank_pos = at[Place(d)]
  <2> DEFINE c == map[d]
             p == at[Place(d)]
  <2>1. c \in Counter /\ p \in Nat /\ more[d] = [c EXCEPT !.start_pos = p, !.rank_pos = p]
    BY <1>5, <1>9
  <2> HIDE DEF c, p
  <2>2. more[d] \in Counter /\ more[d].length = c.length /\ more[d].start_pos = p
        /\ more[d].rank_pos = p
    <3>1. more[d] = [length |-> c.length, start_pos |-> p, rank_pos |-> p] /\ c.length \in Nat
      BY <2>1 DEF Counter
    <3> QED
      BY <2>1, <3>1 DEF Counter
  <2> QED
    BY <2>2 DEF c, p
<1>13. CountsOk(scheme, lines, more, i)
  BY <1>10, <1>12 DEF CountsOk
<1>14. ASSUME NEW d \in K
       PROVE  /\ at[Place(d)] \in Nat /\ map[d].length = size[Place(d)] /\ Place(d) \in 1 .. N
              /\ at[Place(d)] + map[d].length = at[Place(d) + 1]
  BY <1>4, <1>7 DEF size
<1>15. ASSUME NEW k \in 1 .. N
       PROVE  /\ at[k + 1] <= at[N + 1] /\ at[N + 1] \in Nat
              /\ \A g \in 1 .. N : g # k => at[g + 1] <= at[k] \/ at[k + 1] <= at[g]
  BY <1>3, <1>7, Layout
<1>16. Len(lines) \in Nat
  BY DEF Contents
<1>17. ASSUME NEW d \in K
       PROVE  /\ more[d].start_pos + more[d].length <= Len(lines)
              /\ \A e \in K : e # d => \/ more[d].start_pos + more[d].length <= more[e].start_pos
                                       \/ more[e].start_pos + more[e].length <= more[d].start_pos
  <2>1. more[d].start_pos + more[d].length = at[Place(d) + 1] /\ Place(d) \in 1 .. N
        /\ at[Place(d) + 1] \in Nat
    BY <1>12, <1>14, <1>7
  <2>2. at[Place(d) + 1] <= Len(lines)
    BY <1>8, <1>15, <1>16, <2>1
  <2>3. ASSUME NEW e \in K, e # d
        PROVE  \/ more[d].start_pos + more[d].length <= more[e].start_pos
               \/ more[e].start_pos + more[e].length <= more[d].start_pos
    <3>1. more[e].start_pos + more[e].length = at[Place(e) + 1] /\ Place(e) \in 1 .. N
      BY <1>12, <1>14
    <3>2. Place(e) # Place(d)
      BY <1>4, <2>3
    <3>3. at[Place(e) + 1] <= at[Place(d)] \/ at[Place(d) + 1] <= at[Place(e)]
      BY <1>15, <2>1, <3>1, <3>2
    <3> QED
      BY <1>12, <2>1, <3>1, <3>3
  <2> QED
    BY <2>1, <2>2, <2>3
<1>18. StartsOk(Len(lines), more)
  BY <1>10, <1>17 DEF StartsOk
<1> QED
  BY <1>10, <1>12, <1>13, <1>18

-----------------------------------------------------------------------------
(* The second pass *)

\* The map of an index after a line with a key.
Ranking(map, key) == [map EXCEPT ![key].rank_pos = @ + 1]

\* Only the key's next position changes.
IsRanking(map, key, more) ==
    /\ DOMAIN more = DOMAIN map
    /\ \A d \in DOMAIN map :
        /\ more[d].start_pos = map[d].start_pos /\ more[d].length = map[d].length
        /\ more[d].rank_pos = map[d].rank_pos + IF d = key THEN 1 ELSE 0
        /\ map[d].start_pos \in Nat /\ map[d].length \in Nat /\ map[d].rank_pos \in Nat

\* It is such a map, and as right about the counts.
LEMMA RankingType ==
    ASSUME NEW scheme, NEW lines \in Contents, NEW i, NEW map, CountsOk(scheme, lines, map, i),
           NEW key \in DOMAIN map
    PROVE  /\ CountsOk(scheme, lines, Ranking(map, key), i)
           /\ IsRanking(map, key, Ranking(map, key))
<1> DEFINE more == Ranking(map, key)
<1>1. DOMAIN more = DOMAIN map /\ more = [d \in DOMAIN more |-> more[d]]
  BY DEF Ranking
<1>2. ASSUME NEW d \in DOMAIN map
      PROVE  /\ more[d] \in Counter /\ map[d] \in Counter
             /\ more[d].start_pos = map[d].start_pos /\ more[d].length = map[d].length
             /\ more[d].rank_pos = map[d].rank_pos + IF d = key THEN 1 ELSE 0
  <2>1. map[d] \in Counter
    BY DEF CountsOk
  <2>2. CASE d = key
    <3> DEFINE c == map[d]
    <3>1. more[d] = [c EXCEPT !.rank_pos = @ + 1]
      BY <2>2 DEF Ranking
    <3> HIDE DEF c
    <3>2. c \in Counter
      BY <2>1 DEF c
    <3>3. more[d] = [length |-> c.length, start_pos |-> c.start_pos, rank_pos |-> c.rank_pos + 1]
          /\ c.length \in Nat /\ c.start_pos \in Nat /\ c.rank_pos \in Nat
      BY <3>1, <3>2 DEF Counter
    <3> HIDE DEF more
    <3>4. more[d] \in Counter /\ more[d].start_pos = c.start_pos /\ more[d].length = c.length
          /\ more[d].rank_pos = c.rank_pos + 1
      BY <3>3 DEF Counter
    <3> QED
      BY <2>2, <3>2, <3>4 DEF c
  <2>3. CASE d # key
    <3>1. more[d] = map[d]
      BY <2>3 DEF Ranking
    <3> HIDE DEF more
    <3> QED
      BY <2>1, <2>3, <3>1 DEF Counter
  <2> QED
    BY <2>2, <2>3
<1> HIDE DEF more
<1>3. CountsOk(scheme, lines, more, i)
  BY <1>1, <1>2 DEF CountsOk
<1> QED
  BY <1>1, <1>2, <1>3 DEF more, Counter, IsRanking

\* And so its next line comes after this one.
LEMMA RankingOk ==
    ASSUME NEW scheme, NEW lines \in Contents, NEW ranked \in Contents, NEW line \in Strings,
           NEW i, NEW map, CountsOk(scheme, lines, map, i), KeyIn(scheme, line, i) \in DOMAIN map,
           StartsOk(Len(lines), map), RanksOk(scheme, ranked, map, i)
    PROVE  LET more == Ranking(map, KeyIn(scheme, line, i))
           IN StartsOk(Len(lines), more) /\ RanksOk(scheme, Append(ranked, line), more, i)
<1> DEFINE key == KeyIn(scheme, line, i)
           more == Ranking(map, key)
<1>1. DOMAIN more = DOMAIN map
      /\ \A d \in DOMAIN map :
            /\ more[d].start_pos = map[d].start_pos /\ more[d].length = map[d].length
            /\ more[d].rank_pos = map[d].rank_pos + IF d = key THEN 1 ELSE 0
            /\ map[d].start_pos \in Nat /\ map[d].length \in Nat /\ map[d].rank_pos \in Nat
  <2>1. IsRanking(map, key, more)
    BY RankingType
  <2> HIDE DEF more
  <2> QED
    BY <2>1 DEF IsRanking
<1> HIDE DEF more
<1>2. StartsOk(Len(lines), more)
  BY <1>1 DEF StartsOk
<1>3. ASSUME NEW d \in DOMAIN map
      PROVE  more[d].rank_pos = more[d].start_pos + Len(Rows(scheme, Append(ranked, line), i, d))
  <2>1. RowsMore(scheme, ranked, line, i, d)
    BY RowsAppend
  <2>2. /\ Rows(scheme, ranked, i, d) \in Contents
        /\ Rows(scheme, Append(ranked, line), i, d) =
                IF key = d THEN Append(Rows(scheme, ranked, i, d), line)
                ELSE Rows(scheme, ranked, i, d)
    BY <2>1 DEF RowsMore
  <2>3. \A q \in Contents : Len(q) \in Nat /\ Len(Append(q, line)) = Len(q) + 1
    BY AppendAt DEF Contents
  <2>4. map[d].rank_pos = map[d].start_pos + Len(Rows(scheme, ranked, i, d))
    BY DEF RanksOk
  <2> HIDE DEF key
  <2> QED
    BY <1>1, <2>2, <2>3, <2>4
<1>4. RanksOk(scheme, Append(ranked, line), more, i)
  BY <1>1, <1>3 DEF RanksOk
<1> QED
  BY <1>2, <1>4 DEF more

\* If the next line is one of those counted, its position is in its key's range.
LEMMA RankInRange ==
    ASSUME NEW scheme, NEW lines \in Contents, NEW ranked \in Contents, NEW line \in Strings,
           Prefix(Append(ranked, line), lines),
           NEW i, NEW map, CountsOk(scheme, lines, map, i), RanksOk(scheme, ranked, map, i)
    PROVE  LET key == KeyIn(scheme, line, i)
           IN /\ key \in DOMAIN map /\ map[key].rank_pos \in Nat /\ map[key].start_pos \in Nat
              /\ map[key].rank_pos = map[key].start_pos + Len(Rows(scheme, ranked, i, key))
              /\ map[key].rank_pos < map[key].start_pos + map[key].length
<1> DEFINE key == KeyIn(scheme, line, i)
           all == Append(ranked, line)
<1>1. /\ all \in Contents /\ Len(all) = Len(ranked) + 1 /\ all[Len(ranked) + 1] = line
      /\ Len(ranked) \in Nat
  BY AppendAt DEF Contents
<1>2. RowsMore(scheme, ranked, line, i, key)
  BY RowsAppend
<1>3. /\ Rows(scheme, ranked, i, key) \in Contents
      /\ Rows(scheme, all, i, key) = Append(Rows(scheme, ranked, i, key), line)
  BY <1>2 DEF RowsMore
<1> HIDE DEF all
<1>4. key \in DOMAIN map
  <2>1. Len(ranked) + 1 \in 1 .. Len(lines) /\ lines[Len(ranked) + 1] = line
    <3>1. Len(lines) \in Nat /\ Len(ranked) + 1 \in 1 .. Len(all)
      BY <1>1 DEF Contents
    <3>2. Prefix(all, lines)
      BY DEF all
    <3> QED
      BY <1>1, <3>1, <3>2 DEF Prefix
  <2> QED
    BY <2>1 DEF CountsOk
<1>5. Prefix(Rows(scheme, all, i, key), Rows(scheme, lines, i, key))
      /\ Rows(scheme, lines, i, key) \in Contents
  <2>1. Prefix(all, lines)
    BY DEF all
  <2> HIDE DEF key
  <2> QED
    BY <1>1, <2>1, RowsGrow
<1> HIDE DEF key
<1>6. /\ Len(Rows(scheme, all, i, key)) = Len(Rows(scheme, ranked, i, key)) + 1
      /\ Len(Rows(scheme, ranked, i, key)) \in Nat /\ Len(Rows(scheme, lines, i, key)) \in Nat
  <2>1. \A q \in Contents : Len(q) \in Nat /\ Len(Append(q, line)) = Len(q) + 1
    BY AppendAt DEF Contents
  <2> QED
    BY <1>3, <1>5, <2>1
<1>7. Len(Rows(scheme, ranked, i, key)) < Len(Rows(scheme, lines, i, key))
  BY <1>5, <1>6 DEF Prefix
<1>8. /\ map[key] \in Counter /\ map[key].length = Len(Rows(scheme, lines, i, key))
      /\ map[key].rank_pos = map[key].start_pos + Len(Rows(scheme, ranked, i, key))
  BY <1>4 DEF CountsOk, RanksOk
<1>9. map[key].rank_pos \in Nat /\ map[key].start_pos \in Nat
  BY <1>8 DEF Counter
<1> QED
  BY <1>4, <1>6, <1>7, <1>8, <1>9 DEF key

\* The numbers after one more line.
LEMMA NumbersMore ==
    ASSUME NEW size \in Nat, NEW many \in Nat, NEW numbers, NumbersOk(size, many, numbers),
           NEW p \in 0 .. size - 1
    PROVE  NumbersOk(size, many + 1, [numbers EXCEPT ![p] = many])
<1> DEFINE more == [numbers EXCEPT ![p] = many]
<1>1. DOMAIN numbers = 0 .. size - 1
  BY DEF NumbersOk
<1>2. more = [q \in 0 .. size - 1 |-> more[q]]
  BY <1>1
<1>3. ASSUME NEW q \in 0 .. size - 1
      PROVE  more[q] \in Nat /\ (more[q] = 0 \/ more[q] < many + 1)
  <2>1. numbers[q] \in Nat /\ (numbers[q] = 0 \/ numbers[q] < many)
    BY DEF NumbersOk
  <2>2. more[q] = IF q = p THEN many ELSE numbers[q]
    BY <1>1
  <2> HIDE DEF more
  <2> QED
    BY <2>1, <2>2
<1> HIDE DEF more
<1>4. NumbersOk(size, many + 1, more)
  BY <1>2, <1>3 DEF NumbersOk
<1> QED
  BY <1>4 DEF more

\* Positions in ranges that are apart are different.
LEMMA Apart ==
    ASSUME NEW a \in Nat, NEW la \in Nat, NEW b \in Nat, NEW lb \in Nat,
           a + la <= b \/ b + lb <= a, NEW p \in 1 .. la, NEW r \in Nat, r >= b, r < b + lb
    PROVE  a + p - 1 # r
OBVIOUS

\* A line of those counted gets a position of its own.
LEMMA PlacedMore ==
    ASSUME NEW scheme, NEW lines \in Contents, NEW ranked \in Contents, NEW line \in Strings,
           Prefix(Append(ranked, line), lines),
           NEW i, NEW map, CountsOk(scheme, lines, map, i), StartsOk(Len(lines), map),
           RanksOk(scheme, ranked, map, i), NEW size \in Nat, Len(lines) <= size,
           NEW numbers, NumbersOk(size, Len(ranked), numbers),
           PlacedOk(scheme, lines, ranked, map, numbers, i)
    PROVE  LET key == KeyIn(scheme, line, i)
           IN PlacedOk(scheme, lines, Append(ranked, line), Ranking(map, key),
                       [numbers EXCEPT ![map[key].rank_pos] = Len(ranked)], i)
<1> DEFINE key == KeyIn(scheme, line, i)
           all == Append(ranked, line)
           more == Ranking(map, key)
           r == map[key].rank_pos
           after == [numbers EXCEPT ![r] = Len(ranked)]
           Had(d) == Len(Rows(scheme, ranked, i, d))
<1>1. /\ key \in DOMAIN map /\ r \in Nat /\ map[key].start_pos \in Nat
      /\ r = map[key].start_pos + Had(key) /\ r < map[key].start_pos + map[key].length
  BY RankInRange
<1>2. DOMAIN more = DOMAIN map
      /\ \A d \in DOMAIN map :
            /\ more[d].start_pos = map[d].start_pos
            /\ map[d].start_pos \in Nat /\ map[d].length \in Nat /\ map[d].rank_pos \in Nat
  <2>1. IsRanking(map, key, more)
    BY <1>1, RankingType
  <2> HIDE DEF more, key
  <2> QED
    BY <2>1 DEF IsRanking
<1>3. r \in 0 .. size - 1 /\ Len(lines) \in Nat
  <2>1. map[key].start_pos + map[key].length <= Len(lines) /\ Len(lines) \in Nat
    BY <1>1 DEF StartsOk, Contents
  <2>2. map[key].length \in Nat
    BY <1>1, <1>2
  <2> HIDE DEF key, r
  <2> QED
    BY <1>1, <2>1, <2>2
<1>4. after[r] = Len(ranked) /\ \A q \in 0 .. size - 1 : q # r => after[q] = numbers[q]
  <2>1. numbers = [q \in 0 .. size - 1 |-> numbers[q]]
    BY DEF NumbersOk
  <2> HIDE DEF r
  <2> QED
    BY <1>3, <2>1
<1>5. /\ all \in Contents /\ Len(ranked) < Len(lines) /\ lines[Len(ranked) + 1] = line
      /\ Prefix(ranked, lines) /\ Len(ranked) \in Nat
  <2>1. /\ all \in Contents /\ Len(ranked) \in Nat /\ Len(all) = Len(ranked) + 1
        /\ all[Len(ranked) + 1] = line /\ \A k \in 1 .. Len(ranked) : all[k] = ranked[k]
    BY AppendAt DEF Contents
  <2>2. Prefix(all, lines)
    OBVIOUS
  <2> HIDE DEF all
  <2>3. Len(ranked) + 1 <= Len(lines) /\ \A k \in 1 .. Len(ranked) + 1 : lines[k] = all[k]
    BY <2>1, <2>2 DEF Prefix
  <2>4. Prefix(ranked, lines)
    BY <1>3, <2>1, <2>3 DEF Prefix
  <2> QED
    BY <1>3, <2>1, <2>3, <2>4
<1>6. ASSUME NEW d \in DOMAIN map
      PROVE  /\ Had(d) \in Nat /\ Had(d) <= map[d].length
             /\ Rows(scheme, ranked, i, d) \in Contents
             /\ Rows(scheme, all, i, d) = IF d = key THEN Append(Rows(scheme, ranked, i, d), line)
                                          ELSE Rows(scheme, ranked, i, d)
  <2>1. RowsMore(scheme, ranked, line, i, d)
    BY RowsAppend
  <2>2. /\ Rows(scheme, ranked, i, d) \in Contents /\ Rows(scheme, lines, i, d) \in Contents
        /\ Prefix(Rows(scheme, ranked, i, d), Rows(scheme, lines, i, d))
    BY <1>5, RowsGrow
  <2>3. map[d].length = Len(Rows(scheme, lines, i, d))
    BY DEF CountsOk
  <2> QED
    BY <2>1, <2>2, <2>3 DEF RowsMore, Prefix, Contents
<1>7. ASSUME NEW d \in DOMAIN map, NEW p \in 1 .. Had(d)
      PROVE  /\ after[map[d].start_pos + p - 1] < Len(lines)
             /\ lines[after[map[d].start_pos + p - 1] + 1] = Rows(scheme, ranked, i, d)[p]
  <2> DEFINE q == map[d].start_pos + p - 1
  <2>1. numbers[q] < Len(lines) /\ lines[numbers[q] + 1] = Rows(scheme, ranked, i, d)[p]
    BY DEF PlacedOk
  <2>2. /\ map[d].start_pos + map[d].length <= Len(lines)
        /\ d # key => \/ map[d].start_pos + map[d].length <= map[key].start_pos
                      \/ map[key].start_pos + map[key].length <= map[d].start_pos
    BY <1>1 DEF StartsOk
  <2>3. map[d].start_pos \in Nat /\ map[d].length \in Nat /\ Had(d) \in Nat /\ Had(d) <= map[d].length
    BY <1>2, <1>6
  <2>4. q \in 0 .. size - 1
    <3> HIDE DEF Had
    <3> QED
      BY <1>3, <2>2, <2>3
  <2>5. q # r
    <3>1. CASE d = key
      <4>1. r = map[d].start_pos + Had(d)
        BY <1>1, <3>1
      <4> HIDE DEF Had, r
      <4> QED
        BY <2>3, <4>1
    <3>2. CASE d # key
      <4> HIDE DEF Had, r, key
      <4>1. map[key].start_pos \in Nat /\ map[key].length \in Nat /\ Had(key) \in Nat
        BY <1>1, <1>2, <1>6
      <4>2. r >= map[key].start_pos /\ r < map[key].start_pos + map[key].length /\ r \in Nat
        BY <1>1, <4>1
      <4>3. p \in 1 .. map[d].length
        BY <2>3
      <4>4. \/ map[d].start_pos + map[d].length <= map[key].start_pos
            \/ map[key].start_pos + map[key].length <= map[d].start_pos
        BY <2>2, <3>2
      <4> QED
        BY <2>3, <4>1, <4>2, <4>3, <4>4, Apart
    <3> QED
      BY <3>1, <3>2
  <2>6. after[q] = numbers[q]
    <3> HIDE DEF after, q
    <3> QED
      BY <1>4, <2>4, <2>5
  <2> HIDE DEF after, q
  <2>7. after[q] < Len(lines) /\ lines[after[q] + 1] = Rows(scheme, ranked, i, d)[p]
    BY <2>1, <2>6
  <2> QED
    BY <2>7 DEF q
<1> HIDE DEF after, more, all, key
<1>8. ASSUME NEW d \in DOMAIN map, NEW p \in 1 .. Len(Rows(scheme, all, i, d))
      PROVE  /\ after[map[d].start_pos + p - 1] < Len(lines)
             /\ lines[after[map[d].start_pos + p - 1] + 1] = Rows(scheme, all, i, d)[p]
  <2> DEFINE had == Rows(scheme, ranked, i, d)
  <2>1. had \in Contents /\ Len(had) \in Nat /\ Had(d) = Len(had)
    BY <1>6
  <2>2. CASE d # key
    <3>1. Rows(scheme, all, i, d) = had
      BY <1>6, <2>2
    <3> QED
      BY <1>7, <3>1
  <2>3. CASE d = key
    <3>1. Rows(scheme, all, i, d) = Append(had, line)
      BY <1>6, <2>3
    <3> HIDE DEF had
    <3>2. /\ Len(Append(had, line)) = Len(had) + 1 /\ Append(had, line)[Len(had) + 1] = line
          /\ \A k \in 1 .. Len(had) : Append(had, line)[k] = had[k]
      BY <2>1, AppendAt DEF Contents
    <3>3. CASE p \in 1 .. Len(had)
      <4>1. Rows(scheme, all, i, d)[p] = had[p]
        BY <3>1, <3>2, <3>3
      <4>2. p \in 1 .. Had(d)
        BY <2>1, <3>3
      <4> QED
        BY <1>7, <4>1, <4>2 DEF had
    <3>4. CASE p = Len(had) + 1
      <4>1. Rows(scheme, all, i, d)[p] = line
        BY <3>1, <3>2, <3>4
      <4>2. map[d].start_pos + p - 1 = r
        <5>1. r = map[d].start_pos + Len(had) /\ map[d].start_pos \in Nat
          BY <1>1, <2>1, <2>3
        <5> HIDE DEF r
        <5> QED
          BY <2>1, <3>4, <5>1
      <4>3. after[map[d].start_pos + p - 1] = Len(ranked)
        BY <1>4, <4>2
      <4> QED
        BY <1>5, <4>1, <4>3
    <3>5. p \in 1 .. Len(had) + 1
      BY <3>1, <3>2
    <3> QED
      BY <2>1, <3>3, <3>4, <3>5
  <2> QED
    BY <2>2, <2>3
<1>9. PlacedOk(scheme, lines, all, more, after, i)
  BY <1>2, <1>8 DEF PlacedOk
<1> QED
  BY <1>9 DEF after, all, more, key

-----------------------------------------------------------------------------
(* The module's operators are those of the table at hand *)

\* The index fields are numbered fields.
LEMMA IndexesType ==
    ASSUME NEW scheme, SchemeOk(scheme)
    PROVE  /\ vIndexs(scheme) \in Seq(FieldSet) /\ Len(vIndexs(scheme)) \in Nat
           /\ Len(scheme.vFields) \in Nat
<1>1. scheme.vFields \in Seq(FieldSet)
  BY DEF SchemeOk
<1>2. vIndexs(scheme) \in Seq(FieldSet)
  BY <1>1, OnlyType DEF vIndexs
<1> QED
  BY <1>1, <1>2

\* What is asked of a scheme whose indexes are its leading fields.
Leading(scheme) ==
    \A f \in 1 .. Len(scheme.vFields) :
        scheme.vFields[f].is_index => f <= Len(vIndexs(scheme))

\* Then the i-th index is the i-th field.
LEMMA LeadingFields ==
    ASSUME NEW scheme, SchemeOk(scheme), Leading(scheme)
    PROVE  /\ Len(vIndexs(scheme)) <= Len(scheme.vFields)
           /\ \A i \in 1 .. Len(vIndexs(scheme)) :
                /\ vIndexs(scheme)[i] = scheme.vFields[i] /\ scheme.vFields[i].is_index
                /\ vIndexs(scheme)[i].index + 1 = i
<1> DEFINE s == scheme.vFields
           kept == {field \in Range(s) : field.is_index}
<1>1. s \in Seq(FieldSet) /\ Len(s) \in Nat /\ \A f \in 1 .. Len(s) : s[f].index = f - 1
  BY DEF SchemeOk
<1>2. vIndexs(scheme) = Only(s, kept)
  BY DEF vIndexs
<1>3. \A k \in 1 .. Len(s) : s[k] \in kept => s[k].is_index
  OBVIOUS
<1>4. \A k \in 1 .. Len(s) : s[k] \in kept => k <= Len(Only(s, kept))
  BY <1>2, <1>3 DEF Leading
<1> HIDE DEF s, kept
<1>5. /\ Len(Only(s, kept)) \in 0 .. Len(s)
      /\ \A k \in 1 .. Len(Only(s, kept)) : s[k] \in kept /\ Only(s, kept)[k] = s[k]
  BY <1>1, <1>4, OnlyLeading
<1>6. ASSUME NEW i \in 1 .. Len(Only(s, kept))
      PROVE  Only(s, kept)[i] = s[i] /\ s[i].is_index /\ s[i].index + 1 = i
  <2>1. i \in 1 .. Len(s) /\ s[i].index = i - 1
    BY <1>1, <1>5
  <2> QED
    BY <1>3, <1>5, <2>1
<1> QED
  BY <1>1, <1>2, <1>5, <1>6 DEF s

\* Tokens, keys and good lines are those of the table's scheme.
LEMMA Linked ==
    /\ \A line : Tokens(line) = TokensIn(Scheme, line)
    /\ \A line \in Strings : Accepted(line) <=> line \in GoodLines(Scheme)
    /\ \A line, i : Key(line, i) = KeyIn(Scheme, line, i)
    /\ LeadingIndexes <=> Leading(Scheme)
<1>1. \A line : Tokens(line) = TokensIn(Scheme, line)
  BY DEF Tokens, TokensIn
<1>2. \A line \in Strings : Accepted(line) <=> line \in GoodLines(Scheme)
  BY <1>1 DEF Accepted, GoodLines, nIndex, IndexFields
<1>3. \A line, i : Key(line, i) = KeyIn(Scheme, line, i)
  BY <1>1 DEF Key, KeyIn, IndexFields
<1>4. LeadingIndexes <=> Leading(Scheme)
  BY DEF LeadingIndexes, Leading, nField, Fields, nIndex, IndexFields
<1> QED
  BY <1>1, <1>2, <1>3, <1>4

\* And so are the good lines of a content.
LEMMA LinkedGood == ASSUME NEW content \in Contents PROVE Good(content) = GoodIn(Scheme, content)
<1> DEFINE S == Range(content)
           kept == {line \in S : Accepted(line)}
<1>1. content \in Seq(S) /\ \A line \in S : line \in Strings
  BY DEF Contents, Range
<1>2. \A line \in S : line \in kept <=> line \in GoodLines(Scheme)
  BY <1>1, Linked
<1>3. Good(content) = Only(content, kept)
  BY DEF Good
<1> HIDE DEF kept, S
<1>4. Only(content, kept) = Only(content, GoodLines(Scheme))
  BY <1>1, <1>2, OnlyAgree
<1> QED
  BY <1>3, <1>4 DEF GoodIn

\* While the table stays, so does its scheme.
LEMMA SameScheme ==
    ASSUME UNCHANGED <<vTables, t>>
    PROVE  /\ Scheme' = Scheme /\ Fields' = Fields /\ nField' = nField
           /\ IndexFields' = IndexFields /\ nIndex' = nIndex /\ LineNum' = LineNum
BY DEF Scheme, Fields, nField, IndexFields, nIndex, LineNum

\* What a table at hand is.
LEMMA TableAtHand ==
    ASSUME TypeOk, t > 0
    PROVE  /\ SchemeOk(Scheme) /\ LineNum \in Nat /\ nIndex \in Nat /\ nField \in Nat
           /\ t \in 1 .. Len(vTables) /\ vTables[t].table_name \in DOMAIN file
           /\ nIndex = Len(vIndexs(Scheme)) /\ nField = Len(Scheme.vFields)
<1>1. t \in 1 .. Len(vTables)
  BY DEF TypeOk, TablesOk
<1>2. SchemeOk(Scheme) /\ LineNum \in Nat /\ vTables[t].table_name \in DOMAIN file
  BY <1>1 DEF TypeOk, TablesOk, Scheme, LineNum
<1> QED
  BY <1>1, <1>2, IndexesType DEF nIndex, nField, IndexFields, Fields

-----------------------------------------------------------------------------
(* The invariant, action by action *)

\* A run starts without tables.
LEMMA InitOk == Init => IndexInv
<1> SUFFICES ASSUME Init PROVE IndexInv
  OBVIOUS
<1>1. /\ input \in Inputs /\ file = input.files /\ pc = "config" /\ vTables = <<>> /\ t = 0
      /\ stream = <<>> /\ counted = <<>> /\ n = 0 /\ g_hashText = <<>> /\ attached = FALSE
  BY DEF Init
<1>2. file \in [DOMAIN input.schemas -> Contents]
  BY <1>1, IndexBuildAssumption DEF Contents, Strings
<1>3. TablesOk /\ t \in 0 .. Len(vTables)
  BY <1>1 DEF TablesOk
<1>4. stream \in Contents /\ counted \in Contents /\ n \in 0 .. Len(stream)
  BY <1>1 DEF Contents
<1> QED
  BY <1>1, <1>2, <1>3, <1>4 DEF IndexInv, TypeOk, StaysInBounds

\* The configuration gives tables with schemes.
LEMMA ReadConfigOk == ASSUME IndexInv, ReadConfig PROVE IndexInv'
<1>1. /\ pc = "config" /\ pc' \in {"start", "failed"}
      /\ UNCHANGED <<input, file, edits, attached, t, stream, n, counted, g_hashText>>
      /\ TypeOk /\ g_hashText = <<>>
  BY DEF ReadConfig, IndexInv, TypeOk, writerVars, builderVars
<1>2. CASE pc' = "failed"
  <2>1. vTables' = vTables
    BY <1>2 DEF ReadConfig
  <2>2. TablesOk'
    BY <1>1, <2>1 DEF TypeOk, TablesOk
  <2> QED
    BY <1>1, <1>2, <2>1, <2>2 DEF IndexInv, TypeOk, StaysInBounds
<1>3. CASE pc' = "start"
  <2>1. ConfigParses /\ vTables' = [k \in DOMAIN Names |-> ParseTable(Names[k])]
    BY <1>3 DEF ReadConfig
  <2>2. input.conf \in Contents /\ input.schemas \in [DOMAIN input.schemas -> Contents]
        /\ file \in [DOMAIN input.schemas -> Contents]
    BY <1>1, IndexBuildAssumption DEF TypeOk, Contents, Strings
  <2>3. Names \in Contents /\ \A name \in Range(Names) : name \in DOMAIN file /\ SchemeParses(input.schemas[name])
    <3>1. WellFormed(Pairs(input.conf, "="))
      BY <2>1 DEF ConfigParses
    <3>2. Names \in Contents
      BY <2>2, <3>1, NamesType DEF Names, Contents, Strings
    <3> QED
      BY <2>1, <3>2 DEF ConfigParses
  <2>4. Len(Names) \in Nat /\ DOMAIN Names = 1 .. Len(Names) /\ \A k \in 1 .. Len(Names) : Names[k] \in Range(Names)
    BY <2>3 DEF Contents, Range
  <2>5. ASSUME NEW k \in 1 .. Len(Names)
        PROVE  /\ vTables'[k].table_name \in DOMAIN file /\ SchemeOk(vTables'[k].table_scheme)
               /\ vTables'[k].file_linenum \in Nat
    <3>1. vTables'[k] = ParseTable(Names[k])
      BY <2>1, <2>4
    <3>2. Names[k] \in DOMAIN file /\ SchemeParses(input.schemas[Names[k]])
      BY <2>3, <2>4
    <3>3. input.schemas[Names[k]] \in Contents /\ file[Names[k]] \in Contents
      BY <2>2, <3>2
    <3>4. SchemeOk(ParseScheme(input.schemas[Names[k]]))
      BY <3>2, <3>3, SchemeType DEF Contents, Strings
    <3>5. Len(file[Names[k]]) \in Nat
      BY <3>3 DEF Contents
    <3> QED
      BY <3>1, <3>2, <3>4, <3>5 DEF ParseTable
  <2>6. Len(vTables') = Len(Names) /\ vTables' = [k \in 1 .. Len(Names) |-> vTables'[k]]
    <3> DEFINE made == [k \in 1 .. Len(Names) |-> ParseTable(Names[k])]
    <3>1. vTables' = made
      BY <2>1, <2>4
    <3>2. Len(made) = Len(Names) /\ made = [k \in 1 .. Len(Names) |-> made[k]]
      BY <2>4
    <3> QED
      BY <3>1, <3>2
  <2>7. TablesOk' /\ t' \in 0 .. Len(vTables')
    <3>1. t' = 0
      BY <1>1 DEF TypeOk
    <3> QED
      BY <1>1, <2>4, <2>5, <2>6, <3>1 DEF TablesOk
  <2> QED
    BY <1>1, <1>3, <2>7 DEF IndexInv, TypeOk, StaysInBounds
<1> QED
  BY <1>1, <1>2, <1>3

\* Before the first line there is nothing.
LEMMA Nothing ==
    ASSUME NEW scheme
    PROVE  /\ GoodIn(scheme, <<>>) = <<>> /\ FilterOk(scheme, <<>>, <<>>, <<>>)
           /\ RecordsOk(scheme, <<>>, <<>>, <<>>) /\ \A i : CountsOk(scheme, <<>>, <<>>, i)
<1>1. GoodIn(scheme, <<>>) = <<>>
  BY OnlyEmpty DEF GoodIn
<1>2. FilterOk(scheme, <<>>, <<>>, <<>>)
  BY DEF FilterOk, Strings
<1>3. RecordsOk(scheme, <<>>, <<>>, <<>>)
  BY DEF RecordsOk
<1>4. \A i : CountsOk(scheme, <<>>, <<>>, i)
  BY DEF CountsOk
<1> QED
  BY <1>1, <1>2, <1>3, <1>4

\* A table starts with an empty builder.
LEMMA StartTableOk == ASSUME IndexInv, StartTable PROVE IndexInv'
<1> DEFINE tab == vTables[t + 1]
           indexes == Len(vIndexs(tab.table_scheme))
<1>1. /\ pc = "start" /\ t < Len(vTables) /\ t' = t + 1
      /\ UNCHANGED <<input, file, edits, vTables>> /\ TypeOk /\ g_hashText = <<>>
  BY DEF StartTable, IndexInv, TypeOk
<1>2. /\ t + 1 \in 1 .. Len(vTables) /\ Len(vTables) \in Nat /\ t' \in 0 .. Len(vTables')
      /\ tab.table_name \in DOMAIN file /\ SchemeOk(tab.table_scheme) /\ tab.file_linenum \in Nat
  <2>1. t + 1 \in 1 .. Len(vTables) /\ Len(vTables) \in Nat
    BY <1>1 DEF TypeOk, TablesOk
  <2>2. TablesOk
    BY <1>1 DEF TypeOk
  <2> QED
    BY <1>1, <2>1, <2>2 DEF TablesOk
<1>3. TablesOk'
  BY <1>1 DEF TypeOk, TablesOk
<1>4. CASE /\ pc' \in {"failed", "undefined"}
           /\ UNCHANGED <<attached, stream, n, counted, builderVars>>
  BY <1>1, <1>2, <1>3, <1>4 DEF IndexInv, TypeOk, StaysInBounds
<1>5. CASE /\ pc' = IF indexes = 0 \/ tab.file_linenum = 0 THEN "failed" ELSE "count"
           /\ str_text' = <<>> /\ record_index' = <<>>
           /\ pidxmap' = [i \in 1 .. indexes |-> <<>>]
           /\ pRank' = [i \in 1 .. indexes |-> [p \in 0 .. tab.file_linenum - 1 |-> 0]]
           /\ stream' = file[tab.table_name] /\ attached' = TRUE
           /\ n' = 0 /\ counted' = stream' /\ lnm' = 0
           /\ UNCHANGED g_hashText
  <2>1. stream' \in Contents /\ counted' \in Contents /\ n' \in 0 .. Len(stream')
    <3>1. file[tab.table_name] \in Contents
      BY <1>1, <1>2 DEF TypeOk
    <3>2. \A q \in Contents : 0 \in 0 .. Len(q)
      BY DEF Contents
    <3> QED
      BY <1>5, <3>1, <3>2
  <2>2. TypeOk'
    BY <1>1, <1>2, <1>3, <1>5, <2>1 DEF TypeOk
  <2>3. CASE pc' = "failed"
    BY <2>2, <2>3 DEF IndexInv, StaysInBounds
  <2>4. CASE pc' # "failed"
    <3>1. pc' = "count" /\ indexes # 0 /\ tab.file_linenum # 0
      BY <1>5, <2>4
    <3>2. /\ Scheme' = tab.table_scheme /\ nIndex' = indexes /\ LineNum' = tab.file_linenum
      BY <1>1 DEF Scheme, nIndex, IndexFields, LineNum
    <3>3. indexes \in Nat
      BY <1>2, IndexesType
    <3> HIDE DEF indexes, tab
    <3>4. AtWork'
      <4>1. t' > 0 /\ nIndex' > 0 /\ LineNum' > 0
        BY <1>1, <1>2, <3>1, <3>2, <3>3
      <4>2. vTables'[t'].table_name = tab.table_name
        BY <1>1 DEF tab
      <4> QED
        BY <1>1, <1>5, <4>1, <4>2 DEF AtWork
    <3>5. Met' = <<>>
      <4>1. SubSeq(counted', 1, n') = <<>>
        BY <1>5, <2>1 DEF Contents
      <4>2. Met' = GoodIn(Scheme', SubSeq(counted', 1, n'))
        BY <3>1 DEF Met
      <4> QED
        BY <4>1, <4>2, Nothing
    <3>6. CountInv'
      <4>1. DOMAIN pidxmap' = 1 .. indexes /\ \A i \in 1 .. indexes : pidxmap'[i] = <<>>
        BY <1>5
      <4>2. Len(Met') <= LineNum' /\ ~ (Met' # <<>>)
        BY <1>2, <3>2, <3>5
      <4>3. g_hashText' = <<>> /\ str_text' = <<>> /\ record_index' = <<>>
        BY <1>1, <1>5
      <4> QED
        BY <3>2, <3>5, <4>1, <4>2, <4>3, Nothing DEF CountInv
    <3>7. ArrayInv'
      <4>1. DOMAIN pRank' = 1 .. indexes
            /\ \A i \in 1 .. indexes : pRank'[i] = [p \in 0 .. tab.file_linenum - 1 |-> 0]
        BY <1>5
      <4>2. NumbersOk(tab.file_linenum, 0, [p \in 0 .. tab.file_linenum - 1 |-> 0])
        BY DEF NumbersOk
      <4> QED
        BY <1>5, <3>2, <4>1, <4>2 DEF ArrayInv
    <3> QED
      BY <2>2, <3>1, <3>4, <3>6, <3>7 DEF IndexInv, StaysInBounds
  <2> QED
    BY <2>3, <2>4
<1> QED
  BY <1>4, <1>5 DEF StartTable

\* The builder is emptied where it matters.
LEMMA FreeBuilderOk == ASSUME IndexInv, FreeBuilder PROVE IndexInv'
<1>1. /\ pc' \in {"start", "done"} /\ g_hashText' = <<>>
      /\ UNCHANGED <<writerVars, vTables, t, stream, n, counted>> /\ TypeOk
  BY DEF FreeBuilder, IndexInv
<1>2. TypeOk'
  BY <1>1 DEF TypeOk, TablesOk, writerVars
<1> QED
  BY <1>1, <1>2 DEF IndexInv, StaysInBounds

\* A file that takes the place of another is not the one that is read.
LEMMA ReplaceOk == ASSUME IndexInv, NEW name \in DOMAIN file, Replace(name) PROVE IndexInv'
<1>1. /\ InUse(name) /\ TypeOk /\ attached' = (attached /\ ~ IsOpen(name))
      /\ UNCHANGED <<input, pc, vTables, t, stream, n, counted, builderVars>>
  BY DEF Replace, IndexInv
<1>2. PICK content \in Rewrites : file' = [file EXCEPT ![name] = content]
  BY DEF Replace
<1>3. /\ file' \in [DOMAIN input.schemas -> Contents] /\ DOMAIN file' = DOMAIN file
      /\ \A k \in DOMAIN file : k # name => file'[k] = file[k]
  <2>1. content \in Contents /\ file \in [DOMAIN input.schemas -> Contents]
    BY <1>1, <1>2, IndexBuildAssumption DEF TypeOk, Contents, Strings
  <2> QED
    BY <1>2, <2>1
<1>4. TablesOk'
  BY <1>1, <1>3 DEF TypeOk, TablesOk
<1>5. TypeOk'
  BY <1>1, <1>3, <1>4 DEF TypeOk, builderVars
<1>6. pc' # "overrun" /\ pc \in {"start", "count", "rank"}
  BY <1>1 DEF InUse
<1>7. CASE pc = "start"
  BY <1>1, <1>5, <1>7 DEF IndexInv, StaysInBounds
<1>8. CASE pc # "start"
  <2>1. AtWork /\ CountInv /\ ArrayInv /\ (pc = "rank" => RankInv)
    BY <1>6, <1>8 DEF IndexInv
  <2>2. AtWork'
    <3>1. t > 0
      BY <2>1 DEF AtWork
    <3>2. vTables[t].table_name \in DOMAIN file
      BY <1>1, <3>1, TableAtHand
    <3>3. ASSUME attached', pc' # "written" PROVE stream' = file'[vTables'[t'].table_name]
      <4>1. attached /\ vTables[t].table_name # name
        BY <1>1, <1>8, <3>3 DEF IsOpen
      <4>2. stream = file[vTables[t].table_name]
        BY <1>6, <2>1, <4>1 DEF AtWork
      <4> QED
        BY <1>1, <1>3, <3>2, <4>1, <4>2
    <3> QED
      BY <1>1, <2>1, <3>3, SameScheme DEF AtWork
  <2>3. Met' = Met /\ Ranked' = Ranked
    BY <1>1, SameScheme DEF Met, Ranked
  <2>4. LeadingIndexes' <=> LeadingIndexes
    BY <1>1, SameScheme DEF LeadingIndexes
  <2>5. CountInv' /\ ArrayInv'
    BY <1>1, <2>1, <2>3, <2>4, SameScheme DEF CountInv, ArrayInv, builderVars
  <2>6. pc = "rank" => RankInv'
    BY <1>1, <2>1, <2>3, SameScheme DEF RankInv, builderVars
  <2> QED
    BY <1>1, <1>5, <1>6, <2>2, <2>5, <2>6 DEF IndexInv, StaysInBounds
<1> QED
  BY <1>7, <1>8

\* A line that is appended comes after those read so far.
LEMMA AppendLineOk == ASSUME IndexInv, NEW name \in DOMAIN file, AppendLine(name) PROVE IndexInv'
<1>1. /\ InUse(name) /\ TypeOk
      /\ UNCHANGED <<input, attached, pc, vTables, t, n, builderVars>>
  BY DEF AppendLine, IndexInv
<1>2. PICK line \in NewLines :
        /\ file' = [file EXCEPT ![name] = Append(@, line)]
        /\ stream' = IF IsOpen(name) THEN file'[name] ELSE stream
        /\ counted' = IF IsOpen(name) /\ pc = "count" THEN stream' ELSE counted
  BY DEF AppendLine
<1>3. line \in Strings /\ file \in [DOMAIN input.schemas -> Contents]
  BY <1>1, IndexBuildAssumption DEF TypeOk, Strings
<1>4. /\ file' \in [DOMAIN input.schemas -> Contents] /\ DOMAIN file' = DOMAIN file
      /\ file'[name] = Append(file[name], line) /\ file[name] \in Contents
      /\ \A k \in DOMAIN file : k # name => file'[k] = file[k]
  <2>1. file[name] \in Contents
    BY <1>3
  <2>2. Append(file[name], line) \in Contents
    BY <1>3, <2>1 DEF Contents
  <2> QED
    BY <1>2, <1>3, <2>1, <2>2
<1>5. TablesOk'
  BY <1>1, <1>4 DEF TypeOk, TablesOk
<1>6. pc' # "overrun" /\ pc \in {"start", "count", "rank"}
  BY <1>1 DEF InUse
<1>7. pc # "start" => AtWork /\ CountInv /\ ArrayInv /\ (pc = "rank" => RankInv)
  BY <1>6 DEF IndexInv
<1>8. /\ stream \in Contents /\ counted \in Contents /\ n \in 0 .. Len(stream)
      /\ stream' \in Contents /\ counted' \in Contents /\ n \in 0 .. Len(stream')
      /\ SubSeq(stream', 1, n) = SubSeq(stream, 1, n)
  <2>1. stream \in Contents /\ counted \in Contents /\ n \in 0 .. Len(stream)
    BY <1>1 DEF TypeOk
  <2>2. CASE IsOpen(name)
    <3>1. stream = file[name]
      BY <1>6, <1>7, <2>2 DEF IsOpen, AtWork
    <3>2. stream' = Append(stream, line)
      BY <1>2, <1>4, <2>2, <3>1
    <3>3. Append(stream, line) \in Contents /\ n \in 0 .. Len(Append(stream, line))
          /\ SubSeq(Append(stream, line), 1, n) = SubSeq(stream, 1, n)
      BY <1>3, <2>1 DEF Contents
    <3> QED
      BY <1>2, <2>1, <3>2, <3>3
  <2>3. CASE ~ IsOpen(name)
    BY <1>2, <2>1, <2>3
  <2> QED
    BY <2>2, <2>3
<1>9. TypeOk'
  BY <1>1, <1>4, <1>5, <1>8 DEF TypeOk, builderVars
<1>10. CASE pc = "start"
  BY <1>1, <1>9, <1>10 DEF IndexInv, StaysInBounds
<1>11. CASE pc # "start"
  <2>1. AtWork /\ CountInv /\ ArrayInv /\ (pc = "rank" => RankInv)
    BY <1>7, <1>11
  <2>2. pc = "count" => counted = stream /\ counted' = stream'
    BY <1>2, <2>1 DEF AtWork
  <2>3. pc = "rank" => counted' = counted
    BY <1>2
  <2>4. AtWork'
    <3>1. t > 0
      BY <2>1 DEF AtWork
    <3>2. vTables[t].table_name \in DOMAIN file
      BY <1>1, <3>1, TableAtHand
    <3>3. ASSUME attached', pc' # "written" PROVE stream' = file'[vTables'[t'].table_name]
      <4>1. attached /\ stream = file[vTables[t].table_name]
        BY <1>1, <2>1, <3>3 DEF AtWork
      <4>2. CASE vTables[t].table_name = name
        BY <1>1, <1>2, <1>11, <4>1, <4>2 DEF IsOpen
      <4>3. CASE vTables[t].table_name # name
        BY <1>1, <1>2, <1>4, <3>2, <4>1, <4>3 DEF IsOpen
      <4> QED
        BY <4>2, <4>3
    <3> QED
      BY <1>1, <2>1, <2>2, <3>3, SameScheme DEF AtWork
  <2>5. Met' = Met /\ Ranked' = Ranked
    <3>1. Ranked' = Ranked
      BY <1>1, <1>8, SameScheme DEF Ranked
    <3>2. CASE pc = "count"
      BY <1>1, <1>8, <2>2, <3>1, <3>2, SameScheme DEF Met
    <3>3. CASE pc = "rank"
      BY <1>1, <2>3, <3>1, <3>3, SameScheme DEF Met
    <3> QED
      BY <1>6, <1>11, <3>2, <3>3
  <2>6. LeadingIndexes' <=> LeadingIndexes
    BY <1>1, SameScheme DEF LeadingIndexes
  <2>7. CountInv' /\ ArrayInv'
    BY <1>1, <2>1, <2>5, <2>6, SameScheme DEF CountInv, ArrayInv, builderVars
  <2>8. pc = "rank" => RankInv'
    <3> SUFFICES ASSUME pc = "rank" PROVE RankInv'
      OBVIOUS
    <3>1. RankInv /\ counted' = counted
      BY <2>1, <2>3
    <3> QED
      BY <1>1, <1>8, <2>5, <3>1, SameScheme DEF RankInv, builderVars
  <2> QED
    BY <1>1, <1>6, <1>9, <2>4, <2>7, <2>8 DEF IndexInv, StaysInBounds
<1> QED
  BY <1>10, <1>11

\* The end of the first pass: all lines of the file are counted, and the keys
\* get their ranges.
LEMMA SumCountsOk == ASSUME IndexInv, SumCounts PROVE IndexInv'
<1>1. /\ pc = "count" /\ n = Len(stream) /\ n' = 0
      /\ UNCHANGED <<input, file, edits, vTables, t, counted, str_text, g_hashText,
                     record_index, lnm, pRank>>
      /\ TypeOk /\ AtWork /\ CountInv /\ ArrayInv
  BY DEF SumCounts, IndexInv
<1>2. t > 0 /\ counted = stream /\ stream \in Contents
  BY <1>1 DEF AtWork, TypeOk
<1>3. /\ SchemeOk(Scheme) /\ nIndex \in Nat /\ t \in 1 .. Len(vTables)
      /\ vTables[t].table_name \in DOMAIN file
  BY <1>1, <1>2, TableAtHand
<1>4. TablesOk'
  BY <1>1 DEF TypeOk, TablesOk
<1>5. CASE pc' = "failed" /\ UNCHANGED <<pidxmap, stream, attached>>
  <2>1. n' \in 0 .. Len(stream')
    BY <1>1, <1>2, <1>5 DEF Contents
  <2>2. TypeOk'
    BY <1>1, <1>4, <1>5, <2>1 DEF TypeOk
  <2> QED
    BY <1>5, <2>2 DEF IndexInv, StaysInBounds
<1>6. CASE /\ pc' = "rank"
           /\ pidxmap' \in {maps \in [DOMAIN pidxmap -> UNION {Summed(pidxmap[i]) : i \in DOMAIN pidxmap}] :
                            \A i \in DOMAIN pidxmap : maps[i] \in Summed(pidxmap[i])}
           /\ stream' = file[vTables[t].table_name] /\ attached' = TRUE
  <2>1. stream' \in Contents /\ n' \in 0 .. Len(stream')
    <3>1. file[vTables[t].table_name] \in Contents
      BY <1>1, <1>3 DEF TypeOk
    <3>2. \A q \in Contents : 0 \in 0 .. Len(q)
      BY DEF Contents
    <3> QED
      BY <1>1, <1>6, <3>1, <3>2
  <2>2. TypeOk'
    BY <1>1, <1>4, <1>6, <2>1 DEF TypeOk
  <2>3. AtWork'
    BY <1>1, <1>6, SameScheme DEF AtWork
  <2>4. Met' = Met /\ Met \in Contents
    <3>1. SubSeq(counted, 1, n) = counted
      BY <1>1, <1>2 DEF Contents
    <3>2. Met = GoodIn(Scheme, counted) /\ Met' = GoodIn(Scheme', counted')
      BY <1>1, <1>6, <3>1 DEF Met
    <3> QED
      BY <1>1, <1>2, <3>2, SameScheme, GoodType
  <2>5. Ranked' = <<>>
    <3>1. SubSeq(stream', 1, 0) = <<>>
      BY <2>1 DEF Contents
    <3> QED
      BY <1>1, <3>1, Nothing DEF Ranked
  <2>6. /\ DOMAIN pidxmap = 1 .. nIndex
        /\ DOMAIN pidxmap' = 1 .. nIndex
        /\ \A i \in 1 .. nIndex : pidxmap'[i] \in Summed(pidxmap[i])
                                  /\ CountsOk(Scheme, Met, pidxmap[i], i)
    BY <1>1, <1>6 DEF CountInv
  <2>7. ASSUME NEW i \in 1 .. nIndex
        PROVE  /\ CountsOk(Scheme, Met, pidxmap'[i], i) /\ StartsOk(Len(Met), pidxmap'[i])
               /\ \A d \in DOMAIN pidxmap'[i] : pidxmap'[i][d].rank_pos = pidxmap'[i][d].start_pos
    BY <2>4, <2>6, Starts
  <2>8. LeadingIndexes' <=> LeadingIndexes
    BY <1>1, SameScheme DEF LeadingIndexes
  <2>9. CountInv'
    BY <1>1, <2>4, <2>6, <2>7, <2>8, SameScheme DEF CountInv
  <2>10. ArrayInv'
    BY <1>1, <1>6, SameScheme DEF ArrayInv
  <2>11. RankInv'
    <3>1. lnm' = Len(Ranked')
      BY <1>1, <2>5 DEF ArrayInv
    <3>2. \A d, i : Len(Rows(Scheme, <<>>, i, d)) = 0
      BY OnlyEmpty DEF Rows
    <3>3. ASSUME NEW i \in 1 .. nIndex
          PROVE  /\ RanksOk(Scheme, <<>>, pidxmap'[i], i)
                 /\ PlacedOk(Scheme, Met, <<>>, pidxmap'[i], pRank[i], i)
      <4>1. \A d \in DOMAIN pidxmap'[i] :
                pidxmap'[i][d].start_pos \in Nat /\ pidxmap'[i][d].rank_pos = pidxmap'[i][d].start_pos
        BY <2>7 DEF CountsOk, Counter
      <4>2. RanksOk(Scheme, <<>>, pidxmap'[i], i)
        BY <3>2, <4>1 DEF RanksOk
      <4>3. PlacedOk(Scheme, Met, <<>>, pidxmap'[i], pRank[i], i)
        BY <3>2 DEF PlacedOk
      <4> QED
        BY <4>2, <4>3
    <3> QED
      BY <1>1, <2>4, <2>5, <2>7, <3>1, <3>3, SameScheme DEF RankInv
  <2> QED
    BY <1>6, <2>2, <2>3, <2>9, <2>10, <2>11 DEF IndexInv, StaysInBounds
<1> QED
  BY <1>5, <1>6 DEF SumCounts

\* A good line is one of those that count.
LEMMA GoodIsMet ==
    ASSUME NEW scheme, NEW content \in Contents, NEW k \in 1 .. Len(content),
           content[k] \in GoodLines(scheme)
    PROVE  content[k] \in Range(GoodIn(scheme, content))
<1>1. \E j \in 1 .. Len(GoodIn(scheme, content)) : GoodIn(scheme, content)[j] = content[k]
  BY OnlyKeeps DEF GoodIn, Contents
<1>2. GoodIn(scheme, content) \in Contents
  BY GoodType
<1> QED
  BY <1>1, <1>2 DEF Range, Contents

\* The first pass leaves the arrays only as the property allows.
LEMMA CountOverrun ==
    ASSUME IndexInv, pc = "count", n < Len(stream), Accepted(stream[n + 1]),
           CountOverruns(Tokens(stream[n + 1]))
    PROVE  ~ LeadingIndexes \/ ~ Whole(counted) \/ Len(Good(counted)) > LineNum
<1> DEFINE line == stream[n + 1]
<1>1. /\ TypeOk /\ counted = stream /\ t > 0 /\ CountInv
      /\ stream \in Contents /\ n \in 0 .. Len(stream) - 1 /\ n \in 0 .. Len(stream)
      /\ Len(stream) \in Nat
  BY DEF IndexInv, AtWork, TypeOk, Contents
<1>2. /\ line \in Strings /\ n + 1 \in 0 .. Len(stream) /\ n + 1 \in 1 .. Len(stream)
      /\ GoodIn(Scheme, SubSeq(stream, 1, n + 1)) =
            IF line \in GoodLines(Scheme) THEN Append(GoodIn(Scheme, SubSeq(stream, 1, n)), line)
            ELSE GoodIn(Scheme, SubSeq(stream, 1, n))
  BY <1>1, GoodNext
<1>3. line \in GoodLines(Scheme)
  BY <1>2, Linked
<1>4. Good(counted) = GoodIn(Scheme, stream) /\ Met = GoodIn(Scheme, SubSeq(stream, 1, n))
  BY <1>1, LinkedGood DEF Met
<1>5. CASE Len(Tokens(line)) < nField
  <2>1. line \in Range(Good(counted))
    BY <1>1, <1>2, <1>3, <1>4, GoodIsMet
  <2>2. Len(Tokens(line)) \in Nat /\ nField \in Nat
    <3>1. Tokens(line) \in Contents
      BY <1>2, Linked, TokensType
    <3> QED
      BY <1>1, <3>1, TableAtHand DEF Contents
  <2> HIDE DEF line
  <2> QED
    BY <1>5, <2>1, <2>2 DEF Whole
<1>6. CASE \E f \in 1 .. nField : Fields[f].is_index /\ f > nIndex
  <2>1. nIndex \in Nat /\ nField \in Nat
    BY <1>1, TableAtHand
  <2> QED
    BY <1>6, <2>1 DEF LeadingIndexes
<1>7. CASE Len(record_index) >= LineNum
  <2>1. Met \in Contents /\ Len(Met) \in Nat
    BY <1>1, <1>4, GoodGrows DEF Contents
  <2>2. Len(record_index) = Len(Met)
    <3>1. record_index = [m \in 1 .. Len(Met) |-> record_index[m]]
      BY <1>1 DEF CountInv, RecordsOk
    <3> QED
      BY <2>1, <3>1
  <2>3. Prefix(Append(Met, line), Good(counted)) /\ Good(counted) \in Contents
    BY <1>1, <1>2, <1>3, <1>4, GoodGrows
  <2>4. Len(Append(Met, line)) = Len(Met) + 1 /\ Len(Good(counted)) \in Nat
    BY <1>2, <2>1, <2>3, AppendAt DEF Contents
  <2>5. LineNum \in Nat
    BY <1>1, TableAtHand
  <2> QED
    BY <1>7, <2>1, <2>2, <2>3, <2>4, <2>5 DEF Prefix
<1> QED
  BY <1>5, <1>6, <1>7 DEF CountOverruns

\* A good line has its record, its texts and its keys.
LEMMA Counted ==
    ASSUME IndexInv, pc = "count", n < Len(stream), Accepted(stream[n + 1]),
           ~ CountOverruns(Tokens(stream[n + 1]))
    PROVE  LET line == stream[n + 1]
               filter == Filtered(Tokens(line))
               maps == [i \in DOMAIN pidxmap |->
                    IF Fields[i].is_index THEN Incremented(pidxmap[i], Md5(Tokens(line)[i]))
                    ELSE pidxmap[i]]
               all == Append(Met, line)
           IN /\ all = GoodIn(Scheme, SubSeq(stream, 1, n + 1)) /\ Len(all) <= LineNum
              /\ LeadingIndexes
              /\ FilterOk(Scheme, all, filter.text, filter.hash)
              /\ RecordsOk(Scheme, all, filter.text,
                           Append(record_index, Record(Tokens(line), filter.hash)))
              /\ DOMAIN maps = 1 .. nIndex
              /\ \A i \in 1 .. nIndex : CountsOk(Scheme, all, maps[i], i)
<1> DEFINE line == stream[n + 1]
           tokens == TokensIn(Scheme, line)
           filter == Filtered(Tokens(line))
           before == [text |-> str_text, hash |-> g_hashText]
           all == Append(Met, line)
           maps == [i \in DOMAIN pidxmap |->
                    IF Fields[i].is_index THEN Incremented(pidxmap[i], Md5(Tokens(line)[i]))
                    ELSE pidxmap[i]]
           N == Len(Met)
<1>1. /\ TypeOk /\ counted = stream /\ t > 0 /\ CountInv
      /\ stream \in Contents /\ n \in 0 .. Len(stream) - 1 /\ n \in 0 .. Len(stream)
  BY DEF IndexInv, AtWork, TypeOk, Contents
<1>2. /\ SchemeOk(Scheme) /\ LineNum \in Nat /\ nField \in Nat /\ nIndex \in Nat
      /\ nIndex = Len(vIndexs(Scheme)) /\ nField = Len(Scheme.vFields)
  BY <1>1, TableAtHand
<1>3. /\ line \in Strings
      /\ GoodIn(Scheme, SubSeq(stream, 1, n + 1)) =
            IF line \in GoodLines(Scheme) THEN Append(GoodIn(Scheme, SubSeq(stream, 1, n)), line)
            ELSE GoodIn(Scheme, SubSeq(stream, 1, n))
  BY <1>1, GoodNext
<1>4. line \in GoodLines(Scheme) /\ Tokens(line) = tokens
  BY <1>3, Linked
<1>5. Met \in Contents /\ Met = GoodIn(Scheme, SubSeq(stream, 1, n))
  BY <1>1, GoodGrows DEF Met
<1>6. all = GoodIn(Scheme, SubSeq(stream, 1, n + 1))
  BY <1>3, <1>4, <1>5
<1>7. /\ N \in Nat /\ all \in Contents /\ Len(all) = N + 1 /\ all[N + 1] = line
      /\ \A k \in 1 .. N : all[k] = Met[k]
  BY <1>3, <1>5, AppendAt DEF Contents
<1>8. tokens \in Contents /\ Len(tokens) \in Nat
  BY <1>3, TokensType DEF Contents
<1> HIDE DEF line, tokens, all
<1>9. Prefix(Met, all)
  BY <1>7 DEF Prefix
<1>10. record_index = [m \in 1 .. N |-> record_index[m]]
       /\ \A m \in 1 .. N : RecordOk(Scheme, Met, str_text, record_index[m], Met[m])
  BY <1>1 DEF CountInv, RecordsOk
<1>11. Len(record_index) = N /\ DOMAIN record_index = 1 .. N
  <2> HIDE DEF N
  <2> QED
    BY <1>7, <1>10
<1>12. Len(tokens) >= nField /\ LeadingIndexes /\ N < LineNum
  <2>1. /\ ~ (Len(tokens) < nField) /\ ~ (Len(record_index) >= LineNum)
        /\ ~ \E f \in 1 .. nField : Fields[f].is_index /\ f > nIndex
    BY <1>4 DEF CountOverruns, line
  <2>2. LeadingIndexes
    BY <1>2, <2>1 DEF LeadingIndexes
  <2> QED
    BY <1>2, <1>7, <1>8, <1>11, <2>1, <2>2
<1>13. Len(all) <= LineNum
  BY <1>2, <1>7, <1>12
<1>14. /\ FilterOk(Scheme, all, before.text, before.hash)
       /\ FilterOk(Scheme, Met, str_text, g_hashText)
  <2>1. FilterOk(Scheme, Met, str_text, g_hashText)
    BY <1>1 DEF CountInv
  <2> QED
    BY <1>5, <1>7, <1>9, <2>1, FilterMore
<1>15. filter = FilteredBy(Scheme.vFields, tokens, before)
  BY <1>4 DEF Filtered, FilteredBy, Fields
<1>16. /\ filter \in Filters(Scheme, all, before)
       /\ \A k \in 1 .. nField : IsString(Scheme.vFields[k]) => Md5(tokens[k]) \in DOMAIN filter.hash
  <2>1. N + 1 \in 1 .. Len(all) /\ TokensIn(Scheme, all[N + 1]) = tokens
    BY <1>7 DEF tokens
  <2>2. before = [text |-> before.text, hash |-> before.hash]
    OBVIOUS
  <2>3. Len(tokens) >= Len(Scheme.vFields)
    BY <1>2, <1>12
  <2> HIDE DEF before, filter
  <2>4. /\ FilteredBy(Scheme.vFields, tokens, before) \in Filters(Scheme, all, before)
        /\ \A k \in 1 .. Len(Scheme.vFields) :
            IsString(Scheme.vFields[k]) =>
                Md5(tokens[k]) \in DOMAIN FilteredBy(Scheme.vFields, tokens, before).hash
    BY <1>2, <1>7, <1>14, <2>1, <2>2, <2>3, FilteredOk
  <2> QED
    BY <1>2, <1>15, <2>4
<1> HIDE DEF filter
<1>17. /\ FilterOk(Scheme, all, filter.text, filter.hash) /\ filter.text \in Strings
       /\ str_text \in Strings /\ Prefix(str_text, filter.text)
  <2>1. FilterOk(Scheme, all, filter.text, filter.hash) /\ FilterGrows(before, filter)
    BY <1>16 DEF Filters
  <2> QED
    BY <1>14, <2>1 DEF FilterOk, FilterGrows
<1> DEFINE record == Record(tokens, filter.hash)
<1>18. RecordOk(Scheme, all, filter.text, record, line)
  <2>1. ASSUME NEW f \in 1 .. nField
        PROVE  record[f] = IF IsString(Scheme.vFields[f]) THEN filter.hash[Md5(tokens[f])]
                           ELSE tokens[f]
    BY DEF Record, Fields
  <2> HIDE DEF record
  <2>2. ASSUME NEW f \in 1 .. nField, IsString(Scheme.vFields[f])
        PROVE  /\ record[f] \in Entry
               /\ Stands(Scheme, all, filter.text, record[f], Md5(tokens[f]))
    BY <1>16, <1>17, <2>1, <2>2 DEF FilterOk
  <2> QED
    BY <1>2, <1>12, <2>1, <2>2 DEF RecordOk, tokens
<1> HIDE DEF record
<1>19. RecordsOk(Scheme, all, filter.text, Append(record_index, record))
  <2> DEFINE records == Append(record_index, record)
  <2>1. /\ records = [m \in 1 .. N + 1 |-> records[m]] /\ records[N + 1] = record
        /\ \A m \in 1 .. N : records[m] = record_index[m]
    <3> DEFINE S == {record_index[m] : m \in 1 .. N} \union {record}
    <3>1. (\A m \in 1 .. N : record_index[m] \in S) /\ record \in S
      OBVIOUS
    <3> HIDE DEF N, S
    <3>2. record_index \in Seq(S) /\ record \in S
      BY <1>7, <1>10, <3>1, IsSequence
    <3>3. /\ records \in Seq(S) /\ Len(records) = N + 1 /\ records[N + 1] = record
          /\ \A k \in 1 .. N : records[k] = record_index[k]
      BY <1>11, <3>2, AppendAt
    <3> HIDE DEF records
    <3> QED
      BY <3>3
  <2> HIDE DEF records
  <2>2. ASSUME NEW m \in 1 .. N + 1 PROVE RecordOk(Scheme, all, filter.text, records[m], all[m])
    <3>1. CASE m = N + 1
      BY <1>7, <1>18, <2>1, <3>1
    <3>2. CASE m # N + 1
      <4>1. m \in 1 .. N
        BY <1>7, <3>2
      <4>2. RecordOk(Scheme, Met, str_text, record_index[m], Met[m])
        BY <1>10, <4>1
      <4>3. RecordOk(Scheme, all, filter.text, record_index[m], Met[m])
        BY <1>5, <1>7, <1>9, <1>17, <4>2, RecordMore
      <4> QED
        BY <1>7, <2>1, <4>1, <4>3
    <3> QED
      BY <3>1, <3>2
  <2> QED
    BY <1>7, <2>1, <2>2 DEF RecordsOk, records
<1>20. DOMAIN pidxmap = 1 .. nIndex
       /\ \A i \in 1 .. nIndex : CountsOk(Scheme, Met, pidxmap[i], i)
  BY <1>1 DEF CountInv
<1>21. ASSUME NEW i \in 1 .. nIndex PROVE CountsOk(Scheme, all, maps[i], i)
  <2>1. Leading(Scheme)
    BY <1>12, Linked
  <2>2. /\ vIndexs(Scheme)[i].index + 1 = i /\ Fields[i].is_index
    BY <1>2, <2>1, LeadingFields DEF Fields
  <2>3. Md5(tokens[i]) = KeyIn(Scheme, line, i)
    BY <2>2 DEF KeyIn, tokens
  <2>4. maps[i] = Incremented(pidxmap[i], KeyIn(Scheme, line, i))
    BY <1>4, <1>20, <2>2, <2>3
  <2>5. CountsOk(Scheme, Append(Met, line), Incremented(pidxmap[i], KeyIn(Scheme, line, i)), i)
    BY <1>3, <1>5, <1>20, CountsAppend
  <2> QED
    BY <2>4, <2>5 DEF all
<1>22. DOMAIN maps = 1 .. nIndex
  BY <1>20
<1>23. Append(record_index, Record(Tokens(line), filter.hash)) = Append(record_index, record)
  BY <1>4 DEF record
<1> QED
  BY <1>6, <1>12, <1>13, <1>17, <1>19, <1>21, <1>22, <1>23 DEF all, line, filter, maps

\* What the property speaks of stays while the table and what was counted do.
LEMMA SameView ==
    ASSUME UNCHANGED <<vTables, t, counted>>
    PROVE  /\ LeadingIndexes' <=> LeadingIndexes
           /\ (Whole(counted)' <=> Whole(counted)) /\ (Fits(counted)' <=> Fits(counted))
           /\ Texts(counted)' = Texts(counted) /\ Good(counted)' = Good(counted)
<1>1. /\ LeadingIndexes' <=> LeadingIndexes
      /\ Fields' = Fields /\ nField' = nField
  BY SameScheme DEF LeadingIndexes
<1>2. \A line : Tokens(line)' = Tokens(line)
  BY SameScheme DEF Tokens
<1>3. \A line : Accepted(line)' <=> Accepted(line)
  BY <1>2, SameScheme DEF Accepted
<1>4. Good(counted)' = Good(counted)
  BY <1>3 DEF Good
<1>5. Whole(counted)' <=> Whole(counted)
  BY <1>1, <1>2, <1>4 DEF Whole
<1>6. Fits(counted)' <=> Fits(counted)
  BY <1>1, <1>2, <1>4 DEF Fits
<1>7. Texts(counted)' = Texts(counted)
  BY <1>2, <1>4 DEF Texts
<1> QED
  BY <1>1, <1>4, <1>5, <1>6, <1>7

\* A line of the first pass is counted, or passed over.
LEMMA CountLineOk == ASSUME IndexInv, CountLine PROVE IndexInv'
<1> DEFINE line == stream[n + 1]
           filter == Filtered(Tokens(line))
<1>1. /\ pc = "count" /\ n < Len(stream) /\ n' = n + 1
      /\ UNCHANGED <<writerVars, vTables, t, stream, counted, lnm, pRank>>
      /\ TypeOk /\ AtWork /\ CountInv /\ ArrayInv
  BY DEF CountLine, IndexInv
<1>2. /\ t > 0 /\ counted = stream /\ stream \in Contents /\ n \in 0 .. Len(stream) - 1
      /\ n + 1 \in 0 .. Len(stream) /\ Len(stream) \in Nat
  BY <1>1 DEF AtWork, TypeOk, Contents
<1>3. ASSUME pc' \in {"count", "overrun"} PROVE TypeOk'
  <2>1. TablesOk'
    BY <1>1 DEF TypeOk, TablesOk, writerVars
  <2> QED
    BY <1>1, <1>2, <1>3, <2>1 DEF TypeOk, writerVars
<1>4. AtWork'
  BY <1>1, SameScheme DEF AtWork, writerVars
<1>5. ArrayInv'
  BY <1>1, SameScheme DEF ArrayInv
<1>6. CASE /\ ~ Accepted(line)
           /\ UNCHANGED <<pc, str_text, g_hashText, record_index, pidxmap>>
  <2>1. Met' = Met
    <3>1. GoodIn(Scheme, SubSeq(stream, 1, n + 1)) = GoodIn(Scheme, SubSeq(stream, 1, n))
      BY <1>2, <1>6, GoodNext, Linked
    <3> QED
      BY <1>1, <1>2, <1>6, <3>1, SameScheme DEF Met
  <2>2. CountInv'
    BY <1>1, <1>6, <2>1, SameScheme, SameView DEF CountInv
  <2> QED
    BY <1>1, <1>3, <1>4, <1>5, <1>6, <2>2 DEF IndexInv, StaysInBounds
<1>7. CASE Accepted(line) /\ CountOverruns(Tokens(line)) /\ pc' = "overrun"
  <2>1. ~ LeadingIndexes \/ ~ Whole(counted) \/ Len(Good(counted)) > LineNum
    BY <1>1, <1>7, CountOverrun
  <2>2. StaysInBounds'
    BY <1>1, <2>1, SameView, SameScheme DEF StaysInBounds
  <2> QED
    BY <1>3, <1>7, <2>2 DEF IndexInv
<1>8. CASE /\ Accepted(line) /\ ~ CountOverruns(Tokens(line))
           /\ str_text' = filter.text /\ g_hashText' = filter.hash
           /\ record_index' = Append(record_index, Record(Tokens(line), filter.hash))
           /\ pidxmap' = [i \in DOMAIN pidxmap |->
                IF Fields[i].is_index THEN Incremented(pidxmap[i], Md5(Tokens(line)[i]))
                ELSE pidxmap[i]]
           /\ UNCHANGED pc
  <2> DEFINE all == Append(Met, line)
  <2>1. /\ all = GoodIn(Scheme, SubSeq(stream, 1, n + 1)) /\ Len(all) <= LineNum
        /\ LeadingIndexes
        /\ FilterOk(Scheme, all, str_text', g_hashText')
        /\ RecordsOk(Scheme, all, str_text', record_index')
        /\ DOMAIN pidxmap' = 1 .. nIndex
        /\ \A i \in 1 .. nIndex : CountsOk(Scheme, all, pidxmap'[i], i)
    BY <1>1, <1>8, Counted
  <2> HIDE DEF all
  <2>2. Met' = all
    BY <1>1, <1>2, <1>8, <2>1, SameScheme DEF Met
  <2>3. CountInv'
    BY <1>1, <2>1, <2>2, SameScheme, SameView DEF CountInv
  <2> QED
    BY <1>1, <1>3, <1>4, <1>5, <1>8, <2>3 DEF IndexInv, StaysInBounds
<1> QED
  BY <1>6, <1>7, <1>8 DEF CountLine

\* In the second pass, a good line of those counted has its place.
LEMMA RankedLine ==
    ASSUME IndexInv, pc = "rank", n < Len(stream), Accepted(stream[n + 1]),
           n + 1 <= Len(counted), SubSeq(stream, 1, n + 1) = SubSeq(counted, 1, n + 1)
    PROVE  /\ Prefix(Append(Ranked, stream[n + 1]), Met)
           /\ n <= Len(counted) /\ SubSeq(stream, 1, n) = SubSeq(counted, 1, n)
<1>1. /\ stream \in Contents /\ counted \in Contents /\ n \in 0 .. Len(stream) - 1
      /\ Len(counted) \in Nat
  BY DEF IndexInv, TypeOk, Contents
<1>2. /\ stream[n + 1] \in GoodLines(Scheme) /\ n + 1 \in 0 .. Len(counted)
      /\ GoodIn(Scheme, SubSeq(stream, 1, n + 1)) =
            IF stream[n + 1] \in GoodLines(Scheme)
            THEN Append(GoodIn(Scheme, SubSeq(stream, 1, n)), stream[n + 1])
            ELSE GoodIn(Scheme, SubSeq(stream, 1, n))
  BY <1>1, GoodNext, Linked
<1>3. Met = GoodIn(Scheme, counted) /\ Ranked = GoodIn(Scheme, SubSeq(stream, 1, n))
  BY DEF Met, Ranked
<1>4. Prefix(GoodIn(Scheme, SubSeq(counted, 1, n + 1)), GoodIn(Scheme, counted))
  BY <1>1, <1>2, GoodGrows
<1>5. n <= Len(counted) /\ SubSeq(stream, 1, n) = SubSeq(counted, 1, n)
  <2>1. /\ SubSeq(SubSeq(stream, 1, n + 1), 1, n) = SubSeq(stream, 1, n)
        /\ SubSeq(SubSeq(counted, 1, n + 1), 1, n) = SubSeq(counted, 1, n)
        /\ n <= Len(counted)
    BY <1>1 DEF Contents
  <2> QED
    BY <2>1
<1> QED
  BY <1>2, <1>3, <1>4, <1>5

\* What the second pass needs of the invariant.
LEMMA RankFacts ==
    ASSUME IndexInv, pc = "rank"
    PROVE  /\ TypeOk /\ AtWork /\ CountInv /\ ArrayInv /\ RankInv /\ t > 0
           /\ Met \in Contents /\ Ranked \in Contents /\ Met = GoodIn(Scheme, counted)
           /\ LineNum \in Nat /\ Len(Met) \in Nat /\ Len(Ranked) \in Nat
           /\ nIndex \in Nat /\ SchemeOk(Scheme)
<1>1. TypeOk /\ AtWork /\ CountInv /\ ArrayInv /\ RankInv
  BY DEF IndexInv
<1>2. /\ stream \in Contents /\ counted \in Contents /\ n \in 0 .. Len(stream) /\ t > 0
  BY <1>1 DEF TypeOk, AtWork
<1>3. Met = GoodIn(Scheme, counted) /\ Ranked = GoodIn(Scheme, SubSeq(stream, 1, n))
  BY DEF Met, Ranked
<1>4. Met \in Contents /\ Ranked \in Contents
  BY <1>2, <1>3, GoodType, GoodGrows
<1>5. Len(Met) \in Nat /\ Len(Ranked) \in Nat
  BY <1>4 DEF Contents
<1> QED
  BY <1>1, <1>2, <1>3, <1>4, <1>5, TableAtHand

\* A position out of the array is that of a line the first pass did not meet.
LEMMA RankOverrun ==
    ASSUME IndexInv, pc = "rank", n < Len(stream), Accepted(stream[n + 1]), stream = counted
    PROVE  ~ RankOverruns(stream[n + 1])
<1> DEFINE line == stream[n + 1]
<1>1. /\ TypeOk /\ CountInv /\ RankInv /\ Met \in Contents /\ Ranked \in Contents
      /\ LineNum \in Nat /\ Len(Met) \in Nat
  BY RankFacts
<1>2. n + 1 <= Len(counted) /\ line \in Strings
  <2>1. stream \in Contents /\ n \in 0 .. Len(stream)
    BY <1>1 DEF TypeOk
  <2>2. n \in 0 .. Len(stream) - 1 /\ Len(stream) \in Nat
    BY <2>1 DEF Contents
  <2> QED
    BY <2>1, <2>2, GoodNext
<1>3. Prefix(Append(Ranked, line), Met)
  BY <1>2, RankedLine
<1> HIDE DEF line
<1>4. ASSUME NEW i \in 1 .. nIndex PROVE Rank(line, i) \in 0 .. LineNum - 1
  <2> DEFINE key == KeyIn(Scheme, line, i)
             map == pidxmap[i]
  <2>1. /\ CountsOk(Scheme, Met, map, i) /\ StartsOk(Len(Met), map) /\ Len(Met) <= LineNum
        /\ RanksOk(Scheme, Ranked, map, i)
    BY <1>1 DEF CountInv, RankInv
  <2> HIDE DEF map
  <2>2. /\ key \in DOMAIN map /\ map[key].rank_pos \in Nat /\ map[key].start_pos \in Nat
        /\ map[key].rank_pos < map[key].start_pos + map[key].length
    BY <1>1, <1>2, <1>3, <2>1, RankInRange
  <2> HIDE DEF key
  <2>3. map[key].start_pos + map[key].length <= Len(Met) /\ map[key].length \in Nat
    BY <2>1, <2>2 DEF StartsOk, CountsOk, Counter
  <2>4. Rank(line, i) = map[key].rank_pos
    BY <2>2, Linked DEF Rank, map, key
  <2> QED
    BY <1>1, <2>1, <2>2, <2>3, <2>4
<1>5. ~ RankOverruns(line)
  BY <1>4 DEF RankOverruns
<1> QED
  BY <1>5 DEF line

\* A line of the second pass gets its position, or is passed over.
LEMMA RankLineOk == ASSUME IndexInv, RankLine PROVE IndexInv'
<1> DEFINE line == stream[n + 1]
<1>1. /\ pc = "rank" /\ n < Len(stream) /\ n' = n + 1
      /\ UNCHANGED <<writerVars, vTables, t, stream, counted, str_text, g_hashText, record_index>>
  BY DEF RankLine
<1>2. /\ TypeOk /\ AtWork /\ CountInv /\ ArrayInv /\ RankInv /\ t > 0
      /\ Met \in Contents /\ Ranked \in Contents /\ Met = GoodIn(Scheme, counted)
      /\ LineNum \in Nat /\ Len(Met) \in Nat /\ Len(Ranked) \in Nat
      /\ nIndex \in Nat /\ SchemeOk(Scheme)
  BY <1>1, RankFacts
<1>3. /\ stream \in Contents /\ counted \in Contents /\ n \in 0 .. Len(stream) - 1
      /\ n + 1 \in 0 .. Len(stream) /\ Len(counted) \in Nat
  BY <1>1, <1>2 DEF TypeOk, Contents
<1>4. ASSUME pc' \in {"rank", "overrun"} PROVE TypeOk'
  <2>1. TablesOk'
    BY <1>1, <1>2 DEF TypeOk, TablesOk, writerVars
  <2> QED
    BY <1>1, <1>2, <1>3, <1>4, <2>1 DEF TypeOk, writerVars
<1>5. pc' = "rank" => AtWork'
  BY <1>1, <1>2, SameScheme DEF AtWork, writerVars
<1>6. pc' = "rank" => Met' = Met
  BY <1>1, SameScheme DEF Met
<1>7. /\ line \in Strings
      /\ GoodIn(Scheme, SubSeq(stream, 1, n + 1)) =
            IF line \in GoodLines(Scheme) THEN Append(GoodIn(Scheme, SubSeq(stream, 1, n)), line)
            ELSE GoodIn(Scheme, SubSeq(stream, 1, n))
  BY <1>3, GoodNext
<1>8. Ranked' = IF Accepted(line) THEN Append(Ranked, line) ELSE Ranked
  <2>1. Ranked' = GoodIn(Scheme, SubSeq(stream, 1, n + 1))
    BY <1>1, SameScheme DEF Ranked
  <2>2. Ranked = GoodIn(Scheme, SubSeq(stream, 1, n))
    BY DEF Ranked
  <2> QED
    BY <1>7, <2>1, <2>2, Linked
<1>9. CASE ~ Accepted(line) /\ UNCHANGED <<pc, pidxmap, lnm, pRank>>
  <2>1. Met' = Met /\ Ranked' = Ranked /\ pc' = "rank"
    BY <1>1, <1>6, <1>8, <1>9
  <2>2. CountInv'
    BY <1>1, <1>2, <1>9, <2>1, SameScheme, SameView DEF CountInv
  <2>3. ArrayInv'
    BY <1>1, <1>2, <1>9, SameScheme DEF ArrayInv
  <2>4. n' <= Len(counted') /\ SubSeq(stream', 1, n') = SubSeq(counted', 1, n') =>
            n <= Len(counted) /\ SubSeq(stream, 1, n) = SubSeq(counted, 1, n)
    <3> SUFFICES ASSUME n + 1 <= Len(counted), SubSeq(stream, 1, n + 1) = SubSeq(counted, 1, n + 1)
                 PROVE  n <= Len(counted) /\ SubSeq(stream, 1, n) = SubSeq(counted, 1, n)
      BY <1>1
    <3>1. /\ SubSeq(SubSeq(stream, 1, n + 1), 1, n) = SubSeq(stream, 1, n)
          /\ SubSeq(SubSeq(counted, 1, n + 1), 1, n) = SubSeq(counted, 1, n)
          /\ n <= Len(counted)
      BY <1>3 DEF Contents
    <3> QED
      BY <3>1
  <2>5. RankInv'
    BY <1>2, <1>9, <2>1, <2>4, <1>1, SameScheme DEF RankInv
  <2> QED
    BY <1>1, <1>4, <1>5, <2>1, <2>2, <2>3, <2>5 DEF IndexInv, StaysInBounds
<1>10. CASE Accepted(line) /\ RankOverruns(line) /\ pc' = "overrun"
  <2>1. stream # counted
    BY <1>1, <1>10, RankOverrun
  <2>2. StaysInBounds'
    BY <1>1, <2>1 DEF StaysInBounds
  <2> QED
    BY <1>4, <1>10, <2>2 DEF IndexInv
<1>11. CASE /\ Accepted(line) /\ ~ RankOverruns(line)
            /\ pRank' = [i \in 1 .. nIndex |-> [pRank[i] EXCEPT ![Rank(line, i)] = lnm]]
            /\ pidxmap' = [i \in 1 .. nIndex |->
                    [pidxmap[i] EXCEPT ![Key(line, i)].rank_pos = @ + 1]]
            /\ lnm' = lnm + 1
            /\ UNCHANGED pc
  <2>1. Met' = Met /\ Ranked' = Append(Ranked, line) /\ pc' = "rank"
    BY <1>1, <1>6, <1>8, <1>11
  <2>2. ASSUME NEW i \in 1 .. nIndex
        PROVE  /\ CountsOk(Scheme, Met, pidxmap'[i], i) /\ StartsOk(Len(Met), pidxmap'[i])
               /\ RanksOk(Scheme, Append(Ranked, line), pidxmap'[i], i)
               /\ NumbersOk(LineNum, lnm + 1, pRank'[i])
               /\ n + 1 <= Len(counted) /\ SubSeq(stream, 1, n + 1) = SubSeq(counted, 1, n + 1) =>
                    PlacedOk(Scheme, Met, Append(Ranked, line), pidxmap'[i], pRank'[i], i)
    <3> DEFINE key == KeyIn(Scheme, line, i)
               map == pidxmap[i]
               numbers == pRank[i]
    <3>1. /\ CountsOk(Scheme, Met, map, i) /\ StartsOk(Len(Met), map) /\ Len(Met) <= LineNum
          /\ RanksOk(Scheme, Ranked, map, i) /\ NumbersOk(LineNum, Len(Ranked), numbers)
          /\ lnm = Len(Ranked)
      BY <1>2 DEF CountInv, RankInv, ArrayInv
    <3>2. Rank(line, i) \in 0 .. LineNum - 1
      BY <1>11 DEF RankOverruns
    <3>3. key \in DOMAIN map /\ Rank(line, i) = map[key].rank_pos
      <4>1. Rank(line, i) = IF key \in DOMAIN map THEN map[key].rank_pos ELSE -1
        BY Linked DEF Rank
      <4>2. -1 \notin 0 .. LineNum - 1
        BY <1>2
      <4> QED
        BY <3>2, <4>1, <4>2
    <3>4. pidxmap'[i] = Ranking(map, key)
      BY <1>11, Linked DEF Ranking
    <3>5. pRank'[i] = [numbers EXCEPT ![map[key].rank_pos] = Len(Ranked)]
      BY <1>11, <3>1, <3>3
    <3> HIDE DEF map, numbers
    <3>6. CountsOk(Scheme, Met, pidxmap'[i], i)
      <4> HIDE DEF key, line
      <4> QED
        BY <1>2, <3>1, <3>3, <3>4, RankingType
    <3>7. StartsOk(Len(Met), pidxmap'[i]) /\ RanksOk(Scheme, Append(Ranked, line), pidxmap'[i], i)
      <4> HIDE DEF line
      <4> QED
        BY <1>2, <1>7, <3>1, <3>3, <3>4, RankingOk
    <3>8. NumbersOk(LineNum, lnm + 1, pRank'[i])
      <4> DEFINE p == map[key].rank_pos
      <4>1. p \in 0 .. LineNum - 1
        BY <3>2, <3>3
      <4> HIDE DEF p
      <4>2. NumbersOk(LineNum, Len(Ranked) + 1, [numbers EXCEPT ![p] = Len(Ranked)])
        BY <1>2, <3>1, <4>1, NumbersMore
      <4> QED
        BY <3>1, <3>5, <4>2 DEF p
    <3>9. ASSUME n + 1 <= Len(counted), SubSeq(stream, 1, n + 1) = SubSeq(counted, 1, n + 1)
          PROVE  PlacedOk(Scheme, Met, Append(Ranked, line), pidxmap'[i], pRank'[i], i)
      <4>1. /\ Prefix(Append(Ranked, line), Met)
            /\ n <= Len(counted) /\ SubSeq(stream, 1, n) = SubSeq(counted, 1, n)
        BY <1>1, <1>11, <3>9, RankedLine
      <4>2. PlacedOk(Scheme, Met, Ranked, map, numbers, i)
        BY <1>2, <4>1 DEF RankInv, map, numbers
      <4> HIDE DEF line
      <4>3. PlacedOk(Scheme, Met, Append(Ranked, line), Ranking(map, key),
                     [numbers EXCEPT ![map[key].rank_pos] = Len(Ranked)], i)
        BY <1>2, <1>7, <3>1, <4>1, <4>2, PlacedMore
      <4> QED
        BY <3>4, <3>5, <4>3
    <3> QED
      BY <3>6, <3>7, <3>8, <3>9
  <2>3. DOMAIN pidxmap' = 1 .. nIndex /\ DOMAIN pRank' = 1 .. nIndex
    BY <1>11
  <2>4. lnm' = Len(Ranked')
    <3>1. lnm = Len(Ranked)
      BY <1>2 DEF RankInv
    <3>2. Len(Append(Ranked, line)) = Len(Ranked) + 1
      BY <1>2, <1>7, AppendAt DEF Contents
    <3> QED
      BY <1>11, <2>1, <3>1, <3>2
  <2> HIDE DEF line
  <2>5. CountInv'
    BY <1>1, <1>2, <2>1, <2>2, <2>3, SameScheme, SameView DEF CountInv
  <2>6. ArrayInv'
    BY <1>1, <1>11, <2>1, <2>2, <2>3, SameScheme DEF ArrayInv
  <2>7. RankInv'
    BY <1>1, <2>1, <2>2, <2>4, SameScheme DEF RankInv
  <2> QED
    BY <1>1, <1>4, <1>5, <2>1, <2>5, <2>6, <2>7 DEF IndexInv, StaysInBounds
<1> QED
  BY <1>9, <1>10, <1>11 DEF RankLine

-----------------------------------------------------------------------------
(* What is written *)

\* What an entry stands for is among the texts of the lines.
LEMMA StandsText ==
    ASSUME NEW lines \in Contents, NEW text, NEW entry, NEW d,
           Stands(Scheme, lines, text, entry, d)
    PROVE  \E line \in Range(lines) : \E s \in Range(Tokens(line)) :
                s \in Strings /\ Md5(s) = d /\ Holds(text, entry, s)
<1>1. PICK m \in 1 .. Len(lines) : \E f \in 1 .. Len(TokensIn(Scheme, lines[m])) :
        /\ Md5(TokensIn(Scheme, lines[m])[f]) = d
        /\ Holds(text, entry, TokensIn(Scheme, lines[m])[f])
  BY DEF Stands
<1>2. lines[m] \in Strings /\ lines[m] \in Range(lines)
  BY DEF Contents, Range
<1>3. /\ TokensIn(Scheme, lines[m]) \in Contents
      /\ Tokens(lines[m]) = TokensIn(Scheme, lines[m])
  BY <1>2, TokensType, Linked
<1> DEFINE tokens == TokensIn(Scheme, lines[m])
<1>4. \A f \in 1 .. Len(tokens) : tokens[f] \in Range(Tokens(lines[m])) /\ tokens[f] \in Strings
  <2> HIDE DEF tokens
  <2>1. tokens \in Contents /\ Tokens(lines[m]) = tokens
    BY <1>3 DEF tokens
  <2> QED
    BY <2>1 DEF Range, Contents
<1> QED
  BY <1>1, <1>2, <1>4

\* The token of a record's field, and that it is a text.
LEMMA TokenType ==
    ASSUME NEW lines \in Contents, NEW m \in 1 .. Len(lines), NEW f,
           f \in 1 .. Len(Tokens(lines[m]))
    PROVE  /\ Tokens(lines[m])[f] \in Strings /\ lines[m] \in Range(lines)
           /\ Tokens(lines[m])[f] \in Range(Tokens(lines[m]))
<1>1. lines[m] \in Strings /\ lines[m] \in Range(lines)
  BY DEF Contents, Range
<1>2. Tokens(lines[m]) \in Contents
  BY <1>1, Linked, TokensType
<1> QED
  BY <1>1, <1>2 DEF Contents, Range

\* The records that were stored, and what they were made of.
LEMMA StoredRecord ==
    ASSUME CountInv, Met \in Contents, NEW m \in 1 .. Len(Met)
    PROVE  /\ Len(record_index) = Len(Met) /\ Stored(m - 1) = record_index[m]
           /\ RecordOk(Scheme, Met, str_text, record_index[m], Met[m])
<1>1. record_index = [k \in 1 .. Len(Met) |-> record_index[k]]
      /\ RecordOk(Scheme, Met, str_text, record_index[m], Met[m])
  BY DEF CountInv, RecordsOk
<1>2. Len(Met) \in Nat
  BY DEF Contents
<1>3. Len(record_index) = Len(Met)
  <2> DEFINE N == Len(Met)
  <2>1. record_index = [k \in 1 .. N |-> record_index[k]] /\ N \in Nat
    BY <1>1, <1>2
  <2> HIDE DEF N
  <2>2. Len(record_index) = N
    BY <2>1
  <2> QED
    BY <2>2 DEF N
<1>4. m - 1 < Len(record_index) /\ (m - 1) + 1 = m
  BY <1>2, <1>3
<1> QED
  BY <1>1, <1>3, <1>4 DEF Stored

\* A string of a record is as long as its token, if texts with one digest are.
LEMMA StoredLength ==
    ASSUME CountInv, Met \in Contents, NEW m \in 1 .. Len(Met), nField = Len(Scheme.vFields),
           NEW f \in 1 .. nField, IsString(Fields[f]), nField \in Nat,
           \A s, u \in UNION {Range(Tokens(line)) : line \in Range(Met)} :
                Md5(s) = Md5(u) => Len(s) = Len(u)
    PROVE  /\ f \in 1 .. Len(Tokens(Met[m]))
           /\ record_index[m][f].length = Len(Tokens(Met[m])[f])
<1> DEFINE token == Tokens(Met[m])[f]
<1>1. RecordOk(Scheme, Met, str_text, record_index[m], Met[m])
  BY StoredRecord
<1>2. f \in 1 .. Len(Tokens(Met[m]))
  <2>1. Len(Tokens(Met[m])) >= nField
    BY <1>1, Linked DEF RecordOk
  <2>2. Len(Tokens(Met[m])) \in Nat
    <3>1. Met[m] \in Strings
      BY DEF Contents
    <3>2. Tokens(Met[m]) \in Contents
      BY <3>1, Linked, TokensType
    <3> QED
      BY <3>2 DEF Contents
  <2> QED
    BY <2>1, <2>2
<1>3. /\ token \in Strings /\ Met[m] \in Range(Met) /\ token \in Range(Tokens(Met[m]))
  BY <1>2, TokenType
<1>4. Stands(Scheme, Met, str_text, record_index[m][f], Md5(token))
  BY <1>1, Linked DEF RecordOk, Fields
<1> HIDE DEF token
<1>5. PICK line \in Range(Met) : \E s \in Range(Tokens(line)) :
            s \in Strings /\ Md5(s) = Md5(token) /\ Holds(str_text, record_index[m][f], s)
  BY <1>4, StandsText
<1>6. PICK s \in Range(Tokens(line)) :
            s \in Strings /\ Md5(s) = Md5(token) /\ Holds(str_text, record_index[m][f], s)
  BY <1>5
<1>7. Len(s) = Len(token)
  BY <1>3, <1>5, <1>6
<1>8. record_index[m][f].length = Len(token)
  BY <1>6, <1>7 DEF Holds
<1> QED
  BY <1>2, <1>8 DEF token

\* The output leaves no array either, if the passes met the same lines, the
\* texts fit and stand for texts of their length.
LEMMA OutputOverrun ==
    ASSUME IndexInv, pc = "rank", n = Len(stream), stream = counted, Fits(counted),
           \A s, u \in Texts(counted) : Md5(s) = Md5(u) => Len(s) = Len(u)
    PROVE  ~ OutputOverruns
<1>1. /\ TypeOk /\ AtWork /\ CountInv /\ ArrayInv /\ RankInv /\ t > 0
      /\ Met \in Contents /\ Ranked \in Contents /\ Met = GoodIn(Scheme, counted)
      /\ LineNum \in Nat /\ Len(Met) \in Nat /\ Len(Ranked) \in Nat
      /\ nIndex \in Nat /\ SchemeOk(Scheme)
  BY RankFacts
<1>2. /\ nField \in Nat /\ nField = Len(Scheme.vFields) /\ LineNum > 0
      /\ stream \in Contents /\ counted \in Contents
  BY <1>1, TableAtHand DEF AtWork, TypeOk
<1>3. Ranked = Met /\ Good(counted) = Met
  <2>1. SubSeq(stream, 1, n) = stream
    BY <1>2 DEF Contents
  <2> QED
    BY <1>1, <1>2, <2>1, LinkedGood DEF Ranked
<1>4. ASSUME NEW i \in 1 .. nIndex, NEW p \in 0 .. LineNum - 1 PROVE ~ (pRank[i][p] >= LineNum)
  <2>1. /\ NumbersOk(LineNum, lnm, pRank[i]) /\ lnm = Len(Met) /\ Len(Met) <= LineNum
    BY <1>1, <1>3 DEF ArrayInv, RankInv, CountInv
  <2>2. pRank[i][p] \in Nat /\ (pRank[i][p] = 0 \/ pRank[i][p] < lnm)
    BY <2>1 DEF NumbersOk
  <2> QED
    BY <1>1, <1>2, <2>1, <2>2
<1>5. ASSUME NEW k \in 0 .. Len(record_index) - 1, NEW f \in 1 .. nField
      PROVE  ~ (Offset(Scheme, f) + Len(Bytes(f, Stored(k)[f])) > RecSize(Scheme))
  <2> DEFINE m == k + 1
             value == record_index[m][f]
  <2>1. m \in 1 .. Len(Met) /\ Stored(k) = record_index[m]
        /\ RecordOk(Scheme, Met, str_text, record_index[m], Met[m])
    <3>1. Len(record_index) = Len(Met)
      <4>1. record_index = [j \in 1 .. Len(Met) |-> record_index[j]]
        BY <1>1 DEF CountInv, RecordsOk
      <4> DEFINE N == Len(Met)
      <4>2. record_index = [j \in 1 .. N |-> record_index[j]] /\ N \in Nat
        BY <1>1, <4>1
      <4> HIDE DEF N
      <4>3. Len(record_index) = N
        BY <4>2
      <4> QED
        BY <4>3 DEF N
    <3>2. m \in 1 .. Len(Met) /\ m - 1 = k
      BY <1>1, <3>1
    <3> QED
      BY <1>1, <3>2, StoredRecord
  <2> HIDE DEF m
  <2>2. /\ Offset(Scheme, f) \in Nat /\ Size(Fields[f]) \in Nat /\ RecSize(Scheme) \in Nat
        /\ Offset(Scheme, f + 1) = Offset(Scheme, f) + Size(Fields[f])
        /\ Offset(Scheme, f + 1) <= RecSize(Scheme)
    BY <1>1, <1>2, Offsets DEF Fields
  <2>3. Stored(k)[f] = value
    BY <2>1
  <2>4. Len(Bytes(f, value)) <= Size(Fields[f]) /\ Len(Bytes(f, value)) \in Nat
    <3>1. CASE IsString(Fields[f])
      <4>1. \A s, u \in UNION {Range(Tokens(line)) : line \in Range(Met)} :
                Md5(s) = Md5(u) => Len(s) = Len(u)
        BY <1>3 DEF Texts
      <4>2. /\ f \in 1 .. Len(Tokens(Met[m])) /\ value.length = Len(Tokens(Met[m])[f])
        BY <1>1, <1>2, <2>1, <3>1, <4>1, StoredLength
      <4>3. /\ Tokens(Met[m])[f] \in Strings /\ Met[m] \in Range(Met)
        BY <1>1, <2>1, <4>2, TokenType
      <4>4. Len(Tokens(Met[m])[f]) <= Fields[f].max_length
        BY <1>3, <3>1, <4>3 DEF Fits
      <4>5. Len(Bytes(f, value)) = value.length /\ value.length \in Nat
        <5>1. value.length \in Nat
          BY <4>2, <4>3 DEF Strings
        <5> HIDE DEF value
        <5>2. Bytes(f, value) = [b \in 1 .. value.length |-> Char(value.start_pos + b)]
          BY <3>1 DEF Bytes
        <5> QED
          BY <5>1, <5>2
      <4> QED
        BY <3>1, <4>2, <4>4, <4>5 DEF Size
    <3>2. CASE ~ IsString(Fields[f])
      <4> HIDE DEF value
      <4>1. Bytes(f, value) = [b \in 1 .. IntSize |-> value] /\ IntSize \in Nat
        BY <3>2, ConfigAssumption DEF Bytes
      <4>2. Len(Bytes(f, value)) = IntSize
        BY <4>1
      <4> QED
        BY <3>2, <4>1, <4>2 DEF Size
    <3> QED
      BY <3>1, <3>2
  <2> HIDE DEF value
  <2> QED
    BY <2>2, <2>3, <2>4
<1> QED
  BY <1>4, <1>5 DEF OutputOverruns

\* The files are written from the arrays as the second pass left them.
LEMMA OutputOk == ASSUME IndexInv, Output PROVE IndexInv'
<1>1. /\ pc = "rank" /\ n = Len(stream)
      /\ pc' = IF OutputOverruns THEN "overrun" ELSE "written"
      /\ UNCHANGED <<writerVars, vTables, t, stream, n, counted, builderVars>>
  BY DEF Output
<1>2. TypeOk /\ AtWork /\ CountInv /\ ArrayInv /\ RankInv
  BY <1>1, RankFacts
<1>3. TypeOk'
  <2>1. TablesOk'
    BY <1>1, <1>2 DEF TypeOk, TablesOk, writerVars
  <2> QED
    BY <1>1, <1>2, <2>1 DEF TypeOk, writerVars, builderVars
<1>4. CASE OutputOverruns
  <2>1. \/ ~ Fits(counted) \/ stream # counted
        \/ \E s, u \in Texts(counted) : Md5(s) = Md5(u) /\ Len(s) # Len(u)
    BY <1>1, <1>4, OutputOverrun
  <2>2. StaysInBounds'
    BY <1>1, <2>1, SameView DEF StaysInBounds
  <2> QED
    BY <1>1, <1>3, <1>4, <2>2 DEF IndexInv
<1>5. CASE ~ OutputOverruns
  <2>1. pc' = "written"
    BY <1>1, <1>5
  <2>2. Met' = Met /\ Ranked' = Ranked
    BY <1>1, <2>1, SameScheme DEF Met, Ranked
  <2>3. AtWork'
    BY <1>1, <1>2, <2>1, SameScheme DEF AtWork
  <2>4. CountInv'
    BY <1>1, <1>2, <2>2, SameScheme, SameView DEF CountInv, builderVars
  <2>5. ArrayInv'
    BY <1>1, <1>2, <2>1, SameScheme DEF ArrayInv, builderVars
  <2>6. RankInv'
    BY <1>1, <1>2, <2>2, SameScheme DEF RankInv, builderVars
  <2> QED
    BY <1>1, <1>3, <2>1, <2>3, <2>4, <2>5, <2>6 DEF IndexInv, StaysInBounds
<1> QED
  BY <1>4, <1>5

\* A step that changes nothing keeps it.
LEMMA StutterOk == ASSUME IndexInv, UNCHANGED vars PROVE IndexInv'
<1>1. UNCHANGED <<writerVars, pc, vTables, t, stream, n, counted, builderVars>>
  BY DEF vars
<1>2. TypeOk'
  <2>1. TypeOk
    BY DEF IndexInv
  <2>2. TablesOk'
    BY <1>1, <2>1 DEF TypeOk, TablesOk, writerVars
  <2> QED
    BY <1>1, <2>1, <2>2 DEF TypeOk, writerVars, builderVars
<1>3. Met' = Met /\ Ranked' = Ranked
  BY <1>1, SameScheme DEF Met, Ranked
<1>4. AtWork => AtWork'
  BY <1>1, SameScheme DEF AtWork, writerVars
<1>5. CountInv => CountInv'
  BY <1>1, <1>3, SameScheme, SameView DEF CountInv, builderVars
<1>6. ArrayInv => ArrayInv'
  BY <1>1, SameScheme DEF ArrayInv, builderVars
<1>7. RankInv => RankInv'
  BY <1>1, <1>3, SameScheme DEF RankInv, builderVars
<1>8. StaysInBounds => StaysInBounds'
  BY <1>1, SameView, SameScheme DEF StaysInBounds
<1> QED
  BY <1>1, <1>2, <1>4, <1>5, <1>6, <1>7, <1>8 DEF IndexInv

\* Throughout a run, what the builder holds is what the lines of the two passes
\* say: the records and the counts those of the first, the positions in their
\* keys' ranges by those of the second.
THEOREM BuilderInvariant == Spec => []IndexInv
<1>1. Init => IndexInv
  BY InitOk
<1>2. IndexInv /\ [Next]_vars => IndexInv'
  <2> SUFFICES ASSUME IndexInv, [Next]_vars PROVE IndexInv'
    OBVIOUS
  <2>1. CASE Indexer
    BY <2>1, ReadConfigOk, StartTableOk, CountLineOk, SumCountsOk, RankLineOk, OutputOk,
       FreeBuilderOk DEF Indexer
  <2>2. CASE \E name \in DOMAIN file : Replace(name) \/ AppendLine(name)
    BY <2>2, ReplaceOk, AppendLineOk
  <2>3. CASE UNCHANGED vars
    BY <2>3, StutterOk
  <2> QED
    BY <2>1, <2>2, <2>3 DEF Next
<1> QED
  BY <1>1, <1>2, PTL DEF Spec

\* create_index and the output never leave the builder's arrays, unless the
\* lines, the texts, the digests, the line count or the schema give cause, or
\* the file changed between the passes: for every scheme, content, digest and
\* edit.
THEOREM Bounds == Spec => []StaysInBounds
<1>1. IndexInv => StaysInBounds
  BY DEF IndexInv
<1> QED
  BY <1>1, BuilderInvariant, PTL

-----------------------------------------------------------------------------
(* What a record becomes, and what is read from it *)

Numbered == [g \in 1 .. nField |-> g]
Memory == [1 .. RecSize(Scheme) -> Strings]
Zeros == [b \in 1 .. RecSize(Scheme) |-> <<>>]
Copied(f, raw) == Bytes(f, raw[f])

\* Every field has the bytes of a text, and room for them.
Fitting(raw) ==
    \A f \in 1 .. nField :
        Copied(f, raw) \in Seq(Strings) /\ Len(Copied(f, raw)) <= Size(Fields[f])

\* Bytes put into a record leave a record.
LEMMA PutType ==
    ASSUME NEW S, NEW N, NEW record \in [1 .. N -> S], NEW at \in Nat, NEW bytes \in Seq(S)
    PROVE  /\ Put(record, at, bytes) \in [1 .. N -> S]
           /\ \A b \in 1 .. N : Put(record, at, bytes)[b] =
                IF b \in at + 1 .. at + Len(bytes) THEN bytes[b - at] ELSE record[b]
<1>1. Put(record, at, bytes) = [b \in 1 .. N |->
            IF b \in at + 1 .. at + Len(bytes) THEN bytes[b - at] ELSE record[b]]
  BY DEF Put
<1>2. ASSUME NEW b \in 1 .. N
      PROVE  (IF b \in at + 1 .. at + Len(bytes) THEN bytes[b - at] ELSE record[b]) \in S
  <2>1. b \in at + 1 .. at + Len(bytes) => b - at \in 1 .. Len(bytes)
    OBVIOUS
  <2> QED
    BY <2>1
<1> QED
  BY <1>1, <1>2

\* What the record holds once the first fields are copied.
ConvertSteps(f, raw) ==
    /\ f[0] = Zeros /\ ConvertStruct(raw) = f[Len(Numbered)]
    /\ \A k \in 1 .. Len(Numbered) : f[k] = Put(f[k - 1], Offset(Scheme, Numbered[k]), Copied(Numbered[k], raw))

\* There are such steps, and their values are of the type of the result.
LEMMA ConvertFold ==
    ASSUME NEW raw, Fitting(raw), SchemeOk(Scheme), nField \in Nat, nField = Len(Scheme.vFields)
    PROVE  \E f : ConvertSteps(f, raw) /\ \A k \in 0 .. Len(Numbered) : f[k] \in Memory
<1> DEFINE N == Len(Numbered)
           Values == Memory
           op(v, x) == Put(v, Offset(Scheme, x), Copied(x, raw))
           step == [p \in Values \X (1 .. N) |-> op(p[1], Numbered[p[2]])]
           Recurrent(it) == it = [T \in SUBSET DOMAIN Numbered |->
                IF T = {} THEN Zeros ELSE op(it[T \ {Max(T)}], Numbered[Max(T)])]
<1>1. N \in Nat /\ DOMAIN Numbered = 1 .. N /\ Zeros \in Values
  <2>1. Numbered \in Seq(Nat) /\ Len(Numbered) = nField
    BY DEF Numbered
  <2>2. <<>> \in Strings
    BY DEF Strings
  <2> QED
    BY <2>1, <2>2 DEF Zeros, Memory
<1>2. ASSUME NEW v \in Values, NEW k \in 1 .. N PROVE op(v, Numbered[k]) \in Values
  <2>1. k \in 1 .. nField /\ Numbered[k] = k
    BY DEF Numbered
  <2>2. Offset(Scheme, k) \in Nat /\ Copied(k, raw) \in Seq(Strings)
    BY <2>1, Offsets DEF Fitting
  <2> QED
    BY <2>1, <2>2, PutType DEF Memory
<1>3. ConvertStruct(raw) = (CHOOSE it : Recurrent(it))[1 .. N]
  BY <1>1 DEF ConvertStruct, Numbered, Zeros, Copied, FoldLeft, MapThenFoldSet
<1> HIDE DEF N, Values, op
<1>4. \E it : Recurrent(it)
  <2>1. step \in [Values \X (1 .. N) -> Values]
    BY <1>2
  <2>2. PICK it \in [SUBSET (1 .. N) -> Values] : Recurs(it, N, Zeros, step)
    BY <1>1, <2>1, FoldExists
  <2>3. ASSUME NEW T \in SUBSET (1 .. N)
        PROVE  it[T] = IF T = {} THEN Zeros ELSE op(it[T \ {Max(T)}], Numbered[Max(T)])
    <3> DEFINE g == [U \in SUBSET (1 .. N) |->
                        IF U = {} THEN Zeros ELSE step[<<it[U \ {Max(U)}], Max(U)>>]]
    <3>1. it = g
      BY <2>2 DEF Recurs
    <3>2. g[T] = IF T = {} THEN Zeros ELSE step[<<it[T \ {Max(T)}], Max(T)>>]
      OBVIOUS
    <3>3. T # {} => <<it[T \ {Max(T)}], Max(T)>> \in Values \X (1 .. N)
      <4> SUFFICES ASSUME T # {} PROVE <<it[T \ {Max(T)}], Max(T)>> \in Values \X (1 .. N)
        OBVIOUS
      <4>1. Max(T) \in T
        BY <1>1, MinMax
      <4> QED
        BY <4>1
    <3> HIDE DEF g
    <3> QED
      BY <3>1, <3>2, <3>3
  <2>4. it = [T \in SUBSET DOMAIN Numbered |-> it[T]]
    BY <1>1
  <2> HIDE DEF step
  <2>5. Recurrent(it)
    BY <1>1, <2>3, <2>4
  <2> QED
    BY <2>5
<1>5. PICK c : Recurrent(c) /\ ConvertStruct(raw) = c[1 .. N]
  <2> HIDE DEF Recurrent
  <2> QED
    BY <1>3, <1>4
<1> DEFINE f == [k \in 0 .. N |-> c[1 .. k]]
           g == [T \in SUBSET (1 .. N) |->
                    IF T = {} THEN Zeros ELSE op(c[T \ {Max(T)}], Numbered[Max(T)])]
<1>6. c = g
  BY <1>1, <1>5
<1>7. f[0] = Zeros
  <2>1. 1 .. 0 = {} /\ g[{}] = Zeros /\ f[0] = c[1 .. 0]
    BY <1>1
  <2> HIDE DEF f, g
  <2> QED
    BY <1>6, <2>1
<1>8. ASSUME NEW k \in 1 .. N PROVE f[k] = op(f[k - 1], Numbered[k])
  <2>0. k \in Nat \ {0} /\ k \in 1 .. k /\ 1 .. k \subseteq 1 .. N
    BY <1>1
  <2>1. 1 .. k \in SUBSET (1 .. N) /\ 1 .. k # {} /\ Max(1 .. k) = k /\ (1 .. k) \ {k} = 1 .. k - 1
    BY <2>0, LastOfAll
  <2>2. g[1 .. k] = op(c[1 .. k - 1], Numbered[k])
    BY <2>1
  <2>3. f[k] = c[1 .. k] /\ f[k - 1] = c[1 .. k - 1]
    BY <1>1
  <2> HIDE DEF f, g
  <2> QED
    BY <1>6, <2>2, <2>3
<1>9. f[N] = c[1 .. N] /\ f = [k \in 0 .. N |-> f[k]]
  BY <1>1
<1> HIDE DEF f
<1>10. \A k \in 0 .. N : f[k] \in Values
  <2> DEFINE Held == {k \in 0 .. N : f[k] \in Values}
  <2>1. 0 \in Held
    BY <1>1, <1>7
  <2>2. \A k \in 1 .. N : k - 1 \in Held => k \in Held
    BY <1>1, <1>2, <1>8
  <2>3. \A k \in 0 .. N : k \in Held
    <3> HIDE DEF Held
    <3> QED
      BY <1>1, <2>1, <2>2, UpTo
  <2> QED
    BY <2>3
<1> QED
  BY <1>5, <1>7, <1>8, <1>9, <1>10 DEF N, Values, op, ConvertSteps

\* Every field is where its offset says, padded with NULs: no other field's
\* bytes reach there.
LEMMA Converted ==
    ASSUME NEW raw, Fitting(raw), SchemeOk(Scheme), nField \in Nat, nField = Len(Scheme.vFields),
           NEW f \in 1 .. nField, NEW b \in 1 .. Size(Fields[f])
    PROVE  /\ ConvertStruct(raw) \in Memory
           /\ Offset(Scheme, f) + b \in 1 .. RecSize(Scheme)
           /\ ConvertStruct(raw)[Offset(Scheme, f) + b] =
                IF b <= Len(Copied(f, raw)) THEN Copied(f, raw)[b] ELSE <<>>
<1> DEFINE at == Offset(Scheme, f) + b
           here(k) == IF f <= k /\ b <= Len(Copied(f, raw)) THEN Copied(f, raw)[b] ELSE <<>>
<1>1. PICK c : ConvertSteps(c, raw) /\ \A k \in 0 .. Len(Numbered) : c[k] \in Memory
  BY ConvertFold
<1>2. /\ Len(Numbered) = nField /\ \A k \in 1 .. nField : Numbered[k] = k
      /\ nField \in 0 .. nField
  BY DEF Numbered
<1>3. /\ c[0] = Zeros /\ ConvertStruct(raw) = c[nField]
      /\ \A k \in 0 .. nField : c[k] \in Memory
      /\ \A k \in 1 .. nField : c[k] = Put(c[k - 1], Offset(Scheme, k), Copied(k, raw))
  BY <1>1, <1>2 DEF ConvertSteps
<1>4. /\ Offset(Scheme, f) \in Nat /\ Size(Fields[f]) \in Nat
      /\ Offset(Scheme, f + 1) = Offset(Scheme, f) + Size(Fields[f])
      /\ Offset(Scheme, f + 1) <= RecSize(Scheme) /\ RecSize(Scheme) \in Nat
  BY Offsets DEF Fields
<1>5. at \in 1 .. RecSize(Scheme)
  BY <1>4
<1>6. ASSUME NEW k \in 1 .. nField
      PROVE  /\ Copied(k, raw) \in Seq(Strings) /\ Offset(Scheme, k) \in Nat
             /\ k # f => at \notin Offset(Scheme, k) + 1 .. Offset(Scheme, k) + Len(Copied(k, raw))
             /\ k = f => /\ (at \in Offset(Scheme, k) + 1 .. Offset(Scheme, k) + Len(Copied(k, raw))
                                <=> b <= Len(Copied(f, raw)))
                         /\ at - Offset(Scheme, k) = b
  <2>1. /\ Copied(k, raw) \in Seq(Strings) /\ Len(Copied(k, raw)) <= Size(Fields[k])
        /\ Len(Copied(k, raw)) \in Nat
    BY DEF Fitting
  <2>2. /\ Offset(Scheme, k) \in Nat /\ Size(Fields[k]) \in Nat
        /\ Offset(Scheme, k + 1) = Offset(Scheme, k) + Size(Fields[k])
        /\ k # f => \/ Offset(Scheme, f + 1) <= Offset(Scheme, k)
                    \/ Offset(Scheme, k + 1) <= Offset(Scheme, f)
    <3>1. \A g \in 1 .. Len(Scheme.vFields) :
                g # k => \/ Offset(Scheme, g + 1) <= Offset(Scheme, k)
                         \/ Offset(Scheme, k + 1) <= Offset(Scheme, g)
      BY Offsets
    <3> QED
      BY <3>1, Offsets DEF Fields
  <2>3. CASE k = f
    <3> DEFINE w == Len(Copied(f, raw))
               o == Offset(Scheme, f)
    <3>1. w \in Nat /\ o \in Nat /\ b \in Nat /\ b >= 1
      BY <1>4, <2>1, <2>3
    <3> HIDE DEF w, o
    <3>2. (o + b \in o + 1 .. o + w <=> b <= w) /\ (o + b) - o = b
      BY <3>1
    <3>3. (o + b \in o + 1 .. o + Len(Copied(f, raw)) <=> b <= Len(Copied(f, raw)))
          /\ at = o + b /\ Offset(Scheme, f) = o
      BY <3>2 DEF w, o
    <3> HIDE DEF at
    <3> QED
      BY <2>1, <2>2, <2>3, <3>2, <3>3
  <2>4. CASE k # f
    <3> DEFINE w == Len(Copied(k, raw))
               o == Offset(Scheme, k)
    <3>1. w \in Nat /\ o \in Nat /\ w <= Size(Fields[k])
      BY <2>1, <2>2
    <3> HIDE DEF w, o
    <3>2. at \notin o + 1 .. o + w
      <4>1. Offset(Scheme, k + 1) = o + Size(Fields[k])
            /\ (Offset(Scheme, f + 1) <= o \/ Offset(Scheme, k + 1) <= Offset(Scheme, f))
        BY <2>2, <2>4 DEF o
      <4> DEFINE u == Offset(Scheme, f)
                 here_size == Size(Fields[f])
                 size == Size(Fields[k])
      <4>2. /\ u \in Nat /\ here_size \in Nat /\ size \in Nat /\ w <= size
            /\ b \in 1 .. here_size /\ at = u + b
            /\ (u + here_size <= o \/ o + size <= u)
        BY <1>4, <2>2, <3>1, <4>1
      <4> HIDE DEF u, here_size, size, at
      <4> QED
        BY <3>1, <4>2
    <3>3. at \notin Offset(Scheme, k) + 1 .. Offset(Scheme, k) + Len(Copied(k, raw))
      BY <3>2 DEF w, o
    <3> HIDE DEF at
    <3> QED
      BY <2>1, <2>2, <2>4, <3>3
  <2> QED
    BY <2>3, <2>4
<1> DEFINE Held == {k \in 0 .. nField : c[k][at] = here(k)}
<1>7. 0 \in Held
  <2>1. Zeros[at] = <<>>
    <3> HIDE DEF at
    <3> QED
      BY <1>5 DEF Zeros
  <2>2. ~ (f <= 0) /\ 0 \in 0 .. nField
    OBVIOUS
  <2> HIDE DEF at
  <2> QED
    BY <1>3, <2>1, <2>2
<1>8. ASSUME NEW k \in 1 .. nField, k - 1 \in Held PROVE k \in Held
  <2>1. c[k - 1] \in [1 .. RecSize(Scheme) -> Strings] /\ c[k - 1][at] = here(k - 1)
    BY <1>3, <1>8 DEF Memory
  <2>2. c[k][at] = IF at \in Offset(Scheme, k) + 1 .. Offset(Scheme, k) + Len(Copied(k, raw))
                   THEN Copied(k, raw)[at - Offset(Scheme, k)] ELSE c[k - 1][at]
    <3> HIDE DEF at
    <3>1. Copied(k, raw) \in Seq(Strings) /\ Offset(Scheme, k) \in Nat
      BY <1>6
    <3>2. \A x \in 1 .. RecSize(Scheme) : Put(c[k - 1], Offset(Scheme, k), Copied(k, raw))[x] =
                IF x \in Offset(Scheme, k) + 1 .. Offset(Scheme, k) + Len(Copied(k, raw))
                THEN Copied(k, raw)[x - Offset(Scheme, k)] ELSE c[k - 1][x]
      <4> DEFINE v == c[k - 1]
                 o == Offset(Scheme, k)
                 q == Copied(k, raw)
      <4>1. v \in [1 .. RecSize(Scheme) -> Strings] /\ o \in Nat /\ q \in Seq(Strings)
        BY <2>1, <3>1
      <4> HIDE DEF v, o, q
      <4>2. \A x \in 1 .. RecSize(Scheme) : Put(v, o, q)[x] =
                IF x \in o + 1 .. o + Len(q) THEN q[x - o] ELSE v[x]
        BY <4>1 DEF Put
      <4> QED
        BY <4>2 DEF v, o, q
    <3>3. c[k] = Put(c[k - 1], Offset(Scheme, k), Copied(k, raw))
      BY <1>3
    <3> QED
      BY <1>5, <3>2, <3>3
  <2>3. c[k][at] = here(k)
    <3>1. CASE k = f
      BY <1>6, <2>1, <2>2, <3>1
    <3>2. CASE k # f
      <4>1. f <= k <=> f <= k - 1
        BY <3>2
      <4> HIDE DEF at
      <4> QED
        BY <1>6, <2>1, <2>2, <3>2, <4>1
    <3> QED
      BY <3>1, <3>2
  <2> QED
    BY <2>3
<1>9. nField \in Held
  <2> HIDE DEF Held
  <2> QED
    BY <1>7, <1>8, UpTo
<1>10. c[nField][at] = IF b <= Len(Copied(f, raw)) THEN Copied(f, raw)[b] ELSE <<>>
  BY <1>9
<1> QED
  BY <1>2, <1>3, <1>5, <1>10

\* What the slot of a field is.
LEMMA Slot ==
    ASSUME SchemeOk(Scheme), nField \in Nat, nField = Len(Scheme.vFields), NEW f \in 1 .. nField,
           NEW record \in Memory
    PROVE  LET slot == SubSeq(record, Offset(Scheme, f) + 1, Offset(Scheme, f + 1))
           IN  /\ slot \in Seq(Strings) /\ Len(slot) = Size(Fields[f]) /\ Size(Fields[f]) \in Nat
               /\ \A b \in 1 .. Size(Fields[f]) : slot[b] = record[Offset(Scheme, f) + b]
<1> DEFINE o == Offset(Scheme, f)
           e == Offset(Scheme, f + 1)
           size == Size(Fields[f])
           R == RecSize(Scheme)
           slot == SubSeq(record, o + 1, e)
<1>1. o \in Nat /\ size \in Nat /\ R \in Nat /\ e = o + size /\ e <= R
  BY Offsets DEF Fields
<1>2. record \in [1 .. R -> Strings]
  BY DEF Memory
<1> HIDE DEF o, e, size, R
<1>3. slot \in Seq(Strings) /\ Len(slot) = size /\ \A b \in 1 .. size : slot[b] = record[o + b]
  <2>1. record \in Seq(Strings) /\ Len(record) = R
    BY <1>1, <1>2
  <2>2. slot = [b \in 1 .. size |-> record[o + b]]
    BY <1>1, <2>1
  <2>3. \A b \in 1 .. size : o + b \in 1 .. R
    BY <1>1
  <2> HIDE DEF slot
  <2> QED
    BY <1>1, <1>2, <2>2, <2>3
<1> QED
  BY <1>1, <1>3 DEF o, e, size, R

\* A text put into its field and padded is what is read there.
LEMMA TextRead ==
    ASSUME SchemeOk(Scheme), nField \in Nat, nField = Len(Scheme.vFields), NEW f \in 1 .. nField,
           NEW record \in Memory, NEW token \in Strings, IsString(Fields[f]),
           Len(token) <= Size(Fields[f]),
           \A b \in 1 .. Size(Fields[f]) : record[Offset(Scheme, f) + b] =
                IF b <= Len(token) THEN <<token[b]>> ELSE <<>>
    PROVE  ReadBack(record, f) = token
<1> DEFINE size == Size(Fields[f])
           slot == SubSeq(record, Offset(Scheme, f) + 1, Offset(Scheme, f + 1))
           ends == {b \in DOMAIN slot : slot[b] = <<>>}
           N == Len(token)
           text == [b \in 1 .. N |-> <<token[b]>>]
<1>1. /\ slot \in Seq(Strings) /\ Len(slot) = size /\ size \in Nat
      /\ \A b \in 1 .. size : slot[b] = record[Offset(Scheme, f) + b]
  BY Slot
<1>2. \A b \in 1 .. size : slot[b] = IF b <= N THEN <<token[b]>> ELSE <<>>
  BY <1>1
<1>3. ReadBack(record, f) = FlattenSeq(IF ends = {} THEN slot ELSE SubSeq(slot, 1, Min(ends) - 1))
  BY DEF ReadBack
<1>4. N \in Nat /\ N <= size /\ \A b \in 1 .. N : <<token[b]>> # <<>>
  BY DEF Strings
<1>5. FlattenSeq(text) = token
  BY FlattenSingles DEF Strings
<1> HIDE DEF slot, size, N
<1>6. ends = N + 1 .. size
  <2>1. DOMAIN slot = 1 .. size
    BY <1>1
  <2>2. \A b \in 1 .. size : slot[b] = <<>> <=> b > N
    <3> SUFFICES ASSUME NEW b \in 1 .. size PROVE slot[b] = <<>> <=> b > N
      OBVIOUS
    <3>1. b \in Nat /\ (b > N <=> ~ (b <= N)) /\ (b <= N => b \in 1 .. N)
      BY <1>1, <1>4
    <3>2. slot[b] = IF b <= N THEN <<token[b]>> ELSE <<>>
      BY <1>2
    <3> QED
      BY <1>4, <3>1, <3>2, Zenon
  <2>3. \A b : b \in N + 1 .. size <=> b \in 1 .. size /\ b > N
    BY <1>1, <1>4
  <2> QED
    BY <2>1, <2>2, <2>3, Zenon
<1>7. CASE N = size
  <2>1. ends = {}
    BY <1>4, <1>6, <1>7
  <2>2. slot = [b \in 1 .. size |-> slot[b]]
    BY <1>1
  <2>3. slot = text
    BY <1>2, <1>4, <1>7, <2>2
  <2> HIDE DEF ends, text
  <2> QED
    BY <1>3, <1>5, <2>1, <2>3
<1>8. CASE N # size
  <2>1. ends # {} /\ N + 1 \in ends /\ ends \in SUBSET (1 .. size)
    <3> HIDE DEF ends
    <3>1. N + 1 \in N + 1 .. size /\ \A k \in N + 1 .. size : k \in 1 .. size
      BY <1>1, <1>4, <1>8
    <3> QED
      BY <1>6, <3>1
  <2>2. \A k \in ends : N + 1 <= k /\ k \in Nat
    BY <1>4, <1>6
  <2> HIDE DEF ends
  <2>3. Min(ends) \in ends /\ \A k \in ends : Min(ends) <= k
    BY <1>1, <2>1, MinMax
  <2>4. Min(ends) = N + 1
    <3>1. N + 1 <= Min(ends) /\ Min(ends) <= N + 1 /\ Min(ends) \in Nat
      BY <2>1, <2>2, <2>3
    <3>2. N \in Nat
      BY <1>4
    <3> DEFINE least == Min(ends)
    <3> HIDE DEF least
    <3>3. N + 1 <= least /\ least <= N + 1 /\ least \in Nat
      BY <3>1 DEF least
    <3>4. least = N + 1
      BY <3>2, <3>3
    <3> QED
      BY <3>4 DEF least
  <2>5. SubSeq(slot, 1, Min(ends) - 1) = [b \in 1 .. N |-> slot[b]]
    <3>1. Min(ends) - 1 = N
      BY <1>4, <2>4
    <3>2. SubSeq(slot, 1, N) = [b \in 1 .. N |-> slot[b]]
      BY <1>1, <1>4
    <3> QED
      BY <3>1, <3>2, Zenon
  <2>6. [b \in 1 .. N |-> slot[b]] = text
    BY <1>1, <1>2, <1>4
  <2> HIDE DEF text
  <2> QED
    BY <1>3, <1>5, <2>1, <2>5, <2>6
<1> QED
  BY <1>7, <1>8

\* A number is read as it was.
LEMMA NumberRead ==
    ASSUME SchemeOk(Scheme), nField \in Nat, nField = Len(Scheme.vFields), NEW f \in 1 .. nField,
           NEW record \in Memory, NEW value, ~ IsString(Fields[f]),
           \A b \in 1 .. Size(Fields[f]) : record[Offset(Scheme, f) + b] = value
    PROVE  ReadBack(record, f) = value
<1> DEFINE slot == SubSeq(record, Offset(Scheme, f) + 1, Offset(Scheme, f + 1))
<1>1. 1 \in 1 .. Size(Fields[f])
  BY ConfigAssumption DEF Size
<1>2. \A b \in 1 .. Size(Fields[f]) : slot[b] = record[Offset(Scheme, f) + b]
  BY Slot
<1>3. slot[1] = value
  BY <1>1, <1>2
<1>4. ReadBack(record, f) = slot[1]
  BY DEF ReadBack
<1> QED
  BY <1>3, <1>4

\* If no two texts of the lines have one digest, what a record's string is
\* found by is the very token.
LEMMA StoredText ==
    ASSUME CountInv, Met \in Contents, NEW m \in 1 .. Len(Met), nField = Len(Scheme.vFields),
           NEW f \in 1 .. nField, IsString(Fields[f]), nField \in Nat,
           \A s, u \in UNION {Range(Tokens(line)) : line \in Range(Met)} :
                Md5(s) = Md5(u) => s = u
    PROVE  Holds(str_text, record_index[m][f], Tokens(Met[m])[f])
<1> DEFINE token == Tokens(Met[m])[f]
<1>1. RecordOk(Scheme, Met, str_text, record_index[m], Met[m])
  BY StoredRecord
<1>2. f \in 1 .. Len(Tokens(Met[m]))
  BY StoredLength
<1>3. /\ token \in Strings /\ Met[m] \in Range(Met) /\ token \in Range(Tokens(Met[m]))
  BY <1>2, TokenType
<1>4. Stands(Scheme, Met, str_text, record_index[m][f], Md5(token))
  BY <1>1, Linked DEF RecordOk, Fields
<1> HIDE DEF token
<1>5. PICK line \in Range(Met) : \E s \in Range(Tokens(line)) :
            s \in Strings /\ Md5(s) = Md5(token) /\ Holds(str_text, record_index[m][f], s)
  BY <1>4, StandsText
<1>6. PICK s \in Range(Tokens(line)) :
            s \in Strings /\ Md5(s) = Md5(token) /\ Holds(str_text, record_index[m][f], s)
  BY <1>5
<1>7. s = token
  BY <1>3, <1>5, <1>6
<1> QED
  BY <1>6, <1>7 DEF token

\* The bytes of a record's field are those of its token.
LEMMA CopiedText ==
    ASSUME CountInv, Met \in Contents, NEW m \in 1 .. Len(Met), nField = Len(Scheme.vFields),
           NEW f \in 1 .. nField, nField \in Nat,
           \A s, u \in UNION {Range(Tokens(line)) : line \in Range(Met)} :
                Md5(s) = Md5(u) => s = u
    PROVE  LET bytes == Copied(f, record_index[m])
               token == Tokens(Met[m])[f]
           IN  /\ token \in Strings /\ Met[m] \in Range(Met)
               /\ bytes = IF IsString(Fields[f]) THEN [b \in 1 .. Len(token) |-> <<token[b]>>]
                          ELSE [b \in 1 .. IntSize |-> token]
               /\ bytes \in Seq(Strings)
               /\ Len(bytes) = IF IsString(Fields[f]) THEN Len(token) ELSE IntSize
<1> DEFINE token == Tokens(Met[m])[f]
           value == record_index[m][f]
           bytes == Copied(f, record_index[m])
<1>1. RecordOk(Scheme, Met, str_text, record_index[m], Met[m]) /\ str_text \in Strings
  BY StoredRecord DEF CountInv, FilterOk
<1>2. f \in 1 .. Len(Tokens(Met[m]))
  <2>1. Len(Tokens(Met[m])) >= nField
    BY <1>1, Linked DEF RecordOk
  <2>2. Len(Tokens(Met[m])) \in Nat
    <3>1. Met[m] \in Strings
      BY DEF Contents
    <3>2. Tokens(Met[m]) \in Contents
      BY <3>1, Linked, TokensType
    <3> QED
      BY <3>2 DEF Contents
  <2> QED
    BY <2>1, <2>2
<1>3. token \in Strings /\ Met[m] \in Range(Met)
  BY <1>2, TokenType
<1>4. CASE IsString(Fields[f])
  <2>1. Holds(str_text, value, token)
    BY <1>4, StoredText
  <2>2. value \in Entry
    BY <1>1, <1>4 DEF RecordOk, Fields
  <2>3. bytes = [b \in 1 .. value.length |-> Char(value.start_pos + b)]
    BY <1>4 DEF Copied, Bytes
  <2> HIDE DEF token, value, bytes
  <2>4. ASSUME NEW b \in 1 .. Len(token) PROVE Char(value.start_pos + b) = <<token[b]>>
    <3>1. value.start_pos \in Nat /\ value.start_pos + Len(token) <= Len(str_text)
          /\ str_text[value.start_pos + b] = token[b]
      BY <2>1, <2>2 DEF Holds, Entry
    <3>2. value.start_pos + b \in DOMAIN str_text
      BY <1>1, <1>3, <3>1 DEF Strings
    <3> QED
      BY <3>1, <3>2 DEF Char
  <2>5. bytes = [b \in 1 .. Len(token) |-> <<token[b]>>]
    <3>1. value.length = Len(token)
      BY <2>1 DEF Holds
    <3> QED
      BY <2>3, <2>4, <3>1
  <2>6. bytes \in Seq(Strings) /\ Len(bytes) = Len(token)
    <3>1. Len(token) \in Nat /\ \A b \in 1 .. Len(token) : <<token[b]>> \in Strings
      BY <1>3 DEF Strings
    <3> QED
      BY <2>5, <3>1
  <2> QED
    BY <1>3, <1>4, <2>5, <2>6 DEF token, bytes
<1>5. CASE ~ IsString(Fields[f])
  <2>1. value = token
    BY <1>1, <1>5, Linked DEF RecordOk, Fields
  <2>2. bytes = [b \in 1 .. IntSize |-> value] /\ IntSize \in Nat
    BY <1>5, ConfigAssumption DEF Copied, Bytes
  <2> HIDE DEF token, value, bytes
  <2>3. bytes \in Seq(Strings) /\ Len(bytes) = IntSize
    BY <1>3, <2>1, <2>2
  <2> QED
    BY <1>3, <1>5, <2>1, <2>2, <2>3 DEF token, bytes
<1> QED
  BY <1>4, <1>5

\* What is read of a stored record is its line's.
LEMMA RecordRead ==
    ASSUME CountInv, SchemeOk(Scheme), Met \in Contents, NEW m \in 1 .. Len(Met),
           nField = Len(Scheme.vFields), NEW f \in 1 .. nField, nField \in Nat,
           \A s, u \in UNION {Range(Tokens(line)) : line \in Range(Met)} :
                Md5(s) = Md5(u) => s = u,
           \A line \in Range(Met) : \A g \in 1 .. nField :
                IsString(Fields[g]) => Len(Tokens(line)[g]) <= Fields[g].max_length
    PROVE  ReadBack(ConvertStruct(record_index[m]), f) = Tokens(Met[m])[f]
<1> DEFINE raw == record_index[m]
           record == ConvertStruct(raw)
           token == Tokens(Met[m])[f]
           At(b) == Offset(Scheme, f) + b
<1>1. ASSUME NEW g \in 1 .. nField
      PROVE  Copied(g, raw) \in Seq(Strings) /\ Len(Copied(g, raw)) <= Size(Fields[g])
  <2> DEFINE word == Tokens(Met[m])[g]
  <2>1. /\ Met[m] \in Range(Met) /\ Copied(g, raw) \in Seq(Strings)
        /\ Len(Copied(g, raw)) = IF IsString(Fields[g]) THEN Len(word) ELSE IntSize
    BY CopiedText
  <2>2. IsString(Fields[g]) => Len(word) <= Fields[g].max_length
    BY <2>1
  <2>3. IntSize <= IntSize
    BY ConfigAssumption
  <2> HIDE DEF raw, word
  <2> QED
    BY <2>1, <2>2, <2>3 DEF Size
<1>2. Fitting(raw)
  BY <1>1 DEF Fitting
<1>3. /\ token \in Strings
      /\ Copied(f, raw) = IF IsString(Fields[f]) THEN [b \in 1 .. Len(token) |-> <<token[b]>>]
                          ELSE [b \in 1 .. IntSize |-> token]
      /\ Len(Copied(f, raw)) = IF IsString(Fields[f]) THEN Len(token) ELSE IntSize
  BY CopiedText
<1>4. Len(Copied(f, raw)) <= Size(Fields[f]) /\ Size(Fields[f]) \in Nat /\ Len(token) \in Nat
  <2>1. Size(Fields[f]) \in Nat
    BY Offsets DEF Fields
  <2>2. Len(Copied(f, raw)) <= Size(Fields[f])
    BY <1>1
  <2> HIDE DEF token, raw
  <2>3. Len(token) \in Nat
    BY <1>3 DEF Strings
  <2> QED
    BY <2>1, <2>2, <2>3
<1> HIDE DEF raw, token
<1>5. \A b \in 1 .. Size(Fields[f]) :
            /\ record \in Memory
            /\ record[At(b)] = IF b <= Len(Copied(f, raw)) THEN Copied(f, raw)[b] ELSE <<>>
  BY <1>2, Converted
<1>6. record \in Memory
  <2>1. PICK c : ConvertSteps(c, raw) /\ \A k \in 0 .. Len(Numbered) : c[k] \in Memory
    BY <1>2, ConvertFold
  <2>2. Len(Numbered) \in 0 .. Len(Numbered)
    BY DEF Numbered
  <2> QED
    BY <2>1, <2>2 DEF ConvertSteps
<1> HIDE DEF record, At
<1>7. CASE IsString(Fields[f])
  <2>1. \A b \in 1 .. Size(Fields[f]) : record[At(b)] =
                IF b <= Len(token) THEN <<token[b]>> ELSE <<>>
    BY <1>3, <1>4, <1>5, <1>7
  <2>2. Len(token) <= Size(Fields[f])
    BY <1>3, <1>4, <1>7
  <2> QED
    BY <1>3, <1>6, <1>7, <2>1, <2>2, TextRead DEF record, token, At, raw
<1>8. CASE ~ IsString(Fields[f])
  <2>1. \A b \in 1 .. Size(Fields[f]) : record[At(b)] = token
    <3>1. Size(Fields[f]) = IntSize
      BY <1>8 DEF Size
    <3> QED
      BY <1>3, <1>4, <1>5, <1>8, <3>1
  <2> QED
    BY <1>6, <1>8, <2>1, NumberRead DEF record, token, At, raw
<1> QED
  BY <1>7, <1>8

-----------------------------------------------------------------------------
(* What the files answer *)

\* What a lookup relies on once the files are written.
LEMMA WrittenFacts ==
    ASSUME IndexInv, pc = "written", stream = counted, Fits(counted),
           \A s, u \in Texts(counted) : Md5(s) = Md5(u) => s = u
    PROVE  /\ CountInv /\ ArrayInv /\ RankInv /\ SchemeOk(Scheme)
           /\ Met \in Contents /\ Len(Met) \in Nat /\ Ranked = Met /\ Good(counted) = Met
           /\ LineNum \in Nat /\ nIndex \in Nat /\ nField \in Nat /\ nField = Len(Scheme.vFields)
           /\ \A i \in 1 .. nIndex : PlacedOk(Scheme, Met, Met, pidxmap[i], pRank[i], i)
           /\ \A s, u \in UNION {Range(Tokens(line)) : line \in Range(Met)} :
                Md5(s) = Md5(u) => s = u
           /\ \A line \in Range(Met) : \A g \in 1 .. nField :
                IsString(Fields[g]) => Len(Tokens(line)[g]) <= Fields[g].max_length
<1>1. TypeOk /\ AtWork /\ CountInv /\ ArrayInv /\ RankInv /\ n = Len(stream)
  BY DEF IndexInv
<1>2. t > 0
  BY <1>1 DEF AtWork
<1>3. /\ SchemeOk(Scheme) /\ LineNum \in Nat /\ nIndex \in Nat /\ nField \in Nat
      /\ nField = Len(Scheme.vFields)
  BY <1>1, <1>2, TableAtHand
<1>4. stream \in Contents /\ counted \in Contents
  BY <1>1 DEF TypeOk
<1>5. Met = GoodIn(Scheme, counted) /\ Met \in Contents
  <2>1. Met = GoodIn(Scheme, counted)
    BY DEF Met
  <2> QED
    BY <1>4, <2>1, GoodType
<1>6. Len(Met) \in Nat
  BY <1>5 DEF Contents
<1>7. Ranked = Met /\ Good(counted) = Met
  <2>1. SubSeq(stream, 1, n) = stream
    BY <1>1, <1>4 DEF Contents
  <2> QED
    BY <1>4, <1>5, <2>1, LinkedGood DEF Ranked
<1>8. ASSUME NEW i \in 1 .. nIndex PROVE PlacedOk(Scheme, Met, Met, pidxmap[i], pRank[i], i)
  <2>1. n <= Len(counted) /\ SubSeq(stream, 1, n) = SubSeq(counted, 1, n)
    BY <1>1, <1>4 DEF Contents
  <2> QED
    BY <1>1, <1>7, <2>1 DEF RankInv
<1>9. \A s, u \in UNION {Range(Tokens(line)) : line \in Range(Met)} : Md5(s) = Md5(u) => s = u
  BY <1>7 DEF Texts
<1>10. \A line \in Range(Met) : \A g \in 1 .. nField :
            IsString(Fields[g]) => Len(Tokens(line)[g]) <= Fields[g].max_length
  BY <1>7 DEF Fits
<1> QED
  BY <1>1, <1>3, <1>5, <1>6, <1>7, <1>8, <1>9, <1>10

\* The digests of an index are the keys of the lines.
LEMMA KeysAre ==
    ASSUME CountInv, Met \in Contents, NEW i \in 1 .. nIndex
    PROVE  {e.md5 : e \in Idx(i)} = {Key(line, i) : line \in Range(Met)}
<1>1. \A d : d \in DOMAIN pidxmap[i] <=> \E m \in 1 .. Len(Met) : KeyIn(Scheme, Met[m], i) = d
  BY DEF CountInv, CountsOk
<1>2. \A d : d \in {e.md5 : e \in Idx(i)} <=> d \in DOMAIN pidxmap[i]
  <2> DEFINE line(d) == [md5 |-> d, start_pos |-> pidxmap[i][d].start_pos,
                         length |-> pidxmap[i][d].length]
  <2>1. Idx(i) = {line(d) : d \in DOMAIN pidxmap[i]}
    BY DEF Idx
  <2>2. \A d : line(d).md5 = d
    OBVIOUS
  <2> HIDE DEF line
  <2> QED
    BY <2>1, <2>2
<1>3. DOMAIN Met = 1 .. Len(Met)
  BY DEF Contents
<1>4. \A d : d \in {Key(line, i) : line \in Range(Met)}
                <=> \E m \in 1 .. Len(Met) : KeyIn(Scheme, Met[m], i) = d
  <2>1. \A line : line \in Range(Met) <=> \E m \in 1 .. Len(Met) : Met[m] = line
    BY <1>3 DEF Range
  <2>2. \A line : Key(line, i) = KeyIn(Scheme, line, i)
    BY Linked
  <2> QED
    BY <2>1, <2>2
<1> QED
  BY <1>1, <1>2, <1>4

\* The rows of a key are the good lines that have it.
LEMMA RowsAre ==
    ASSUME Met \in Contents, NEW i, NEW d
    PROVE  Only(Met, {line \in Range(Met) : Key(line, i) = d}) = Rows(Scheme, Met, i, d)
<1> DEFINE S == Range(Met)
           kept == {line \in S : Key(line, i) = d}
           held == {line \in Strings : KeyIn(Scheme, line, i) = d}
<1>1. Met \in Seq(S) /\ \A line \in S : line \in Strings
  BY DEF Contents, Range
<1>2. \A line \in S : line \in kept <=> line \in held
  BY <1>1, Linked
<1> HIDE DEF S, kept, held
<1>3. Only(Met, kept) = Only(Met, held)
  BY <1>1, <1>2, OnlyAgree
<1> QED
  BY <1>3 DEF Rows, S, kept, held

\* A key's range of the .dat file has its rows, in their order.
LEMMA RangeRead ==
    ASSUME IndexInv, pc = "written", stream = counted, Fits(counted),
           \A s, u \in Texts(counted) : Md5(s) = Md5(u) => s = u,
           NEW i \in 1 .. nIndex, NEW d \in DOMAIN pidxmap[i],
           NEW p \in 1 .. Len(Rows(Scheme, Met, i, d)), NEW f \in 1 .. nField
    PROVE  ReadBack(Dat(i)[pidxmap[i][d].start_pos + p - 1], f)
                = Tokens(Rows(Scheme, Met, i, d)[p])[f]
<1> DEFINE rows == Rows(Scheme, Met, i, d)
           entry == pidxmap[i][d]
           place == entry.start_pos + p - 1
           m == pRank[i][place]
<1>1. /\ CountInv /\ ArrayInv /\ RankInv /\ SchemeOk(Scheme)
      /\ Met \in Contents /\ Len(Met) \in Nat /\ LineNum \in Nat
      /\ nField \in Nat /\ nField = Len(Scheme.vFields)
      /\ PlacedOk(Scheme, Met, Met, pidxmap[i], pRank[i], i)
  BY WrittenFacts
<1>2. /\ \A s, u \in UNION {Range(Tokens(line)) : line \in Range(Met)} :
            Md5(s) = Md5(u) => s = u
      /\ \A line \in Range(Met) : \A g \in 1 .. nField :
            IsString(Fields[g]) => Len(Tokens(line)[g]) <= Fields[g].max_length
  BY WrittenFacts
<1>3. /\ entry \in Counter /\ entry.length = Len(rows) /\ Len(Met) <= LineNum
      /\ entry.start_pos + entry.length <= Len(Met)
  <2>1. CountsOk(Scheme, Met, pidxmap[i], i) /\ StartsOk(Len(Met), pidxmap[i])
        /\ Len(Met) <= LineNum
    BY <1>1 DEF CountInv, RankInv
  <2> QED
    BY <2>1 DEF CountsOk, StartsOk
<1>4. place \in 0 .. LineNum - 1
  <2>1. entry.start_pos \in Nat /\ entry.length \in Nat
    BY <1>3 DEF Counter
  <2> HIDE DEF entry, rows
  <2>2. p \in 1 .. Len(rows)
    BY DEF rows
  <2> QED
    BY <1>1, <1>3, <2>1, <2>2
<1>5. m \in Nat /\ m < Len(Met) /\ Met[m + 1] = rows[p]
  <2>1. NumbersOk(LineNum, lnm, pRank[i])
    BY <1>1 DEF ArrayInv
  <2>2. m \in Nat
    <3> HIDE DEF place
    <3> QED
      BY <1>4, <2>1 DEF NumbersOk
  <2> QED
    BY <1>1, <2>2 DEF PlacedOk
<1> HIDE DEF entry, place, m, rows
<1>6. m + 1 \in 1 .. Len(Met) /\ (m + 1) - 1 = m
  BY <1>1, <1>5
<1>7. Stored(m) = record_index[m + 1]
  <2>1. Stored((m + 1) - 1) = record_index[m + 1]
    BY <1>1, <1>6, StoredRecord
  <2> QED
    BY <1>6, <2>1
<1>8. Dat(i)[place] = ConvertStruct(record_index[m + 1])
  BY <1>4, <1>7 DEF Dat, m
<1>9. ReadBack(ConvertStruct(record_index[m + 1]), f) = Tokens(Met[m + 1])[f]
  BY <1>1, <1>2, <1>6, RecordRead
<1> QED
  BY <1>5, <1>8, <1>9 DEF rows, place, entry

\* The builder's invariant says that the files answer every key.
LEMMA Exact == ASSUME IndexInv PROVE LookupIsExact
<1> SUFFICES ASSUME pc = "written", stream = counted, Fits(counted),
                    \A s, u \in Texts(counted) : Md5(s) = Md5(u) => s = u,
                    NEW i \in 1 .. nIndex
             PROVE  /\ {e.md5 : e \in Idx(i)} = {Key(line, i) : line \in Range(Good(counted))}
                    /\ \A e \in Idx(i) :
                        LET rows == Only(Good(counted),
                                {line \in Range(Good(counted)) : Key(line, i) = e.md5})
                        IN  /\ e.length = Len(rows)
                            /\ \A p \in 1 .. Len(rows) : \A f \in 1 .. nField :
                                ReadBack(Dat(i)[e.start_pos + p - 1], f) = Tokens(rows[p])[f]
  BY DEF LookupIsExact
<1>1. CountInv /\ Met \in Contents /\ Good(counted) = Met
  BY WrittenFacts
<1>2. {e.md5 : e \in Idx(i)} = {Key(line, i) : line \in Range(Good(counted))}
  BY <1>1, KeysAre
<1>3. ASSUME NEW e \in Idx(i)
      PROVE  LET rows == Only(Good(counted),
                              {line \in Range(Good(counted)) : Key(line, i) = e.md5})
             IN  /\ e.length = Len(rows)
                 /\ \A p \in 1 .. Len(rows) : \A f \in 1 .. nField :
                        ReadBack(Dat(i)[e.start_pos + p - 1], f) = Tokens(rows[p])[f]
  <2>1. PICK d \in DOMAIN pidxmap[i] :
            /\ e.md5 = d /\ e.start_pos = pidxmap[i][d].start_pos
            /\ e.length = pidxmap[i][d].length
    BY DEF Idx
  <2> DEFINE rows == Rows(Scheme, Met, i, d)
  <2>2. Only(Good(counted), {line \in Range(Good(counted)) : Key(line, i) = e.md5}) = rows
    BY <1>1, <2>1, RowsAre
  <2>3. e.length = Len(rows)
    <3>1. CountsOk(Scheme, Met, pidxmap[i], i)
      BY <1>1 DEF CountInv
    <3> QED
      BY <2>1, <3>1 DEF CountsOk
  <2>4. \A p \in 1 .. Len(rows) : \A f \in 1 .. nField :
            ReadBack(Dat(i)[e.start_pos + p - 1], f) = Tokens(rows[p])[f]
    BY <2>1, RangeRead
  <2> HIDE DEF rows
  <2> QED
    BY <2>2, <2>3, <2>4
<1> QED
  BY <1>2, <1>3

\* Looking a key up in what the builder wrote yields exactly the lines with that
\* key, in the input's order and with the fields they had: for every scheme,
\* content and edit, if the passes met the same lines, every text fits and no
\* two share a digest.
THEOREM Lookups == Spec => []LookupIsExact
<1>1. IndexInv => LookupIsExact
  BY Exact
<1> QED
  BY <1>1, BuilderInvariant, PTL
=============================================================================
