----------------------------- MODULE TextProofs -----------------------------
(***************************************************************************)
(* Lemmas about the operators the models of files are built from: folds,   *)
(* the functions of Text, and concatenation.  What would be an induction   *)
(* is the choice of a least counterexample.                                *)
(***************************************************************************)
EXTENDS Text, FiniteSetTheorems, SequenceTheorems, WellFoundedInduction, TLAPS

-----------------------------------------------------------------------------
(* Numbers and sets of them *)

\* A set of naturals has a least element, which stands in for induction.
LEMMA Least ==
    ASSUME NEW S \in SUBSET Nat, S # {}
    PROVE  \E N \in S : \A k \in S : N <= k
<1>1. PICK N \in S : \A k \in S : ~ (<<k, N>> \in OpToRel(<, Nat))
  BY NatLessThanWellFounded, WFMin
<1>2. ASSUME NEW k \in S PROVE N <= k
  <2>1. <<k, N>> \in Nat \X Nat => ~ (k < N)
    BY <1>1 DEF OpToRel
  <2> QED
    BY <2>1
<1> QED
  BY <1>2

\* Induction up to a bound, with the set of the numbers it holds for.
LEMMA UpTo ==
    ASSUME NEW N \in Nat, NEW Held, 0 \in Held,
           \A k \in 1 .. N : k - 1 \in Held => k \in Held
    PROVE  N \in Held /\ \A k \in 0 .. N : k \in Held
<1> DEFINE Missed == (0 .. N) \ Held
<1> SUFFICES ASSUME Missed # {} PROVE FALSE
  OBVIOUS
<1>1. PICK m \in Missed : \A k \in Missed : m <= k
  <2>1. Missed \in SUBSET Nat
    OBVIOUS
  <2> QED
    BY <2>1, Least
<1>2. m \in 1 .. N /\ m - 1 \in 0 .. N
  BY <1>1
<1>3. m - 1 \in Held
  BY <1>1, <1>2
<1> QED
  BY <1>1, <1>2, <1>3

\* What lies one behind the other, each from its place for its size, ends before
\* the end and does not overlap.
LEMMA Layout ==
    ASSUME NEW N \in Nat, NEW at, NEW size, NEW f \in 1 .. N,
           \A g \in 1 .. N : at[g] \in Nat /\ size[g] \in Nat /\ at[g + 1] = at[g] + size[g]
    PROVE  /\ at[f + 1] <= at[N + 1] /\ at[N + 1] \in Nat
           /\ \A g \in 1 .. N : g # f => at[g + 1] <= at[f] \/ at[f + 1] <= at[g]
<1>1. \A g \in 1 .. N : \A h \in 0 .. N : g <= h => at[g + 1] <= at[h + 1]
  <2> SUFFICES ASSUME NEW g \in 1 .. N PROVE \A h \in 0 .. N : g <= h => at[g + 1] <= at[h + 1]
    OBVIOUS
  <2> DEFINE Held == {h \in 0 .. N : g <= h => at[g + 1] <= at[h + 1]}
  <2>1. 0 \in Held
    OBVIOUS
  <2>2. ASSUME NEW h \in 1 .. N, h - 1 \in Held PROVE h \in Held
    <3>1. CASE g = h
      <4>1. at[g + 1] \in Nat
        OBVIOUS
      <4> QED
        BY <3>1, <4>1
    <3>2. CASE g < h
      <4>1. at[g + 1] <= at[h] /\ at[g + 1] \in Nat
        <5>1. (h - 1) + 1 = h /\ g <= h - 1
          BY <3>2
        <5> QED
          BY <2>2, <5>1
      <4>2. at[h] \in Nat /\ size[h] \in Nat /\ at[h + 1] = at[h] + size[h]
        OBVIOUS
      <4> QED
        BY <4>1, <4>2
    <3> QED
      BY <3>1, <3>2
  <2>3. \A h \in 0 .. N : h \in Held
    <3> HIDE DEF Held
    <3> QED
      BY <2>1, <2>2, UpTo
  <2> QED
    BY <2>3
<1>2. at[f + 1] <= at[N + 1] /\ N \in 0 .. N /\ N \in 1 .. N
  BY <1>1
<1>3. at[N + 1] \in Nat
  BY <1>2
<1>4. ASSUME NEW g \in 1 .. N, g # f PROVE at[g + 1] <= at[f] \/ at[f + 1] <= at[g]
  <2>1. CASE g < f
    <3>1. f - 1 \in 0 .. N /\ g <= f - 1 /\ (f - 1) + 1 = f
      BY <2>1
    <3> QED
      BY <1>1, <3>1
  <2>2. CASE f < g
    <3>1. g - 1 \in 0 .. N /\ f <= g - 1 /\ (g - 1) + 1 = g
      BY <2>2
    <3> QED
      BY <1>1, <3>1
  <2> QED
    BY <1>4, <2>1, <2>2
<1> QED
  BY <1>2, <1>3, <1>4

\* A set of numbers up to N that is not empty has a least and a greatest one.
LEMMA MinMax ==
    ASSUME NEW N \in Nat, NEW S \in SUBSET (1 .. N), S # {}
    PROVE  /\ Min(S) \in S /\ \A k \in S : Min(S) <= k
           /\ Max(S) \in S /\ \A k \in S : Max(S) >= k
<1>1. \E k \in S : \A j \in S : k =< j
  BY Least
<1>2. \E k \in S : \A j \in S : k >= j
  <2> DEFINE Upper == {u \in 0 .. N : N - u \in S}
  <2>1. PICK u \in Upper : \A k \in Upper : u <= k
    <3>1. PICK k \in S : TRUE
      OBVIOUS
    <3>2. N - k \in 0 .. N /\ N - (N - k) = k
      OBVIOUS
    <3>3. N - k \in Upper
      BY <3>2
    <3>4. Upper \in SUBSET Nat
      OBVIOUS
    <3> HIDE DEF Upper
    <3> QED
      BY <3>3, <3>4, Least
  <2>2. PICK k \in S : u = N - k
    <3>1. N - u \in S /\ u = N - (N - u)
      OBVIOUS
    <3> QED
      BY <3>1
  <2>3. ASSUME NEW j \in S PROVE k >= j
    <3>1. N - j \in 0 .. N /\ N - (N - j) = j
      OBVIOUS
    <3>2. N - k <= N - j
      BY <2>1, <2>2, <3>1
    <3> QED
      BY <3>2
  <2> QED
    BY <2>3
<1> QED
  BY <1>1, <1>2 DEF Min, Max

\* The last of the numbers up to N.
LEMMA LastOfAll == ASSUME NEW N \in Nat \ {0} PROVE Max(1 .. N) = N /\ (1 .. N) \ {N} = 1 .. N - 1
<1>1. 1 .. N \in SUBSET (1 .. N) /\ N \in 1 .. N
  OBVIOUS
<1>2. Max(1 .. N) \in 1 .. N /\ Max(1 .. N) >= N
  BY <1>1, MinMax
<1> QED
  BY <1>2

-----------------------------------------------------------------------------
(* Sequences *)

\* A function on the first numbers is a sequence.
LEMMA IsSequence ==
    ASSUME NEW N \in Nat, NEW S, NEW f, f = [i \in 1 .. N |-> f[i]], \A i \in 1 .. N : f[i] \in S
    PROVE  f \in Seq(S) /\ Len(f) = N
OBVIOUS

\* What is where after an Append.
LEMMA AppendAt ==
    ASSUME NEW S, NEW q \in Seq(S), NEW x \in S
    PROVE  /\ Append(q, x) \in Seq(S) /\ Len(q) \in Nat /\ Len(Append(q, x)) = Len(q) + 1
           /\ Append(q, x)[Len(q) + 1] = x /\ \A k \in 1 .. Len(q) : Append(q, x)[k] = q[k]
OBVIOUS

-----------------------------------------------------------------------------
(* Folds.  A fold is what a recursion over the sets of positions yields; for *)
(* the positions up to k of a sequence these are its steps.                  *)

Recurs(it, N, base, step) ==
    it = [S \in SUBSET (1 .. N) |->
            IF S = {} THEN base ELSE step[<<it[S \ {Max(S)}], Max(S)>>]]

\* There is such a recursion.
LEMMA FoldExists ==
    ASSUME NEW N \in Nat, NEW V, NEW base \in V, NEW step \in [V \X (1 .. N) -> V]
    PROVE  \E it \in [SUBSET (1 .. N) -> V] : Recurs(it, N, base, step)
<1> DEFINE Held == {k \in 0 .. N : \E it \in [SUBSET (1 .. k) -> V] : Recurs(it, k, base, step)}
<1>1. 0 \in Held
  <2> DEFINE it == [S \in SUBSET (1 .. 0) |-> base]
  <2>1. SUBSET (1 .. 0) = {{}}
    OBVIOUS
  <2>2. it \in [SUBSET (1 .. 0) -> V]
    OBVIOUS
  <2>3. \A S \in SUBSET (1 .. 0) : S = {}
    BY <2>1
  <2>4. it = [S \in SUBSET (1 .. 0) |->
                IF S = {} THEN base ELSE step[<<it[S \ {Max(S)}], Max(S)>>]]
    BY <2>3
  <2> QED
    BY <2>2, <2>4 DEF Recurs
<1>2. ASSUME NEW k \in 1 .. N, k - 1 \in Held PROVE k \in Held
  <2>1. PICK it \in [SUBSET (1 .. k - 1) -> V] : Recurs(it, k - 1, base, step)
    BY <1>2
  <2> DEFINE h == [S \in SUBSET (1 .. k) |->
                    IF k \in S THEN step[<<it[S \ {k}], k>>] ELSE it[S]]
  <2>2. ASSUME NEW S \in SUBSET (1 .. k), k \notin S PROVE S \in SUBSET (1 .. k - 1)
    BY <2>2
  <2>3. ASSUME NEW S \in SUBSET (1 .. k), k \in S PROVE Max(S) = k
    <3>1. k \in Nat /\ S # {}
      BY <2>3
    <3>2. Max(S) \in S /\ Max(S) >= k
      BY <2>3, <3>1, MinMax
    <3>3. Max(S) \in 1 .. k
      BY <3>2
    <3> QED
      BY <3>1, <3>2, <3>3
  <2>4. h \in [SUBSET (1 .. k) -> V]
    <3> SUFFICES ASSUME NEW S \in SUBSET (1 .. k) PROVE h[S] \in V
      OBVIOUS
    <3>1. CASE k \in S
      <4>1. S \ {k} \in SUBSET (1 .. k - 1)
        BY <2>2
      <4>2. <<it[S \ {k}], k>> \in V \X (1 .. N)
        BY <4>1
      <4> QED
        BY <3>1, <4>2
    <3>2. CASE k \notin S
      BY <2>2, <3>2
    <3> QED
      BY <3>1, <3>2
  <2>5. ASSUME NEW S \in SUBSET (1 .. k)
        PROVE  h[S] = IF S = {} THEN base ELSE step[<<h[S \ {Max(S)}], Max(S)>>]
    <3>1. CASE k \in S
      <4>1. h[S \ {k}] = it[S \ {k}]
        BY <2>2
      <4> QED
        BY <2>3, <3>1, <4>1
    <3>2. CASE k \notin S
      <4> DEFINE g == [T \in SUBSET (1 .. k - 1) |->
                        IF T = {} THEN base ELSE step[<<it[T \ {Max(T)}], Max(T)>>]]
      <4>1. S \in SUBSET (1 .. k - 1) /\ h[S] = it[S]
        BY <2>2, <3>2
      <4>2. g[S] = IF S = {} THEN base ELSE step[<<it[S \ {Max(S)}], Max(S)>>]
        BY <4>1
      <4>3. it = g
        BY <2>1 DEF Recurs
      <4>4. h[S \ {Max(S)}] = it[S \ {Max(S)}]
        <5>1. S \ {Max(S)} \in SUBSET (1 .. k) /\ k \notin S \ {Max(S)}
          BY <3>2
        <5> QED
          BY <5>1
      <4> HIDE DEF g, h
      <4> QED
        BY <4>1, <4>2, <4>3, <4>4
    <3> QED
      BY <3>1, <3>2
  <2>6. Recurs(h, k, base, step)
    <3>1. h = [S \in SUBSET (1 .. k) |-> h[S]]
      OBVIOUS
    <3> HIDE DEF h
    <3> QED
      BY <2>5, <3>1 DEF Recurs
  <2> HIDE DEF h
  <2> QED
    BY <2>4, <2>6
<1>3. N \in Held
  <2> HIDE DEF Held
  <2> QED
    BY <1>1, <1>2, UpTo
<1> QED
  BY <1>3

\* Two folds that begin and go on alike are alike.
LEMMA SameSteps ==
    ASSUME NEW N \in Nat, NEW f, NEW g, f[0] = g[0],
           \A k \in 1 .. N : f[k - 1] = g[k - 1] => f[k] = g[k]
    PROVE  f[N] = g[N]
<1> DEFINE Held == {k \in 0 .. N : f[k] = g[k]}
<1>1. 0 \in Held /\ \A k \in 1 .. N : k - 1 \in Held => k \in Held
  OBVIOUS
<1>2. N \in Held
  <2> HIDE DEF Held
  <2> QED
    BY <1>1, UpTo
<1> QED
  BY <1>2

\* What Only makes of the first elements.
OnlySteps(f, s, kept) ==
    /\ f[0] = <<>> /\ Only(s, kept) = f[Len(s)]
    /\ \A k \in 1 .. Len(s) : f[k] = IF s[k] \in kept THEN Append(f[k - 1], s[k]) ELSE f[k - 1]

\* There are such steps, and their values are of the type of the result.
LEMMA OnlyFold ==
    ASSUME NEW S, NEW s \in Seq(S), NEW kept
    PROVE  \E f : OnlySteps(f, s, kept) /\ \A k \in 0 .. Len(s) : f[k] \in Seq(S \intersect kept)
<1> DEFINE N == Len(s)
           Values == Seq(S \intersect kept)
           op(v, x) == IF x \in kept THEN Append(v, x) ELSE v
           step == [p \in Values \X (1 .. N) |-> op(p[1], s[p[2]])]
           Recurrent(it) == it = [T \in SUBSET DOMAIN s |->
                IF T = {} THEN <<>> ELSE op(it[T \ {Max(T)}], s[Max(T)])]
<1>1. N \in Nat /\ DOMAIN s = 1 .. N /\ <<>> \in Values
  OBVIOUS
<1>2. ASSUME NEW v \in Values, NEW k \in 1 .. N PROVE op(v, s[k]) \in Values
  <2>1. s[k] \in S
    OBVIOUS
  <2> QED
    BY <2>1
<1>3. Only(s, kept) = (CHOOSE it : Recurrent(it))[1 .. N]
  BY <1>1 DEF Only, FoldLeft, MapThenFoldSet
<1> HIDE DEF N, Values, op
<1>4. \E it : Recurrent(it)
  <2>1. step \in [Values \X (1 .. N) -> Values]
    BY <1>2
  <2>2. PICK it \in [SUBSET (1 .. N) -> Values] : Recurs(it, N, <<>>, step)
    BY <1>1, <2>1, FoldExists
  <2>3. ASSUME NEW T \in SUBSET (1 .. N)
        PROVE  it[T] = IF T = {} THEN <<>> ELSE op(it[T \ {Max(T)}], s[Max(T)])
    <3> DEFINE g == [U \in SUBSET (1 .. N) |->
                        IF U = {} THEN <<>> ELSE step[<<it[U \ {Max(U)}], Max(U)>>]]
    <3>1. it = g
      BY <2>2 DEF Recurs
    <3>2. g[T] = IF T = {} THEN <<>> ELSE step[<<it[T \ {Max(T)}], Max(T)>>]
      OBVIOUS
    <3>3. T # {} => <<it[T \ {Max(T)}], Max(T)>> \in Values \X (1 .. N)
      <4> SUFFICES ASSUME T # {} PROVE <<it[T \ {Max(T)}], Max(T)>> \in Values \X (1 .. N)
        OBVIOUS
      <4>1. Max(T) \in T
        BY <1>1, MinMax
      <4> QED
        BY <4>1
    <3> HIDE DEF g
    <3> QED
      BY <3>1, <3>2, <3>3
  <2>4. it = [T \in SUBSET DOMAIN s |-> it[T]]
    BY <1>1
  <2> HIDE DEF step
  <2>5. Recurrent(it)
    BY <1>1, <2>3, <2>4
  <2> QED
    BY <2>5
<1>5. PICK c : Recurrent(c) /\ Only(s, kept) = c[1 .. N]
  <2> HIDE DEF Recurrent
  <2> QED
    BY <1>3, <1>4
<1> DEFINE f == [k \in 0 .. N |-> c[1 .. k]]
           g == [T \in SUBSET (1 .. N) |->
                    IF T = {} THEN <<>> ELSE op(c[T \ {Max(T)}], s[Max(T)])]
<1>6. c = g
  BY <1>1, <1>5
<1>7. f[0] = <<>>
  <2>1. 1 .. 0 = {} /\ g[{}] = <<>> /\ f[0] = c[1 .. 0]
    BY <1>1
  <2> HIDE DEF f, g
  <2> QED
    BY <1>6, <2>1
<1>8. ASSUME NEW k \in 1 .. N PROVE f[k] = op(f[k - 1], s[k])
  <2>0. k \in Nat \ {0} /\ k \in 1 .. k /\ 1 .. k \subseteq 1 .. N
    BY <1>1
  <2>1. 1 .. k \in SUBSET (1 .. N) /\ 1 .. k # {} /\ Max(1 .. k) = k /\ (1 .. k) \ {k} = 1 .. k - 1
    BY <2>0, LastOfAll
  <2>2. g[1 .. k] = op(c[1 .. k - 1], s[k])
    BY <2>1
  <2>3. f[k] = c[1 .. k] /\ f[k - 1] = c[1 .. k - 1]
    BY <1>1
  <2> HIDE DEF f, g
  <2> QED
    BY <1>6, <2>2, <2>3
<1>9. f[N] = c[1 .. N] /\ f = [k \in 0 .. N |-> f[k]]
  BY <1>1
<1> HIDE DEF f
<1>10. \A k \in 0 .. N : f[k] \in Values
  <2> DEFINE Held == {k \in 0 .. N : f[k] \in Values}
  <2>1. 0 \in Held
    BY <1>1, <1>7
  <2>2. \A k \in 1 .. N : k - 1 \in Held => k \in Held
    BY <1>1, <1>2, <1>8
  <2>3. \A k \in 0 .. N : k \in Held
    <3> HIDE DEF Held
    <3> QED
      BY <1>1, <2>1, <2>2, UpTo
  <2> QED
    BY <2>3
<1> QED
  BY <1>5, <1>7, <1>8, <1>9, <1>10 DEF N, Values, op, OnlySteps


\* It keeps the elements of the set, in a sequence of them.
LEMMA OnlyType ==
    ASSUME NEW S, NEW s \in Seq(S), NEW kept
    PROVE  Only(s, kept) \in Seq(S \intersect kept) /\ Only(s, kept) \in Seq(S)
<1>1. Only(s, kept) \in Seq(S \intersect kept)
  <2>1. PICK f : OnlySteps(f, s, kept) /\ \A k \in 0 .. Len(s) : f[k] \in Seq(S \intersect kept)
    BY OnlyFold
  <2>2. Len(s) \in 0 .. Len(s) /\ Only(s, kept) = f[Len(s)]
    BY <2>1 DEF OnlySteps
  <2> QED
    BY <2>1, <2>2
<1>2. ASSUME NEW q \in Seq(S \intersect kept) PROVE q \in Seq(S)
  <2>1. Len(q) \in Nat /\ q = [k \in 1 .. Len(q) |-> q[k]] /\ \A k \in 1 .. Len(q) : q[k] \in S
    OBVIOUS
  <2> QED
    BY <2>1
<1> QED
  BY <1>1, <1>2

\* Of nothing it leaves nothing.
LEMMA OnlyEmpty == ASSUME NEW kept PROVE Only(<<>>, kept) = <<>>
<1>1. <<>> \in Seq({}) /\ Len(<<>>) = 0
  OBVIOUS
<1>2. PICK f : OnlySteps(f, <<>>, kept)
  BY <1>1, OnlyFold
<1> QED
  BY <1>1, <1>2 DEF OnlySteps

\* One more element comes last, if it is in the set.
LEMMA OnlyAppend ==
    ASSUME NEW S, NEW s \in Seq(S), NEW x \in S, NEW kept
    PROVE  Only(Append(s, x), kept) =
                IF x \in kept THEN Append(Only(s, kept), x) ELSE Only(s, kept)
<1> DEFINE N == Len(s)
           more == Append(s, x)
<1>1. /\ N \in Nat /\ more \in Seq(S) /\ Len(more) = N + 1 /\ more[N + 1] = x
      /\ \A k \in 1 .. N : more[k] = s[k]
  OBVIOUS
<1> HIDE DEF more
<1>2. PICK f : OnlySteps(f, s, kept)
  BY OnlyFold
<1>3. PICK g : OnlySteps(g, more, kept)
  BY <1>1, OnlyFold
<1>4. /\ N \in Nat /\ f[0] = g[0]
      /\ \A k \in 1 .. N : f[k - 1] = g[k - 1] => f[k] = g[k]
  BY <1>1, <1>2, <1>3 DEF OnlySteps
<1>5. f[N] = g[N]
  <2> HIDE DEF N
  <2> QED
    BY <1>4, SameSteps
<1>6. g[N + 1] = IF x \in kept THEN Append(g[N], x) ELSE g[N]
  <2>1. N + 1 \in 1 .. N + 1 /\ (N + 1) - 1 = N
    BY <1>1
  <2> QED
    BY <1>1, <1>3, <2>1 DEF OnlySteps
<1>7. Only(s, kept) = f[N] /\ Only(more, kept) = g[N + 1]
  BY <1>1, <1>2, <1>3 DEF OnlySteps
<1> QED
  BY <1>5, <1>6, <1>7 DEF more

\* What is in neither sequence does not matter to the set.
LEMMA OnlyAgree ==
    ASSUME NEW S, NEW s \in Seq(S), NEW kept, NEW held, \A x \in S : x \in kept <=> x \in held
    PROVE  Only(s, kept) = Only(s, held)
<1> DEFINE N == Len(s)
<1>1. PICK f : OnlySteps(f, s, kept)
  BY OnlyFold
<1>2. PICK g : OnlySteps(g, s, held)
  BY OnlyFold
<1>3. N \in Nat /\ \A k \in 1 .. N : s[k] \in S
  OBVIOUS
<1>4. /\ N \in Nat /\ f[0] = g[0]
      /\ \A k \in 1 .. N : f[k - 1] = g[k - 1] => f[k] = g[k]
  BY <1>1, <1>2, <1>3 DEF OnlySteps
<1>5. f[N] = g[N]
  <2> HIDE DEF N
  <2> QED
    BY <1>4, SameSteps
<1> QED
  BY <1>1, <1>2, <1>5 DEF OnlySteps

\* The first elements of a sequence, one more at a time.
LEMMA FirstElements ==
    ASSUME NEW S, NEW s \in Seq(S), NEW k \in 1 .. Len(s)
    PROVE  /\ SubSeq(s, 1, k - 1) \in Seq(S) /\ Len(SubSeq(s, 1, k - 1)) = k - 1
           /\ SubSeq(s, 1, k) = Append(SubSeq(s, 1, k - 1), s[k])
           /\ SubSeq(s, 1, 0) = <<>> /\ SubSeq(s, 1, Len(s)) = s /\ s[k] \in S
  OBVIOUS

\* Every element that is in the set is kept.
LEMMA OnlyKeeps ==
    ASSUME NEW S, NEW s \in Seq(S), NEW kept, NEW k \in 1 .. Len(s), s[k] \in kept
    PROVE  \E j \in 1 .. Len(Only(s, kept)) : Only(s, kept)[j] = s[k]
<1> DEFINE First(m) == SubSeq(s, 1, m)
           Kept(m) == Only(First(m), kept)
           Held == {m \in 0 .. Len(s) : m >= k => \E j \in 1 .. Len(Kept(m)) : Kept(m)[j] = s[k]}
<1>1. 0 \in Held
  OBVIOUS
<1>2. ASSUME NEW m \in 1 .. Len(s), m - 1 \in Held PROVE m \in Held
  <2> SUFFICES ASSUME m >= k PROVE \E j \in 1 .. Len(Kept(m)) : Kept(m)[j] = s[k]
    OBVIOUS
  <2>1. First(m - 1) \in Seq(S) /\ s[m] \in S /\ First(m) = Append(First(m - 1), s[m])
    BY FirstElements
  <2> HIDE DEF First
  <2>2. Kept(m) = IF s[m] \in kept THEN Append(Kept(m - 1), s[m]) ELSE Kept(m - 1)
    <3>1. \A q \in Seq(S) : \A x \in S :
            Only(Append(q, x), kept) = IF x \in kept THEN Append(Only(q, kept), x) ELSE Only(q, kept)
      BY OnlyAppend
    <3>2. Only(Append(First(m - 1), s[m]), kept) =
            IF s[m] \in kept THEN Append(Only(First(m - 1), kept), s[m])
            ELSE Only(First(m - 1), kept)
      BY <2>1, <3>1, Zenon
    <3> QED
      BY <2>1, <3>2
  <2>3. Kept(m - 1) \in Seq(S)
    BY <2>1, OnlyType
  <2> HIDE DEF Kept
  <2>4. CASE m = k
    <3>1. /\ Kept(m) = Append(Kept(m - 1), s[m]) /\ Len(Kept(m)) = Len(Kept(m - 1)) + 1
          /\ Kept(m)[Len(Kept(m - 1)) + 1] = s[k] /\ Len(Kept(m - 1)) \in Nat
      BY <2>2, <2>3, <2>4
    <3> QED
      BY <3>1
  <2>5. CASE m # k
    <3>1. PICK j \in 1 .. Len(Kept(m - 1)) : Kept(m - 1)[j] = s[k]
      BY <1>2, <2>5
    <3>2. j \in 1 .. Len(Kept(m)) /\ Kept(m)[j] = s[k]
      BY <2>2, <2>3, <3>1
    <3> QED
      BY <3>2
  <2> QED
    BY <2>4, <2>5
<1> DEFINE N == Len(s)
<1>3. N \in Held
  <2>1. N \in Nat
    OBVIOUS
  <2> HIDE DEF Held
  <2>2. \A m \in 1 .. N : m - 1 \in Held => m \in Held
    BY <1>2
  <2> HIDE DEF N
  <2> QED
    BY <1>1, <2>1, <2>2, UpTo
<1>4. First(Len(s)) = s
  BY FirstElements
<1> HIDE DEF First
<1> QED
  BY <1>3, <1>4

-----------------------------------------------------------------------------
(* Texts *)

\* The pieces of the first characters.
PiecesSteps(f, src, tok) ==
    /\ f[0] = << <<>> >> /\ Pieces(src, tok) = f[Len(src)]
    /\ \A k \in 1 .. Len(src) : f[k] = IF src[k] \in tok THEN Append(f[k - 1], <<>>) ELSE [f[k - 1] EXCEPT ![Len(f[k - 1])] = Append(@, src[k])]

\* There are such steps, and their values are of the type of the result.
LEMMA PiecesFold ==
    ASSUME NEW S, NEW src \in Seq(S), NEW tok
    PROVE  \E f : PiecesSteps(f, src, tok) /\ \A k \in 0 .. Len(src) : f[k] \in Seq(Seq(S)) \ {<<>>}
<1> DEFINE N == Len(src)
           Values == Seq(Seq(S)) \ {<<>>}
           op(v, x) == IF x \in tok THEN Append(v, <<>>) ELSE [v EXCEPT ![Len(v)] = Append(@, x)]
           step == [p \in Values \X (1 .. N) |-> op(p[1], src[p[2]])]
           Recurrent(it) == it = [T \in SUBSET DOMAIN src |->
                IF T = {} THEN << <<>> >> ELSE op(it[T \ {Max(T)}], src[Max(T)])]
<1>1. N \in Nat /\ DOMAIN src = 1 .. N /\ << <<>> >> \in Values
  OBVIOUS
<1>2. ASSUME NEW v \in Values, NEW k \in 1 .. N PROVE op(v, src[k]) \in Values
  <2>1. /\ src[k] \in S /\ v \in Seq(Seq(S)) /\ Len(v) \in 1 .. Len(v) /\ v[Len(v)] \in Seq(S)
        /\ <<>> \in Seq(S)
    OBVIOUS
  <2>2. Append(v[Len(v)], src[k]) \in Seq(S)
    BY <2>1
  <2>3. Append(v, <<>>) \in Seq(Seq(S)) \ {<<>>}
    BY <2>1
  <2>4. [v EXCEPT ![Len(v)] = Append(@, src[k])] \in Seq(Seq(S)) \ {<<>>}
    BY <2>1, <2>2
  <2> QED
    BY <2>3, <2>4
<1>3. Pieces(src, tok) = (CHOOSE it : Recurrent(it))[1 .. N]
  BY <1>1 DEF Pieces, FoldLeft, MapThenFoldSet
<1> HIDE DEF N, Values, op
<1>4. \E it : Recurrent(it)
  <2>1. step \in [Values \X (1 .. N) -> Values]
    BY <1>2
  <2>2. PICK it \in [SUBSET (1 .. N) -> Values] : Recurs(it, N, << <<>> >>, step)
    BY <1>1, <2>1, FoldExists
  <2>3. ASSUME NEW T \in SUBSET (1 .. N)
        PROVE  it[T] = IF T = {} THEN << <<>> >> ELSE op(it[T \ {Max(T)}], src[Max(T)])
    <3> DEFINE g == [U \in SUBSET (1 .. N) |->
                        IF U = {} THEN << <<>> >> ELSE step[<<it[U \ {Max(U)}], Max(U)>>]]
    <3>1. it = g
      BY <2>2 DEF Recurs
    <3>2. g[T] = IF T = {} THEN << <<>> >> ELSE step[<<it[T \ {Max(T)}], Max(T)>>]
      OBVIOUS
    <3>3. T # {} => <<it[T \ {Max(T)}], Max(T)>> \in Values \X (1 .. N)
      <4> SUFFICES ASSUME T # {} PROVE <<it[T \ {Max(T)}], Max(T)>> \in Values \X (1 .. N)
        OBVIOUS
      <4>1. Max(T) \in T
        BY <1>1, MinMax
      <4> QED
        BY <4>1
    <3> HIDE DEF g
    <3> QED
      BY <3>1, <3>2, <3>3
  <2>4. it = [T \in SUBSET DOMAIN src |-> it[T]]
    BY <1>1
  <2> HIDE DEF step
  <2>5. Recurrent(it)
    BY <1>1, <2>3, <2>4
  <2> QED
    BY <2>5
<1>5. PICK c : Recurrent(c) /\ Pieces(src, tok) = c[1 .. N]
  <2> HIDE DEF Recurrent
  <2> QED
    BY <1>3, <1>4
<1> DEFINE f == [k \in 0 .. N |-> c[1 .. k]]
           g == [T \in SUBSET (1 .. N) |->
                    IF T = {} THEN << <<>> >> ELSE op(c[T \ {Max(T)}], src[Max(T)])]
<1>6. c = g
  BY <1>1, <1>5
<1>7. f[0] = << <<>> >>
  <2>1. 1 .. 0 = {} /\ g[{}] = << <<>> >> /\ f[0] = c[1 .. 0]
    BY <1>1
  <2> HIDE DEF f, g
  <2> QED
    BY <1>6, <2>1
<1>8. ASSUME NEW k \in 1 .. N PROVE f[k] = op(f[k - 1], src[k])
  <2>0. k \in Nat \ {0} /\ k \in 1 .. k /\ 1 .. k \subseteq 1 .. N
    BY <1>1
  <2>1. 1 .. k \in SUBSET (1 .. N) /\ 1 .. k # {} /\ Max(1 .. k) = k /\ (1 .. k) \ {k} = 1 .. k - 1
    BY <2>0, LastOfAll
  <2>2. g[1 .. k] = op(c[1 .. k - 1], src[k])
    BY <2>1
  <2>3. f[k] = c[1 .. k] /\ f[k - 1] = c[1 .. k - 1]
    BY <1>1
  <2> HIDE DEF f, g
  <2> QED
    BY <1>6, <2>2, <2>3
<1>9. f[N] = c[1 .. N] /\ f = [k \in 0 .. N |-> f[k]]
  BY <1>1
<1> HIDE DEF f
<1>10. \A k \in 0 .. N : f[k] \in Values
  <2> DEFINE Held == {k \in 0 .. N : f[k] \in Values}
  <2>1. 0 \in Held
    BY <1>1, <1>7
  <2>2. \A k \in 1 .. N : k - 1 \in Held => k \in Held
    BY <1>1, <1>2, <1>8
  <2>3. \A k \in 0 .. N : k \in Held
    <3> HIDE DEF Held
    <3> QED
      BY <1>1, <2>1, <2>2, UpTo
  <2> QED
    BY <2>3
<1> QED
  BY <1>5, <1>7, <1>8, <1>9, <1>10 DEF N, Values, op, PiecesSteps


\* The pieces are texts.
LEMMA PiecesType ==
    ASSUME NEW S, NEW src \in Seq(S), NEW tok
    PROVE  Pieces(src, tok) \in Seq(Seq(S))
<1>1. PICK f : PiecesSteps(f, src, tok) /\ \A k \in 0 .. Len(src) : f[k] \in Seq(Seq(S)) \ {<<>>}
  BY PiecesFold
<1>2. Len(src) \in 0 .. Len(src) /\ Pieces(src, tok) = f[Len(src)]
  BY <1>1 DEF PiecesSteps
<1> QED
  BY <1>1, <1>2

\* So is what is left without the empty ones.
LEMMA ParseStringType ==
    ASSUME NEW S, NEW src \in Seq(S), NEW tok
    PROVE  ParseString(src, tok) \in Seq(Seq(S))
BY PiecesType, OnlyType DEF ParseString

\* And what trim_head_tail leaves of a text.
LEMMA TrimHeadTailType ==
    ASSUME NEW S, NEW text \in Seq(S), NEW chars
    PROVE  TrimHeadTail(text, chars) \in Seq(S)
<1> DEFINE left == {i \in DOMAIN text : text[i] \notin chars}
<1>1. CASE left = {}
  BY <1>1 DEF TrimHeadTail
<1>2. CASE left # {}
  <2>1. Len(text) \in Nat /\ left \in SUBSET (1 .. Len(text))
    OBVIOUS
  <2>2. Min(left) \in left /\ Max(left) \in left
    <3> HIDE DEF left
    <3> QED
      BY <1>2, <2>1, MinMax
  <2>3. Min(left) \in 1 .. Len(text) /\ Max(left) \in 1 .. Len(text)
    <3> HIDE DEF left
    <3> QED
      BY <2>1, <2>2
  <2>4. TrimHeadTail(text, chars) = SubSeq(text, Min(left), Max(left))
    BY <1>2 DEF TrimHeadTail
  <2>5. \A lo, hi \in 1 .. Len(text) : SubSeq(text, lo, hi) \in Seq(S)
    OBVIOUS
  <2> HIDE DEF left
  <2> QED
    BY <2>3, <2>4, <2>5
<1> QED
  BY <1>1, <1>2

\* The digits at the head of a text are digits.
LEMMA LeadingDigitsType ==
    ASSUME NEW S, NEW text \in Seq(S)
    PROVE  LeadingDigits(text) \in Seq({c \in S : IsDigit(c)})
<1> DEFINE ends == {i \in 0 .. Len(text) : i = Len(text) \/ ~ IsDigit(text[i + 1])}
<1>1. Len(text) \in ends /\ ends \in SUBSET Nat
  OBVIOUS
<1>2. Min(ends) \in ends /\ \A k \in ends : Min(ends) <= k
  <2>1. \E m \in ends : \A k \in ends : m =< k
    <3> HIDE DEF ends
    <3> QED
      BY <1>1, Least
  <2> HIDE DEF ends
  <2> QED
    BY <2>1 DEF Min
<1> DEFINE m == Min(ends)
<1>3. m \in 0 .. Len(text) /\ \A k \in 1 .. m : k - 1 \notin ends
  <2> HIDE DEF m
  <2>1. m \in 0 .. Len(text)
    BY <1>2 DEF m
  <2>2. \A k \in 1 .. m : ~ (m <= k - 1)
    BY <2>1
  <2> HIDE DEF ends
  <2> QED
    BY <1>2, <2>1, <2>2 DEF m
<1>4. \A k \in 1 .. m : IsDigit(text[k])
  <2> SUFFICES ASSUME NEW k \in 1 .. m PROVE IsDigit(text[k])
    OBVIOUS
  <2> HIDE DEF m
  <2>1. k - 1 \in 0 .. Len(text) /\ (k - 1) + 1 = k
    BY <1>3
  <2> QED
    BY <1>3, <2>1
<1>5. LeadingDigits(text) = SubSeq(text, 1, m)
  BY DEF LeadingDigits
<1> HIDE DEF m
<1>6. /\ SubSeq(text, 1, m) = [k \in 1 .. m |-> text[k]]
      /\ \A k \in 1 .. m : text[k] \in {c \in S : IsDigit(c)}
  BY <1>3, <1>4
<1> QED
  BY <1>3, <1>5, <1>6

\* The number the first digits stand for.
AtoiSteps(f, text) ==
    /\ f[0] = 0 /\ Atoi(text) = f[Len(LeadingDigits(text))]
    /\ \A k \in 1 .. Len(LeadingDigits(text)) : f[k] = 10 * f[k - 1] + Digit(LeadingDigits(text)[k])

\* There are such steps, and their values are of the type of the result.
LEMMA AtoiFold ==
    ASSUME NEW S, NEW text \in Seq(S)
    PROVE  \E f : AtoiSteps(f, text) /\ \A k \in 0 .. Len(LeadingDigits(text)) : f[k] \in Nat
<1> DEFINE N == Len(LeadingDigits(text))
           Values == Nat
           op(v, x) == 10 * v + Digit(x)
           step == [p \in Values \X (1 .. N) |-> op(p[1], LeadingDigits(text)[p[2]])]
           Recurrent(it) == it = [T \in SUBSET DOMAIN LeadingDigits(text) |->
                IF T = {} THEN 0 ELSE op(it[T \ {Max(T)}], LeadingDigits(text)[Max(T)])]
<1>1. N \in Nat /\ DOMAIN LeadingDigits(text) = 1 .. N /\ 0 \in Values
  BY LeadingDigitsType
<1>2. ASSUME NEW v \in Values, NEW k \in 1 .. N PROVE op(v, LeadingDigits(text)[k]) \in Values
  <2>1. IsDigit(LeadingDigits(text)[k])
    <3> DEFINE digits == {c \in S : IsDigit(c)}
    <3>1. LeadingDigits(text) \in Seq(digits)
      BY LeadingDigitsType
    <3>2. \A q \in Seq(digits) : \A j \in 1 .. Len(q) : q[j] \in digits
      OBVIOUS
    <3>3. LeadingDigits(text)[k] \in digits
      <4> HIDE DEF digits
      <4> QED
        BY <3>1, <3>2
    <3> QED
      BY <3>3
  <2>2. Digit(LeadingDigits(text)[k]) \in 0 .. 9
    <3>1. \A c : IsDigit(c) => Digit(c) \in 0 .. 9
      BY Zenon DEF IsDigit, Digit
    <3> QED
      BY <2>1, <3>1
  <2> QED
    BY <2>2
<1>3. Atoi(text) = (CHOOSE it : Recurrent(it))[1 .. N]
  BY <1>1 DEF Atoi, FoldLeft, MapThenFoldSet
<1> HIDE DEF N, Values, op
<1>4. \E it : Recurrent(it)
  <2>1. step \in [Values \X (1 .. N) -> Values]
    BY <1>2
  <2>2. PICK it \in [SUBSET (1 .. N) -> Values] : Recurs(it, N, 0, step)
    BY <1>1, <2>1, FoldExists
  <2>3. ASSUME NEW T \in SUBSET (1 .. N)
        PROVE  it[T] = IF T = {} THEN 0 ELSE op(it[T \ {Max(T)}], LeadingDigits(text)[Max(T)])
    <3> DEFINE g == [U \in SUBSET (1 .. N) |->
                        IF U = {} THEN 0 ELSE step[<<it[U \ {Max(U)}], Max(U)>>]]
    <3>1. it = g
      BY <2>2 DEF Recurs
    <3>2. g[T] = IF T = {} THEN 0 ELSE step[<<it[T \ {Max(T)}], Max(T)>>]
      OBVIOUS
    <3>3. T # {} => <<it[T \ {Max(T)}], Max(T)>> \in Values \X (1 .. N)
      <4> SUFFICES ASSUME T # {} PROVE <<it[T \ {Max(T)}], Max(T)>> \in Values \X (1 .. N)
        OBVIOUS
      <4>1. Max(T) \in T
        BY <1>1, MinMax
      <4> QED
        BY <4>1
    <3> HIDE DEF g
    <3> QED
      BY <3>1, <3>2, <3>3
  <2>4. it = [T \in SUBSET DOMAIN LeadingDigits(text) |-> it[T]]
    BY <1>1
  <2> HIDE DEF step
  <2>5. Recurrent(it)
    BY <1>1, <2>3, <2>4
  <2> QED
    BY <2>5
<1>5. PICK c : Recurrent(c) /\ Atoi(text) = c[1 .. N]
  <2> HIDE DEF Recurrent
  <2> QED
    BY <1>3, <1>4
<1> DEFINE f == [k \in 0 .. N |-> c[1 .. k]]
           g == [T \in SUBSET (1 .. N) |->
                    IF T = {} THEN 0 ELSE op(c[T \ {Max(T)}], LeadingDigits(text)[Max(T)])]
<1>6. c = g
  BY <1>1, <1>5
<1>7. f[0] = 0
  <2>1. 1 .. 0 = {} /\ g[{}] = 0 /\ f[0] = c[1 .. 0]
    BY <1>1
  <2> HIDE DEF f, g
  <2> QED
    BY <1>6, <2>1
<1>8. ASSUME NEW k \in 1 .. N PROVE f[k] = op(f[k - 1], LeadingDigits(text)[k])
  <2>0. k \in Nat \ {0} /\ k \in 1 .. k /\ 1 .. k \subseteq 1 .. N
    BY <1>1
  <2>1. 1 .. k \in SUBSET (1 .. N) /\ 1 .. k # {} /\ Max(1 .. k) = k /\ (1 .. k) \ {k} = 1 .. k - 1
    BY <2>0, LastOfAll
  <2>2. g[1 .. k] = op(c[1 .. k - 1], LeadingDigits(text)[k])
    BY <2>1
  <2>3. f[k] = c[1 .. k] /\ f[k - 1] = c[1 .. k - 1]
    BY <1>1
  <2> HIDE DEF f, g
  <2> QED
    BY <1>6, <2>2, <2>3
<1>9. f[N] = c[1 .. N] /\ f = [k \in 0 .. N |-> f[k]]
  BY <1>1
<1> HIDE DEF f
<1>10. \A k \in 0 .. N : f[k] \in Values
  <2> DEFINE Held == {k \in 0 .. N : f[k] \in Values}
  <2>1. 0 \in Held
    BY <1>1, <1>7
  <2>2. \A k \in 1 .. N : k - 1 \in Held => k \in Held
    BY <1>1, <1>2, <1>8
  <2>3. \A k \in 0 .. N : k \in Held
    <3> HIDE DEF Held
    <3> QED
      BY <1>1, <2>1, <2>2, UpTo
  <2> QED
    BY <2>3
<1> QED
  BY <1>5, <1>7, <1>8, <1>9, <1>10 DEF N, Values, op, AtoiSteps


\* Atoi yields a number.
LEMMA AtoiType == ASSUME NEW S, NEW text \in Seq(S) PROVE Atoi(text) \in Nat
<1>1. PICK f : /\ AtoiSteps(f, text)
               /\ \A k \in 0 .. Len(LeadingDigits(text)) : f[k] \in Nat
  BY AtoiFold
<1>2. Len(LeadingDigits(text)) \in Nat
  BY LeadingDigitsType
<1> QED
  BY <1>1, <1>2 DEF AtoiSteps

\* If an element is kept only where the kept ones alone would reach, they are
\* the first elements.
LEMMA OnlyLeading ==
    ASSUME NEW S, NEW s \in Seq(S), NEW kept,
           \A k \in 1 .. Len(s) : s[k] \in kept => k <= Len(Only(s, kept))
    PROVE  /\ Len(Only(s, kept)) \in 0 .. Len(s)
           /\ \A k \in 1 .. Len(Only(s, kept)) : s[k] \in kept /\ Only(s, kept)[k] = s[k]
<1> DEFINE First(m) == SubSeq(s, 1, m)
           Kept(m) == Only(First(m), kept)
           N == Len(s)
           c == Len(Only(s, kept))
<1>1. N \in Nat /\ First(N) = s /\ Only(s, kept) \in Seq(S) /\ c \in Nat
  <2>1. Only(s, kept) \in Seq(S)
    BY OnlyType
  <2>2. N \in Nat /\ First(N) = s
    OBVIOUS
  <2> QED
    BY <2>1, <2>2
<1>2. ASSUME NEW m \in 1 .. N
      PROVE  /\ Kept(m - 1) \in Seq(S) /\ s[m] \in S
             /\ Kept(m) = IF s[m] \in kept THEN Append(Kept(m - 1), s[m]) ELSE Kept(m - 1)
  <2>1. First(m - 1) \in Seq(S) /\ s[m] \in S /\ First(m) = Append(First(m - 1), s[m])
    BY FirstElements
  <2> HIDE DEF First
  <2>2. Kept(m - 1) \in Seq(S)
    BY <2>1, OnlyType
  <2>3. \A q \in Seq(S) : \A x \in S :
            Only(Append(q, x), kept) = IF x \in kept THEN Append(Only(q, kept), x) ELSE Only(q, kept)
    BY OnlyAppend
  <2> QED
    BY <2>1, <2>2, <2>3
<1>3. Kept(N) = Only(s, kept) /\ Kept(0) = <<>>
  <2>1. First(0) = <<>>
    OBVIOUS
  <2> QED
    BY <1>1, <2>1, OnlyEmpty
<1>4. \A k \in 1 .. N : s[k] \in kept => k <= c
  OBVIOUS
<1> HIDE DEF First, Kept, N, c
<1>5. \A m \in 0 .. N : Len(Kept(m)) \in 0 .. m
  <2> DEFINE Held == {m \in 0 .. N : Len(Kept(m)) \in 0 .. m}
  <2>1. 0 \in Held
    BY <1>1, <1>3
  <2>2. ASSUME NEW m \in 1 .. N, m - 1 \in Held PROVE m \in Held
    <3>1. Len(Kept(m - 1)) \in 0 .. m - 1
      BY <2>2
    <3>2. Len(Kept(m)) = Len(Kept(m - 1)) + 1 \/ Len(Kept(m)) = Len(Kept(m - 1))
      BY <1>2
    <3> QED
      BY <1>1, <3>1, <3>2
  <2>3. \A m \in 0 .. N : m \in Held
    <3> HIDE DEF Held
    <3> QED
      BY <1>1, <2>1, <2>2, UpTo
  <2> QED
    BY <2>3
<1>6. c \in 0 .. N
  BY <1>1, <1>3, <1>5 DEF c
<1>7. Kept(N) = Kept(c)
  <2> DEFINE Held == {m \in 0 .. N : m >= c => Kept(m) = Kept(c)}
  <2>1. 0 \in Held
    BY <1>1, <1>6
  <2>2. ASSUME NEW m \in 1 .. N, m - 1 \in Held PROVE m \in Held
    <3>1. CASE m > c
      BY <1>1, <1>2, <1>4, <2>2, <3>1
    <3>2. CASE m <= c
      BY <1>1, <3>2
    <3> QED
      BY <1>1, <3>1, <3>2
  <2>3. N \in Held
    <3> HIDE DEF Held
    <3> QED
      BY <1>1, <2>1, <2>2, UpTo
  <2> QED
    BY <1>6, <2>3
<1>8. \A m \in 0 .. c : Len(Kept(m)) = m
  <2>1. Len(Kept(c)) = c
    BY <1>3, <1>7 DEF c
  <2>2. ASSUME NEW m \in 0 .. c - 1, Len(Kept(m + 1)) = m + 1 PROVE Len(Kept(m)) = m
    <3>1. m + 1 \in 1 .. N /\ (m + 1) - 1 = m /\ m \in 0 .. N
      BY <1>1, <1>6
    <3>2. Len(Kept(m + 1)) = Len(Kept(m)) + 1 \/ Len(Kept(m + 1)) = Len(Kept(m))
      BY <1>2, <3>1
    <3>3. Len(Kept(m)) \in 0 .. m
      BY <1>5, <3>1
    <3> QED
      BY <1>1, <2>2, <3>2, <3>3
  <2> DEFINE Held == {d \in 0 .. c : \A m \in 0 .. c : m = c - d => Len(Kept(m)) = m}
  <2>3. 0 \in Held
    BY <1>1, <2>1
  <2>4. ASSUME NEW d \in 1 .. c, d - 1 \in Held PROVE d \in Held
    <3> SUFFICES ASSUME NEW m \in 0 .. c, m = c - d PROVE Len(Kept(m)) = m
      BY <1>1
    <3>1. m \in 0 .. c - 1 /\ m + 1 \in 0 .. c /\ m + 1 = c - (d - 1)
      BY <1>1
    <3>2. Len(Kept(m + 1)) = m + 1
      BY <2>4, <3>1
    <3> QED
      BY <2>2, <3>1, <3>2
  <2>5. \A d \in 0 .. c : d \in Held
    <3> HIDE DEF Held
    <3> QED
      BY <1>1, <2>3, <2>4, UpTo
  <2>6. ASSUME NEW m \in 0 .. c PROVE Len(Kept(m)) = m
    <3>1. c - m \in 0 .. c /\ m = c - (c - m)
      BY <1>1
    <3> QED
      BY <2>5, <3>1
  <2> QED
    BY <2>6
<1>9. \A m \in 0 .. c : \A k \in 1 .. m : s[k] \in kept /\ Kept(m)[k] = s[k]
  <2> DEFINE Held == {m \in 0 .. c : \A k \in 1 .. m : s[k] \in kept /\ Kept(m)[k] = s[k]}
  <2>1. 0 \in Held
    BY <1>1
  <2>2. ASSUME NEW m \in 1 .. c, m - 1 \in Held PROVE m \in Held
    <3>1. m \in 1 .. N /\ Len(Kept(m)) = m /\ Len(Kept(m - 1)) = m - 1
      BY <1>1, <1>6, <1>8
    <3>2. s[m] \in kept /\ Kept(m) = Append(Kept(m - 1), s[m])
      BY <1>2, <3>1
    <3>3. Kept(m)[m] = s[m] /\ \A k \in 1 .. m - 1 : Kept(m)[k] = Kept(m - 1)[k]
      <4>1. Kept(m - 1) \in Seq(S) /\ s[m] \in S /\ (m - 1) + 1 = m
        BY <1>2, <3>1
      <4> QED
        BY <3>1, <3>2, <4>1, AppendAt
    <3>4. \A k \in 1 .. m : k = m \/ k \in 1 .. m - 1
      BY <1>1
    <3>5. \A k \in 1 .. m - 1 : s[k] \in kept /\ Kept(m - 1)[k] = s[k]
      BY <2>2
    <3>6. \A k \in 1 .. m : s[k] \in kept /\ Kept(m)[k] = s[k]
      BY <3>2, <3>3, <3>4, <3>5
    <3> QED
      BY <3>6
  <2>3. \A m \in 0 .. c : m \in Held
    <3> HIDE DEF Held
    <3> QED
      BY <1>1, <2>1, <2>2, UpTo
  <2> QED
    BY <2>3
<1> QED
  <2>1. \A k \in 1 .. c : s[k] \in kept /\ Only(s, kept)[k] = s[k]
    BY <1>1, <1>3, <1>7, <1>9
  <2> QED
    BY <1>6, <2>1 DEF N, c

-----------------------------------------------------------------------------
(* Concatenation *)

\* What FlattenSeq recurs on: the concatenations of the first elements.
Joined(seqs, f, N) == f = [i \in 1 .. N |-> IF i = 1 THEN seqs[i] ELSE f[i - 1] \o seqs[i]]
Flat(seqs) == CHOOSE f : Joined(seqs, f, Len(seqs))

\* There are such concatenations of any number of elements.
LEMMA FlatExists ==
    ASSUME NEW seqs, NEW N \in Nat
    PROVE  \E f : Joined(seqs, f, N)
<1> DEFINE Bad == {k \in Nat : ~ \E f : Joined(seqs, f, k)}
<1> SUFFICES ASSUME Bad # {} PROVE FALSE
  OBVIOUS
<1>1. PICK k \in Bad : \A j \in Bad : k <= j
  BY Least
<1>2. k # 0
  <2>1. Joined(seqs, [i \in 1 .. 0 |-> <<>>], 0)
    BY DEF Joined
  <2> QED
    BY <2>1
<1>3. k \in Nat /\ k - 1 \in Nat /\ k - 1 \notin Bad
  BY <1>1, <1>2
<1>4. PICK f : Joined(seqs, f, k - 1)
  BY <1>3
<1> DEFINE h == [i \in 1 .. k |->
                    IF i < k THEN f[i] ELSE IF k = 1 THEN seqs[k] ELSE f[k - 1] \o seqs[k]]
<1>5. \A i \in 1 .. k : h[i] = IF i = 1 THEN seqs[i] ELSE h[i - 1] \o seqs[i]
  <2> SUFFICES ASSUME NEW i \in 1 .. k
               PROVE  h[i] = IF i = 1 THEN seqs[i] ELSE h[i - 1] \o seqs[i]
    OBVIOUS
  <2>1. CASE i = k
    BY <1>3, <2>1
  <2>2. CASE i < k
    <3>1. i \in 1 .. k - 1 /\ h[i] = f[i] /\ (i # 1 => h[i - 1] = f[i - 1])
      BY <1>3, <2>2
    <3>2. f[i] = IF i = 1 THEN seqs[i] ELSE f[i - 1] \o seqs[i]
      <4> DEFINE g == [j \in 1 .. k - 1 |-> IF j = 1 THEN seqs[j] ELSE f[j - 1] \o seqs[j]]
      <4>1. g[i] = IF i = 1 THEN seqs[i] ELSE f[i - 1] \o seqs[i]
        BY <3>1
      <4>2. f = g
        BY <1>4 DEF Joined
      <4> HIDE DEF g
      <4> QED
        BY <4>1, <4>2
    <3> HIDE DEF h
    <3> QED
      BY <3>1, <3>2
  <2> QED
    BY <1>3, <2>1, <2>2
<1>6. Joined(seqs, h, k)
  <2>1. h = [i \in 1 .. k |-> h[i]]
    OBVIOUS
  <2> HIDE DEF h
  <2> QED
    BY <1>5, <2>1 DEF Joined
<1> HIDE DEF h
<1> QED
  BY <1>1, <1>6

\* FlattenSeq recurs as its definition says.
LEMMA FlatValue ==
    ASSUME NEW seqs, Len(seqs) \in Nat
    PROVE  /\ \A i \in 1 .. Len(seqs) :
                Flat(seqs)[i] = IF i = 1 THEN seqs[i] ELSE Flat(seqs)[i - 1] \o seqs[i]
           /\ Len(seqs) # 0 => FlattenSeq(seqs) = Flat(seqs)[Len(seqs)]
<1>1. Joined(seqs, Flat(seqs), Len(seqs))
  BY FlatExists DEF Flat
<1>2. ASSUME NEW i \in 1 .. Len(seqs)
      PROVE  Flat(seqs)[i] = IF i = 1 THEN seqs[i] ELSE Flat(seqs)[i - 1] \o seqs[i]
  <2> DEFINE g == [j \in 1 .. Len(seqs) |->
                    IF j = 1 THEN seqs[j] ELSE Flat(seqs)[j - 1] \o seqs[j]]
  <2>1. g[i] = IF i = 1 THEN seqs[i] ELSE Flat(seqs)[i - 1] \o seqs[i]
    OBVIOUS
  <2>2. Flat(seqs) = g
    BY <1>1 DEF Joined
  <2> HIDE DEF g
  <2> QED
    BY <2>1, <2>2
<1>3. Len(seqs) # 0 => FlattenSeq(seqs) = Flat(seqs)[Len(seqs)]
  BY DEF FlattenSeq, Flat, Joined
<1> QED
  BY <1>2, <1>3

\* The characters of a text, one behind the other, are the text.
LEMMA FlattenSingles ==
    ASSUME NEW S, NEW token \in Seq(S), NEW seqs, seqs = [b \in 1 .. Len(token) |-> <<token[b]>>]
    PROVE  FlattenSeq(seqs) = token
<1> DEFINE N == Len(token)
           Held == {k \in 0 .. N : k # 0 => Flat(seqs)[k] = SubSeq(token, 1, k)}
<1>1. /\ N \in Nat /\ Len(seqs) = N /\ \A k \in 1 .. N : seqs[k] = <<token[k]>>
      /\ SubSeq(token, 1, N) = token
  OBVIOUS
<1>2. \A i \in 1 .. N :
            Flat(seqs)[i] = IF i = 1 THEN seqs[i] ELSE Flat(seqs)[i - 1] \o seqs[i]
  <2>1. Len(seqs) \in Nat
    BY <1>1
  <2>2. \A i \in 1 .. Len(seqs) :
            Flat(seqs)[i] = IF i = 1 THEN seqs[i] ELSE Flat(seqs)[i - 1] \o seqs[i]
    BY <2>1, FlatValue
  <2> QED
    BY <1>1, <2>2
<1>3. 0 \in Held
  BY <1>1
<1>4. ASSUME NEW k \in 1 .. N, k - 1 \in Held PROVE k \in Held
  <2>1. /\ SubSeq(token, 1, k) = Append(SubSeq(token, 1, k - 1), token[k])
        /\ SubSeq(token, 1, k - 1) \in Seq(S) /\ token[k] \in S
    BY FirstElements
  <2>2. Append(SubSeq(token, 1, k - 1), token[k]) = SubSeq(token, 1, k - 1) \o <<token[k]>>
    BY <2>1
  <2>3. k = 1 => Flat(seqs)[k] = SubSeq(token, 1, k)
    <3> SUFFICES ASSUME k = 1 PROVE Flat(seqs)[k] = SubSeq(token, 1, k)
      OBVIOUS
    <3>1. SubSeq(token, 1, k - 1) = <<>>
      OBVIOUS
    <3>2. Flat(seqs)[k] = <<token[k]>>
      BY <1>1, <1>2
    <3>3. SubSeq(token, 1, k) = <<token[k]>>
      <4> DEFINE x == token[k]
                 some == SubSeq(token, 1, k - 1)
      <4>1. some = <<>> /\ SubSeq(token, 1, k) = Append(some, x)
        BY <2>1, <3>1
      <4> HIDE DEF x, some
      <4>2. Append(<<>>, x) = <<x>>
        OBVIOUS
      <4>3. SubSeq(token, 1, k) = <<x>>
        BY <4>1, <4>2, Zenon
      <4> QED
        BY <4>3 DEF x
    <3> QED
      BY <3>2, <3>3, Zenon
  <2>4. k # 1 => Flat(seqs)[k] = SubSeq(token, 1, k)
    <3> SUFFICES ASSUME k # 1 PROVE Flat(seqs)[k] = SubSeq(token, 1, k)
      OBVIOUS
    <3>1. Flat(seqs)[k - 1] = SubSeq(token, 1, k - 1)
      BY <1>4
    <3>2. Flat(seqs)[k] = Flat(seqs)[k - 1] \o <<token[k]>>
      BY <1>1, <1>2
    <3> QED
      BY <2>1, <2>2, <3>1, <3>2, Zenon
  <2>5. k \in 0 .. N
    OBVIOUS
  <2> QED
    BY <2>3, <2>4, <2>5, Zenon
<1>5. N \in Held
  <2> HIDE DEF Held
  <2> QED
    BY <1>1, <1>3, <1>4, UpTo
<1>6. CASE N = 0
  BY <1>1, <1>6 DEF FlattenSeq
<1>7. CASE N # 0
  <2>1. FlattenSeq(seqs) = Flat(seqs)[N]
    BY <1>1, <1>7, FlatValue
  <2>2. Flat(seqs)[N] = token
    BY <1>1, <1>5, <1>7
  <2> QED
    BY <2>1, <2>2
<1> QED
  BY <1>6, <1>7

-----------------------------------------------------------------------------
(* Positions *)

\* Each place of what is kept is that of one element of the set, and of another
\* one for each.
PlacesOf(at, s, kept, some, N) ==
    /\ at \in [1 .. Len(some) -> 1 .. N]
    /\ \A k \in 1 .. Len(some) : some[k] = s[at[k]] /\ s[at[k]] \in kept
    /\ \A k, l \in 1 .. Len(some) : at[k] = at[l] => k = l
    /\ \A p \in 1 .. N : s[p] \in kept => \E k \in 1 .. Len(some) : at[k] = p

\* One more element, which is not kept.
LEMMA PlacesSkip ==
    ASSUME NEW at, NEW s, NEW kept, NEW some, NEW N \in Nat, PlacesOf(at, s, kept, some, N),
           s[N + 1] \notin kept
    PROVE  PlacesOf(at, s, kept, some, N + 1)
<1>1. /\ at \in [1 .. Len(some) -> 1 .. N]
      /\ \A k \in 1 .. Len(some) : some[k] = s[at[k]] /\ s[at[k]] \in kept
      /\ \A k, l \in 1 .. Len(some) : at[k] = at[l] => k = l
      /\ \A p \in 1 .. N : s[p] \in kept => \E k \in 1 .. Len(some) : at[k] = p
  BY DEF PlacesOf
<1>2. at \in [1 .. Len(some) -> 1 .. N + 1]
  BY <1>1
<1>3. \A p \in 1 .. N + 1 : s[p] \in kept => \E k \in 1 .. Len(some) : at[k] = p
  <2>1. \A p \in 1 .. N + 1 : p \in 1 .. N \/ p = N + 1
    OBVIOUS
  <2> QED
    BY <1>1, <2>1
<1> QED
  BY <1>1, <1>2, <1>3 DEF PlacesOf

\* One more element, which is.
LEMMA PlacesAppend ==
    ASSUME NEW at, NEW s, NEW kept, NEW S, NEW some \in Seq(S), NEW N \in Nat,
           PlacesOf(at, s, kept, some, N), s[N + 1] \in kept, s[N + 1] \in S
    PROVE  PlacesOf([k \in 1 .. Len(some) + 1 |-> IF k <= Len(some) THEN at[k] ELSE N + 1],
                    s, kept, Append(some, s[N + 1]), N + 1)
<1> DEFINE more == Append(some, s[N + 1])
           L == Len(some)
           to == [k \in 1 .. L + 1 |-> IF k <= L THEN at[k] ELSE N + 1]
<1>1. /\ at \in [1 .. L -> 1 .. N]
      /\ \A k \in 1 .. L : some[k] = s[at[k]] /\ s[at[k]] \in kept
      /\ \A k, l \in 1 .. L : at[k] = at[l] => k = l
      /\ \A p \in 1 .. N : s[p] \in kept => \E k \in 1 .. L : at[k] = p
  BY DEF PlacesOf
<1>2. /\ L \in Nat /\ Len(more) = L + 1 /\ more[L + 1] = s[N + 1]
      /\ \A k \in 1 .. L : more[k] = some[k]
  BY AppendAt
<1>3. /\ to[L + 1] = N + 1 /\ \A k \in 1 .. L : to[k] = at[k]
      /\ \A k \in 1 .. L + 1 : k = L + 1 \/ k \in 1 .. L
  BY <1>2
<1>4. to \in [1 .. L + 1 -> 1 .. N + 1]
  BY <1>1, <1>2
<1>5. PlacesOf(to, s, kept, more, N + 1)
  <2> HIDE DEF more, L, to
  <2>1. \A k \in 1 .. L + 1 : more[k] = s[to[k]] /\ s[to[k]] \in kept
    BY <1>1, <1>2, <1>3
  <2>2. \A k, l \in 1 .. L + 1 : to[k] = to[l] => k = l
    <3>1. \A k \in 1 .. L : at[k] \in 1 .. N /\ at[k] # N + 1
      BY <1>1
    <3> QED
      BY <1>1, <1>3, <3>1
  <2>3. \A p \in 1 .. N + 1 : s[p] \in kept => \E k \in 1 .. L + 1 : to[k] = p
    <3>1. \A p \in 1 .. N + 1 : p \in 1 .. N \/ p = N + 1
      OBVIOUS
    <3>2. L + 1 \in 1 .. L + 1 /\ \A k \in 1 .. L : k \in 1 .. L + 1
      BY <1>2
    <3> QED
      BY <1>1, <1>3, <3>1, <3>2
  <2> QED
    BY <1>2, <1>4, <2>1, <2>2, <2>3 DEF PlacesOf
<1> QED
  BY <1>5

\* What Only keeps are the elements at the places of the set, each once.
LEMMA OnlyPlaces ==
    ASSUME NEW S, NEW s \in Seq(S), NEW kept
    PROVE  \E at : PlacesOf(at, s, kept, Only(s, kept), Len(s))
<1> DEFINE First(k) == SubSeq(s, 1, k)
           Kept(k) == Only(First(k), kept)
           N == Len(s)
<1>1. N \in Nat /\ First(N) = s
  OBVIOUS
<1>2. ASSUME NEW k \in 1 .. N
      PROVE  /\ Kept(k - 1) \in Seq(S) /\ s[k] \in S
             /\ Kept(k) = IF s[k] \in kept THEN Append(Kept(k - 1), s[k]) ELSE Kept(k - 1)
  <2>1. First(k - 1) \in Seq(S) /\ s[k] \in S /\ First(k) = Append(First(k - 1), s[k])
    BY FirstElements
  <2> HIDE DEF First
  <2>2. Kept(k - 1) \in Seq(S)
    BY <2>1, OnlyType
  <2>3. \A q \in Seq(S) : \A x \in S :
            Only(Append(q, x), kept) = IF x \in kept THEN Append(Only(q, kept), x) ELSE Only(q, kept)
    BY OnlyAppend
  <2> QED
    BY <2>1, <2>2, <2>3
<1>3. Kept(N) = Only(s, kept) /\ Kept(0) = <<>>
  <2>1. First(0) = <<>>
    OBVIOUS
  <2> QED
    BY <1>1, <2>1, OnlyEmpty
<1> DEFINE Held == {k \in 0 .. N : \E at : PlacesOf(at, s, kept, Kept(k), k)}
<1> HIDE DEF First, Kept, N
<1>4. 0 \in Held
  <2>1. PlacesOf(<<>>, s, kept, <<>>, 0)
    <3>1. <<>> \in [1 .. 0 -> 1 .. 0] /\ Len(<<>>) = 0
      OBVIOUS
    <3> QED
      BY <3>1 DEF PlacesOf
  <2> QED
    BY <1>1, <1>3, <2>1
<1>5. ASSUME NEW k \in 1 .. N, k - 1 \in Held PROVE k \in Held
  <2>1. PICK at : PlacesOf(at, s, kept, Kept(k - 1), k - 1)
    BY <1>5
  <2>2. k - 1 \in Nat /\ (k - 1) + 1 = k
    BY <1>1
  <2>3. CASE s[k] \in kept
    <3>1. PlacesOf([l \in 1 .. Len(Kept(k - 1)) + 1 |->
                        IF l <= Len(Kept(k - 1)) THEN at[l] ELSE (k - 1) + 1],
                   s, kept, Append(Kept(k - 1), s[(k - 1) + 1]), (k - 1) + 1)
      BY <1>2, <2>1, <2>2, <2>3, PlacesAppend
    <3>2. Kept(k) = Append(Kept(k - 1), s[(k - 1) + 1])
      BY <1>2, <2>2, <2>3
    <3>3. \E to : PlacesOf(to, s, kept, Kept(k), k)
      BY <2>2, <3>1, <3>2
    <3> QED
      BY <1>1, <3>3
  <2>4. CASE s[k] \notin kept
    <3>1. PlacesOf(at, s, kept, Kept(k - 1), (k - 1) + 1)
      BY <2>1, <2>2, <2>4, PlacesSkip
    <3>2. Kept(k) = Kept(k - 1)
      BY <1>2, <2>4
    <3> QED
      BY <1>1, <2>2, <3>1, <3>2
  <2> QED
    BY <2>3, <2>4
<1>6. N \in Held
  <2> HIDE DEF Held
  <2> QED
    BY <1>1, <1>4, <1>5, UpTo
<1> QED
  BY <1>3, <1>6 DEF N

-----------------------------------------------------------------------------
(* Blocks *)

\* Block j of a concatenation lies behind the first `before` elements, and
\* everything outside is of another block.
BlockAt(all, blocks, K, j, before) ==
    /\ before \in Nat /\ before + Len(blocks[j]) <= Len(all)
    /\ \A p \in 1 .. Len(blocks[j]) : all[before + p] = blocks[j][p]
    /\ \A x \in 1 .. Len(all) : x \in before + 1 .. before + Len(blocks[j])
                                    \/ \E i \in 1 .. K : i # j /\ all[x] \in Range(blocks[i])

\* Elements of other blocks only.
Others(all, blocks, K, j) ==
    \A x \in 1 .. Len(all) : \E i \in 1 .. K : i # j /\ all[x] \in Range(blocks[i])

\* What is where in a sequence behind another.
LEMMA BehindAt ==
    ASSUME NEW S, NEW q \in Seq(S), NEW r \in Seq(S)
    PROVE  /\ q \o r \in Seq(S) /\ Len(q) \in Nat /\ Len(r) \in Nat
           /\ Len(q \o r) = Len(q) + Len(r)
           /\ \A x \in 1 .. Len(q) : (q \o r)[x] = q[x]
           /\ \A x \in 1 .. Len(r) : (q \o r)[Len(q) + x] = r[x]
           /\ \A x \in 1 .. Len(q) + Len(r) : x \in 1 .. Len(q) \/ \E y \in 1 .. Len(r) : x = Len(q) + y
           /\ \A x \in 1 .. Len(r) : r[x] \in Range(r)
<1>1. \A x \in 1 .. Len(r) : r[x] \in Range(r)
  BY DEF Range
<1>2. \A x \in 1 .. Len(q) + Len(r) : x \in 1 .. Len(q) \/ \E y \in 1 .. Len(r) : x = Len(q) + y
  <2> SUFFICES ASSUME NEW x \in 1 .. Len(q) + Len(r), x \notin 1 .. Len(q)
               PROVE  \E y \in 1 .. Len(r) : x = Len(q) + y
    OBVIOUS
  <2>1. x - Len(q) \in 1 .. Len(r) /\ x = Len(q) + (x - Len(q))
    OBVIOUS
  <2> QED
    BY <2>1
<1> QED
  BY <1>1, <1>2

\* Behind other blocks comes another block.
LEMMA OthersStep ==
    ASSUME NEW S, NEW all \in Seq(S), NEW blocks, NEW K \in Nat, NEW j \in 1 .. K, NEW i \in 1 .. K,
           i # j, blocks[i] \in Seq(S), Others(all, blocks, K, j)
    PROVE  Others(all \o blocks[i], blocks, K, j)
<1> DEFINE both == all \o blocks[i]
           A == Len(all)
           B == Len(blocks[i])
<1>1. /\ A \in Nat /\ B \in Nat /\ Len(both) = A + B
      /\ \A x \in 1 .. A : both[x] = all[x]
      /\ \A x \in 1 .. B : both[A + x] = blocks[i][x]
      /\ \A x \in 1 .. A + B : x \in 1 .. A \/ \E y \in 1 .. B : x = A + y
      /\ \A x \in 1 .. B : blocks[i][x] \in Range(blocks[i])
  BY BehindAt
<1>2. \A x \in 1 .. A : \E k \in 1 .. K : k # j /\ all[x] \in Range(blocks[k])
  BY DEF Others
<1> HIDE DEF both, A, B
<1>3. ASSUME NEW x \in 1 .. Len(both)
      PROVE  \E k \in 1 .. K : k # j /\ both[x] \in Range(blocks[k])
  <2>1. CASE x \in 1 .. A
    BY <1>1, <1>2, <2>1
  <2>2. CASE \E y \in 1 .. B : x = A + y
    BY <1>1, <2>2
  <2> QED
    BY <1>1, <1>3, <2>1, <2>2
<1> QED
  BY <1>3 DEF Others, both

\* The block itself is found behind them.
LEMMA BlockFound ==
    ASSUME NEW S, NEW all \in Seq(S), NEW blocks, NEW K \in Nat, NEW j \in 1 .. K,
           blocks[j] \in Seq(S), Others(all, blocks, K, j)
    PROVE  BlockAt(all \o blocks[j], blocks, K, j, Len(all))
<1> DEFINE both == all \o blocks[j]
           A == Len(all)
           B == Len(blocks[j])
<1>1. /\ A \in Nat /\ B \in Nat /\ Len(both) = A + B
      /\ \A x \in 1 .. A : both[x] = all[x]
      /\ \A x \in 1 .. B : both[A + x] = blocks[j][x]
      /\ \A x \in 1 .. A + B : x \in 1 .. A \/ \E y \in 1 .. B : x = A + y
  BY BehindAt
<1>2. \A x \in 1 .. A : \E k \in 1 .. K : k # j /\ all[x] \in Range(blocks[k])
  BY DEF Others
<1> HIDE DEF both, A, B
<1>3. ASSUME NEW x \in 1 .. Len(both)
      PROVE  x \in A + 1 .. A + B \/ \E k \in 1 .. K : k # j /\ both[x] \in Range(blocks[k])
  <2>1. CASE x \in 1 .. A
    BY <1>1, <1>2, <2>1
  <2>2. CASE \E y \in 1 .. B : x = A + y
    BY <1>1, <2>2
  <2> QED
    BY <1>1, <1>3, <2>1, <2>2
<1>4. BlockAt(both, blocks, K, j, A)
  <2>1. Len(blocks[j]) = B
    BY DEF B
  <2> QED
    BY <1>1, <1>3, <2>1 DEF BlockAt
<1> QED
  BY <1>4 DEF A, both

\* And stays where it is.
LEMMA BlockStep ==
    ASSUME NEW S, NEW all \in Seq(S), NEW blocks, NEW K \in Nat, NEW j \in 1 .. K, NEW i \in 1 .. K,
           i # j, blocks[i] \in Seq(S), blocks[j] \in Seq(S), NEW before,
           BlockAt(all, blocks, K, j, before)
    PROVE  BlockAt(all \o blocks[i], blocks, K, j, before)
<1> DEFINE both == all \o blocks[i]
           A == Len(all)
           B == Len(blocks[i])
           J == Len(blocks[j])
<1>1. /\ A \in Nat /\ B \in Nat /\ Len(both) = A + B
      /\ \A x \in 1 .. A : both[x] = all[x]
      /\ \A x \in 1 .. B : both[A + x] = blocks[i][x]
      /\ \A x \in 1 .. A + B : x \in 1 .. A \/ \E y \in 1 .. B : x = A + y
      /\ \A x \in 1 .. B : blocks[i][x] \in Range(blocks[i])
  BY BehindAt
<1>2. /\ before \in Nat /\ before + J <= A
      /\ \A p \in 1 .. J : all[before + p] = blocks[j][p]
      /\ \A x \in 1 .. A : x \in before + 1 .. before + J
                                \/ \E k \in 1 .. K : k # j /\ all[x] \in Range(blocks[k])
  BY DEF BlockAt
<1>3. J \in Nat
  OBVIOUS
<1> HIDE DEF both, A, B, J
<1>4. ASSUME NEW x \in 1 .. Len(both)
      PROVE  x \in before + 1 .. before + J \/ \E k \in 1 .. K : k # j /\ both[x] \in Range(blocks[k])
  <2>1. CASE x \in 1 .. A
    BY <1>1, <1>2, <2>1
  <2>2. CASE \E y \in 1 .. B : x = A + y
    BY <1>1, <2>2
  <2> QED
    BY <1>1, <1>4, <2>1, <2>2
<1>5. \A p \in 1 .. J : both[before + p] = blocks[j][p]
  <2>1. \A p \in 1 .. J : before + p \in 1 .. A
    BY <1>1, <1>2, <1>3
  <2> QED
    BY <1>1, <1>2, <2>1
<1>6. before + J <= Len(both)
  BY <1>1, <1>2, <1>3
<1>7. BlockAt(both, blocks, K, j, before)
  <2>1. Len(blocks[j]) = J
    BY DEF J
  <2> QED
    BY <1>2, <1>4, <1>5, <1>6, <2>1 DEF BlockAt
<1> QED
  BY <1>7 DEF both

\* So a concatenation holds each of its blocks.
LEMMA FlattenBlocks ==
    ASSUME NEW S, NEW K \in Nat, NEW blocks, blocks = [i \in 1 .. K |-> blocks[i]],
           \A i \in 1 .. K : blocks[i] \in Seq(S), NEW j \in 1 .. K
    PROVE  FlattenSeq(blocks) \in Seq(S) /\ \E before : BlockAt(FlattenSeq(blocks), blocks, K, j, before)
<1> DEFINE Good(k) ==
              /\ Flat(blocks)[k] \in Seq(S)
              /\ k < j => Others(Flat(blocks)[k], blocks, K, j)
              /\ k >= j => \E before : BlockAt(Flat(blocks)[k], blocks, K, j, before)
           Held == {k \in 0 .. K : k # 0 => Good(k)}
<1>1. Len(blocks) = K /\ K # 0
  BY IsSequence
<1>2. /\ FlattenSeq(blocks) = Flat(blocks)[K]
      /\ \A k \in 1 .. K :
            Flat(blocks)[k] = IF k = 1 THEN blocks[k] ELSE Flat(blocks)[k - 1] \o blocks[k]
  BY <1>1, FlatValue
<1>3. 0 \in Held
  OBVIOUS
<1>4. ASSUME NEW k \in 1 .. K, k - 1 \in Held PROVE k \in Held
  <2> DEFINE all == IF k = 1 THEN <<>> ELSE Flat(blocks)[k - 1]
  <2>1. /\ all \in Seq(S)
        /\ k <= j => Others(all, blocks, K, j)
        /\ k > j => \E before : BlockAt(all, blocks, K, j, before)
    <3>1. CASE k = 1
      <4>1. all = <<>> /\ <<>> \in Seq(S) /\ Len(<<>>) = 0
        BY <3>1
      <4>2. Others(<<>>, blocks, K, j)
        BY <4>1 DEF Others
      <4> QED
        BY <3>1, <4>1, <4>2
    <3>2. CASE k # 1
      <4>1. Good(k - 1) /\ all = Flat(blocks)[k - 1]
        <5>1. k - 1 # 0 /\ all = Flat(blocks)[k - 1]
          BY <3>2
        <5> HIDE DEF Good, all
        <5> QED
          BY <1>4, <5>1
      <4>2. (k <= j => k - 1 < j) /\ (k > j => k - 1 >= j)
        OBVIOUS
      <4> HIDE DEF all
      <4> QED
        BY <4>1, <4>2
    <3> QED
      BY <3>1, <3>2
  <2>2. Flat(blocks)[k] = all \o blocks[k]
    <3>1. CASE k = 1
      <4>1. \A q \in Seq(S) : <<>> \o q = q
        OBVIOUS
      <4> QED
        BY <1>2, <3>1, <4>1
    <3>2. CASE k # 1
      BY <1>2, <3>2
    <3> QED
      BY <3>1, <3>2
  <2> HIDE DEF all
  <2>3. blocks[k] \in Seq(S) /\ blocks[j] \in Seq(S)
    OBVIOUS
  <2>4. all \o blocks[k] \in Seq(S)
    BY <2>1, <2>3
  <2>5. k < j => Others(all \o blocks[k], blocks, K, j)
    BY <2>1, <2>3, OthersStep
  <2>6. k = j => BlockAt(all \o blocks[j], blocks, K, j, Len(all))
    BY <2>1, <2>3, BlockFound
  <2>7. ASSUME k > j PROVE \E before : BlockAt(all \o blocks[k], blocks, K, j, before)
    <3>1. PICK before : BlockAt(all, blocks, K, j, before)
      BY <2>1, <2>7
    <3>2. BlockAt(all \o blocks[k], blocks, K, j, before)
      <4>1. k # j
        BY <2>7
      <4> QED
        BY <2>1, <2>3, <3>1, <4>1, BlockStep
    <3> QED
      BY <3>2
  <2>8. Good(k)
    <3>1. k < j \/ k = j \/ k > j
      OBVIOUS
    <3>2. k < j => ~ (k >= j)
      OBVIOUS
    <3> QED
      BY <2>2, <2>4, <2>5, <2>6, <2>7, <3>1, <3>2
  <2> HIDE DEF Good
  <2> QED
    BY <2>8
<1>5. K \in Held
  <2> HIDE DEF Held
  <2> QED
    BY <1>3, <1>4, UpTo
<1>6. Good(K)
  <2> HIDE DEF Good
  <2> QED
    BY <1>1, <1>5
<1>7. K >= j
  OBVIOUS
<1> QED
  BY <1>2, <1>6, <1>7

\* A set in some order has each of its elements at one place.
LEMMA Enumerated ==
    ASSUME NEW S, IsFiniteSet(S)
    PROVE  /\ Cardinality(S) \in Nat /\ SetToSeq(S) \in [1 .. Cardinality(S) -> S]
           /\ \A i, j \in 1 .. Cardinality(S) : SetToSeq(S)[i] = SetToSeq(S)[j] => i = j
           /\ \A x \in S : \E i \in 1 .. Cardinality(S) : SetToSeq(S)[i] = x
<1> DEFINE N == Cardinality(S)
<1>1. N \in Nat /\ ExistsBijection(1 .. N, S)
  BY FS_CardinalityType
<1>2. \E f \in [1 .. N -> S] : IsInjective(f)
  <2>1. PICK f \in Bijection(1 .. N, S) : TRUE
    BY <1>1 DEF ExistsBijection
  <2>2. f \in [1 .. N -> S] /\ \A a, b \in 1 .. N : f[a] = f[b] => a = b
    BY <2>1 DEF Bijection, Injection, IsInjective
  <2> QED
    BY <2>2 DEF IsInjective
<1>3. SetToSeq(S) \in [1 .. N -> S] /\ IsInjective(SetToSeq(S))
  BY <1>2 DEF SetToSeq
<1>4. \A i, j \in 1 .. N : SetToSeq(S)[i] = SetToSeq(S)[j] => i = j
  BY <1>3 DEF IsInjective
<1>5. SetToSeq(S) \in Injection(1 .. N, S)
  BY <1>3, <1>4 DEF Injection
<1>6. IsFiniteSet(1 .. N) /\ Cardinality(1 .. N) = N
  BY <1>1, FS_Interval
<1>7. SetToSeq(S) \in Surjection(1 .. N, S)
  BY <1>5, <1>6, FS_Injection
<1> QED
  BY <1>1, <1>3, <1>4, <1>7 DEF Surjection
=============================================================================
