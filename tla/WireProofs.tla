----------------------------- MODULE WireProofs -----------------------------
(***************************************************************************)
(* Theorems about Wire, for every number and length of requests and        *)
(* answers, every size of the buffer and every set of workers: how the     *)
(* requests are cut out of the stream, when the server closes, and whose   *)
(* answers the client takes.                                               *)
(***************************************************************************)
EXTENDS Wire, FiniteSetTheorems, SequenceTheorems, WellFoundedInduction, TLAPS

-----------------------------------------------------------------------------
(* The inductive invariant *)

\* The cells of requests, and of whatever else is sent.
Cells == Queries \X (Nat \ {0})

RequestSize(m) == HeadLen + RequestLens[m]

\* What the variables may hold, and how far the client is.
Types ==
    /\ threads \in SUBSET Workers /\ faults \in SUBSET FaultKinds
    /\ up \in Seq(Cells) /\ rbuf \in Seq(Cells) /\ parsed \in Seq(Seq(Cells))
    /\ rsize \in Nat /\ Len(rbuf) <= rsize
    /\ spc \in {"loop", "read", "parse", "handle", "closed"}
    /\ cpc \in {"idle", "head", "body", "gone"}
    /\ sent \in 0 .. Len(RequestLens) /\ received \in 0 .. sent
    /\ cpc \in {"head", "body"} => received < sent
    /\ cpc = "gone" => received = Len(RequestLens)

\* The cell that follows c in a stream of whole requests.
After(c) == IF c[2] < RequestSize(c[1]) THEN <<c[1], c[2] + 1>> ELSE <<c[1] + 1, 1>>

\* The cells are those of the requests from the first one after the p-th to
\* the last-th, without a gap.
Runs(cells, p, last) ==
    /\ cells = <<>> => p = last
    /\ cells # <<>> => cells[1] = <<p + 1, 1>> /\ cells[Len(cells)] = <<last, RequestSize(last)>>
    /\ \A i \in 1 .. Len(cells) - 1 : cells[i + 1] = After(cells[i])

\* The requests cut out so far are the client's, and those to come are where
\* they belong in the buffer and under way to it.
Framed ==
    ~ LosesCells =>
        /\ \A m \in 1 .. Len(parsed) : parsed[m] = Request(m)
        /\ spc # "closed" => Runs(rbuf \o up, Len(parsed), sent)

\* Nothing of the stream is lost.
NothingLost ==
    ~ LosesCells /\ spc # "closed" =>
        FlattenSeq(parsed) \o rbuf \o up = FlattenSeq([m \in 1 .. sent |-> Request(m)])

StreamInv == Types /\ Framed /\ NothingLost /\ ClosesOnlyAtEnd

-----------------------------------------------------------------------------
(* The inductive invariant of the answers, as long as nothing fails *)

Answer(m) == Message(m, AnswerLens[m])
AnswerSize(m) == HeadLen + AnswerLens[m]
AnswerCells == {c \in Queries \X (Nat \ {0}) : c[2] <= AnswerSize(c[1])}

\* The pool will run the request, or has it run, or will have it from the loop.
InWork(m) == \E w \in Workers : working[w] = Request(m)

\* The answer was written: without threads that is so of all requests but the
\* one being handled, with threads of those that were run and are in no
\* worker's hands.
Done(m) ==
    /\ m <= Len(parsed)
    /\ IF threads = {} THEN spc = "handle" => m # Len(parsed)
       ELSE runs[Request(m)] = 1 /\ ~ InWork(m)

\* The request was cut out of the stream.
WasParsed(r) == \E m \in 1 .. Len(parsed) : r = Request(m)

\* What the server has in its hands are requests that were cut out of the
\* stream, each in one place.
Handed ==
    /\ Len(parsed) <= Len(RequestLens)
    /\ spc = "handle" => parsed # <<>> /\ request = Request(Len(parsed))
    /\ todo \in [Workers -> Seq(Seq(Cells))] /\ working \in [Workers -> Seq(Cells)]
    /\ runs \in [{Request(m) : m \in Queries} -> {0, 1}]
    /\ \A w \in Workers \ threads : todo[w] = <<>> /\ working[w] = <<>>
    /\ \A w \in Workers : \A k \in DOMAIN todo[w] :
            WasParsed(todo[w][k]) /\ runs[todo[w][k]] = 0
    /\ \A v, w \in Workers : \A j \in DOMAIN todo[v], k \in DOMAIN todo[w] :
            todo[v][j] = todo[w][k] => v = w /\ j = k
    /\ \A w \in Workers : working[w] # <<>> => WasParsed(working[w]) /\ runs[working[w]] = 1
    /\ \A v, w \in Workers : working[v] = working[w] /\ working[v] # <<>> => v = w

\* What is under way to the client are whole answers but for what it has read
\* of the first, and none of them is there twice.
Whole(cells) ==
    /\ cells \in Seq(AnswerCells)
    /\ cells # <<>> => cells[Len(cells)][2] = AnswerSize(cells[Len(cells)][1])
    /\ \A i \in 1 .. Len(cells) - 1 :
            IF cells[i][2] < AnswerSize(cells[i][1])
            THEN cells[i + 1] = <<cells[i][1], cells[i][2] + 1>>
            ELSE cells[i + 1][2] = 1
    /\ \A i, j \in DOMAIN cells : cells[i] = cells[j] => i = j

\* The client has read the head of answer m.
Reading(m) == cpc = "body" /\ head = <<<<m, 1>>, <<m, 2>>>>

\* The client has taken answer m for query q.
Took(q, m) == accepted[q] = Answer(m)

\* Where the client is in an answer.
AtBody ==
    /\ cpc = "body" => \E m \in Queries :
            Reading(m) /\ AnswerLens[m] > 0 /\ down # <<>> /\ down[1] = <<m, 3>>
    /\ accepted \in [Queries -> {Answer(m) : m \in Queries} \union {<<>>}]

\* An answer that is under way, or was taken at least in part, was written, and
\* it is in one of these places.
Delivered ==
    /\ \A i \in DOMAIN down : Done(down[i][1])
    /\ \A m \in Queries : Reading(m) => Done(m) /\ <<m, 1>> \notin Range(down)
    /\ \A m, q \in Queries : Took(q, m) =>
            /\ Done(m) /\ ~ Reading(m) /\ <<m, 1>> \notin Range(down)
            /\ \A o \in Queries : Took(o, m) => o = q

AnswersInv == Faultless => Handed /\ Whole(down) /\ AtBody /\ Delivered

-----------------------------------------------------------------------------
(* The inductive invariant of their order *)

\* Answers arrive in one piece, and there is nobody to overtake.
InOrder == Faultless /\ "segments" \notin faults /\ ~ Overtaking

\* The query whose answer was the last to be written.
Latest == IF down = <<>> THEN received ELSE down[Len(down)][1]

\* What the client has and will get are the answers to its queries in order.
Consecutive ==
    /\ down # <<>> => down[1] = <<received + 1, IF cpc = "body" THEN 3 ELSE 1>>
    /\ \A i \in 1 .. Len(down) - 1 :
            down[i][2] = AnswerSize(down[i][1]) => down[i + 1][1] = down[i][1] + 1
    /\ cpc = "body" => Reading(received + 1)
    /\ \A m \in Queries : IF m <= received THEN Took(m, m) ELSE accepted[m] = <<>>

\* The requests in the hands of the server are the next to be answered, in the
\* order in which it will answer them; or there is one at most.
Queued ==
    \/ /\ threads = {}
       /\ Latest = IF spc = "handle" THEN Len(parsed) - 1 ELSE Len(parsed)
    \/ \E w \in Workers : LET busy == IF working[w] = <<>> THEN 0 ELSE 1 IN
       /\ threads = {w}
       /\ working[w] # <<>> => working[w] = Request(Latest + 1)
       /\ \A k \in DOMAIN todo[w] : todo[w][k] = Request(Latest + busy + k)
       /\ Len(parsed) = Latest + busy + Len(todo[w]) + IF spc = "handle" THEN 1 ELSE 0
    \/ "pipeline" \notin faults /\ sent <= received + 1

OrderInv == InOrder => Consecutive /\ Queued

WireInv == StreamInv /\ AnswersInv /\ OrderInv

-----------------------------------------------------------------------------
(* Numbers and sequences *)

\* A set of naturals has a least element, which stands in for induction.
LEMMA Least ==
    ASSUME NEW S \in SUBSET Nat, S # {}
    PROVE  \E n \in S : \A k \in S : n <= k
<1>1. PICK n \in S : \A k \in S : ~ (<<k, n>> \in OpToRel(<, Nat))
  BY NatLessThanWellFounded, WFMin
<1>2. ASSUME NEW k \in S PROVE n <= k
  <2>1. <<k, n>> \in Nat \X Nat => ~ (k < n)
    BY <1>1 DEF OpToRel
  <2> QED
    BY <2>1
<1> QED
  BY <1>2

\* What FlattenSeq recurs on: the concatenations of the first elements.
Joined(seqs, f, n) == f = [i \in 1 .. n |-> IF i = 1 THEN seqs[i] ELSE f[i - 1] \o seqs[i]]
Flat(seqs) == CHOOSE f : Joined(seqs, f, Len(seqs))

\* There are such concatenations of any number of elements.
LEMMA FlatExists ==
    ASSUME NEW seqs, NEW n \in Nat
    PROVE  \E f : Joined(seqs, f, n)
<1> DEFINE Bad == {k \in Nat : ~ \E f : Joined(seqs, f, k)}
<1> SUFFICES ASSUME Bad # {} PROVE FALSE
  OBVIOUS
<1>1. PICK k \in Bad : \A j \in Bad : k <= j
  BY Least
<1>2. k # 0
  <2>1. Joined(seqs, [i \in 1 .. 0 |-> <<>>], 0)
    BY DEF Joined
  <2> QED
    BY <2>1
<1>3. k \in Nat /\ k - 1 \in Nat /\ k - 1 \notin Bad
  BY <1>1, <1>2
<1>4. PICK f : Joined(seqs, f, k - 1)
  BY <1>3
<1> DEFINE h == [i \in 1 .. k |->
                    IF i < k THEN f[i] ELSE IF k = 1 THEN seqs[k] ELSE f[k - 1] \o seqs[k]]
<1>5. \A i \in 1 .. k : h[i] = IF i = 1 THEN seqs[i] ELSE h[i - 1] \o seqs[i]
  <2> SUFFICES ASSUME NEW i \in 1 .. k
               PROVE  h[i] = IF i = 1 THEN seqs[i] ELSE h[i - 1] \o seqs[i]
    OBVIOUS
  <2>1. CASE i = k
    BY <1>3, <2>1
  <2>2. CASE i < k
    <3>1. i \in 1 .. k - 1 /\ h[i] = f[i] /\ (i # 1 => h[i - 1] = f[i - 1])
      BY <1>3, <2>2
    <3>2. f[i] = IF i = 1 THEN seqs[i] ELSE f[i - 1] \o seqs[i]
      <4> DEFINE g == [j \in 1 .. k - 1 |-> IF j = 1 THEN seqs[j] ELSE f[j - 1] \o seqs[j]]
      <4>1. g[i] = IF i = 1 THEN seqs[i] ELSE f[i - 1] \o seqs[i]
        BY <3>1
      <4>2. f = g
        BY <1>4 DEF Joined
      <4> HIDE DEF g
      <4> QED
        BY <4>1, <4>2
    <3> HIDE DEF h
    <3> QED
      BY <3>1, <3>2
  <2> QED
    BY <1>3, <2>1, <2>2
<1>6. Joined(seqs, h, k)
  <2>1. h = [i \in 1 .. k |-> h[i]]
    OBVIOUS
  <2> HIDE DEF h
  <2> QED
    BY <1>5, <2>1 DEF Joined
<1> HIDE DEF h
<1> QED
  BY <1>1, <1>6

\* FlattenSeq recurs as its definition says.
LEMMA FlatValue ==
    ASSUME NEW seqs, Len(seqs) \in Nat
    PROVE  /\ \A i \in 1 .. Len(seqs) :
                Flat(seqs)[i] = IF i = 1 THEN seqs[i] ELSE Flat(seqs)[i - 1] \o seqs[i]
           /\ Len(seqs) # 0 => FlattenSeq(seqs) = Flat(seqs)[Len(seqs)]
<1>1. Joined(seqs, Flat(seqs), Len(seqs))
  BY FlatExists DEF Flat
<1>2. ASSUME NEW i \in 1 .. Len(seqs)
      PROVE  Flat(seqs)[i] = IF i = 1 THEN seqs[i] ELSE Flat(seqs)[i - 1] \o seqs[i]
  <2> DEFINE g == [j \in 1 .. Len(seqs) |->
                    IF j = 1 THEN seqs[j] ELSE Flat(seqs)[j - 1] \o seqs[j]]
  <2>1. g[i] = IF i = 1 THEN seqs[i] ELSE Flat(seqs)[i - 1] \o seqs[i]
    OBVIOUS
  <2>2. Flat(seqs) = g
    BY <1>1 DEF Joined
  <2> HIDE DEF g
  <2> QED
    BY <2>1, <2>2
<1>3. Len(seqs) # 0 => FlattenSeq(seqs) = Flat(seqs)[Len(seqs)]
  BY DEF FlattenSeq, Flat, Joined
<1> QED
  BY <1>2, <1>3

\* One more sequence comes last.
LEMMA FlattenAppend ==
    ASSUME NEW T, NEW seqs \in Seq(Seq(T)), NEW x \in Seq(T)
    PROVE  FlattenSeq(Append(seqs, x)) = FlattenSeq(seqs) \o x
<1> DEFINE n == Len(seqs)
           more == Append(seqs, x)
<1>1. n \in Nat /\ Len(more) = n + 1 /\ more[n + 1] = x /\ \A i \in 1 .. n : more[i] = seqs[i]
  OBVIOUS
<1> HIDE DEF more
<1>2. FlattenSeq(more) = Flat(more)[n + 1]
  BY <1>1, FlatValue
<1>3. CASE n = 0
  <2>1. Flat(more)[1] = x
    BY <1>1, <1>3, FlatValue
  <2>2. seqs = <<>> /\ FlattenSeq(seqs) = <<>>
    BY <1>3 DEF FlattenSeq
  <2>3. <<>> \o x = x
    OBVIOUS
  <2> QED
    BY <1>2, <1>3, <2>1, <2>2, <2>3 DEF more
<1>4. CASE n # 0
  <2> DEFINE Bad == {i \in 1 .. n : Flat(more)[i] # Flat(seqs)[i]}
  <2>1. Bad = {}
    <3> SUFFICES ASSUME Bad # {} PROVE FALSE
      OBVIOUS
    <3>1. PICK i \in Bad : \A k \in Bad : i <= k
      <4>1. Bad \in SUBSET Nat
        BY <1>1
      <4> HIDE DEF Bad
      <4> QED
        BY <4>1, Least
    <3>2. i \in 1 .. n /\ i \in 1 .. n + 1 /\ (i # 1 => i - 1 \in 1 .. n)
      BY <1>1, <3>1
    <3>3. i # 1 => Flat(more)[i - 1] = Flat(seqs)[i - 1]
      BY <1>1, <3>1, <3>2
    <3>4. Flat(seqs)[i] = IF i = 1 THEN seqs[i] ELSE Flat(seqs)[i - 1] \o seqs[i]
      BY <1>1, <3>2, FlatValue
    <3>5. Flat(more)[i] = IF i = 1 THEN more[i] ELSE Flat(more)[i - 1] \o more[i]
      <4>1. i \in 1 .. Len(more) /\ Len(more) \in Nat
        BY <1>1, <3>2
      <4> QED
        BY <4>1, FlatValue, ZenonT(20)
    <3> QED
      BY <1>1, <3>1, <3>2, <3>3, <3>4, <3>5
  <2>2. Flat(more)[n] = Flat(seqs)[n]
    BY <1>1, <1>4, <2>1
  <2>3. Flat(more)[n + 1] = Flat(more)[n] \o x
    <3>1. PICK j \in 1 .. Len(more) : j = n + 1 /\ j # 1 /\ j - 1 = n /\ Len(more) \in Nat
      BY <1>1, <1>4
    <3>2. \A i \in 1 .. Len(more) :
            Flat(more)[i] = IF i = 1 THEN more[i] ELSE Flat(more)[i - 1] \o more[i]
      BY <3>1, FlatValue
    <3>3. Flat(more)[j] = Flat(more)[j - 1] \o more[j]
      BY <3>1, <3>2
    <3> HIDE DEF n
    <3> QED
      BY <1>1, <3>1, <3>3
  <2>4. FlattenSeq(seqs) = Flat(seqs)[n]
    BY <1>1, <1>4, FlatValue
  <2> QED
    BY <1>2, <2>2, <2>3, <2>4 DEF more
<1> QED
  BY <1>3, <1>4

\* What is flattened are the elements of the elements.
LEMMA FlattenType ==
    ASSUME NEW T, NEW seqs \in Seq(Seq(T))
    PROVE  FlattenSeq(seqs) \in Seq(T)
<1> DEFINE n == Len(seqs)
           Bad == {i \in 1 .. n : Flat(seqs)[i] \notin Seq(T)}
<1>1. n \in Nat /\ \A i \in 1 .. n : seqs[i] \in Seq(T)
  OBVIOUS
<1>2. Bad = {}
  <2> SUFFICES ASSUME Bad # {} PROVE FALSE
    OBVIOUS
  <2>1. PICK i \in Bad : \A k \in Bad : i <= k
    <3>1. Bad \in SUBSET Nat
      BY <1>1
    <3> HIDE DEF Bad
    <3> QED
      BY <3>1, Least
  <2>2. i # 1 => Flat(seqs)[i - 1] \in Seq(T)
    BY <1>1, <2>1
  <2>3. Flat(seqs)[i] = IF i = 1 THEN seqs[i] ELSE Flat(seqs)[i - 1] \o seqs[i]
    BY <1>1, <2>1, FlatValue
  <2>4. \A a, b \in Seq(T) : a \o b \in Seq(T)
    OBVIOUS
  <2> QED
    BY <1>1, <2>1, <2>2, <2>3, <2>4
<1>3. CASE n = 0
  <2>1. seqs = <<>> /\ FlattenSeq(seqs) = <<>>
    BY <1>3 DEF FlattenSeq
  <2>2. <<>> \in Seq(T)
    OBVIOUS
  <2> QED
    BY <2>1, <2>2
<1>4. CASE n # 0
  BY <1>1, <1>2, <1>4, FlatValue
<1> QED
  BY <1>3, <1>4

-----------------------------------------------------------------------------
(* Cutting and joining the streams *)

\* First and Beyond cut a sequence in two.
LEMMA Cut ==
    ASSUME NEW T, NEW s \in Seq(T), NEW n \in 0 .. Len(s)
    PROVE  /\ First(s, n) \in Seq(T) /\ Len(First(s, n)) = n
           /\ \A i \in 1 .. n : First(s, n)[i] = s[i]
           /\ Beyond(s, n) \in Seq(T) /\ Len(Beyond(s, n)) = Len(s) - n
           /\ \A i \in 1 .. Len(s) - n : Beyond(s, n)[i] = s[n + i]
<1>1. Len(s) \in Nat /\ n \in Nat /\ n <= Len(s)
  OBVIOUS
<1>2. First(s, n) \in Seq(T) /\ Len(First(s, n)) = n /\ \A i \in 1 .. n : First(s, n)[i] = s[i]
  BY <1>1 DEF First
<1>3. /\ Beyond(s, n) \in Seq(T) /\ Len(Beyond(s, n)) = Len(s) - n
      /\ \A i \in 1 .. Len(s) - n : Beyond(s, n)[i] = s[n + i]
  BY <1>1 DEF Beyond
<1> QED
  BY <1>2, <1>3

\* Sequences with the same elements in the same order are equal.
LEMMA SameElements ==
    ASSUME NEW T, NEW r \in Seq(T), NEW s \in Seq(T), Len(r) = Len(s),
           \A i \in 1 .. Len(s) : r[i] = s[i]
    PROVE  r = s
OBVIOUS

\* What concatenation makes of two sequences.
LEMMA Joining ==
    ASSUME NEW T, NEW r \in Seq(T), NEW s \in Seq(T)
    PROVE  /\ r \o s \in Seq(T) /\ Len(r \o s) = Len(r) + Len(s)
           /\ \A i \in 1 .. Len(r) + Len(s) :
                (r \o s)[i] = IF i <= Len(r) THEN r[i] ELSE s[i - Len(r)]
OBVIOUS

\* Cutting and joining undo each other.
LEMMA CutJoin ==
    ASSUME NEW T, NEW s \in Seq(T), NEW n \in 0 .. Len(s)
    PROVE  First(s, n) \o Beyond(s, n) = s
<1> DEFINE a == First(s, n)
           b == Beyond(s, n)
<1>1. Len(s) \in Nat /\ n \in Nat /\ n <= Len(s)
  OBVIOUS
<1>2. /\ a \in Seq(T) /\ Len(a) = n /\ \A i \in 1 .. n : a[i] = s[i]
      /\ b \in Seq(T) /\ Len(b) = Len(s) - n /\ \A i \in 1 .. Len(s) - n : b[i] = s[n + i]
  BY Cut
<1> HIDE DEF a, b
<1>3. /\ a \o b \in Seq(T) /\ Len(a \o b) = Len(s)
      /\ \A i \in 1 .. Len(s) : (a \o b)[i] = IF i <= n THEN a[i] ELSE b[i - n]
  BY <1>1, <1>2, Joining
<1>4. ASSUME NEW i \in 1 .. Len(s) PROVE (a \o b)[i] = s[i]
  <2>1. CASE i <= n
    BY <1>2, <1>3, <2>1
  <2>2. CASE ~ (i <= n)
    <3>1. i - n \in 1 .. Len(s) - n /\ n + (i - n) = i
      BY <1>1, <2>2
    <3> QED
      BY <1>2, <1>3, <2>2, <3>1
  <2> QED
    BY <2>1, <2>2
<1>5. a \o b = s
  BY <1>3, <1>4, SameElements
<1> QED
  BY <1>5 DEF a, b

\* Concatenation is associative.
LEMMA Associative ==
    ASSUME NEW T, NEW a \in Seq(T), NEW b \in Seq(T), NEW c \in Seq(T)
    PROVE  (a \o b) \o c = a \o (b \o c)
OBVIOUS

\* The same of cells.
LEMMA JoinedCells == \A a, b, c \in Seq(Cells) : (a \o b) \o c = a \o (b \o c)
BY Associative

\* What is cut off the front of a buffer is cut off the stream.
LEMMA BeyondJoined ==
    ASSUME NEW T, NEW r \in Seq(T), NEW u \in Seq(T), NEW n \in 0 .. Len(r)
    PROVE  Beyond(r, n) \o u = Beyond(r \o u, n)
<1>1. Len(r) \in Nat /\ Len(u) \in Nat /\ n \in Nat /\ n <= Len(r)
  OBVIOUS
<1> DEFINE s == r \o u
           a == Beyond(r, n) \o u
           b == Beyond(s, n)
<1>2. s \in Seq(T) /\ Len(s) = Len(r) + Len(u) /\ n \in 0 .. Len(s)
  BY <1>1, Joining
<1>3. b \in Seq(T) /\ Len(b) = Len(s) - n /\ \A i \in 1 .. Len(s) - n : b[i] = s[n + i]
  <2> HIDE DEF s
  <2> QED
    BY <1>2, Cut
<1>4. /\ Beyond(r, n) \in Seq(T) /\ Len(Beyond(r, n)) = Len(r) - n
      /\ \A i \in 1 .. Len(r) - n : Beyond(r, n)[i] = r[n + i]
  BY Cut
<1>5. a \in Seq(T) /\ Len(a) = Len(s) - n
  <2> DEFINE q == Beyond(r, n)
  <2>1. q \in Seq(T) /\ Len(q) = Len(r) - n
    BY <1>4
  <2> HIDE DEF q
  <2>2. q \o u \in Seq(T) /\ Len(q \o u) = Len(q) + Len(u)
    BY <2>1, Joining
  <2>3. Len(q) + Len(u) = Len(s) - n
    BY <1>1, <1>2, <2>1
  <2> QED
    BY <2>2, <2>3 DEF q
<1>6. ASSUME NEW i \in 1 .. Len(s) - n PROVE a[i] = b[i]
  <2>1. a[i] = IF i <= Len(r) - n THEN r[n + i] ELSE u[i - (Len(r) - n)]
    <3> DEFINE q == Beyond(r, n)
    <3>1. q \in Seq(T) /\ Len(q) = Len(r) - n /\ i \in 1 .. Len(q) + Len(u)
      BY <1>1, <1>2, <1>4
    <3>2. i <= Len(q) => i \in 1 .. Len(r) - n /\ q[i] = r[n + i]
      BY <3>1, <1>1, <1>4
    <3> HIDE DEF q
    <3>3. (q \o u)[i] = IF i <= Len(q) THEN q[i] ELSE u[i - Len(q)]
      BY <3>1, Joining
    <3>4. (q \o u)[i] = IF i <= Len(r) - n THEN r[n + i] ELSE u[i - (Len(r) - n)]
      BY <3>1, <3>2, <3>3
    <3> QED
      BY <3>4 DEF q
  <2>2. s[n + i] = IF n + i <= Len(r) THEN r[n + i] ELSE u[n + i - Len(r)]
    <3>1. n + i \in 1 .. Len(r) + Len(u)
      BY <1>1, <1>2
    <3> QED
      BY <3>1, Joining
  <2>3. i - (Len(r) - n) = n + i - Len(r) /\ (n + i <= Len(r) <=> i <= Len(r) - n)
    BY <1>1, <1>2
  <2> QED
    BY <1>3, <2>1, <2>2, <2>3
<1> HIDE DEF a, b, s
<1>7. a = b
  BY <1>2, <1>3, <1>5, <1>6, SameElements
<1> QED
  BY <1>7 DEF a, b, s

-----------------------------------------------------------------------------
(* The stream of requests *)

\* A message is its cells, in order.
LEMMA MessageFacts ==
    ASSUME NEW m, NEW len \in Nat
    PROVE  /\ Len(Message(m, len)) = HeadLen + len
           /\ \A i \in 1 .. HeadLen + len : Message(m, len)[i] = <<m, i>>
           /\ \A T : (\A i \in 1 .. HeadLen + len : <<m, i>> \in T) => Message(m, len) \in Seq(T)
<1>1. HeadLen + len \in Nat
  BY DEF HeadLen
<1> DEFINE n == HeadLen + len
<1> HIDE DEF n
<1>2. n \in Nat
  BY <1>1 DEF n
<1>3. /\ Len([i \in 1 .. n |-> <<m, i>>]) = n
      /\ \A i \in 1 .. n : [j \in 1 .. n |-> <<m, j>>][i] = <<m, i>>
  BY <1>2
<1>4. ASSUME NEW T, \A i \in 1 .. n : <<m, i>> \in T PROVE [i \in 1 .. n |-> <<m, i>>] \in Seq(T)
  BY <1>2, <1>4
<1> QED
  BY <1>3, <1>4 DEF Message, n

\* A request has at least its head.
LEMMA RequestFacts ==
    ASSUME NEW m \in Queries
    PROVE  /\ RequestLens[m] \in Nat /\ RequestSize(m) \in Nat /\ RequestSize(m) >= 2
           /\ RequestSize(m) = HeadLen + RequestLens[m] /\ m \in Nat \ {0}
           /\ Request(m) \in Seq(Cells) /\ Len(Request(m)) = RequestSize(m)
           /\ \A i \in 1 .. RequestSize(m) : Request(m)[i] = <<m, i>>
<1>1. RequestLens \in Seq(Nat) /\ m \in 1 .. Len(RequestLens)
  BY WireAssumption DEF Queries
<1>2. RequestLens[m] \in Nat /\ m \in Nat \ {0}
  BY <1>1
<1>3. RequestSize(m) \in Nat /\ RequestSize(m) >= 2 /\ RequestSize(m) = HeadLen + RequestLens[m]
  BY <1>2 DEF RequestSize, HeadLen
<1>4. Len(Request(m)) = RequestSize(m) /\ \A i \in 1 .. RequestSize(m) : Request(m)[i] = <<m, i>>
  BY <1>2, MessageFacts DEF Request, RequestSize
<1>5. \A i \in 1 .. HeadLen + RequestLens[m] : <<m, i>> \in Cells
  BY <1>2, <1>3 DEF Cells
<1>6. Request(m) \in Seq(Cells)
  BY <1>2, <1>5, MessageFacts DEF Request
<1> QED
  BY <1>2, <1>3, <1>4, <1>6

\* A cell after whole requests is the first one of the next.
LEMMA Leading ==
    ASSUME NEW s \in Seq(Cells), NEW p \in Nat, NEW last, Runs(s, p, last), s # <<>>
    PROVE  /\ p + 1 \in Queries
           /\ \A i \in 1 .. Len(s) : i <= RequestSize(p + 1) => s[i] = <<p + 1, i>>
<1>1. Len(s) \in Nat /\ 1 \in 1 .. Len(s) /\ s[1] = <<p + 1, 1>>
  BY DEF Runs
<1>2. p + 1 \in Queries
  <2>1. s[1] \in Cells
    BY <1>1
  <2> QED
    BY <1>1, <2>1 DEF Cells
<1>3. RequestSize(p + 1) \in Nat
  BY <1>2, RequestFacts
<1> DEFINE Bad == {i \in 1 .. Len(s) : i <= RequestSize(p + 1) /\ s[i] # <<p + 1, i>>}
<1>4. Bad = {}
  <2> SUFFICES ASSUME Bad # {} PROVE FALSE
    OBVIOUS
  <2>1. PICK i \in Bad : \A k \in Bad : i <= k
    <3>1. Bad \in SUBSET Nat
      BY <1>1
    <3> HIDE DEF Bad
    <3> QED
      BY <3>1, Least
  <2>2. i # 1
    BY <1>1, <2>1
  <2>3. i - 1 \in 1 .. Len(s) - 1 /\ i - 1 \in 1 .. Len(s) /\ i - 1 < RequestSize(p + 1)
    BY <1>1, <1>3, <2>1, <2>2
  <2>4. s[i - 1] = <<p + 1, i - 1>>
    BY <2>1, <2>3, <1>3
  <2>5. s[(i - 1) + 1] = After(s[i - 1])
    BY <2>3 DEF Runs
  <2>6. After(s[i - 1]) = <<p + 1, (i - 1) + 1>>
    BY <2>3, <2>4 DEF After
  <2> QED
    BY <2>1, <2>5, <2>6
<1> QED
  BY <1>2, <1>4

\* A whole request in front of a stream is the next one, and the stream goes
\* on behind it.
LEMMA TakeRequest ==
    ASSUME NEW s \in Seq(Cells), NEW p \in Nat, NEW last, Runs(s, p, last), s # <<>>,
           RequestSize(p + 1) <= Len(s)
    PROVE  /\ First(s, RequestSize(p + 1)) = Request(p + 1)
           /\ Runs(Beyond(s, RequestSize(p + 1)), p + 1, last)
<1> DEFINE n == RequestSize(p + 1)
           a == First(s, n)
           b == Beyond(s, n)
<1>1. p + 1 \in Queries /\ \A i \in 1 .. Len(s) : i <= n => s[i] = <<p + 1, i>>
  BY Leading
<1>2. n \in Nat /\ n >= 2 /\ n <= Len(s) /\ Len(s) \in Nat
  BY <1>1, RequestFacts
<1>3. /\ a \in Seq(Cells) /\ Len(a) = n /\ \A i \in 1 .. n : a[i] = s[i]
      /\ b \in Seq(Cells) /\ Len(b) = Len(s) - n /\ \A i \in 1 .. Len(s) - n : b[i] = s[n + i]
  <2>1. n \in 0 .. Len(s)
    BY <1>2
  <2> HIDE DEF n
  <2> QED
    BY <2>1, Cut
<1>4. /\ Request(p + 1) \in Seq(Cells) /\ Len(Request(p + 1)) = n
      /\ \A i \in 1 .. n : Request(p + 1)[i] = <<p + 1, i>>
  BY <1>1, RequestFacts
<1>5. s[n] = <<p + 1, n>> /\ After(s[n]) = <<p + 2, 1>>
  <2>1. s[n] = <<p + 1, n>>
    BY <1>1, <1>2
  <2>2. ~ (n < RequestSize(p + 1)) /\ (p + 1) + 1 = p + 2
    BY <1>2
  <2> QED
    BY <2>1, <2>2 DEF After
<1>6. /\ s[1] = <<p + 1, 1>> /\ s[Len(s)] = <<last, RequestSize(last)>>
      /\ \A i \in 1 .. Len(s) - 1 : s[i + 1] = After(s[i])
  BY DEF Runs
<1> HIDE DEF n, a, b
<1>7. a = Request(p + 1)
  <2>1. ASSUME NEW i \in 1 .. n PROVE a[i] = Request(p + 1)[i]
    <3>1. i \in 1 .. Len(s) /\ i <= n
      BY <1>2
    <3>2. a[i] = s[i] /\ s[i] = <<p + 1, i>>
      BY <1>1, <1>3, <3>1
    <3>3. Request(p + 1)[i] = <<p + 1, i>>
      BY <1>4
    <3> QED
      BY <3>2, <3>3
  <2> QED
    BY <1>3, <1>4, <2>1, SameElements
<1>8. Runs(b, p + 1, last)
  <2>1. ASSUME b = <<>> PROVE p + 1 = last
    <3>1. n = Len(s)
      BY <1>2, <1>3, <2>1
    <3> QED
      BY <1>5, <1>6, <3>1
  <2>2. ASSUME b # <<>> PROVE b[1] = <<(p + 1) + 1, 1>> /\ b[Len(b)] = <<last, RequestSize(last)>>
    <3>1. Len(b) \in Nat /\ Len(b) # 0 /\ n \in 1 .. Len(s) - 1
      BY <1>2, <1>3, <2>2
    <3>2. b[1] = s[n + 1] /\ b[Len(b)] = s[n + Len(b)] /\ n + Len(b) = Len(s)
      <4>1. 1 \in 1 .. Len(s) - n /\ Len(b) \in 1 .. Len(s) - n /\ n + Len(b) = Len(s)
        BY <1>2, <1>3, <3>1
      <4> QED
        BY <1>3, <4>1
    <3>3. s[n + 1] = <<p + 2, 1>>
      BY <3>1, <1>5, <1>6
    <3> QED
      BY <1>6, <3>2, <3>3
  <2>3. ASSUME NEW i \in 1 .. Len(b) - 1 PROVE b[i + 1] = After(b[i])
    <3>1. n + i \in 1 .. Len(s) - 1 /\ b[i] = s[n + i] /\ b[i + 1] = s[n + (i + 1)]
      <4>1. n + i \in 1 .. Len(s) - 1 /\ i \in 1 .. Len(s) - n /\ i + 1 \in 1 .. Len(s) - n
        BY <1>2, <1>3
      <4> QED
        BY <1>3, <4>1
    <3>2. n + (i + 1) = (n + i) + 1
      BY <1>2
    <3> QED
      BY <1>6, <3>1, <3>2
  <2> QED
    BY <2>1, <2>2, <2>3 DEF Runs
<1> QED
  BY <1>7, <1>8 DEF n, a, b

\* The next request of the client goes on where the stream ends.
LEMMA AddRequest ==
    ASSUME NEW s \in Seq(Cells), NEW p \in Nat, NEW last \in Nat, Runs(s, p, last),
           last + 1 \in Queries
    PROVE  Runs(s \o Request(last + 1), p, last + 1)
<1> DEFINE r == Request(last + 1)
           n == RequestSize(last + 1)
           t == s \o r
<1>1. /\ r \in Seq(Cells) /\ Len(r) = n /\ n \in Nat /\ n >= 2 /\ Len(s) \in Nat
      /\ \A i \in 1 .. n : r[i] = <<last + 1, i>>
  BY RequestFacts
<1> HIDE DEF r
<1>2. /\ t \in Seq(Cells) /\ Len(t) = Len(s) + n
      /\ \A i \in 1 .. Len(s) + n : t[i] = IF i <= Len(s) THEN s[i] ELSE <<last + 1, i - Len(s)>>
  <2>1. t \in Seq(Cells) /\ Len(t) = Len(s) + Len(r)
    BY <1>1, Joining
  <2>2. \A i \in 1 .. Len(s) + Len(r) : t[i] = IF i <= Len(s) THEN s[i] ELSE r[i - Len(s)]
    BY <1>1, Joining
  <2>3. ASSUME NEW i \in 1 .. Len(s) + n
        PROVE  t[i] = IF i <= Len(s) THEN s[i] ELSE <<last + 1, i - Len(s)>>
    <3>1. ~ (i <= Len(s)) => i - Len(s) \in 1 .. n
      BY <1>1
    <3>2. ~ (i <= Len(s)) => r[i - Len(s)] = <<last + 1, i - Len(s)>>
      BY <1>1, <3>1
    <3> HIDE DEF t, n
    <3> QED
      BY <1>1, <2>2, <3>2
  <2> QED
    BY <1>1, <2>1, <2>3
<1> HIDE DEF t
<1>3. t # <<>>
  BY <1>1, <1>2
<1>4. t[1] = <<p + 1, 1>>
  <2>1. CASE s = <<>>
    <3>1. p = last /\ Len(s) = 0
      BY <2>1 DEF Runs
    <3> QED
      BY <1>1, <1>2, <3>1
  <2>2. CASE s # <<>>
    <3>1. Len(s) # 0 /\ s[1] = <<p + 1, 1>>
      BY <2>2 DEF Runs
    <3> QED
      BY <1>1, <1>2, <3>1
  <2> QED
    BY <2>1, <2>2
<1>5. t[Len(t)] = <<last + 1, n>>
  BY <1>1, <1>2
<1>6. ASSUME NEW i \in 1 .. Len(t) - 1 PROVE t[i + 1] = After(t[i])
  <2>1. CASE i < Len(s)
    <3>1. i \in 1 .. Len(s) - 1 /\ t[i] = s[i] /\ t[i + 1] = s[i + 1]
      BY <1>1, <1>2, <2>1
    <3> QED
      BY <3>1 DEF Runs
  <2>2. CASE i = Len(s)
    <3>1. Len(s) # 0 /\ s # <<>>
      BY <1>1, <2>2
    <3>2. t[i] = <<last, RequestSize(last)>>
      BY <1>1, <1>2, <2>2, <3>1 DEF Runs
    <3>3. t[i + 1] = <<last + 1, 1>>
      BY <1>1, <1>2, <2>2
    <3>4. last \in Queries
      <4>1. s[Len(s)] \in Cells /\ s[Len(s)] = <<last, RequestSize(last)>>
        BY <1>1, <3>1 DEF Runs
      <4> QED
        BY <4>1 DEF Cells
    <3>5. ~ (RequestSize(last) < RequestSize(last))
      BY <3>4, RequestFacts
    <3> QED
      BY <3>2, <3>3, <3>5 DEF After
  <2>3. CASE i > Len(s)
    <3>1. t[i] = <<last + 1, i - Len(s)>> /\ t[i + 1] = <<last + 1, (i - Len(s)) + 1>>
      BY <1>1, <1>2, <2>3
    <3>2. i - Len(s) < RequestSize(last + 1)
      BY <1>1, <1>2, <2>3
    <3> QED
      BY <3>1, <3>2 DEF After
  <2> QED
    BY <1>1, <2>1, <2>2, <2>3
<1>7. Runs(t, p, last + 1)
  BY <1>3, <1>4, <1>5, <1>6 DEF Runs
<1> QED
  BY <1>7 DEF t, r

-----------------------------------------------------------------------------
(* How far the variables of the stream reach *)

streamVars == <<setting, up, rbuf, rsize, parsed, spc, cpc, sent, received>>

\* The requests are counted by a natural number.
LEMMA QueryCount == Len(RequestLens) \in Nat /\ Queries = 1 .. Len(RequestLens)
BY WireAssumption DEF Queries

\* What a read takes is there, and as much as fits.
LEMMA ReadsFit ==
    ASSUME NEW T, NEW cells \in Seq(T), NEW limit \in Nat, NEW n \in Reads(cells, limit)
    PROVE  n \in 1 .. Len(cells) /\ n <= limit
<1>1. Len(cells) \in Nat
  OBVIOUS
<1>2. AtMost(Len(cells), limit) \in Nat /\ AtMost(Len(cells), limit) <= limit
      /\ AtMost(Len(cells), limit) <= Len(cells)
  BY <1>1 DEF AtMost
<1>3. n \in 1 .. AtMost(Len(cells), limit)
  BY <1>2 DEF Reads
<1> QED
  BY <1>1, <1>2, <1>3

\* The length a buffer of requests' cells announces.
LEMMA LengthType ==
    ASSUME NEW cells \in Seq(Cells), HasHead(cells)
    PROVE  LengthIn(cells) \in Nat
<1>1. cells[HeadLen] \in Cells
  BY DEF HasHead, HeadLen
<1>2. cells[HeadLen][1] \in Queries
  BY <1>1 DEF Cells
<1>3. RequestLens[cells[HeadLen][1]] \in Nat
  BY <1>2, RequestFacts
<1> QED
  BY <1>3, WireAssumption DEF LengthIn

\* What is written of a message is the whole of it or a part.
LEMMA WrittenPart ==
    ASSUME NEW T, NEW cells \in Seq(T), NEW cut, NEW part \in Written(cells, cut)
    PROVE  part \in Seq(T) /\ (cut \notin faults => part = cells)
<1>1. CASE part = cells
  BY <1>1
<1>2. CASE part # cells
  <2>1. PICK n \in 1 .. Len(cells) - 1 : part = First(cells, n) /\ cut \in faults
    BY <1>2 DEF Written
  <2>2. n \in 0 .. Len(cells)
    OBVIOUS
  <2> QED
    BY <2>1, <2>2, Cut
<1> QED
  BY <1>1, <1>2

\* The beginning of every run has these types.
LEMMA TypesInit == Init => Types
<1> SUFFICES ASSUME Init PROVE Types
  OBVIOUS
<1>1. threads \in SUBSET Workers /\ faults \in SUBSET FaultKinds
  BY WireAssumption DEF Init, Setting
<1>2. <<>> \in Seq(Cells) /\ <<>> \in Seq(Seq(Cells)) /\ Len(<<>>) = 0
  OBVIOUS
<1>3. FirstSize \in Nat /\ 0 <= FirstSize /\ 0 \in 0 .. Len(RequestLens) /\ 0 \in 0 .. 0
  BY WireAssumption, QueryCount
<1> QED
  BY <1>1, <1>2, <1>3 DEF Init, Types

\* What is read goes where there is room for it.
LEMMA ReadSomeTypes ==
    ASSUME Types, ReadSome
    PROVE  /\ up' \in Seq(Cells) /\ rbuf' \in Seq(Cells)
           /\ rsize' \in Nat /\ Len(rbuf') <= rsize'
           /\ \E n \in 1 .. Len(up) : rbuf' = rbuf \o First(up, n) /\ up' = Beyond(up, n)
<1>1. /\ up \in Seq(Cells) /\ rbuf \in Seq(Cells) /\ rsize \in Nat
      /\ Len(up) \in Nat /\ Len(rbuf) \in Nat /\ Len(rbuf) < rsize
  BY DEF Types, ReadSome, Full
<1>2. Avail \in Nat /\ Len(rbuf) + Avail = rsize
  BY <1>1 DEF Avail
<1>3. PICK n \in Reads(up, Avail) : rbuf' = rbuf \o First(up, n) /\ up' = Beyond(up, n)
  BY DEF ReadSome
<1>4. n \in 1 .. Len(up) /\ n <= Avail /\ n \in 0 .. Len(up)
  BY <1>1, <1>2, ReadsFit
<1> DEFINE f == First(up, n)
<1>5. f \in Seq(Cells) /\ Len(f) = n /\ Beyond(up, n) \in Seq(Cells)
  BY <1>1, <1>4, Cut
<1> HIDE DEF f
<1>6. rbuf \o f \in Seq(Cells) /\ Len(rbuf \o f) = Len(rbuf) + Len(f)
  BY <1>1, <1>5, Joining
<1>7. rsize' = rsize /\ Len(rbuf) + n <= rsize
  BY <1>1, <1>2, <1>4 DEF ReadSome
<1> QED
  BY <1>1, <1>3, <1>4, <1>5, <1>6, <1>7 DEF f

\* A complete request is all in the buffer.
LEMMA CompleteRequest ==
    ASSUME Types, Complete(rbuf)
    PROVE  /\ Parsed(rbuf) \in Nat /\ Parsed(rbuf) \in 0 .. Len(rbuf)
           /\ First(rbuf, Parsed(rbuf)) \in Seq(Cells)
           /\ Beyond(rbuf, Parsed(rbuf)) \in Seq(Cells)
           /\ Len(Beyond(rbuf, Parsed(rbuf))) <= rsize
<1>1. rbuf \in Seq(Cells) /\ Len(rbuf) \in Nat /\ Len(rbuf) <= rsize /\ rsize \in Nat
  BY DEF Types
<1>2. LengthIn(rbuf) \in Nat /\ HeadLen + LengthIn(rbuf) <= Len(rbuf)
  BY <1>1, LengthType DEF Complete, RightMagic, HasHead, HeadLen
<1> DEFINE n == Parsed(rbuf)
<1>3. n \in Nat /\ n \in 0 .. Len(rbuf)
  BY <1>1, <1>2 DEF Parsed, HeadLen
<1> HIDE DEF n
<1>4. First(rbuf, n) \in Seq(Cells) /\ Beyond(rbuf, n) \in Seq(Cells)
      /\ Len(Beyond(rbuf, n)) = Len(rbuf) - n
  BY <1>1, <1>3, Cut
<1>5. Len(rbuf) - n <= rsize
  BY <1>1, <1>3
<1> QED
  BY <1>3, <1>4, <1>5 DEF n

\* A step of the server keeps the types.
LEMMA ServerTypes == Types /\ ServerStep => Types'
<1> SUFFICES ASSUME Types, ServerStep PROVE Types'
  OBVIOUS
<1> USE DEF setting, serverVars, clientVars, poolVars
<1>0. /\ up \in Seq(Cells) /\ rbuf \in Seq(Cells) /\ parsed \in Seq(Seq(Cells))
      /\ rsize \in Nat /\ Len(rbuf) <= rsize
  BY DEF Types
<1>1. CASE Dispatch
  BY <1>1 DEF Dispatch, Types
<1>2. CASE Grow
  <2>1. rbuf' \in Seq(Cells) /\ rsize' \in Nat /\ Len(rbuf') <= rsize'
    <3>1. <<>> \in Seq(Cells) /\ Len(<<>>) = 0 /\ rsize * 2 \in Nat /\ Len(rbuf) <= rsize * 2
      BY <1>0
    <3>2. 0 <= rsize
      BY <1>0
    <3> QED
      BY <1>0, <1>2, <3>1, <3>2 DEF Grow
  <2>2. spc' \in {"loop", "read", "parse"}
    BY <1>2 DEF Grow
  <2> QED
    BY <1>2, <2>1, <2>2 DEF Grow, Types
<1>3. CASE ReadSome
  <2>1. spc' = spc /\ UNCHANGED <<setting, parsed, cpc, sent, received>>
    BY <1>3 DEF ReadSome
  <2> QED
    BY <1>3, <2>1, ReadSomeTypes DEF Types
<1>4. CASE ReadAgain
  BY <1>4 DEF ReadAgain, Types
<1>5. CASE ReadEnd
  BY <1>5 DEF ReadEnd, CloseConnection, Types
<1>6. CASE Parse
  <2>1. rbuf' \in Seq(Cells) /\ parsed' \in Seq(Seq(Cells)) /\ Len(rbuf') <= rsize
    <3>1. CASE Complete(rbuf) /\ rbuf' = Beyond(rbuf, Parsed(rbuf))
               /\ parsed' = Append(parsed, First(rbuf, Parsed(rbuf)))
      <4> DEFINE f == First(rbuf, Parsed(rbuf))
      <4>1. f \in Seq(Cells) /\ rbuf' \in Seq(Cells) /\ Len(rbuf') <= rsize
        BY <3>1, CompleteRequest
      <4> HIDE DEF f
      <4>2. Append(parsed, f) \in Seq(Seq(Cells))
        BY <1>0, <4>1
      <4> QED
        BY <3>1, <4>1, <4>2 DEF f
    <3>2. CASE rbuf' = rbuf /\ parsed' = parsed
      BY <1>0, <3>2
    <3> QED
      BY <1>6, <3>1, <3>2 DEF Parse
  <2>2. spc' \in {"parse", "loop", "handle", "closed"}
    BY <1>6 DEF Parse, CloseConnection
  <2> QED
    BY <1>6, <2>1, <2>2 DEF Parse, Types
<1>7. CASE Handle
  BY <1>7 DEF Handle, CloseConnection, Types
<1>8. CASE Post
  BY <1>8 DEF Post, Types
<1> QED
  BY <1>1, <1>2, <1>3, <1>4, <1>5, <1>6, <1>7, <1>8 DEF ServerStep

\* What a worker or the answering end of the client does leaves the stream of
\* the requests alone.
LEMMA OtherSteps ==
    ASSUME Types, (\E w \in Workers : WorkerStep(w)) \/ ClientStep \/ Quit
    PROVE  /\ UNCHANGED <<threads, faults, up, rbuf, rsize, parsed, spc, sent>>
           /\ cpc' \in {"idle", "head", "body", "gone"} /\ received' \in 0 .. sent
           /\ cpc' \in {"head", "body"} => received' < sent
           /\ cpc = "gone" => cpc' = "gone" /\ received' = received
           /\ cpc' = "gone" => received' = Len(RequestLens)
<1> USE DEF setting, serverVars, clientVars, poolVars
<1>0. sent \in 0 .. Len(RequestLens) /\ received \in 0 .. sent /\ Len(RequestLens) \in Nat
  BY QueryCount DEF Types
<1>1. ASSUME NEW w \in Workers, WorkerStep(w)
      PROVE  UNCHANGED <<threads, faults, up, rbuf, rsize, parsed, spc, sent, cpc, received>>
  BY <1>1 DEF WorkerStep, StartJob, GiveResponse
<1>2. CASE RecvResponse
  BY <1>0, <1>2 DEF RecvResponse, Types
<1>3. CASE RecvHead
  <2>1. /\ UNCHANGED <<threads, faults, up, rbuf, rsize, parsed, spc, sent>>
        /\ cpc = "head" /\ received < sent
        /\ (cpc' = "idle" /\ received' = received + 1) \/ (cpc' = "body" /\ received' = received)
    <3>1. PICK cells \in Arrivals(HeadLen) :
            \/ ~ RightMagic(cells) /\ Return
            \/ Return
            \/ cpc' = "body" /\ UNCHANGED received
      BY <1>3 DEF RecvHead
    <3> QED
      BY <1>3, <3>1 DEF RecvHead, Return, Types
  <2> QED
    BY <1>0, <2>1
<1>4. CASE RecvBody
  <2>1. /\ UNCHANGED <<threads, faults, up, rbuf, rsize, parsed, spc, sent>>
        /\ cpc = "body" /\ received < sent
        /\ cpc' = "idle" /\ received' = received + 1
    BY <1>4 DEF RecvBody, Return, Types
  <2> QED
    BY <1>0, <2>1
<1>5. CASE Quit
  BY <1>0, <1>5 DEF Quit, Types
<1> QED
  BY <1>1, <1>2, <1>3, <1>4, <1>5 DEF ClientStep, Types

\* Every step keeps the types.
LEMMA TypesStep == Types /\ [Next]_vars => Types'
<1> SUFFICES ASSUME Types, [Next]_vars PROVE Types'
  OBVIOUS
<1>1. CASE ServerStep
  BY <1>1, ServerTypes
<1>2. CASE (\E w \in Workers : WorkerStep(w)) \/ ClientStep \/ Quit
  BY <1>2, OtherSteps DEF Types
<1>3. CASE SendRequest
  <2> USE DEF setting, serverVars, clientVars, poolVars
  <2>1. sent + 1 \in Queries /\ sent + 1 \in 0 .. Len(RequestLens) /\ received \in 0 .. sent + 1
    BY <1>3, QueryCount DEF Types, SendRequest
  <2>2. up' \in Seq(Cells)
    <3>1. PICK cells \in Written(Request(sent + 1), "cutrequest") :
                up' = IF spc = "closed" THEN up ELSE up \o cells
      BY <1>3 DEF SendRequest
    <3>2. Request(sent + 1) \in Seq(Cells)
      BY <2>1, RequestFacts
    <3>3. cells \in Seq(Cells)
      <4> DEFINE r == Request(sent + 1)
      <4> HIDE DEF r
      <4>1. r \in Seq(Cells) /\ cells \in Written(r, "cutrequest")
        BY <3>1, <3>2 DEF r
      <4> QED
        BY <4>1, WrittenPart
    <3> QED
      BY <3>1, <3>3, Joining DEF Types
  <2> QED
    BY <1>3, <2>1, <2>2 DEF SendRequest, Types
<1>4. CASE UNCHANGED vars
  BY <1>4 DEF vars, setting, serverVars, clientVars, poolVars, Types
<1> QED
  BY <1>1, <1>2, <1>3, <1>4 DEF Next

-----------------------------------------------------------------------------
(* How the requests are cut out *)

\* The front of a stream is the front of the buffer, if that is long enough.
LEMMA FirstJoined ==
    ASSUME NEW T, NEW r \in Seq(T), NEW u \in Seq(T), NEW n \in 0 .. Len(r)
    PROVE  First(r \o u, n) = First(r, n)
<1> DEFINE s == r \o u
           a == First(s, n)
           b == First(r, n)
<1>1. Len(r) \in Nat /\ Len(u) \in Nat /\ n \in Nat /\ n <= Len(r)
  OBVIOUS
<1>2. s \in Seq(T) /\ Len(s) = Len(r) + Len(u) /\ \A i \in 1 .. n : s[i] = r[i]
  BY <1>1, Joining
<1> HIDE DEF s
<1>3. n \in 0 .. Len(s)
  BY <1>1, <1>2
<1>4. a \in Seq(T) /\ Len(a) = n /\ \A i \in 1 .. n : a[i] = s[i]
  BY <1>2, <1>3, Cut
<1>5. b \in Seq(T) /\ Len(b) = n /\ \A i \in 1 .. n : b[i] = r[i]
  BY Cut
<1> HIDE DEF a, b
<1>6. a = b
  BY <1>2, <1>4, <1>5, SameElements
<1> QED
  BY <1>6 DEF a, b, s

\* While nothing is lost, a buffer with room for a head begins with the head of
\* the next request.
LEMMA NextHead ==
    ASSUME Types, Framed, ~ LosesCells, spc # "closed", HasHead(rbuf)
    PROVE  /\ RightMagic(rbuf)
           /\ Len(parsed) \in Nat /\ Len(parsed) + 1 \in Queries
           /\ Parsed(rbuf) = RequestSize(Len(parsed) + 1)
           /\ Runs(rbuf \o up, Len(parsed), sent) /\ rbuf \o up \in Seq(Cells)
           /\ rbuf \o up # <<>> /\ Len(rbuf) <= Len(rbuf \o up)
<1> DEFINE s == rbuf \o up
           p == Len(parsed)
<1>1. rbuf \in Seq(Cells) /\ up \in Seq(Cells) /\ p \in Nat
  BY DEF Types
<1>2. Len(rbuf) \in Nat /\ Len(rbuf) >= 2 /\ Len(up) \in Nat
  BY <1>1 DEF HasHead, HeadLen
<1>3. s \in Seq(Cells) /\ Len(s) = Len(rbuf) + Len(up) /\ \A i \in 1 .. Len(rbuf) : s[i] = rbuf[i]
  BY <1>1, <1>2, Joining
<1>4. Runs(s, p, sent)
  BY DEF Framed
<1> HIDE DEF s, p
<1>5. s # <<>> /\ 1 \in 1 .. Len(s) /\ 2 \in 1 .. Len(s) /\ Len(rbuf) <= Len(s)
  BY <1>2, <1>3
<1>6. p + 1 \in Queries /\ \A i \in 1 .. Len(s) : i <= RequestSize(p + 1) => s[i] = <<p + 1, i>>
  BY <1>1, <1>3, <1>4, <1>5, Leading
<1>7. /\ RequestSize(p + 1) \in Nat /\ RequestSize(p + 1) >= 2
      /\ RequestSize(p + 1) = HeadLen + RequestLens[p + 1]
  BY <1>6, RequestFacts
<1>8. s[1] = <<p + 1, 1>> /\ s[2] = <<p + 1, 2>>
  BY <1>5, <1>6, <1>7
<1>9. rbuf[1] = <<p + 1, 1>> /\ rbuf[2] = <<p + 1, 2>>
  BY <1>2, <1>3, <1>8
<1>10. RightMagic(rbuf) /\ LengthIn(rbuf) = RequestLens[p + 1]
  BY <1>9 DEF RightMagic, LengthIn, HeadLen
<1> QED
  BY <1>1, <1>3, <1>4, <1>5, <1>6, <1>7, <1>10 DEF s, p, Parsed

\* A complete request in the buffer is the next one, and behind it the stream
\* goes on.
LEMMA NextRequest ==
    ASSUME Types, Framed, ~ LosesCells, spc # "closed", Complete(rbuf)
    PROVE  /\ First(rbuf, Parsed(rbuf)) = Request(Len(parsed) + 1)
           /\ Runs(Beyond(rbuf, Parsed(rbuf)) \o up, Len(parsed) + 1, sent)
<1> DEFINE s == rbuf \o up
           p == Len(parsed)
           n == RequestSize(p + 1)
<1>1. HasHead(rbuf)
  BY DEF Complete, RightMagic
<1>2. /\ p \in Nat /\ p + 1 \in Queries /\ Parsed(rbuf) = n
      /\ Runs(s, p, sent) /\ s \in Seq(Cells) /\ s # <<>> /\ Len(rbuf) <= Len(s)
  BY <1>1, NextHead
<1>3. rbuf \in Seq(Cells) /\ up \in Seq(Cells) /\ n \in 0 .. Len(rbuf) /\ Len(rbuf) \in Nat
  BY <1>2, CompleteRequest DEF Types
<1>4. n <= Len(s)
  <2> HIDE DEF s, n
  <2>1. Len(s) \in Nat /\ n \in Nat
    BY <1>2, <1>3
  <2> QED
    BY <1>2, <1>3, <2>1
<1>5. First(s, n) = Request(p + 1) /\ Runs(Beyond(s, n), p + 1, sent)
  <2> HIDE DEF s, p
  <2> QED
    BY <1>2, <1>4, TakeRequest
<1>6. First(s, n) = First(rbuf, n) /\ Beyond(rbuf, n) \o up = Beyond(s, n)
  <2> HIDE DEF n
  <2> QED
    BY <1>3, FirstJoined, BeyondJoined
<1> QED
  BY <1>2, <1>5, <1>6

\* One more request was cut out.
LEMMA ParsedMore ==
    ASSUME NEW T, NEW s \in Seq(T), NEW x \in T
    PROVE  /\ Append(s, x) \in Seq(T) /\ Len(Append(s, x)) = Len(s) + 1
           /\ \A i \in 1 .. Len(s) : Append(s, x)[i] = s[i]
           /\ Append(s, x)[Len(s) + 1] = x
OBVIOUS

\* The requests are cut out of the stream whole and in order.
LEMMA FramedStep == Types /\ Framed /\ [Next]_vars => Framed'
<1> SUFFICES ASSUME Types, Framed, [Next]_vars, ~ LosesCells'
             PROVE  /\ \A m \in 1 .. Len(parsed') : parsed'[m] = Request(m)
                    /\ spc' # "closed" => Runs(rbuf' \o up', Len(parsed'), sent')
  BY DEF Framed
<1> USE DEF setting, serverVars, clientVars, poolVars
<1>1. faults' = faults /\ ~ LosesCells
  <2>1. faults' = faults
    BY DEF Next, ServerStep, Dispatch, Grow, ReadSome, ReadAgain, ReadEnd, Parse, Handle, Post,
           WorkerStep, StartJob, GiveResponse, ClientStep, RecvResponse, RecvHead, RecvBody,
           SendRequest, Quit, vars
  <2> QED
    BY <2>1 DEF LosesCells
<1>2. /\ \A m \in 1 .. Len(parsed) : parsed[m] = Request(m)
      /\ spc # "closed" => Runs(rbuf \o up, Len(parsed), sent)
  BY <1>1 DEF Framed
<1>3. rbuf \in Seq(Cells) /\ up \in Seq(Cells) /\ parsed \in Seq(Seq(Cells)) /\ sent \in Nat
      /\ Len(parsed) \in Nat
  BY QueryCount DEF Types
<1>4. CASE UNCHANGED <<rbuf, up, parsed, sent>> /\ (spc' # "closed" => spc # "closed")
  BY <1>2, <1>4
<1>5. CASE Grow
  <2>1. UNCHANGED <<rbuf, up, parsed, sent>> /\ (spc' # "closed" => spc # "closed")
    BY <1>1, <1>5 DEF Grow, LosesCells
  <2> QED
    BY <1>4, <2>1
<1>6. CASE ReadSome
  <2>1. PICK n \in 1 .. Len(up) : rbuf' = rbuf \o First(up, n) /\ up' = Beyond(up, n)
    BY <1>6, ReadSomeTypes
  <2> DEFINE f == First(up, n)
             b == Beyond(up, n)
  <2>2. n \in 0 .. Len(up)
    BY <2>1
  <2>3. f \in Seq(Cells) /\ b \in Seq(Cells) /\ f \o b = up
    BY <1>3, <2>2, Cut, CutJoin
  <2> HIDE DEF f, b
  <2>4. (rbuf \o f) \o b = rbuf \o up
    <3>1. (rbuf \o f) \o b = rbuf \o (f \o b)
      BY <1>3, <2>3, JoinedCells
    <3> QED
      BY <2>3, <3>1
  <2>5. rbuf' \o up' = rbuf \o up
    BY <2>1, <2>4 DEF f, b
  <2>6. parsed' = parsed /\ sent' = sent /\ spc' = spc
    BY <1>6 DEF ReadSome
  <2> QED
    BY <1>2, <2>5, <2>6
<1>7. CASE Parse
  <2>1. spc # "closed" /\ up' = up /\ sent' = sent
    BY <1>7 DEF Parse
  <2>2. CASE Complete(rbuf) /\ rbuf' = Beyond(rbuf, Parsed(rbuf))
             /\ parsed' = Append(parsed, First(rbuf, Parsed(rbuf)))
    <3> DEFINE f == First(rbuf, Parsed(rbuf))
    <3>1. f = Request(Len(parsed) + 1) /\ Runs(rbuf' \o up, Len(parsed) + 1, sent)
          /\ f \in Seq(Cells)
      BY <1>1, <2>1, <2>2, NextRequest, CompleteRequest
    <3>2. parsed' = Append(parsed, f)
      BY <2>2
    <3> HIDE DEF f
    <3>3. /\ Len(parsed') = Len(parsed) + 1 /\ parsed'[Len(parsed) + 1] = f
          /\ \A i \in 1 .. Len(parsed) : parsed'[i] = parsed[i]
      BY <1>3, <3>1, <3>2, ParsedMore
    <3>4. ASSUME NEW m \in 1 .. Len(parsed') PROVE parsed'[m] = Request(m)
      <4>1. CASE m \in 1 .. Len(parsed)
        BY <1>2, <3>3, <4>1
      <4>2. CASE m = Len(parsed) + 1
        BY <3>1, <3>3, <4>2
      <4> QED
        BY <1>3, <3>3, <4>1, <4>2
    <3> QED
      BY <2>1, <3>1, <3>3, <3>4
  <2>3. CASE rbuf' = rbuf /\ parsed' = parsed
    BY <1>4, <2>1, <2>3
  <2> QED
    BY <1>7, <2>2, <2>3 DEF Parse
<1>8. CASE SendRequest
  <2>1. sent + 1 \in Queries /\ sent' = sent + 1 /\ rbuf' = rbuf /\ parsed' = parsed /\ spc' = spc
    BY <1>8, QueryCount DEF Types, SendRequest
  <2>2. spc # "closed" => up' = up \o Request(sent + 1)
    <3>1. Written(Request(sent + 1), "cutrequest") = {Request(sent + 1)}
      BY <1>1 DEF Written, LosesCells
    <3> QED
      BY <1>8, <3>1 DEF SendRequest
  <2>3. ASSUME spc # "closed" PROVE Runs(rbuf' \o up', Len(parsed'), sent')
    <3> DEFINE s == rbuf \o up
               r == Request(sent + 1)
    <3>1. s \in Seq(Cells) /\ r \in Seq(Cells)
      BY <1>3, <2>1, RequestFacts, Joining
    <3>2. rbuf \o (up \o r) = s \o r
      <4> HIDE DEF r
      <4> QED
        BY <1>3, <3>1, JoinedCells
    <3>3. Runs(s \o r, Len(parsed), sent + 1)
      <4> HIDE DEF s
      <4>1. Runs(s, Len(parsed), sent)
        BY <1>2, <2>3 DEF s
      <4> QED
        BY <1>3, <2>1, <3>1, <4>1, AddRequest
    <3> QED
      BY <2>1, <2>2, <2>3, <3>2, <3>3
  <2> QED
    BY <1>2, <2>1, <2>3
<1>9. CASE Dispatch \/ ReadAgain \/ ReadEnd \/ Handle \/ Post
  <2>1. UNCHANGED <<rbuf, up, parsed, sent>> /\ (spc' # "closed" => spc # "closed")
    BY <1>9 DEF Dispatch, ReadAgain, ReadEnd, CloseConnection, Handle, Post
  <2> QED
    BY <1>4, <2>1
<1>10. CASE (\E w \in Workers : WorkerStep(w)) \/ ClientStep \/ Quit
  BY <1>4, <1>10, OtherSteps
<1>11. CASE UNCHANGED vars
  BY <1>4, <1>11 DEF vars
<1> QED
  BY <1>5, <1>6, <1>7, <1>8, <1>9, <1>10, <1>11 DEF Next, ServerStep

\* The step changes none of the history constants of the connection.
LEMMA SameFaults == [Next]_vars => UNCHANGED <<threads, faults>>
BY DEF Next, ServerStep, Dispatch, Grow, ReadSome, ReadAgain, ReadEnd, Parse, Handle, Post,
       WorkerStep, StartJob, GiveResponse, ClientStep, RecvResponse, RecvHead, RecvBody,
       SendRequest, Quit, vars, setting

\* The requests sent are a sequence of sequences of cells, and the next one is
\* its next element.
LEMMA SentRequests ==
    ASSUME NEW n \in Nat, n <= Len(RequestLens)
    PROVE  /\ [m \in 1 .. n |-> Request(m)] \in Seq(Seq(Cells))
           /\ n + 1 \in Queries =>
                [m \in 1 .. n + 1 |-> Request(m)] = Append([m \in 1 .. n |-> Request(m)], Request(n + 1))
<1>1. ASSUME NEW k \in Nat, k <= Len(RequestLens)
      PROVE  /\ [m \in 1 .. k |-> Request(m)] \in Seq(Seq(Cells))
             /\ Len([m \in 1 .. k |-> Request(m)]) = k
  <2>1. \A m \in 1 .. k : Request(m) \in Seq(Cells)
    BY <1>1, QueryCount, RequestFacts
  <2> QED
    BY <1>1, <2>1
<1>2. ASSUME n + 1 \in Queries
      PROVE  [m \in 1 .. n + 1 |-> Request(m)]
                = Append([m \in 1 .. n |-> Request(m)], Request(n + 1))
  <2> DEFINE a == [m \in 1 .. n |-> Request(m)]
             b == [m \in 1 .. n + 1 |-> Request(m)]
             r == Request(n + 1)
  <2>1. n + 1 \in Nat /\ n + 1 <= Len(RequestLens) /\ r \in Seq(Cells)
    BY <1>2, QueryCount, RequestFacts
  <2>2. a \in Seq(Seq(Cells)) /\ Len(a) = n /\ \A i \in 1 .. n : a[i] = Request(i)
    BY <1>1
  <2>3. b \in Seq(Seq(Cells)) /\ Len(b) = n + 1 /\ \A i \in 1 .. n + 1 : b[i] = Request(i)
    BY <1>1, <2>1
  <2> HIDE DEF a, b, r
  <2>4. /\ Append(a, r) \in Seq(Seq(Cells)) /\ Len(Append(a, r)) = n + 1
        /\ \A i \in 1 .. n : Append(a, r)[i] = a[i]
        /\ Append(a, r)[n + 1] = r
    BY <2>1, <2>2, ParsedMore
  <2>5. \A i \in 1 .. n + 1 : Append(a, r)[i] = b[i]
    BY <2>2, <2>3, <2>4 DEF r
  <2> HIDE DEF r
  <2>6. Append(a, r) = b
    BY <2>3, <2>4, <2>5, SameElements
  <2> QED
    BY <2>6 DEF a, b, r
<1> QED
  BY <1>1, <1>2

\* Nothing of the stream is lost.
LEMMA NothingLostStep == Types /\ Framed /\ NothingLost /\ [Next]_vars => NothingLost'
<1> SUFFICES ASSUME Types, Framed, NothingLost, [Next]_vars, ~ LosesCells', spc' # "closed"
             PROVE  FlattenSeq(parsed') \o rbuf' \o up'
                        = FlattenSeq([m \in 1 .. sent' |-> Request(m)])
  BY DEF NothingLost
<1> USE DEF setting, serverVars, clientVars, poolVars
<1>1. ~ LosesCells
  BY SameFaults DEF LosesCells
<1>2. rbuf \in Seq(Cells) /\ up \in Seq(Cells) /\ parsed \in Seq(Seq(Cells)) /\ sent \in Nat
      /\ sent <= Len(RequestLens) /\ Len(parsed) \in Nat
  BY QueryCount DEF Types
<1> DEFINE p == FlattenSeq(parsed)
           all == FlattenSeq([m \in 1 .. sent |-> Request(m)])
<1>3. p \in Seq(Cells)
  BY <1>2, FlattenType
<1>4. all \in Seq(Cells)
  BY <1>2, SentRequests, FlattenType
<1>5. spc # "closed" => p \o rbuf \o up = all
  BY <1>1 DEF NothingLost
<1>6. CASE UNCHANGED <<rbuf, up, parsed, sent>> /\ spc # "closed"
  BY <1>5, <1>6
<1> HIDE DEF p, all
<1>7. CASE Grow
  <2>1. UNCHANGED <<rbuf, up, parsed, sent>> /\ spc # "closed"
    BY <1>1, <1>7 DEF Grow, LosesCells
  <2> QED
    BY <1>6, <2>1
<1>8. CASE ReadSome
  <2>1. PICK n \in 1 .. Len(up) : rbuf' = rbuf \o First(up, n) /\ up' = Beyond(up, n)
    BY <1>8, ReadSomeTypes
  <2> DEFINE f == First(up, n)
             b == Beyond(up, n)
  <2>2. n \in 0 .. Len(up)
    BY <2>1
  <2>3. f \in Seq(Cells) /\ b \in Seq(Cells) /\ f \o b = up
    BY <1>2, <2>2, Cut, CutJoin
  <2> HIDE DEF f, b
  <2>4. (p \o (rbuf \o f)) \o b = ((p \o rbuf) \o f) \o b
    BY <1>2, <1>3, <2>3, JoinedCells
  <2>5. ((p \o rbuf) \o f) \o b = (p \o rbuf) \o (f \o b)
    <3>1. p \o rbuf \in Seq(Cells)
      BY <1>2, <1>3, Joining
    <3> QED
      BY <3>1, <2>3, JoinedCells
  <2>6. parsed' = parsed /\ sent' = sent /\ spc # "closed"
    BY <1>8 DEF ReadSome
  <2>7. FlattenSeq(parsed') \o rbuf' \o up' = p \o rbuf \o up
    BY <2>1, <2>3, <2>4, <2>5, <2>6 DEF f, b, p
  <2> QED
    BY <1>5, <2>6, <2>7 DEF all
<1>9. CASE Parse
  <2>1. spc # "closed" /\ up' = up /\ sent' = sent
    BY <1>9 DEF Parse
  <2>2. CASE Complete(rbuf) /\ rbuf' = Beyond(rbuf, Parsed(rbuf))
             /\ parsed' = Append(parsed, First(rbuf, Parsed(rbuf)))
    <3> DEFINE n == Parsed(rbuf)
               f == First(rbuf, n)
               b == Beyond(rbuf, n)
    <3>1. n \in 0 .. Len(rbuf) /\ f \in Seq(Cells) /\ b \in Seq(Cells)
      BY <2>2, CompleteRequest
    <3>2. f \o b = rbuf
      <4> HIDE DEF n
      <4> QED
        BY <1>2, <3>1, CutJoin
    <3>3. parsed' = Append(parsed, f) /\ rbuf' = b
      BY <2>2
    <3> HIDE DEF n, f, b
    <3>4. FlattenSeq(parsed') = p \o f
      BY <1>2, <3>1, <3>3, FlattenAppend DEF p
    <3>5. (p \o f) \o b = p \o rbuf
      BY <1>3, <3>1, <3>2, JoinedCells
    <3> QED
      BY <1>5, <2>1, <3>3, <3>4, <3>5 DEF all
  <2>3. CASE rbuf' = rbuf /\ parsed' = parsed
    BY <1>6, <2>1, <2>3
  <2> QED
    BY <1>9, <2>2, <2>3 DEF Parse
<1>10. CASE SendRequest
  <2> DEFINE r == Request(sent + 1)
  <2>1. sent + 1 \in Queries /\ sent' = sent + 1 /\ rbuf' = rbuf /\ parsed' = parsed
        /\ spc # "closed"
    BY <1>10, QueryCount DEF Types, SendRequest
  <2>2. up' = up \o r /\ r \in Seq(Cells)
    <3>1. Written(Request(sent + 1), "cutrequest") = {Request(sent + 1)}
      BY <1>1 DEF Written, LosesCells
    <3> QED
      BY <1>10, <2>1, <3>1, RequestFacts DEF SendRequest
  <2>3. [m \in 1 .. sent' |-> Request(m)] = Append([m \in 1 .. sent |-> Request(m)], r)
    BY <1>2, <2>1, SentRequests
  <2> DEFINE before == [m \in 1 .. sent |-> Request(m)]
  <2>4. before \in Seq(Seq(Cells))
    BY <1>2, SentRequests
  <2> HIDE DEF r, before
  <2>5. FlattenSeq(Append(before, r)) = FlattenSeq(before) \o r
    BY <2>2, <2>4, FlattenAppend
  <2>6. (p \o rbuf) \o (up \o r) = ((p \o rbuf) \o up) \o r
    <3>1. p \o rbuf \in Seq(Cells)
      BY <1>2, <1>3, Joining
    <3> QED
      BY <1>2, <2>2, <3>1, JoinedCells
  <2>7. FlattenSeq(parsed') \o rbuf' \o up' = all \o r
    BY <1>5, <2>1, <2>2, <2>6 DEF p
  <2>8. all \o r = FlattenSeq(Append(before, r))
    BY <2>5 DEF all, before
  <2> QED
    BY <2>3, <2>7, <2>8 DEF before
<1>11. CASE Dispatch \/ ReadAgain \/ ReadEnd \/ Handle \/ Post
  <2>1. UNCHANGED <<rbuf, up, parsed, sent>> /\ spc # "closed"
    BY <1>11 DEF Dispatch, ReadAgain, ReadEnd, CloseConnection, Handle, Post
  <2> QED
    BY <1>6, <2>1
<1>12. CASE (\E w \in Workers : WorkerStep(w)) \/ ClientStep \/ Quit
  <2>1. UNCHANGED <<rbuf, up, parsed, sent>> /\ spc # "closed"
    BY <1>12, OtherSteps
  <2> QED
    BY <1>6, <2>1
<1>13. CASE UNCHANGED vars
  BY <1>6, <1>13 DEF vars
<1> QED
  BY <1>7, <1>8, <1>9, <1>10, <1>11, <1>12, <1>13 DEF Next, ServerStep

\* The server closes when the client has left.
LEMMA ClosesStep == Types /\ Framed /\ ClosesOnlyAtEnd /\ [Next]_vars => ClosesOnlyAtEnd'
<1> SUFFICES ASSUME Types, Framed, ClosesOnlyAtEnd, [Next]_vars, KeepsGoing', spc' = "closed"
             PROVE  cpc' = "gone"
  BY DEF ClosesOnlyAtEnd
<1> USE DEF setting, serverVars, clientVars, poolVars
<1>1. ~ LosesCells /\ "calloc" \notin faults /\ (threads = {} => "full" \notin faults)
  BY SameFaults DEF KeepsGoing, LosesCells
<1>2. spc = "closed" => cpc = "gone"
  BY <1>1 DEF ClosesOnlyAtEnd, KeepsGoing
<1>3. CASE ReadEnd
  <2>1. Avail > 0
    BY <1>3 DEF ReadEnd, Full, Avail, Types
  <2> QED
    BY <1>3, <2>1 DEF ReadEnd
<1>4. CASE Parse
  <2>1. HasHead(rbuf) /\ ~ RightMagic(rbuf) /\ spc # "closed"
    BY <1>4 DEF Parse
  <2> QED
    BY <1>1, <2>1, NextHead
<1>5. CASE Handle
  BY <1>1, <1>5 DEF Handle, NoRoom
<1>6. CASE Dispatch \/ Grow \/ ReadSome \/ ReadAgain \/ Post
  BY <1>6 DEF Dispatch, Grow, ReadSome, ReadAgain, Post
<1>7. CASE (\E w \in Workers : WorkerStep(w)) \/ ClientStep \/ Quit
  BY <1>2, <1>7, OtherSteps
<1>8. CASE SendRequest \/ UNCHANGED vars
  BY <1>2, <1>8 DEF SendRequest, vars
<1> QED
  BY <1>3, <1>4, <1>5, <1>6, <1>7, <1>8 DEF Next, ServerStep

\* At first nothing was sent.
LEMMA StreamInit == Init => StreamInv
<1> SUFFICES ASSUME Init PROVE StreamInv
  OBVIOUS
<1>1. Types
  BY TypesInit
<1>2. rbuf = <<>> /\ up = <<>> /\ parsed = <<>> /\ sent = 0 /\ spc = "loop"
  BY DEF Init
<1>3. <<>> \o <<>> = <<>> /\ Len(<<>>) = 0
  OBVIOUS
<1>4. Runs(<<>>, 0, 0)
  BY <1>3 DEF Runs
<1>5. Framed
  BY <1>2, <1>3, <1>4 DEF Framed
<1>6. FlattenSeq(<<>>) = <<>>
  BY <1>3 DEF FlattenSeq
<1>7. [m \in 1 .. 0 |-> Request(m)] = <<>>
  OBVIOUS
<1>8. NothingLost
  BY <1>2, <1>3, <1>6, <1>7 DEF NothingLost
<1> QED
  BY <1>1, <1>2, <1>5, <1>8 DEF StreamInv, ClosesOnlyAtEnd

\* Every step keeps the invariant of the stream.
LEMMA StreamStep == StreamInv /\ [Next]_vars => StreamInv'
BY TypesStep, FramedStep, NothingLostStep, ClosesStep DEF StreamInv

\* However the stream of requests is cut by the kernel, rbuf stays within its
\* size, and what is cut out, buffered and under way are the client's requests.
THEOREM StreamInvariant == Spec => []StreamInv
<1>1. Init => StreamInv
  BY StreamInit
<1>2. StreamInv /\ [Next]_vars => StreamInv'
  BY StreamStep
<1> QED
  BY <1>1, <1>2, PTL DEF Spec

\* try_read_tcp and basic_read_request cut the requests out of the stream whole
\* and in order, losing nothing of it, while rbuf can grow.
THEOREM Framing == Spec => []ExactFraming
<1>1. StreamInv => ExactFraming
  BY DEF StreamInv, Types, Framed, NothingLost, ExactFraming
<1> QED
  BY <1>1, StreamInvariant, PTL

\* Unless memory runs out or, without threads, a client does not read its
\* answers, a connection is closed only after the client left it: parse_cmd
\* never meets a wrong magic in the middle of its stream, and with threads no
\* answer that is cut or dropped ends it.
THEOREM Closing == Spec => []ClosesOnlyAtEnd
<1>1. StreamInv => ClosesOnlyAtEnd
  BY DEF StreamInv
<1> QED
  BY <1>1, StreamInvariant, PTL

-----------------------------------------------------------------------------
(* What the server has in its hands *)

\* Without faults the client is the one that ends the connection, and no
\* request gets lost.
LEMMA NoFaults ==
    Faultless => ~ LosesCells /\ KeepsGoing /\ "calloc" \notin faults /\ "full" \notin faults
BY DEF Faultless, LosesCells, KeepsGoing

\* Requests tell which query they are.
LEMMA RequestsDiffer ==
    /\ \A m \in Queries : Request(m) # <<>> /\ Request(m)[1] = <<m, 1>>
    /\ \A m, n \in Queries : Request(m) = Request(n) => m = n
<1>1. ASSUME NEW m \in Queries PROVE Request(m) # <<>> /\ Request(m)[1] = <<m, 1>>
  <2> DEFINE r == Request(m)
             k == RequestSize(m)
  <2>1. r \in Seq(Cells) /\ Len(r) = k /\ k \in Nat /\ k >= 2 /\ \A i \in 1 .. k : r[i] = <<m, i>>
    BY RequestFacts
  <2> HIDE DEF r, k
  <2>2. r # <<>> /\ r[1] = <<m, 1>>
    BY <2>1
  <2> QED
    BY <2>2 DEF r
<1> QED
  BY <1>1

\* The requests cut out of the stream are queries.
LEMMA ParsedAreQueries ==
    ASSUME Types, Len(parsed) <= Len(RequestLens), NEW r, WasParsed(r)
    PROVE  /\ \E m \in Queries : m <= Len(parsed) /\ r = Request(m)
           /\ r \in Seq(Cells) /\ r # <<>> /\ r \in {Request(m) : m \in Queries}
<1>1. PICK m \in 1 .. Len(parsed) : r = Request(m)
  BY DEF WasParsed
<1>2. m \in Queries /\ m <= Len(parsed)
  BY <1>1, QueryCount DEF Types
<1> QED
  BY <1>1, <1>2, RequestFacts, RequestsDiffer

\* Cutting out one more changes nothing for those before.
LEMMA StillParsed ==
    ASSUME Types, [Next]_vars, NEW r, WasParsed(r)
    PROVE  WasParsed(r)' /\ Len(parsed) <= Len(parsed')
<1>1. Len(parsed) \in Nat
  BY DEF Types
<1>2. CASE parsed' = parsed
  BY <1>1, <1>2 DEF WasParsed
<1>3. CASE Parse
  <2>1. Len(parsed') = Len(parsed) \/ Len(parsed') = Len(parsed) + 1
    BY <1>3, CompleteRequest, ParsedMore DEF Parse, Types
  <2> QED
    BY <1>1, <2>1 DEF WasParsed
<1>4. parsed' = parsed \/ Parse
  BY DEF Next, ServerStep, Dispatch, Grow, ReadSome, ReadAgain, ReadEnd, Handle, Post,
         WorkerStep, StartJob, GiveResponse, ClientStep, RecvResponse, RecvHead, RecvBody,
         SendRequest, Quit, vars, serverVars
<1> QED
  BY <1>2, <1>3, <1>4

\* At first the server has nothing.
LEMMA HandedInit == Init => Handed
<1> SUFFICES ASSUME Init PROVE Handed
  OBVIOUS
<1>1. /\ parsed = <<>> /\ spc = "loop" /\ working = [w \in Workers |-> <<>>]
      /\ todo = [w \in Workers |-> <<>>]
      /\ runs = [a \in {Request(m) : m \in Queries} |-> 0]
  BY DEF Init, Pool!Init
<1>2. Len(<<>>) = 0 /\ Len(parsed) <= Len(RequestLens)
  BY <1>1, QueryCount
<1>3. /\ todo \in [Workers -> Seq(Seq(Cells))] /\ working \in [Workers -> Seq(Cells)]
      /\ runs \in [{Request(m) : m \in Queries} -> {0, 1}]
  BY <1>1
<1>4. \A w \in Workers : todo[w] = <<>> /\ working[w] = <<>> /\ DOMAIN todo[w] = {}
  BY <1>1
<1> QED
  BY <1>1, <1>2, <1>3, <1>4 DEF Handed

\* A step that moves no request keeps them.
LEMMA HandedSame ==
    ASSUME Handed, UNCHANGED <<threads, parsed, request, todo, working, runs>>,
           spc' = "handle" => spc = "handle"
    PROVE  Handed'
BY DEF Handed, WasParsed

\* Parse cuts out one more request for handle_cmd.
LEMMA ParseHanded == Types /\ Framed /\ Faultless /\ Handed /\ Parse => Handed'
<1> SUFFICES ASSUME Types, Framed, Faultless, Handed, Parse PROVE Handed'
  OBVIOUS
<1>1. UNCHANGED <<threads, todo, working, runs>> /\ spc # "closed" /\ spc = "parse"
  BY DEF Parse, setting, poolVars
<1>2. CASE parsed' = parsed /\ request' = request /\ spc' # "handle"
  BY <1>1, <1>2, HandedSame
<1>3. CASE Complete(rbuf) /\ parsed' = Append(parsed, First(rbuf, Parsed(rbuf)))
           /\ request' = First(rbuf, Parsed(rbuf))
  <2> DEFINE f == First(rbuf, Parsed(rbuf))
             n == Len(parsed) + 1
  <2>1. f = Request(n) /\ f \in Seq(Cells) /\ HasHead(rbuf)
    BY <1>1, <1>3, NoFaults, NextRequest, CompleteRequest DEF Complete, RightMagic
  <2>2. n \in Queries /\ Len(parsed) \in Nat
    BY <1>1, <2>1, NoFaults, NextHead
  <2> HIDE DEF f
  <2>3. Len(parsed') = n /\ parsed' # <<>>
    <3>1. parsed' = Append(parsed, f) /\ parsed \in Seq(Seq(Cells))
      BY <1>3 DEF f, Types
    <3> HIDE DEF n
    <3>2. parsed' \in Seq(Seq(Cells)) /\ Len(parsed') = Len(parsed) + 1
      BY <2>1, <3>1, ParsedMore
    <3> QED
      BY <2>2, <3>2 DEF n
  <2>4. request' = Request(Len(parsed')) /\ Len(parsed') <= Len(RequestLens)
    BY <1>3, <2>1, <2>2, <2>3, QueryCount DEF f
  <2>5. ASSUME NEW r, WasParsed(r) PROVE WasParsed(r)'
    BY <2>2, <2>3, <2>5 DEF WasParsed
  <2> QED
    BY <1>1, <2>3, <2>4, <2>5 DEF Handed
<1>4. "calloc" \notin faults
  BY NoFaults
<1> QED
  BY <1>2, <1>3, <1>4, <1>1 DEF Parse, CloseConnection, Parsed

\* create_job appends the request to the queue of one worker.
LEMMA PostHanded == Types /\ Handed /\ Post => Handed'
<1> SUFFICES ASSUME Types, Handed, Post PROVE Handed'
  OBVIOUS
<1>0. /\ \A v \in Workers : \A k \in DOMAIN todo[v] :
            WasParsed(todo[v][k]) /\ runs[todo[v][k]] = 0
      /\ \A u, v \in Workers : \A j \in DOMAIN todo[u], k \in DOMAIN todo[v] :
            todo[u][j] = todo[v][k] => u = v /\ j = k
      /\ \A v \in Workers : working[v] # <<>> => WasParsed(working[v]) /\ runs[working[v]] = 1
      /\ \A u, v \in Workers : working[u] = working[v] /\ working[u] # <<>> => u = v
      /\ \A v \in Workers \ threads : todo[v] = <<>> /\ working[v] = <<>>
  BY DEF Handed
<1>1. PICK w \in threads : Pool!Accept(w, request)
  BY DEF Post
<1> DEFINE n == Len(todo[w])
<1>2. /\ UNCHANGED <<threads, parsed, working, runs>> /\ spc = "handle" /\ spc' = "parse"
      /\ w \in Workers /\ runs[request] = 0
      /\ todo' = [todo EXCEPT ![w] = Append(todo[w], request)]
      /\ \A v \in Workers : \A k \in DOMAIN todo[v] : todo[v][k] # request
  BY <1>1 DEF Post, setting, Pool!Accept, Pool!Waiting, Types
<1>3. parsed # <<>> /\ request = Request(Len(parsed)) /\ Len(parsed) <= Len(RequestLens)
      /\ todo \in [Workers -> Seq(Seq(Cells))]
  BY <1>2 DEF Handed
<1>4. Len(parsed) \in 1 .. Len(parsed) /\ WasParsed(request) /\ request \in Seq(Cells)
  <2>1. Len(parsed) \in 1 .. Len(parsed)
    BY <1>3 DEF Types
  <2>2. WasParsed(request)
    BY <1>3, <2>1 DEF WasParsed
  <2> QED
    BY <1>3, <2>1, <2>2, ParsedAreQueries
<1>5. todo[w] \in Seq(Seq(Cells)) /\ n \in Nat
  BY <1>2, <1>3
<1>6. /\ todo'[w] \in Seq(Seq(Cells)) /\ DOMAIN todo'[w] = 1 .. n + 1
      /\ \A k \in 1 .. n : todo'[w][k] = todo[w][k] /\ k \in DOMAIN todo[w]
      /\ todo'[w][n + 1] = request
  <2> DEFINE q == todo[w]
             t == Append(q, request)
  <2>1. q \in Seq(Seq(Cells)) /\ t = todo'[w]
    BY <1>2, <1>3, <1>5
  <2> HIDE DEF q
  <2>2. t \in Seq(Seq(Cells)) /\ DOMAIN t = 1 .. Len(q) + 1
        /\ (\A k \in 1 .. Len(q) : t[k] = q[k] /\ k \in DOMAIN q) /\ t[Len(q) + 1] = request
    <3>1. /\ t \in Seq(Seq(Cells)) /\ Len(t) = Len(q) + 1
          /\ \A k \in 1 .. Len(q) : t[k] = q[k]
          /\ t[Len(q) + 1] = request
      BY <1>4, <2>1, ParsedMore
    <3> HIDE DEF t
    <3> QED
      BY <2>1, <3>1
  <2> HIDE DEF t
  <2> QED
    BY <2>1, <2>2 DEF q
<1>7. \A v \in Workers : v # w => todo'[v] = todo[v]
  BY <1>2, <1>3
<1>8. todo' \in [Workers -> Seq(Seq(Cells))]
  BY <1>2, <1>3, <1>6
<1> HIDE DEF n
<1>9. ASSUME NEW v \in Workers, NEW k \in DOMAIN todo'[v]
      PROVE  \/ v = w /\ k = n + 1 /\ todo'[v][k] = request
             \/ k \in DOMAIN todo[v] /\ todo'[v][k] = todo[v][k]
  BY <1>2, <1>5, <1>6, <1>7 DEF n
<1>10. ASSUME NEW v \in Workers, NEW k \in DOMAIN todo'[v]
       PROVE  WasParsed(todo'[v][k]) /\ runs[todo'[v][k]] = 0
  BY <1>0, <1>2, <1>4, <1>9
<1>11. ASSUME NEW u \in Workers, NEW v \in Workers,
              NEW j \in DOMAIN todo'[u], NEW k \in DOMAIN todo'[v], todo'[u][j] = todo'[v][k]
       PROVE  u = v /\ j = k
  <2>1. CASE todo'[u][j] = request
    BY <1>2, <1>9, <1>11, <2>1
  <2>2. CASE todo'[u][j] # request
    <3>1. /\ j \in DOMAIN todo[u] /\ k \in DOMAIN todo[v]
          /\ todo[u][j] = todo[v][k]
      BY <1>9, <1>11, <2>2
    <3> QED
      BY <1>0, <3>1
  <2> QED
    BY <2>1, <2>2
<1>12. /\ Len(parsed) <= Len(RequestLens) /\ working \in [Workers -> Seq(Cells)]
       /\ runs \in [{Request(m) : m \in Queries} -> {0, 1}]
  BY DEF Handed
<1>13. \A v \in Workers \ threads : todo'[v] = <<>> /\ working[v] = <<>>
  BY <1>0, <1>1, <1>7
<1>14. /\ (\A v \in Workers : \A k \in DOMAIN todo[v] :
              WasParsed(todo[v][k]) /\ runs[todo[v][k]] = 0)'
       /\ (\A v \in Workers : working[v] # <<>> => WasParsed(working[v]) /\ runs[working[v]] = 1)'
  BY <1>0, <1>2, <1>10 DEF WasParsed
<1> QED
  <2>1. /\ (Len(parsed) <= Len(RequestLens))'
        /\ (spc = "handle" => parsed # <<>> /\ request = Request(Len(parsed)))'
    BY <1>2, <1>12
  <2>2. /\ (todo \in [Workers -> Seq(Seq(Cells))] /\ working \in [Workers -> Seq(Cells)])'
        /\ (runs \in [{Request(m) : m \in Queries} -> {0, 1}])'
    BY <1>2, <1>8, <1>12
  <2>3. (\A v \in Workers \ threads : todo[v] = <<>> /\ working[v] = <<>>)'
    BY <1>2, <1>13
  <2>4. (\A u, v \in Workers : \A j \in DOMAIN todo[u], k \in DOMAIN todo[v] :
            todo[u][j] = todo[v][k] => u = v /\ j = k)'
    BY <1>11
  <2>5. (\A u, v \in Workers : working[u] = working[v] /\ working[u] # <<>> => u = v)'
    BY <1>0, <1>2
  <2> QED
    BY <2>1, <2>2, <2>3, <2>4, <2>5, <1>14 DEF Handed

\* A worker takes the oldest request of its queue.
LEMMA StartHanded ==
    ASSUME Types, Handed, NEW w \in Workers, StartJob(w)
    PROVE  /\ Handed'
           /\ \E a : /\ WasParsed(a) /\ runs[a] = 0
                     /\ runs' = [runs EXCEPT ![a] = 1]
                     /\ working' = [working EXCEPT ![w] = a]
                     /\ working[w] = <<>> /\ todo[w] # <<>> /\ a = todo[w][1]
                     /\ todo' = [todo EXCEPT ![w] = Tail(todo[w])]
<1> DEFINE a == Head(todo[w])
           n == Len(todo[w])
<1>0. /\ \A v \in Workers : \A k \in DOMAIN todo[v] :
            WasParsed(todo[v][k]) /\ runs[todo[v][k]] = 0
      /\ \A u, v \in Workers : \A j \in DOMAIN todo[u], k \in DOMAIN todo[v] :
            todo[u][j] = todo[v][k] => u = v /\ j = k
      /\ \A v \in Workers : working[v] # <<>> => WasParsed(working[v]) /\ runs[working[v]] = 1
      /\ \A u, v \in Workers : working[u] = working[v] /\ working[u] # <<>> => u = v
      /\ \A v \in Workers \ threads : todo[v] = <<>> /\ working[v] = <<>>
  BY DEF Handed
<1>1. /\ UNCHANGED <<threads, parsed, request, spc>>
      /\ todo[w] # <<>> /\ working[w] = <<>>
      /\ runs' = [runs EXCEPT ![a] = runs[a] + 1]
      /\ todo' = [todo EXCEPT ![w] = Tail(todo[w])]
      /\ working' = [working EXCEPT ![w] = a]
  BY DEF StartJob, setting, Pool!Run
<1>2. /\ todo \in [Workers -> Seq(Seq(Cells))] /\ todo[w] \in Seq(Seq(Cells))
      /\ working \in [Workers -> Seq(Cells)] /\ Len(parsed) <= Len(RequestLens)
      /\ runs \in [{Request(m) : m \in Queries} -> {0, 1}]
  BY DEF Handed
<1>3. n \in Nat /\ n >= 1 /\ 1 \in DOMAIN todo[w] /\ a = todo[w][1]
  BY <1>1, <1>2
<1>4. WasParsed(a) /\ runs[a] = 0
  BY <1>0, <1>3
<1>5. a \in Seq(Cells) /\ a # <<>> /\ a \in {Request(m) : m \in Queries}
  <2> HIDE DEF a
  <2> QED
    BY <1>2, <1>4, ParsedAreQueries
<1>6. /\ todo'[w] \in Seq(Seq(Cells)) /\ DOMAIN todo'[w] = 1 .. n - 1
      /\ \A k \in 1 .. n - 1 : todo'[w][k] = todo[w][k + 1] /\ k + 1 \in DOMAIN todo[w]
  <2> DEFINE q == todo[w]
             t == Tail(q)
  <2>1. q \in Seq(Seq(Cells)) /\ q # <<>> /\ t = todo'[w]
    BY <1>1, <1>2
  <2> HIDE DEF q
  <2>2. t \in Seq(Seq(Cells)) /\ DOMAIN t = 1 .. Len(q) - 1
        /\ (\A k \in 1 .. Len(q) - 1 : t[k] = q[k + 1] /\ k + 1 \in DOMAIN q)
    BY <2>1
  <2> HIDE DEF t
  <2> QED
    BY <2>1, <2>2 DEF q
<1> HIDE DEF a, n
<1>7. \A v \in Workers : v # w => todo'[v] = todo[v] /\ working'[v] = working[v]
  BY <1>1, <1>2
<1>8. working'[w] = a
  BY <1>1, <1>2
<1>9. /\ todo' \in [Workers -> Seq(Seq(Cells))] /\ working' \in [Workers -> Seq(Cells)]
      /\ runs' = [runs EXCEPT ![a] = 1]
  BY <1>1, <1>2, <1>4, <1>5, <1>6
<1>10. /\ runs' \in [{Request(m) : m \in Queries} -> {0, 1}] /\ runs'[a] = 1
       /\ \A r : r # a => runs'[r] = runs[r]
  BY <1>2, <1>5, <1>9
<1>11. ASSUME NEW v \in Workers, NEW k \in DOMAIN todo'[v]
       PROVE  \E i \in DOMAIN todo[v] :
                /\ todo'[v][k] = todo[v][i]
                /\ IF v = w THEN i = k + 1 ELSE i = k
                /\ v = w => i # 1
  BY <1>3, <1>6, <1>7
<1>12. ASSUME NEW v \in Workers, NEW k \in DOMAIN todo'[v]
       PROVE  WasParsed(todo'[v][k]) /\ runs'[todo'[v][k]] = 0
  <2>1. PICK i \in DOMAIN todo[v] : todo'[v][k] = todo[v][i] /\ (v = w => i # 1)
    BY <1>11
  <2>2. todo[v][i] # a
    BY <1>0, <1>3, <2>1
  <2> QED
    BY <1>0, <1>10, <2>1, <2>2
<1>13. ASSUME NEW u \in Workers, NEW v \in Workers,
              NEW j \in DOMAIN todo'[u], NEW k \in DOMAIN todo'[v], todo'[u][j] = todo'[v][k]
       PROVE  u = v /\ j = k
  <2>1. PICK i \in DOMAIN todo[u] :
            todo'[u][j] = todo[u][i] /\ IF u = w THEN i = j + 1 ELSE i = j
    BY <1>11
  <2>2. PICK h \in DOMAIN todo[v] :
            todo'[v][k] = todo[v][h] /\ IF v = w THEN h = k + 1 ELSE h = k
    BY <1>11
  <2>3. u = v /\ i = h
    <3>1. todo[u][i] = todo[v][h]
      BY <1>13, <2>1, <2>2
    <3> QED
      BY <1>0, <2>1, <2>2, <3>1
  <2>4. u = w => j \in Nat /\ k \in Nat
    BY <1>6, <2>3
  <2> QED
    BY <2>1, <2>2, <2>3, <2>4
<1>14. ASSUME NEW v \in Workers, working'[v] # <<>>
       PROVE  WasParsed(working'[v]) /\ runs'[working'[v]] = 1
              /\ (v # w => working'[v] # a)
  BY <1>0, <1>4, <1>7, <1>8, <1>10, <1>14
<1>15. ASSUME NEW u \in Workers, NEW v \in Workers, working'[u] = working'[v], working'[u] # <<>>
       PROVE  u = v
  BY <1>0, <1>7, <1>8, <1>14, <1>15
<1>16. w \in threads
  BY <1>0, <1>1
<1>17. \A v \in Workers \ threads : todo'[v] = <<>> /\ working'[v] = <<>>
  BY <1>0, <1>7, <1>16
<1>18. /\ (\A v \in Workers : \A k \in DOMAIN todo[v] :
              WasParsed(todo[v][k]) /\ runs[todo[v][k]] = 0)'
       /\ (\A v \in Workers : working[v] # <<>> => WasParsed(working[v]) /\ runs[working[v]] = 1)'
  BY <1>1, <1>12, <1>14 DEF WasParsed
<1>19. spc = "handle" => parsed # <<>> /\ request = Request(Len(parsed))
  BY DEF Handed
<1>20. Handed'
  <2>1. /\ (Len(parsed) <= Len(RequestLens))'
        /\ (spc = "handle" => parsed # <<>> /\ request = Request(Len(parsed)))'
    BY <1>1, <1>2, <1>19
  <2>2. /\ (todo \in [Workers -> Seq(Seq(Cells))] /\ working \in [Workers -> Seq(Cells)])'
        /\ (runs \in [{Request(m) : m \in Queries} -> {0, 1}])'
    BY <1>9, <1>10
  <2>3. (\A v \in Workers \ threads : todo[v] = <<>> /\ working[v] = <<>>)'
    BY <1>1, <1>17
  <2>4. (\A u, v \in Workers : \A j \in DOMAIN todo[u], k \in DOMAIN todo[v] :
            todo[u][j] = todo[v][k] => u = v /\ j = k)'
    BY <1>13
  <2>5. (\A u, v \in Workers : working[u] = working[v] /\ working[u] # <<>> => u = v)'
    BY <1>15
  <2> QED
    BY <2>1, <2>2, <2>3, <2>4, <2>5, <1>18 DEF Handed
<1> QED
  BY <1>1, <1>3, <1>4, <1>9, <1>20

\* A worker that has answered has nothing any more.
LEMMA GiveHanded ==
    ASSUME Types, Handed, NEW w \in Workers, GiveResponse(w)
    PROVE  /\ Handed' /\ UNCHANGED <<threads, parsed, spc, runs>>
           /\ working' = [working EXCEPT ![w] = <<>>] /\ working[w] # <<>>
<1>1. /\ UNCHANGED <<threads, parsed, request, spc, todo, runs>> /\ working[w] # <<>>
      /\ working' = [working EXCEPT ![w] = <<>>]
  BY DEF GiveResponse, setting
<1>2. working \in [Workers -> Seq(Cells)]
  BY DEF Handed
<1>3. /\ working' \in [Workers -> Seq(Cells)] /\ working'[w] = <<>>
      /\ \A v \in Workers : v # w => working'[v] = working[v]
  BY <1>1, <1>2
<1> QED
  BY <1>1, <1>3, SMTT(30) DEF Handed, WasParsed

\* The requests the server has were cut out of the stream.
LEMMA HandedStep == Types /\ Framed /\ Faultless /\ Handed /\ [Next]_vars => Handed'
<1> SUFFICES ASSUME Types, Framed, Faultless, Handed, [Next]_vars PROVE Handed'
  OBVIOUS
<1> USE DEF setting, serverVars, clientVars, poolVars
<1>1. CASE Parse
  BY <1>1, ParseHanded
<1>2. CASE Post
  BY <1>2, PostHanded
<1>3. ASSUME NEW w \in Workers, WorkerStep(w) PROVE Handed'
  BY <1>3, StartHanded, GiveHanded DEF WorkerStep
<1>4. CASE Handle
  <2>1. /\ UNCHANGED <<threads, parsed, todo, working, runs>> /\ spc' # "handle"
    BY <1>4 DEF Handle, CloseConnection
  <2> QED
    BY <2>1 DEF Handed, WasParsed
<1>5. CASE Dispatch \/ Grow \/ ReadSome \/ ReadAgain \/ ReadEnd
  <2>1. UNCHANGED <<threads, parsed, request, todo, working, runs>> /\ (spc' = "handle" => spc = "handle")
    BY <1>5 DEF Dispatch, Grow, ReadSome, ReadAgain, ReadEnd, CloseConnection
  <2> QED
    BY <2>1, HandedSame
<1>6. CASE ClientStep \/ SendRequest \/ Quit \/ UNCHANGED vars
  <2>1. UNCHANGED <<threads, parsed, request, todo, working, runs, spc>>
    BY <1>6 DEF ClientStep, RecvResponse, RecvHead, RecvBody, SendRequest, Quit, vars
  <2> QED
    BY <2>1, HandedSame
<1> QED
  BY <1>1, <1>2, <1>3, <1>4, <1>5, <1>6 DEF Next, ServerStep

-----------------------------------------------------------------------------
(* The stream of answers *)

\* An answer has at least its head.
LEMMA AnswerFacts ==
    ASSUME NEW m \in Queries
    PROVE  /\ AnswerLens[m] \in Nat /\ AnswerSize(m) \in Nat /\ AnswerSize(m) >= 2
           /\ AnswerSize(m) = 2 + AnswerLens[m] /\ m \in Nat \ {0}
           /\ Answer(m) \in Seq(AnswerCells) /\ Len(Answer(m)) = AnswerSize(m)
           /\ \A i \in 1 .. AnswerSize(m) : Answer(m)[i] = <<m, i>>
<1>1. AnswerLens \in Seq(Nat) /\ m \in 1 .. Len(AnswerLens)
  BY WireAssumption DEF Queries
<1>2. AnswerLens[m] \in Nat /\ m \in Nat \ {0}
  BY <1>1, QueryCount
<1>3. AnswerSize(m) \in Nat /\ AnswerSize(m) >= 2 /\ AnswerSize(m) = 2 + AnswerLens[m]
      /\ AnswerSize(m) = HeadLen + AnswerLens[m]
  BY <1>2 DEF AnswerSize, HeadLen
<1>4. Len(Answer(m)) = AnswerSize(m) /\ \A i \in 1 .. AnswerSize(m) : Answer(m)[i] = <<m, i>>
  BY <1>2, <1>3, MessageFacts DEF Answer
<1>5. \A i \in 1 .. HeadLen + AnswerLens[m] : <<m, i>> \in AnswerCells
  BY <1>2, <1>3 DEF AnswerCells
<1>6. Answer(m) \in Seq(AnswerCells)
  BY <1>2, <1>5, MessageFacts DEF Answer
<1> QED
  BY <1>2, <1>3, <1>4, <1>6

\* Answers tell which query they answer.
LEMMA AnswersDiffer ==
    /\ \A m \in Queries : Answer(m) # <<>> /\ Answer(m)[1] = <<m, 1>>
    /\ \A m, n \in Queries : Answer(m) = Answer(n) => m = n
<1>1. ASSUME NEW m \in Queries PROVE Answer(m) # <<>> /\ Answer(m)[1] = <<m, 1>>
  <2> DEFINE r == Answer(m)
             k == AnswerSize(m)
  <2>1. r \in Seq(AnswerCells) /\ Len(r) = k /\ k \in Nat /\ k >= 2 /\ \A i \in 1 .. k : r[i] = <<m, i>>
    BY AnswerFacts
  <2> HIDE DEF r, k
  <2>2. r # <<>> /\ r[1] = <<m, 1>>
    BY <2>1
  <2> QED
    BY <2>2 DEF r
<1> QED
  BY <1>1

\* The cells of answers carry their query and their place.
LEMMA CellFacts ==
    ASSUME NEW s \in Seq(AnswerCells), NEW i \in DOMAIN s
    PROVE  /\ s[i][1] \in Queries /\ s[i][2] \in Nat \ {0} /\ s[i][2] <= AnswerSize(s[i][1])
           /\ s[i] = <<s[i][1], s[i][2]>> /\ i \in 1 .. Len(s)
<1>1. s[i] \in AnswerCells /\ i \in 1 .. Len(s)
  OBVIOUS
<1> QED
  BY <1>1 DEF AnswerCells

\* What is said to a request that arrived whole is its answer.
LEMMA AnswerToRequest ==
    ASSUME NEW m \in Queries
    PROVE  AnswerTo(Request(m)) = Answer(m)
BY RequestsDiffer DEF AnswerTo, Answer

\* Without its first cells the stream of answers is still in order.
LEMMA WholeBeyond ==
    ASSUME NEW s, Whole(s), NEW n \in 0 .. Len(s)
    PROVE  /\ Whole(Beyond(s, n))
           /\ \A i \in 1 .. Len(s) - n : Beyond(s, n)[i] = s[n + i]
           /\ Beyond(s, n) \in Seq(AnswerCells) /\ Len(Beyond(s, n)) = Len(s) - n
<1> DEFINE b == Beyond(s, n)
<1>1. s \in Seq(AnswerCells) /\ Len(s) \in Nat /\ n \in Nat /\ n <= Len(s)
  BY DEF Whole
<1>2. b \in Seq(AnswerCells) /\ Len(b) = Len(s) - n /\ \A i \in 1 .. Len(s) - n : b[i] = s[n + i]
  BY <1>1, Cut
<1> HIDE DEF b
<1>3. ASSUME b # <<>> PROVE b[Len(b)][2] = AnswerSize(b[Len(b)][1])
  <2>1. Len(b) \in 1 .. Len(s) - n /\ n + Len(b) = Len(s) /\ s # <<>>
    BY <1>1, <1>2, <1>3
  <2>2. b[Len(b)] = s[Len(s)]
    BY <1>2, <2>1
  <2> QED
    BY <2>1, <2>2 DEF Whole
<1>4. ASSUME NEW i \in 1 .. Len(b) - 1
      PROVE  IF b[i][2] < AnswerSize(b[i][1])
             THEN b[i + 1] = <<b[i][1], b[i][2] + 1>>
             ELSE b[i + 1][2] = 1
  <2>1. n + i \in 1 .. Len(s) - 1 /\ i \in 1 .. Len(s) - n /\ i + 1 \in 1 .. Len(s) - n
        /\ n + (i + 1) = (n + i) + 1
    BY <1>1, <1>2
  <2>2. b[i] = s[n + i] /\ b[i + 1] = s[(n + i) + 1]
    <3>1. b[i] = s[n + i]
      BY <1>2, <2>1
    <3>2. b[i + 1] = s[n + (i + 1)]
      BY <1>2, <2>1
    <3> QED
      BY <2>1, <3>1, <3>2
  <2>3. IF s[n + i][2] < AnswerSize(s[n + i][1])
        THEN s[(n + i) + 1] = <<s[n + i][1], s[n + i][2] + 1>>
        ELSE s[(n + i) + 1][2] = 1
    BY <2>1 DEF Whole
  <2> QED
    BY <2>2, <2>3
<1>5. ASSUME NEW i \in DOMAIN b, NEW j \in DOMAIN b, b[i] = b[j] PROVE i = j
  <2>1. /\ i \in 1 .. Len(s) - n /\ j \in 1 .. Len(s) - n
        /\ n + i \in DOMAIN s /\ n + j \in DOMAIN s
    BY <1>1, <1>2
  <2>2. s[n + i] = s[n + j]
    BY <1>2, <1>5, <2>1
  <2>3. n + i = n + j
    BY <2>1, <2>2 DEF Whole
  <2> QED
    BY <1>1, <2>1, <2>3
<1>6. Whole(b)
  BY <1>2, <1>3, <1>4, <1>5 DEF Whole
<1> QED
  BY <1>2, <1>6 DEF b

\* From a cell of an answer on the stream holds the rest of it.
LEMMA WholeFlow ==
    ASSUME NEW s, Whole(s), s # <<>>, NEW m \in Queries, NEW k \in Nat, s[1] = <<m, k>>,
           k <= AnswerSize(m)
    PROVE  /\ Len(s) \in Nat /\ AnswerSize(m) - k + 1 <= Len(s)
           /\ \A i \in 1 .. AnswerSize(m) - k + 1 : s[i] = <<m, i + k - 1>>
<1> DEFINE n == AnswerSize(m)
           Bad == {i \in 1 .. Len(s) : i + k - 1 <= n /\ s[i] # <<m, i + k - 1>>}
<1>1. n \in Nat /\ s \in Seq(AnswerCells) /\ Len(s) \in Nat /\ Len(s) # 0
  BY AnswerFacts DEF Whole
<1>2. Bad = {}
  <2> SUFFICES ASSUME Bad # {} PROVE FALSE
    OBVIOUS
  <2>1. PICK i \in Bad : \A j \in Bad : i <= j
    <3>1. Bad \in SUBSET Nat
      BY <1>1
    <3> HIDE DEF Bad
    <3> QED
      BY <3>1, Least
  <2>2. i # 1
    BY <1>1, <2>1
  <2>3. i - 1 \in 1 .. Len(s) - 1 /\ i - 1 \in 1 .. Len(s) /\ (i - 1) + k - 1 < n /\ (i - 1) + 1 = i
    BY <1>1, <2>1, <2>2
  <2>4. s[i - 1] = <<m, (i - 1) + k - 1>>
    <3>1. i - 1 \notin Bad
      BY <1>1, <2>1, <2>3
    <3>2. (i - 1) + k - 1 <= n
      BY <1>1, <2>3
    <3> QED
      BY <2>3, <3>1, <3>2
  <2>5. IF s[i - 1][2] < AnswerSize(s[i - 1][1])
        THEN s[(i - 1) + 1] = <<s[i - 1][1], s[i - 1][2] + 1>>
        ELSE s[(i - 1) + 1][2] = 1
    BY <2>3 DEF Whole
  <2>6. s[i] = <<m, ((i - 1) + k - 1) + 1>>
    BY <2>3, <2>4, <2>5
  <2> QED
    BY <1>1, <2>1, <2>6
<1>3. n - k + 1 <= Len(s)
  <2> SUFFICES ASSUME ~ (n - k + 1 <= Len(s)) PROVE FALSE
    OBVIOUS
  <2>1. Len(s) \in 1 .. Len(s) /\ Len(s) + k - 1 < n
    BY <1>1
  <2>2. s[Len(s)] = <<m, Len(s) + k - 1>>
    BY <1>1, <1>2, <2>1
  <2>3. s[Len(s)][2] = AnswerSize(s[Len(s)][1])
    BY DEF Whole
  <2> QED
    BY <1>1, <2>1, <2>2, <2>3
<1>4. ASSUME NEW i \in 1 .. n - k + 1 PROVE s[i] = <<m, i + k - 1>>
  <2>1. i \in 1 .. Len(s) /\ i + k - 1 <= n
    BY <1>1, <1>3
  <2> QED
    BY <1>2, <2>1
<1> QED
  BY <1>1, <1>3, <1>4

\* An answer is written behind the whole answers, once.
LEMMA WholeAppend ==
    ASSUME NEW s, Whole(s), NEW m \in Queries, \A i \in DOMAIN s : s[i][1] # m
    PROVE  /\ Whole(s \o Answer(m)) /\ Len(s \o Answer(m)) = Len(s) + AnswerSize(m)
           /\ \A i \in 1 .. Len(s) + AnswerSize(m) :
                (s \o Answer(m))[i] = IF i <= Len(s) THEN s[i] ELSE <<m, i - Len(s)>>
<1> DEFINE a == Answer(m)
           n == AnswerSize(m)
           t == s \o a
<1>1. /\ a \in Seq(AnswerCells) /\ Len(a) = n /\ n \in Nat /\ n >= 2
      /\ \A i \in 1 .. n : a[i] = <<m, i>>
      /\ s \in Seq(AnswerCells) /\ Len(s) \in Nat
  BY AnswerFacts DEF Whole
<1> HIDE DEF a, n
<1>2. /\ t \in Seq(AnswerCells) /\ Len(t) = Len(s) + n
      /\ \A i \in 1 .. Len(s) + n : t[i] = IF i <= Len(s) THEN s[i] ELSE <<m, i - Len(s)>>
  <2>1. /\ t \in Seq(AnswerCells) /\ Len(t) = Len(s) + n
        /\ \A i \in 1 .. Len(s) + n : t[i] = IF i <= Len(s) THEN s[i] ELSE a[i - Len(s)]
    BY <1>1, Joining
  <2>2. ASSUME NEW i \in 1 .. Len(s) + n, ~ (i <= Len(s)) PROVE a[i - Len(s)] = <<m, i - Len(s)>>
    <3>1. i - Len(s) \in 1 .. n
      BY <1>1, <2>2
    <3> QED
      BY <1>1, <3>1
  <2> HIDE DEF t
  <2> QED
    BY <2>1, <2>2
<1> HIDE DEF t
<1>3. t # <<>> /\ t[Len(t)] = <<m, n>>
  BY <1>1, <1>2
<1>4. ASSUME NEW i \in 1 .. Len(t) - 1
      PROVE  IF t[i][2] < AnswerSize(t[i][1])
             THEN t[i + 1] = <<t[i][1], t[i][2] + 1>>
             ELSE t[i + 1][2] = 1
  <2>1. CASE i < Len(s)
    <3>1. i \in 1 .. Len(s) - 1 /\ t[i] = s[i] /\ t[i + 1] = s[i + 1]
      BY <1>1, <1>2, <2>1
    <3>2. IF s[i][2] < AnswerSize(s[i][1])
          THEN s[i + 1] = <<s[i][1], s[i][2] + 1>>
          ELSE s[i + 1][2] = 1
      BY <3>1 DEF Whole
    <3> QED
      BY <3>1, <3>2
  <2>2. CASE i = Len(s)
    <3>1. s # <<>> /\ t[i] = s[Len(s)] /\ t[i + 1] = <<m, 1>> /\ Len(s) \in DOMAIN s
      <4>1. Len(s) \in 1 .. Len(s) /\ i \in 1 .. Len(s) + n /\ i + 1 \in 1 .. Len(s) + n
            /\ ~ (i + 1 <= Len(s)) /\ (i + 1) - Len(s) = 1
        BY <1>1, <1>2, <2>2
      <4>2. t[i] = s[i] /\ t[i + 1] = <<m, (i + 1) - Len(s)>>
        BY <1>2, <2>2, <4>1
      <4> QED
        BY <1>1, <2>2, <4>1, <4>2
    <3>2. s[Len(s)][2] = AnswerSize(s[Len(s)][1])
      BY <3>1 DEF Whole
    <3>3. ~ (s[Len(s)][2] < AnswerSize(s[Len(s)][1]))
      <4>1. s[Len(s)][2] \in Nat
        BY <1>1, <3>1, CellFacts
      <4> QED
        BY <3>2, <4>1
    <3> QED
      BY <3>1, <3>3
  <2>3. CASE i > Len(s)
    <3>1. t[i] = <<m, i - Len(s)>> /\ t[i + 1] = <<m, (i - Len(s)) + 1>> /\ i - Len(s) < n
      BY <1>1, <1>2, <2>3
    <3> QED
      BY <3>1 DEF n
  <2> QED
    BY <1>1, <2>1, <2>2, <2>3
<1>5. ASSUME NEW i \in DOMAIN t, NEW j \in DOMAIN t, t[i] = t[j] PROVE i = j
  <2>1. i \in 1 .. Len(s) + n /\ j \in 1 .. Len(s) + n
    BY <1>1, <1>2
  <2>2. /\ i <= Len(s) => i \in DOMAIN s /\ t[i] = s[i]
        /\ j <= Len(s) => j \in DOMAIN s /\ t[j] = s[j]
        /\ ~ (i <= Len(s)) => t[i] = <<m, i - Len(s)>>
        /\ ~ (j <= Len(s)) => t[j] = <<m, j - Len(s)>>
    BY <1>1, <1>2, <2>1
  <2>3. CASE i <= Len(s) /\ j <= Len(s)
    BY <1>5, <2>2, <2>3 DEF Whole
  <2>4. CASE i <= Len(s) /\ ~ (j <= Len(s))
    BY <1>5, <2>2, <2>4
  <2>5. CASE ~ (i <= Len(s)) /\ j <= Len(s)
    BY <1>5, <2>2, <2>5
  <2>6. CASE ~ (i <= Len(s)) /\ ~ (j <= Len(s))
    <3>1. i - Len(s) = j - Len(s)
      BY <1>5, <2>2, <2>6
    <3> QED
      BY <1>1, <2>1, <3>1
  <2> QED
    BY <2>3, <2>4, <2>5, <2>6
<1>6. t[Len(t)][2] = AnswerSize(t[Len(t)][1])
  BY <1>3 DEF n
<1>7. Whole(t)
  BY <1>2, <1>4, <1>5, <1>6 DEF Whole
<1> QED
  BY <1>2, <1>7 DEF t, a, n

-----------------------------------------------------------------------------
(* Answers are written once and taken once *)

\* Only Parse cuts requests out of the stream, and it leaves handle_cmd the
\* last of them.
LEMMA ParsedGrows ==
    ASSUME Types, Framed, Faultless, [Next]_vars
    PROVE  /\ Len(parsed) \in Nat
           /\ \/ parsed' = parsed /\ (spc' = "handle" => spc = "handle")
              \/ Len(parsed') = Len(parsed) + 1 /\ Parse
<1> USE DEF setting, serverVars, clientVars, poolVars
<1>1. Len(parsed) \in Nat
  BY DEF Types
<1>2. CASE Parse
  <2>1. CASE Complete(rbuf) /\ parsed' = Append(parsed, First(rbuf, Parsed(rbuf)))
    BY <1>1, <1>2, <2>1, CompleteRequest, ParsedMore DEF Types
  <2>2. CASE parsed' = parsed /\ spc' # "handle"
    BY <1>1, <2>2
  <2> QED
    BY <1>2, <2>1, <2>2 DEF Parse, CloseConnection
<1>3. CASE ~ Parse
  <2>1. parsed' = parsed /\ (spc' = "handle" => spc = "handle")
    BY <1>3 DEF Next, ServerStep, Dispatch, Grow, ReadSome, ReadAgain, ReadEnd, Handle, Post,
         WorkerStep, StartJob, GiveResponse, ClientStep, RecvResponse, RecvHead, RecvBody,
         SendRequest, Quit, vars, CloseConnection
  <2> QED
    BY <1>1, <2>1
<1> QED
  BY <1>2, <1>3

\* What the workers have only changes when they start or answer.
LEMMA WorkersSame ==
    [Next]_vars => \/ UNCHANGED <<working, runs>>
                   \/ \E w \in Workers : StartJob(w) \/ GiveResponse(w)
BY DEF Next, ServerStep, Dispatch, Grow, ReadSome, ReadAgain, ReadEnd, Parse, Handle, Post,
       WorkerStep, ClientStep, RecvResponse, RecvHead, RecvBody, SendRequest, Quit, vars,
       serverVars, poolVars, Pool!Accept

\* Without threads the queues are empty and nobody works.
LEMMA NoThreads ==
    ASSUME Handed, threads = {}
    PROVE  \A w \in Workers : ~ StartJob(w) /\ ~ GiveResponse(w)
BY DEF Handed, StartJob, GiveResponse, Pool!Run

\* An answer that was written stays written.
LEMMA DoneStays ==
    ASSUME Types, Framed, Faultless, Handed, [Next]_vars, NEW m \in Queries, Done(m)
    PROVE  Done(m)'
<1>1. threads' = threads /\ m \in Nat /\ m <= Len(parsed) /\ Len(parsed) \in Nat
  BY SameFaults, ParsedGrows, RequestFacts DEF Done
<1>2. m <= Len(parsed')
  BY <1>1, ParsedGrows
<1>3. CASE threads = {}
  <2>1. spc' = "handle" => m # Len(parsed')
    BY <1>1, <1>3, ParsedGrows DEF Done
  <2> QED
    BY <1>1, <1>2, <1>3, <2>1 DEF Done
<1>4. CASE threads # {}
  <2>1. runs[Request(m)] = 1 /\ \A v \in Workers : working[v] # Request(m)
    BY <1>4 DEF Done, InWork
  <2>2. runs'[Request(m)] = 1 /\ \A v \in Workers : working'[v] # Request(m)
    <3>1. CASE UNCHANGED <<working, runs>>
      BY <2>1, <3>1
    <3>2. ASSUME NEW w \in Workers, StartJob(w)
          PROVE  runs'[Request(m)] = 1 /\ \A v \in Workers : working'[v] # Request(m)
      <4>1. PICK a : /\ runs[a] = 0 /\ runs' = [runs EXCEPT ![a] = 1]
                     /\ working' = [working EXCEPT ![w] = a]
        BY <3>2, StartHanded
      <4>2. a # Request(m)
        BY <2>1, <4>1
      <4>3. working \in [Workers -> Seq(Cells)] /\ runs \in [{Request(k) : k \in Queries} -> {0, 1}]
        BY DEF Handed
      <4> QED
        BY <2>1, <4>1, <4>2, <4>3
    <3>3. ASSUME NEW w \in Workers, GiveResponse(w)
          PROVE  runs'[Request(m)] = 1 /\ \A v \in Workers : working'[v] # Request(m)
      <4>1. runs' = runs /\ working' = [working EXCEPT ![w] = <<>>]
            /\ working \in [Workers -> Seq(Cells)]
        BY <3>3, GiveHanded DEF Handed
      <4>2. Request(m) # <<>>
        BY RequestsDiffer
      <4> QED
        BY <2>1, <4>1, <4>2
    <3> QED
      BY <3>1, <3>2, <3>3, WorkersSame
  <2>3. ~ InWork(m)'
    BY <2>2 DEF InWork
  <2> QED
    BY <1>1, <1>2, <1>4, <2>2, <2>3 DEF Done
<1> QED
  BY <1>3, <1>4

\* handle_cmd and give_response of the event loop write the answer to the last
\* request, unless memory runs out.
LEMMA HandleWrites ==
    ASSUME Types, Framed, Faultless, Handed, Handle
    PROVE  \E m \in Queries : /\ m = Len(parsed) /\ ~ Done(m) /\ Done(m)'
                              /\ down' = down \o Answer(m)
<1>1. /\ spc = "handle" /\ spc' = "parse" /\ threads = {} /\ threads' = threads /\ parsed' = parsed
      /\ \E cells \in Written(AnswerTo(request), "full") : down' = down \o cells
  BY NoFaults DEF Handle, NoRoom, setting
<1>2. PICK m \in Queries : m = Len(parsed) /\ request = Request(m) /\ m \in Nat
  <2>1. Len(parsed) \in Queries /\ Len(parsed) \in Nat
    BY <1>1, QueryCount DEF Handed, Types
  <2> QED
    BY <1>1, <2>1 DEF Handed
<1>3. AnswerTo(request) = Answer(m)
  BY <1>2, AnswerToRequest
<1>4. down' = down \o Answer(m)
  BY <1>1, <1>3, NoFaults DEF Written
<1>5. ~ Done(m) /\ Done(m)'
  BY <1>1, <1>2 DEF Done
<1> QED
  BY <1>2, <1>4, <1>5

\* A worker writes the answer to its request.
LEMMA GiveWrites ==
    ASSUME Types, Framed, Faultless, Handed, NEW w \in Workers, GiveResponse(w)
    PROVE  \E m \in Queries : /\ working[w] = Request(m) /\ ~ Done(m) /\ Done(m)'
                              /\ down' = down \o Answer(m) /\ m <= Len(parsed) /\ w \in threads
<1>1. /\ UNCHANGED <<threads, parsed, runs>> /\ working[w] # <<>>
      /\ working' = [working EXCEPT ![w] = <<>>]
      /\ working \in [Workers -> Seq(Cells)]
      /\ \E cells \in Written(AnswerTo(working[w]), "full") : down' = down \o cells
  BY GiveHanded, NoFaults DEF Handed, GiveResponse, NoRoom
<1>2. WasParsed(working[w]) /\ runs[working[w]] = 1 /\ w \in threads
      /\ \A v \in Workers : working[v] = working[w] => v = w
  BY <1>1 DEF Handed
<1>3. PICK m \in Queries : m <= Len(parsed) /\ working[w] = Request(m)
  BY <1>2, ParsedAreQueries DEF Handed
<1>4. AnswerTo(working[w]) = Answer(m)
  BY <1>3, AnswerToRequest
<1>5. down' = down \o Answer(m)
  BY <1>1, <1>4, NoFaults DEF Written
<1>6. ~ Done(m)
  BY <1>2, <1>3 DEF Done, InWork
<1>7. ASSUME NEW v \in Workers PROVE working'[v] # Request(m)
  <2>1. Request(m) # <<>>
    BY RequestsDiffer
  <2> QED
    BY <1>1, <1>2, <1>3, <2>1
<1>8. Done(m)'
  <2>1. ~ InWork(m)'
    BY <1>7 DEF InWork
  <2> QED
    BY <1>1, <1>2, <1>3, <2>1 DEF Done
<1> QED
  BY <1>2, <1>3, <1>5, <1>6, <1>8

\* An answer that is written now was not on its way, nor read, nor taken.
LEMMA DeliveredWrite ==
    ASSUME Whole(down), AtBody, Delivered, NEW m \in Queries, ~ Done(m), Done(m)',
           down' = down \o Answer(m), \A k \in Queries : Done(k) => Done(k)',
           UNCHANGED <<cpc, head, accepted>>
    PROVE  Whole(down)' /\ AtBody' /\ Delivered'
<1>0. down \in Seq(AnswerCells) /\ Len(down) \in Nat /\ AnswerSize(m) \in Nat
  BY AnswerFacts DEF Whole
<1>1. \A i \in DOMAIN down : down[i][1] # m
  BY DEF Delivered
<1>2. /\ Whole(down') /\ Len(down') = Len(down) + AnswerSize(m)
      /\ \A i \in 1 .. Len(down) + AnswerSize(m) :
            down'[i] = IF i <= Len(down) THEN down[i] ELSE <<m, i - Len(down)>>
  BY <1>1, WholeAppend
<1>3. DOMAIN down' = 1 .. Len(down) + AnswerSize(m)
  BY <1>2 DEF Whole
<1>4. ASSUME NEW i \in DOMAIN down'
      PROVE  \/ i \in DOMAIN down /\ down'[i] = down[i]
             \/ down'[i] = <<m, i - Len(down)>>
  <2>1. down'[i] = IF i <= Len(down) THEN down[i] ELSE <<m, i - Len(down)>>
    BY <1>2, <1>3
  <2>2. i <= Len(down) => i \in DOMAIN down
    BY <1>0, <1>3
  <2> QED
    BY <2>1, <2>2
<1>5. AtBody'
  <2>1. ASSUME down # <<>> PROVE down' # <<>> /\ down'[1] = down[1]
    <3>1. 1 \in 1 .. Len(down) /\ 1 \in 1 .. Len(down) + AnswerSize(m) /\ Len(down') # 0
      BY <1>0, <1>2, <2>1
    <3> QED
      BY <1>2, <3>1
  <2> QED
    BY <2>1 DEF AtBody, Reading
<1>6. ASSUME NEW i \in DOMAIN down'
      PROVE  \E k \in Queries : down'[i][1] = k /\ Done(k)'
  <2>1. CASE i \in DOMAIN down /\ down'[i] = down[i]
    <3>1. PICK k \in Queries : k = down[i][1] /\ Done(k)
      BY <1>0, <2>1, CellFacts DEF Delivered
    <3> QED
      BY <2>1, <3>1
  <2>2. CASE down'[i] = <<m, i - Len(down)>>
    BY <2>2
  <2> QED
    BY <1>4, <2>1, <2>2
<1>7. ASSUME NEW k \in Queries, k # m, <<k, 1>> \notin Range(down)
      PROVE  <<k, 1>> \notin Range(down')
  <2> SUFFICES ASSUME NEW i \in DOMAIN down', down'[i] = <<k, 1>> PROVE FALSE
    BY DEF Range
  <2>1. i \in DOMAIN down /\ down[i] = <<k, 1>>
    BY <1>4, <1>7
  <2> QED
    BY <1>7, <2>1 DEF Range
<1>8. \A k \in Queries : Reading(k)' => Reading(k) /\ Done(k) /\ k # m
  BY DEF Delivered, Reading
<1>9. \A k, q \in Queries : Took(q, k)' => Took(q, k) /\ Done(k) /\ k # m
  BY DEF Delivered, Took
<1>10. Delivered'
  <2>1. \A k \in Queries : Reading(k)' => Done(k)' /\ <<k, 1>> \notin Range(down')
    BY <1>7, <1>8 DEF Delivered
  <2>2. \A k, q \in Queries : Took(q, k)' =>
            /\ Done(k)' /\ ~ Reading(k)' /\ <<k, 1>> \notin Range(down')
            /\ \A o \in Queries : Took(o, k)' => o = q
    BY <1>7, <1>8, <1>9 DEF Delivered
  <2>3. ASSUME NEW i \in DOMAIN down' PROVE Done(down[i][1])'
    <3>1. PICK k \in Queries : down'[i][1] = k /\ Done(k)'
      BY <1>6
    <3> QED
      BY <3>1 DEF Done, InWork
  <2> QED
    BY <2>1, <2>2, <2>3 DEF Delivered
<1> QED
  BY <1>2, <1>5, <1>10

\* A step that writes nothing and takes nothing keeps where the answers are,
\* also one in which the server closes and what is under way gets lost.
LEMMA DeliveredSame ==
    ASSUME Whole(down), AtBody, Delivered, \A k \in Queries : Done(k) => Done(k)',
           down' = down \/ (down' = <<>> /\ cpc' # "body"),
           (cpc' = cpc /\ head' = head) \/ cpc' # "body", accepted' = accepted
    PROVE  Whole(down)' /\ AtBody' /\ Delivered'
<1>1. Whole(down)'
  <2>1. Whole(<<>>)
    BY DEF Whole
  <2> QED
    BY <2>1 DEF Whole
<1>2. AtBody'
  BY DEF AtBody, Reading
<1>3. \A i \in DOMAIN down' : i \in DOMAIN down /\ down'[i] = down[i]
  OBVIOUS
<1>4. ASSUME NEW i \in DOMAIN down' PROVE Done(down[i][1])'
  <2>1. PICK k \in Queries : down'[i][1] = k /\ Done(k)
    BY <1>3, CellFacts DEF Delivered, Whole
  <2>2. Done(k)'
    BY <2>1
  <2> QED
    BY <2>1, <2>2 DEF Done, InWork
<1>5. \A k \in Queries : <<k, 1>> \notin Range(down) => <<k, 1>> \notin Range(down')
  BY <1>3 DEF Range
<1>6. \A k \in Queries : Reading(k)' => Reading(k)
  BY DEF Reading
<1>7. \A k, q \in Queries : Took(q, k)' => Took(q, k)
  BY DEF Took
<1>8. Delivered'
  <2>1. \A k \in Queries : Reading(k)' => Done(k)' /\ <<k, 1>> \notin Range(down')
    BY <1>5, <1>6 DEF Delivered
  <2>2. \A k, q \in Queries : Took(q, k)' =>
            /\ Done(k)' /\ ~ Reading(k)' /\ <<k, 1>> \notin Range(down')
            /\ \A o \in Queries : Took(o, k)' => o = q
    BY <1>5, <1>6, <1>7 DEF Delivered
  <2> QED
    BY <1>4, <2>1, <2>2 DEF Delivered
<1> QED
  BY <1>1, <1>2, <1>8

\* What a read of the client takes is the front of what is under way.
LEMMA ArrivalFacts ==
    ASSUME Whole(down), NEW limit \in Nat, NEW cells \in Arrivals(limit)
    PROVE  \E n \in 0 .. Len(down) :
            /\ Len(cells) = n /\ n <= limit /\ \A i \in 1 .. n : cells[i] = down[i]
            /\ cells \in Seq(AnswerCells)
            /\ down # <<>> => cells # <<>>
            /\ "segments" \notin faults => n = AtMost(Len(down), limit)
<1>1. down \in Seq(AnswerCells) /\ Len(down) \in Nat
  BY DEF Whole
<1>2. CASE down = <<>> /\ cells = <<>>
  <2>1. Len(<<>>) = 0 /\ 0 \in 0 .. Len(down) /\ <<>> \in Seq(AnswerCells) /\ AtMost(0, limit) = 0
    BY <1>1 DEF AtMost
  <2> QED
    BY <1>2, <2>1
<1>3. CASE \E n \in Reads(down, limit) : cells = First(down, n)
  <2>1. PICK n \in Reads(down, limit) : cells = First(down, n)
    BY <1>3
  <2>2. n \in 1 .. Len(down) /\ n <= limit /\ n \in 0 .. Len(down)
    BY <1>1, <2>1, ReadsFit
  <2>3. /\ First(down, n) \in Seq(AnswerCells) /\ Len(First(down, n)) = n
        /\ \A i \in 1 .. n : First(down, n)[i] = down[i]
    BY <1>1, <2>2, Cut
  <2>4. cells # <<>>
    BY <2>1, <2>2, <2>3
  <2>5. "segments" \notin faults => n = AtMost(Len(down), limit)
    BY <2>1 DEF Reads
  <2> QED
    BY <2>1, <2>2, <2>3, <2>4, <2>5
<1> QED
  BY <1>2, <1>3 DEF Arrivals

\* A head with the right magic is that of an answer to a request the server
\* has cut out.
LEMMA HeadOfAnswer ==
    ASSUME Types, Framed, Faultless, Handed, Whole(down), Delivered,
           NEW cells \in Arrivals(HeadLen), RightMagic(cells)
    PROVE  \E m \in Queries :
            /\ cells = <<<<m, 1>>, <<m, 2>>>> /\ Len(cells) = 2 /\ 2 \in 0 .. Len(down)
            /\ down[1] = <<m, 1>> /\ down # <<>>
            /\ Done(m) /\ LengthOfAnswer(cells) = AnswerLens[m]
<1>1. PICK n \in 0 .. Len(down) : /\ Len(cells) = n /\ n <= HeadLen
                                  /\ \A i \in 1 .. n : cells[i] = down[i]
                                  /\ cells \in Seq(AnswerCells)
  <2>1. HeadLen \in Nat
    BY DEF HeadLen
  <2> QED
    BY <2>1, ArrivalFacts
<1>2. down \in Seq(AnswerCells) /\ Len(down) \in Nat
  BY DEF Whole
<1>3. n = 2 /\ 2 \in 0 .. Len(down) /\ down # <<>> /\ 1 \in DOMAIN down /\ 2 \in DOMAIN down
  BY <1>1, <1>2 DEF RightMagic, HasHead, HeadLen
<1>4. cells[1] = down[1] /\ cells[2] = down[2] /\ cells[1][2] = 1
  BY <1>1, <1>3 DEF RightMagic
<1>5. PICK m \in Queries : down[1] = <<m, 1>> /\ Done(m)
  BY <1>2, <1>3, <1>4, CellFacts DEF Delivered
<1>6. down[2] = <<m, 2>>
  <2>1. AnswerSize(m) \in Nat /\ AnswerSize(m) >= 2 /\ 1 \in Nat /\ 1 <= AnswerSize(m)
    BY AnswerFacts
  <2>2. \A i \in 1 .. AnswerSize(m) - 1 + 1 : down[i] = <<m, i + 1 - 1>>
    BY <1>3, <1>5, <2>1, WholeFlow
  <2>3. 2 \in 1 .. AnswerSize(m) - 1 + 1 /\ 2 + 1 - 1 = 2
    BY <2>1
  <2> QED
    BY <2>2, <2>3
<1>7. cells = <<<<m, 1>>, <<m, 2>>>>
  BY <1>1, <1>3, <1>4, <1>5, <1>6
<1>8. Request(m) \in Range(parsed)
  <2>1. m \in 1 .. Len(parsed)
    BY <1>5, RequestFacts DEF Done, Types
  <2>2. parsed[m] = Request(m) /\ m \in DOMAIN parsed
    BY <2>1, NoFaults DEF Framed, Types
  <2> QED
    BY <2>2 DEF Range
<1>9. LengthOfAnswer(cells) = AnswerLens[m]
  BY <1>4, <1>6, <1>8 DEF LengthOfAnswer, HeadLen
<1> QED
  BY <1>1, <1>3, <1>5, <1>7, <1>9

\* What the client leaves under way is behind what it has read.
LEMMA TakenFront ==
    ASSUME Whole(down), NEW n \in 0 .. Len(down), down' = Beyond(down, n)
    PROVE  /\ Whole(down)' /\ Len(down') = Len(down) - n
           /\ \A i \in DOMAIN down' : n + i \in DOMAIN down /\ down'[i] = down[n + i]
           /\ \A k : <<k, 1>> \notin Range(down) => <<k, 1>> \notin Range(down')
           /\ \A i \in 1 .. n : down[i] \notin Range(down')
<1>1. /\ Whole(down') /\ \A i \in 1 .. Len(down) - n : down'[i] = down[n + i]
      /\ down' \in Seq(AnswerCells) /\ Len(down') = Len(down) - n
      /\ Len(down) \in Nat /\ DOMAIN down = 1 .. Len(down)
  <2>1. down \in Seq(AnswerCells) /\ Len(down) \in Nat /\ DOMAIN down = 1 .. Len(down)
    BY DEF Whole
  <2>2. /\ Whole(Beyond(down, n))
        /\ \A i \in 1 .. Len(down) - n : Beyond(down, n)[i] = down[n + i]
        /\ Beyond(down, n) \in Seq(AnswerCells) /\ Len(Beyond(down, n)) = Len(down) - n
    BY WholeBeyond
  <2> QED
    BY <2>1, <2>2
<1>2. ASSUME NEW i \in DOMAIN down' PROVE n + i \in DOMAIN down /\ down'[i] = down[n + i] /\ i \in Nat \ {0}
  BY <1>1
<1>3. \A k : <<k, 1>> \notin Range(down) => <<k, 1>> \notin Range(down')
  BY <1>2 DEF Range
<1>4. ASSUME NEW i \in 1 .. n, down[i] \in Range(down') PROVE FALSE
  <2>1. PICK j \in DOMAIN down' : down[i] = down'[j]
    BY <1>4 DEF Range
  <2>2. down[i] = down[n + j] /\ i \in DOMAIN down /\ n + j \in DOMAIN down /\ j \in Nat \ {0}
    BY <1>1, <1>2, <2>1
  <2>3. i = n + j
    BY <2>2 DEF Whole
  <2> QED
    BY <2>2, <2>3
<1>5. Whole(down)'
  BY <1>1 DEF Whole
<1> QED
  BY <1>1, <1>2, <1>3, <1>4, <1>5

\* Which answers are behind what the client has read.
LEMMA FrontDone ==
    ASSUME Whole(down), Delivered, NEW n \in 0 .. Len(down), down' = Beyond(down, n),
           \A k \in Queries : Done(k) => Done(k)'
    PROVE  (\A i \in DOMAIN down : Done(down[i][1]))'
<1> SUFFICES ASSUME NEW i \in DOMAIN down' PROVE Done(down[i][1])'
  OBVIOUS
<1>1. n + i \in DOMAIN down /\ down'[i] = down[n + i] /\ down \in Seq(AnswerCells)
  BY TakenFront DEF Whole
<1>2. PICK k \in Queries : down[n + i][1] = k /\ Done(k)
  BY <1>1, CellFacts DEF Delivered
<1>3. Done(k)'
  BY <1>2
<1> QED
  BY <1>1, <1>2, <1>3 DEF Done, InWork

\* recv_response reads a head, or fails.
LEMMA HeadStep ==
    ASSUME Types, Framed, Faultless, Handed, Whole(down), AtBody, Delivered, RecvHead,
           \A k \in Queries : Done(k) => Done(k)'
    PROVE  Whole(down)' /\ AtBody' /\ Delivered'
<1>0. /\ cpc = "head" /\ received + 1 \in Queries /\ HeadLen \in Nat
      /\ accepted \in [Queries -> {Answer(m) : m \in Queries} \union {<<>>}]
  BY QueryCount DEF RecvHead, Types, AtBody, HeadLen
<1>1. PICK cells \in Arrivals(HeadLen) :
        /\ down' = Beyond(down, Len(cells))
        /\ \/ ~ RightMagic(cells) /\ Return /\ accepted' = accepted
           \/ /\ RightMagic(cells) /\ LengthOfAnswer(cells) = 0 /\ Return
              /\ accepted' = [accepted EXCEPT ![received + 1] = cells]
           \/ /\ RightMagic(cells) /\ LengthOfAnswer(cells) > 0
              /\ head' = cells /\ cpc' = "body" /\ accepted' = accepted
  BY DEF RecvHead
<1>2. PICK n \in 0 .. Len(down) : Len(cells) = n
  BY <1>0, ArrivalFacts
<1>3. /\ Whole(down)' /\ Len(down') = Len(down) - n
      /\ \A i \in DOMAIN down' : n + i \in DOMAIN down /\ down'[i] = down[n + i]
      /\ \A k : <<k, 1>> \notin Range(down) => <<k, 1>> \notin Range(down')
      /\ \A i \in 1 .. n : down[i] \notin Range(down')
  BY <1>1, <1>2, TakenFront
<1>4. (\A i \in DOMAIN down : Done(down[i][1]))'
  BY <1>1, <1>2, FrontDone
<1>5. \A k \in Queries : ~ Reading(k)
  BY <1>0 DEF Reading
<1>6. CASE ~ RightMagic(cells) /\ Return /\ accepted' = accepted
  <2>1. AtBody' /\ \A k \in Queries : ~ Reading(k)'
    BY <1>6 DEF AtBody, Reading, Return
  <2>2. \A k, q \in Queries : Took(q, k)' => Took(q, k)
    BY <1>6 DEF Took
  <2>3. \A k, q \in Queries : Took(q, k)' =>
            /\ Done(k)' /\ ~ Reading(k)' /\ <<k, 1>> \notin Range(down')
            /\ \A o \in Queries : Took(o, k)' => o = q
    BY <1>3, <2>1, <2>2 DEF Delivered
  <2> QED
    BY <1>3, <1>4, <2>1, <2>3 DEF Delivered
<1>7. CASE RightMagic(cells)
  <2>1. PICK m \in Queries :
            /\ cells = <<<<m, 1>>, <<m, 2>>>> /\ Len(cells) = 2 /\ 2 \in 0 .. Len(down)
            /\ down[1] = <<m, 1>> /\ down # <<>>
            /\ Done(m) /\ LengthOfAnswer(cells) = AnswerLens[m]
    BY <1>7, HeadOfAnswer
  <2>2. n = 2 /\ 1 \in DOMAIN down /\ 1 \in 1 .. n /\ <<m, 1>> \in Range(down)
    <3>1. n = 2 /\ 1 \in DOMAIN down /\ 1 \in 1 .. n
      BY <1>2, <2>1 DEF Whole
    <3> QED
      BY <2>1, <3>1 DEF Range
  <2>3. <<m, 1>> \notin Range(down')
    BY <1>3, <2>1, <2>2
  <2>4. \A q \in Queries : ~ Took(q, m)
    BY <2>2 DEF Delivered
  <2>5. AnswerLens[m] \in Nat /\ AnswerSize(m) = 2 + AnswerLens[m] /\ Done(m)'
    BY <2>1, AnswerFacts
  <2>6. CASE AnswerLens[m] = 0
    <3>1. Return /\ accepted' = [accepted EXCEPT ![received + 1] = cells]
      BY <1>1, <1>7, <2>1, <2>6
    <3>2. cells = Answer(m)
      <4> DEFINE a == Answer(m)
      <4>1. /\ a \in Seq(AnswerCells) /\ Len(a) = 2 /\ \A i \in 1 .. 2 : a[i] = <<m, i>>
        <5>1. a \in Seq(AnswerCells) /\ Len(a) = AnswerSize(m)
              /\ \A i \in 1 .. AnswerSize(m) : a[i] = <<m, i>>
          BY AnswerFacts
        <5>2. AnswerSize(m) = 2
          BY <2>5, <2>6
        <5> HIDE DEF a
        <5> QED
          BY <5>1, <5>2
      <4> HIDE DEF a
      <4>2. cells \in Seq(AnswerCells) /\ cells[1] = <<m, 1>> /\ cells[2] = <<m, 2>>
        BY <1>0, <2>1, ArrivalFacts
      <4>3. ASSUME NEW i \in 1 .. 2 PROVE a[i] = cells[i]
        <5>1. i = 1 \/ i = 2
          OBVIOUS
        <5>2. a[i] = <<m, i>>
          BY <4>1
        <5> QED
          BY <4>2, <5>1, <5>2
      <4>4. a = cells
        BY <2>1, <4>1, <4>2, <4>3, SameElements
      <4> QED
        BY <4>4 DEF a
    <3>3. /\ accepted' \in [Queries -> {Answer(k) : k \in Queries} \union {<<>>}]
          /\ accepted'[received + 1] = Answer(m)
          /\ \A q \in Queries : q # received + 1 => accepted'[q] = accepted[q]
      BY <1>0, <3>1, <3>2
    <3>4. AtBody' /\ \A k \in Queries : ~ Reading(k)'
      BY <3>1, <3>3 DEF AtBody, Reading, Return
    <3>5. ASSUME NEW k \in Queries, NEW q \in Queries, Took(q, k)'
          PROVE  (q = received + 1 /\ k = m) \/ (q # received + 1 /\ k # m /\ Took(q, k))
      <4>1. CASE q = received + 1
        BY <3>3, <3>5, <4>1, AnswersDiffer DEF Took
      <4>2. CASE q # received + 1
        BY <2>4, <3>3, <3>5, <4>2 DEF Took
      <4> QED
        BY <4>1, <4>2
    <3>6. ASSUME NEW k \in Queries, NEW q \in Queries, Took(q, k)'
          PROVE  /\ Done(k)' /\ <<k, 1>> \notin Range(down')
                 /\ \A o \in Queries : Took(o, k)' => o = q
      <4>1. CASE k = m
        BY <2>3, <2>5, <3>5, <3>6, <4>1
      <4>2. CASE k # m
        <5>1. Took(q, k) /\ \A o \in Queries : Took(o, k)' => Took(o, k)
          BY <3>5, <3>6, <4>2
        <5>2. Done(k) /\ <<k, 1>> \notin Range(down) /\ \A o \in Queries : Took(o, k) => o = q
          BY <5>1 DEF Delivered
        <5> QED
          BY <1>3, <5>1, <5>2
      <4> QED
        BY <4>1, <4>2
    <3> QED
      BY <1>3, <1>4, <3>4, <3>6 DEF Delivered
  <2>7. CASE AnswerLens[m] # 0
    <3>1. head' = cells /\ cpc' = "body" /\ accepted' = accepted
      BY <1>1, <1>7, <2>1, <2>7
    <3>2. down' # <<>> /\ down'[1] = <<m, 3>>
      <4>1. /\ AnswerSize(m) \in Nat /\ AnswerSize(m) >= 3 /\ 1 \in Nat /\ 1 <= AnswerSize(m)
        BY <2>5, <2>7
      <4>2. AnswerSize(m) - 1 + 1 <= Len(down)
            /\ \A i \in 1 .. AnswerSize(m) - 1 + 1 : down[i] = <<m, i + 1 - 1>>
        BY <2>1, <4>1, WholeFlow
      <4>3. Len(down) \in Nat /\ Len(down) >= 3 /\ 3 \in 1 .. AnswerSize(m) - 1 + 1 /\ 3 + 1 - 1 = 3
        BY <4>1, <4>2 DEF Whole
      <4>4. down[3] = <<m, 3>>
        BY <4>2, <4>3
      <4>5. down' \in Seq(AnswerCells) /\ Len(down') >= 1 /\ 1 \in DOMAIN down'
        BY <1>3, <2>2, <4>3 DEF Whole
      <4>6. down'[1] = down[2 + 1]
        BY <1>3, <2>2, <4>5
      <4> QED
        BY <4>4, <4>5, <4>6
    <3>3. AtBody'
      <4>1. AnswerLens[m] > 0
        BY <2>5, <2>7
      <4>2. Reading(m)'
        BY <2>1, <3>1 DEF Reading
      <4> QED
        BY <1>0, <3>1, <3>2, <4>1, <4>2 DEF AtBody
    <3>4. \A k \in Queries : Reading(k)' => k = m
      BY <2>1, <3>1 DEF Reading
    <3>5. \A k, q \in Queries : Took(q, k)' => Took(q, k) /\ k # m
      BY <2>4, <3>1 DEF Took
    <3>6. \A k \in Queries : Reading(k)' => Done(k)' /\ <<k, 1>> \notin Range(down')
      BY <2>3, <2>5, <3>4
    <3>7. \A k, q \in Queries : Took(q, k)' =>
            /\ Done(k)' /\ ~ Reading(k)' /\ <<k, 1>> \notin Range(down')
            /\ \A o \in Queries : Took(o, k)' => o = q
      BY <1>3, <3>4, <3>5 DEF Delivered
    <3> QED
      BY <1>3, <1>4, <3>3, <3>6, <3>7 DEF Delivered
  <2> QED
    BY <2>6, <2>7
<1> QED
  BY <1>1, <1>6, <1>7

\* The body that is read to its end completes the answer whose head was read.
LEMMA BodyOfAnswer ==
    ASSUME Types, Framed, Faultless, Whole(down), AtBody, Delivered, cpc = "body"
    PROVE  \E m \in Queries :
            /\ Reading(m) /\ Done(m) /\ LengthOfAnswer(head) = AnswerLens[m]
            /\ AnswerLens[m] \in Nat \ {0} /\ AnswerLens[m] <= Len(down) /\ down # <<>>
            /\ \A cells \in Arrivals(AnswerLens[m]) :
                    Len(cells) = AnswerLens[m] => head \o cells = Answer(m)
<1>1. PICK m \in Queries : Reading(m) /\ AnswerLens[m] > 0 /\ down # <<>> /\ down[1] = <<m, 3>>
  BY DEF AtBody
<1> DEFINE len == AnswerLens[m]
<1>2. Done(m) /\ len \in Nat /\ len > 0 /\ AnswerSize(m) = 2 + len
  BY <1>1, AnswerFacts DEF Delivered
<1>3. head = <<<<m, 1>>, <<m, 2>>>>
  BY <1>1 DEF Reading
<1>4. Request(m) \in Range(parsed)
  <2>1. m \in 1 .. Len(parsed)
    BY <1>2, RequestFacts DEF Done, Types
  <2>2. parsed[m] = Request(m) /\ m \in DOMAIN parsed
    BY <2>1, NoFaults DEF Framed, Types
  <2> QED
    BY <2>2 DEF Range
<1>5. LengthOfAnswer(head) = len
  BY <1>3, <1>4 DEF LengthOfAnswer, HeadLen
<1> HIDE DEF len
<1>6. len <= Len(down) /\ \A i \in 1 .. len : down[i] = <<m, i + 2>>
  <2>1. 3 \in Nat /\ 3 <= AnswerSize(m) /\ AnswerSize(m) - 3 + 1 = len
    BY <1>2
  <2>2. AnswerSize(m) - 3 + 1 <= Len(down)
        /\ \A i \in 1 .. AnswerSize(m) - 3 + 1 : down[i] = <<m, i + 3 - 1>>
    BY <1>1, <2>1, WholeFlow
  <2>3. ASSUME NEW i \in 1 .. len PROVE down[i] = <<m, i + 2>>
    <3>1. i + 3 - 1 = i + 2
      OBVIOUS
    <3> QED
      BY <2>1, <2>2, <3>1
  <2> QED
    BY <2>1, <2>2, <2>3
<1>7. ASSUME NEW cells \in Arrivals(len), Len(cells) = len PROVE head \o cells = Answer(m)
  <2>1. cells \in Seq(AnswerCells) /\ \A i \in 1 .. len : cells[i] = down[i]
    BY <1>2, <1>7, ArrivalFacts
  <2>2. head \in Seq(AnswerCells) /\ Len(head) = 2 /\ head[1] = <<m, 1>> /\ head[2] = <<m, 2>>
    <3>1. <<m, 1>> \in AnswerCells /\ <<m, 2>> \in AnswerCells
      BY <1>2 DEF AnswerCells
    <3> QED
      BY <1>3, <3>1
  <2> DEFINE t == head \o cells
             a == Answer(m)
  <2>3. /\ t \in Seq(AnswerCells) /\ Len(t) = 2 + len
        /\ \A i \in 1 .. 2 + len : t[i] = IF i <= 2 THEN head[i] ELSE cells[i - 2]
    <3>1. /\ t \in Seq(AnswerCells) /\ Len(t) = Len(head) + Len(cells)
          /\ \A i \in 1 .. Len(head) + Len(cells) :
                t[i] = IF i <= Len(head) THEN head[i] ELSE cells[i - Len(head)]
      BY <2>1, <2>2, Joining
    <3> HIDE DEF t
    <3> QED
      BY <1>7, <2>2, <3>1
  <2>4. /\ a \in Seq(AnswerCells) /\ Len(a) = 2 + len /\ \A i \in 1 .. 2 + len : a[i] = <<m, i>>
    BY <1>2, AnswerFacts
  <2> HIDE DEF t, a
  <2>5. ASSUME NEW i \in 1 .. 2 + len PROVE t[i] = a[i]
    <3>1. CASE i <= 2
      <4>1. i = 1 \/ i = 2
        BY <1>2, <3>1
      <4>2. t[i] = head[i] /\ a[i] = <<m, i>>
        BY <2>3, <2>4, <3>1
      <4> QED
        BY <2>2, <4>1, <4>2
    <3>2. CASE ~ (i <= 2)
      <4>1. i - 2 \in 1 .. len /\ (i - 2) + 2 = i
        BY <1>2, <3>2
      <4>2. cells[i - 2] = <<m, (i - 2) + 2>>
        BY <1>6, <2>1, <4>1
      <4> QED
        BY <2>3, <2>4, <3>2, <4>1, <4>2
    <3> QED
      BY <3>1, <3>2
  <2>6. t = a
    BY <2>3, <2>4, <2>5, SameElements
  <2> QED
    BY <2>6 DEF t, a
<1> QED
  BY <1>1, <1>2, <1>5, <1>6, <1>7 DEF len

\* recv_response reads the body, or part of it and fails.
LEMMA BodyStep ==
    ASSUME Types, Framed, Faultless, Whole(down), AtBody, Delivered, RecvBody,
           \A k \in Queries : Done(k) => Done(k)'
    PROVE  Whole(down)' /\ AtBody' /\ Delivered'
<1>0. /\ cpc = "body" /\ received + 1 \in Queries
      /\ accepted \in [Queries -> {Answer(m) : m \in Queries} \union {<<>>}]
  BY QueryCount DEF RecvBody, Types, AtBody
<1>1. PICK m \in Queries :
            /\ Reading(m) /\ Done(m) /\ LengthOfAnswer(head) = AnswerLens[m]
            /\ AnswerLens[m] \in Nat \ {0}
            /\ \A cells \in Arrivals(AnswerLens[m]) :
                    Len(cells) = AnswerLens[m] => head \o cells = Answer(m)
  BY <1>0, BodyOfAnswer
<1>2. PICK cells \in Arrivals(AnswerLens[m]) :
        /\ down' = Beyond(down, Len(cells))
        /\ accepted' = IF Len(cells) = AnswerLens[m]
                       THEN [accepted EXCEPT ![received + 1] = head \o cells]
                       ELSE accepted
  BY <1>1 DEF RecvBody
<1>3. PICK n \in 0 .. Len(down) : Len(cells) = n
  BY <1>1, ArrivalFacts
<1>4. /\ Whole(down)'
      /\ \A k : <<k, 1>> \notin Range(down) => <<k, 1>> \notin Range(down')
  BY <1>2, <1>3, TakenFront
<1>5. (\A i \in DOMAIN down : Done(down[i][1]))'
  BY <1>2, <1>3, FrontDone
<1>6. cpc' = "idle"
  BY DEF RecvBody, Return
<1>7. \/ accepted' = accepted
      \/ accepted' = [accepted EXCEPT ![received + 1] = Answer(m)]
  BY <1>1, <1>2
<1>8. /\ accepted' \in [Queries -> {Answer(k) : k \in Queries} \union {<<>>}]
      /\ accepted'[received + 1] = accepted[received + 1] \/ accepted'[received + 1] = Answer(m)
      /\ \A q \in Queries : q # received + 1 => accepted'[q] = accepted[q]
  BY <1>0, <1>7
<1>9. AtBody' /\ \A k \in Queries : ~ Reading(k)'
  BY <1>6, <1>8 DEF AtBody, Reading
<1>10. \A q \in Queries : ~ Took(q, m)
  BY <1>1 DEF Delivered
<1>11. Done(m)' /\ <<m, 1>> \notin Range(down')
  BY <1>1, <1>4 DEF Delivered
<1>12. ASSUME NEW k \in Queries, NEW q \in Queries, Took(q, k)'
       PROVE  (q = received + 1 /\ k = m) \/ (k # m /\ Took(q, k))
  <2>1. CASE accepted'[q] = accepted[q]
    BY <1>10, <1>12, <2>1 DEF Took
  <2>2. CASE q = received + 1 /\ accepted'[q] = Answer(m)
    BY <1>12, <2>2, AnswersDiffer DEF Took
  <2> QED
    BY <1>8, <2>1, <2>2
<1>13. ASSUME NEW k \in Queries, NEW q \in Queries, Took(q, k)'
       PROVE  /\ Done(k)' /\ <<k, 1>> \notin Range(down')
              /\ \A o \in Queries : Took(o, k)' => o = q
  <2>1. CASE k = m
    BY <1>11, <1>12, <1>13, <2>1
  <2>2. CASE k # m
    <3>1. Took(q, k) /\ \A o \in Queries : Took(o, k)' => Took(o, k)
      BY <1>12, <1>13, <2>2
    <3>2. Done(k) /\ <<k, 1>> \notin Range(down) /\ \A o \in Queries : Took(o, k) => o = q
      BY <3>1 DEF Delivered
    <3> QED
      BY <1>4, <3>1, <3>2
  <2> QED
    BY <2>1, <2>2
<1> QED
  BY <1>4, <1>5, <1>9, <1>13 DEF Delivered

\* At first no answer is anywhere.
LEMMA AnswersInit == Init => AnswersInv
<1> SUFFICES ASSUME Init PROVE Handed /\ Whole(down) /\ AtBody /\ Delivered
  BY DEF AnswersInv
<1>1. /\ down = <<>> /\ cpc = "idle" /\ accepted = [m \in Queries |-> <<>>]
      /\ DOMAIN down = {} /\ Len(down) = 0
  BY DEF Init
<1>2. Whole(down)
  BY <1>1 DEF Whole
<1>3. AtBody
  BY <1>1 DEF AtBody
<1>4. \A m, q \in Queries : ~ Took(q, m)
  BY <1>1, AnswersDiffer DEF Took
<1>5. Delivered
  BY <1>1, <1>4 DEF Delivered, Reading
<1> QED
  BY <1>2, <1>3, <1>5, HandedInit

\* Every step keeps the answers whole, and each in one place.
LEMMA AnswersStep == StreamInv /\ AnswersInv /\ [Next]_vars => AnswersInv'
<1> SUFFICES ASSUME StreamInv, AnswersInv, [Next]_vars, Faultless'
             PROVE  Handed' /\ Whole(down)' /\ AtBody' /\ Delivered'
  BY DEF AnswersInv
<1> USE DEF setting, serverVars, clientVars, poolVars
<1>1. Faultless /\ Types /\ Framed /\ ClosesOnlyAtEnd
  BY SameFaults DEF Faultless, StreamInv
<1>2. Handed /\ Whole(down) /\ AtBody /\ Delivered
  BY <1>1 DEF AnswersInv
<1>3. Handed'
  BY <1>1, <1>2, HandedStep
<1>4. \A k \in Queries : Done(k) => Done(k)'
  BY <1>1, <1>2, DoneStays
<1>5. CASE Handle \/ \E w \in Workers : GiveResponse(w)
  <2>1. PICK m \in Queries : ~ Done(m) /\ Done(m)' /\ down' = down \o Answer(m)
    BY <1>1, <1>2, <1>5, HandleWrites, GiveWrites
  <2>2. UNCHANGED <<cpc, head, accepted>>
    BY <1>5 DEF Handle, GiveResponse
  <2> QED
    BY <1>2, <1>3, <1>4, <2>1, <2>2, DeliveredWrite
<1>6. CASE RecvHead
  BY <1>1, <1>2, <1>3, <1>4, <1>6, HeadStep
<1>7. CASE RecvBody
  BY <1>1, <1>2, <1>3, <1>4, <1>7, BodyStep
<1>8. CASE down' = down \/ (down' = <<>> /\ cpc' # "body")
  <2> SUFFICES ASSUME ~ RecvHead, ~ RecvBody, ~ Handle, ~ \E w \in Workers : GiveResponse(w)
               PROVE  Handed' /\ Whole(down)' /\ AtBody' /\ Delivered'
    BY <1>5, <1>6, <1>7
  <2>1. accepted' = accepted /\ ((cpc' = cpc /\ head' = head) \/ cpc' # "body")
    BY DEF Next, ServerStep, Dispatch, Grow, ReadSome, ReadAgain, ReadEnd, Parse, Post,
           WorkerStep, StartJob, ClientStep, RecvResponse, SendRequest, Quit, vars
  <2> QED
    BY <1>2, <1>3, <1>4, <1>8, <2>1, DeliveredSame
<1>9. CASE ReadEnd \/ Parse
  <2>1. /\ spc' # "closed" => down' = down
        /\ spc' = "closed" => down' \in {down, <<>>}
    BY <1>9 DEF ReadEnd, Parse, CloseConnection
  <2>2. spc' = "closed" => cpc' = "gone"
    BY <1>1, NoFaults, SameFaults, StreamStep DEF StreamInv, ClosesOnlyAtEnd, KeepsGoing, LosesCells
  <2> QED
    BY <1>8, <2>1, <2>2
<1>10. CASE \/ Dispatch \/ Grow \/ ReadSome \/ ReadAgain \/ Post
            \/ (\E w \in Workers : StartJob(w)) \/ RecvResponse \/ SendRequest \/ Quit
            \/ UNCHANGED vars
  <2>1. down' = down
    BY <1>10 DEF Dispatch, Grow, ReadSome, ReadAgain, Post, StartJob, RecvResponse,
                 SendRequest, Quit, vars
  <2> QED
    BY <1>8, <2>1
<1> QED
  BY <1>5, <1>6, <1>7, <1>9, <1>10 DEF Next, ServerStep, WorkerStep, ClientStep

\* Without faults every answer is written once, whole, and taken once: however
\* they are interleaved, each is under way, being read, or taken.
THEOREM AnswersInvariant == Spec => []AnswersInv
<1>1. Init => AnswersInv
  BY AnswersInit
<1>2. StreamInv /\ AnswersInv /\ [Next]_vars => AnswersInv'
  BY AnswersStep
<1> QED
  BY <1>1, <1>2, StreamInvariant, PTL DEF Spec

-----------------------------------------------------------------------------
(* The order of the answers *)

\* In the stream of the requests the numbers do not fall.
LEMMA RunsForward ==
    ASSUME NEW s \in Seq(Cells), NEW p \in Nat, NEW last \in Nat, Runs(s, p, last)
    PROVE  p <= last
<1>1. CASE s = <<>>
  BY <1>1 DEF Runs
<1>2. CASE s # <<>>
  <2> DEFINE Bad == {i \in 1 .. Len(s) : ~ (p + 1 <= s[i][1])}
  <2>1. Len(s) \in Nat /\ 1 \in 1 .. Len(s) /\ Len(s) \in 1 .. Len(s)
    BY <1>2
  <2>2. \A i \in 1 .. Len(s) : s[i][1] \in Nat
    BY DEF Cells, Queries
  <2>3. Bad = {}
    <3> SUFFICES ASSUME Bad # {} PROVE FALSE
      OBVIOUS
    <3>1. PICK i \in Bad : \A k \in Bad : i <= k
      <4>1. Bad \in SUBSET Nat
        BY <2>1
      <4> HIDE DEF Bad
      <4> QED
        BY <4>1, Least
    <3>2. s[1][1] = p + 1
      BY <1>2 DEF Runs
    <3>3. i \in 1 .. Len(s) /\ i # 1 /\ i - 1 \in 1 .. Len(s) - 1 /\ i - 1 \in 1 .. Len(s)
      BY <2>1, <3>1, <3>2
    <3>4. p + 1 <= s[i - 1][1]
      <4>1. i - 1 \notin Bad
        BY <3>1, <3>3
      <4> QED
        BY <3>3, <4>1
    <3>5. s[(i - 1) + 1] = After(s[i - 1]) /\ (i - 1) + 1 = i
      BY <3>3 DEF Runs
    <3>6. s[i - 1][1] <= After(s[i - 1])[1]
      BY <2>2, <3>3 DEF After
    <3>7. s[i][1] \in Nat /\ s[i - 1][1] \in Nat /\ s[i - 1][1] <= s[i][1]
      BY <2>2, <3>3, <3>5, <3>6
    <3> QED
      BY <3>1, <3>4, <3>7, SMTT(30)
  <2>4. s[Len(s)][1] = last
    BY <1>2 DEF Runs
  <2>5. p + 1 <= s[Len(s)][1]
    BY <2>1, <2>3
  <2> QED
    BY <2>4, <2>5
<1> QED
  BY <1>1, <1>2

\* No more requests are cut out than were sent.
LEMMA ParsedWereSent ==
    ASSUME Types, Framed, Faultless, spc # "closed"
    PROVE  Len(parsed) \in Nat /\ Len(parsed) <= sent
<1>1. Len(parsed) \in Nat /\ sent \in Nat /\ rbuf \in Seq(Cells) /\ up \in Seq(Cells)
  BY QueryCount DEF Types
<1> DEFINE s == rbuf \o up
<1>2. s \in Seq(Cells) /\ Runs(s, Len(parsed), sent)
  BY <1>1, NoFaults, Joining DEF Framed
<1> HIDE DEF s
<1> QED
  BY <1>1, <1>2, RunsForward

\* The number of the answer that was written last.
LEMMA LatestFacts ==
    ASSUME Types, Whole(down)
    PROVE  /\ Latest \in Nat /\ received \in Nat /\ Len(down) \in Nat /\ down \in Seq(AnswerCells)
           /\ down # <<>> => Len(down) \in DOMAIN down /\ Latest = down[Len(down)][1] /\ Latest \in Queries
           /\ down = <<>> => Latest = received
<1>1. down \in Seq(AnswerCells) /\ Len(down) \in Nat
  BY DEF Whole
<1>2. down # <<>> => Len(down) \in DOMAIN down
  BY <1>1
<1>3. down # <<>> => down[Len(down)][1] \in Queries
  BY <1>1, <1>2, CellFacts
<1>4. received \in Nat
  BY QueryCount DEF Types
<1> QED
  BY <1>1, <1>2, <1>3, <1>4, QueryCount DEF Latest

\* Once the client has left there is nothing under way to it.
LEMMA GoneEmpty ==
    ASSUME Types, Whole(down), Consecutive, cpc = "gone"
    PROVE  down = <<>>
<1> SUFFICES ASSUME down # <<>> PROVE FALSE
  OBVIOUS
<1>1. down[1][1] = received + 1 /\ received = Len(RequestLens)
  BY DEF Consecutive, Types
<1>2. down[1][1] \in Queries
  <2>1. 1 \in DOMAIN down /\ down \in Seq(AnswerCells)
    BY DEF Whole
  <2> QED
    BY <2>1, CellFacts
<1> QED
  BY <1>1, <1>2, QueryCount

\* Writing the answer to the query after the latest keeps their order.
LEMMA ConsecutiveWrite ==
    ASSUME Types, Whole(down), AtBody, Delivered, Consecutive, NEW m \in Queries,
           ~ Done(m), m = Latest + 1, down' = down \o Answer(m),
           UNCHANGED <<cpc, head, accepted, received>>
    PROVE  Consecutive' /\ Latest' = m
<1>0. down \in Seq(AnswerCells) /\ Len(down) \in Nat /\ AnswerSize(m) \in Nat /\ AnswerSize(m) >= 2
      /\ m \in Nat
  BY AnswerFacts DEF Whole
<1>1. \A i \in DOMAIN down : down[i][1] # m
  BY DEF Delivered
<1>2. /\ Whole(down') /\ Len(down') = Len(down) + AnswerSize(m)
      /\ \A i \in 1 .. Len(down) + AnswerSize(m) :
            down'[i] = IF i <= Len(down) THEN down[i] ELSE <<m, i - Len(down)>>
  BY <1>1, WholeAppend
<1>3. down' # <<>> /\ down'[Len(down')] = <<m, AnswerSize(m)>>
  <2>1. /\ Len(down') \in 1 .. Len(down) + AnswerSize(m) /\ ~ (Len(down') <= Len(down))
        /\ Len(down') - Len(down) = AnswerSize(m) /\ Len(down') # 0
    BY <1>0, <1>2
  <2>2. down'[Len(down')] = <<m, Len(down') - Len(down)>>
    BY <1>2, <2>1
  <2> QED
    BY <2>1, <2>2
<1>4. Latest' = m
  BY <1>3 DEF Latest
<1>5. down'[1] = <<received + 1, IF cpc = "body" THEN 3 ELSE 1>>
  <2>1. CASE down = <<>>
    <3>1. Latest = received /\ cpc # "body" /\ Len(down) = 0
      BY <2>1 DEF AtBody, Latest
    <3>2. 1 \in 1 .. Len(down) + AnswerSize(m) /\ ~ (1 <= Len(down)) /\ 1 - Len(down) = 1
      BY <1>0, <3>1
    <3> QED
      BY <1>2, <3>1, <3>2
  <2>2. CASE down # <<>>
    <3>1. 1 \in 1 .. Len(down) + AnswerSize(m) /\ 1 <= Len(down)
      BY <1>0, <2>2
    <3>2. down'[1] = down[1]
      BY <1>2, <3>1
    <3> QED
      BY <2>2, <3>2 DEF Consecutive
  <2> QED
    BY <2>1, <2>2
<1>6. ASSUME NEW i \in 1 .. Len(down') - 1, down'[i][2] = AnswerSize(down'[i][1])
      PROVE  down'[i + 1][1] = down'[i][1] + 1
  <2>1. i \in 1 .. Len(down) + AnswerSize(m) /\ i + 1 \in 1 .. Len(down) + AnswerSize(m)
    BY <1>0, <1>2
  <2>2. CASE i < Len(down)
    <3>1. down'[i] = down[i] /\ down'[i + 1] = down[i + 1] /\ i \in 1 .. Len(down) - 1
      BY <1>0, <1>2, <2>1, <2>2
    <3> QED
      BY <1>6, <3>1 DEF Consecutive
  <2>3. CASE i = Len(down)
    <3>1. ~ (i + 1 <= Len(down)) /\ (i + 1) - Len(down) = 1 /\ i <= Len(down) /\ down # <<>>
      BY <1>0, <2>1, <2>3
    <3>2. down'[i] = down[Len(down)]
      BY <1>2, <2>1, <2>3, <3>1
    <3>3. down'[i + 1] = <<m, (i + 1) - Len(down)>>
      BY <1>2, <2>1, <3>1
    <3>4. Latest = down[Len(down)][1]
      BY <3>1 DEF Latest
    <3> QED
      BY <3>2, <3>3, <3>4
  <2>4. CASE i > Len(down)
    <3>1. ~ (i <= Len(down)) /\ i - Len(down) # AnswerSize(m)
      BY <1>0, <1>2, <2>4
    <3>2. down'[i] = <<m, i - Len(down)>>
      BY <1>2, <2>1, <3>1
    <3> QED
      BY <1>6, <3>1, <3>2
  <2> QED
    BY <1>0, <2>1, <2>2, <2>3, <2>4
<1>7. (\A q \in Queries : IF q <= received THEN Took(q, q) ELSE accepted[q] = <<>>)'
  BY DEF Consecutive, Took
<1>8. cpc' = "body" => Reading(received + 1)'
  BY DEF Consecutive, Reading
<1> QED
  BY <1>4, <1>5, <1>6, <1>7, <1>8 DEF Consecutive

\* What stays of the answers when the client has taken the first n cells is in
\* order, if it goes on with the right one.
LEMMA ConsecutiveRest ==
    ASSUME Types, Whole(down), Consecutive, NEW n \in 0 .. Len(down), down' = Beyond(down, n)
    PROVE  (\A i \in 1 .. Len(down) - 1 :
                down[i][2] = AnswerSize(down[i][1]) => down[i + 1][1] = down[i][1] + 1)'
<1> SUFFICES ASSUME NEW i \in 1 .. Len(down') - 1, down'[i][2] = AnswerSize(down'[i][1])
             PROVE  down'[i + 1][1] = down'[i][1] + 1
  OBVIOUS
<1>1. Len(down) \in Nat /\ Len(down') = Len(down) - n
      /\ \A k \in 1 .. Len(down) - n : down'[k] = down[n + k]
  <2>1. Len(down) \in Nat
    BY DEF Whole
  <2> QED
    BY <2>1, WholeBeyond
<1>2. /\ i \in 1 .. Len(down) - n /\ i + 1 \in 1 .. Len(down) - n /\ n + (i + 1) = (n + i) + 1
      /\ n + i \in 1 .. Len(down) - 1
  BY <1>1
<1>3. down'[i] = down[n + i] /\ down'[i + 1] = down[n + (i + 1)]
  BY <1>1, <1>2
<1>4. down[n + i][2] = AnswerSize(down[n + i][1]) => down[(n + i) + 1][1] = down[n + i][1] + 1
  BY <1>2 DEF Consecutive
<1> QED
  BY <1>2, <1>3, <1>4

\* Where an answer ends, the next one begins, or nothing is under way.
LEMMA NextAnswer ==
    ASSUME Types, Whole(down), Consecutive, NEW n \in 1 .. Len(down), down' = Beyond(down, n),
           down[n] = <<received + 1, AnswerSize(received + 1)>>, received' = received + 1
    PROVE  /\ down' # <<>> => down'[1] = <<received' + 1, 1>>
           /\ Latest' = Latest
<1>1. /\ down \in Seq(AnswerCells) /\ Len(down) \in Nat /\ n \in DOMAIN down /\ n \in 0 .. Len(down)
      /\ n \in Nat
  BY DEF Whole
<1>2. received + 1 \in Queries
  <2>1. down[n][1] \in Queries
    BY <1>1, CellFacts
  <2> QED
    BY <2>1
<1>3. /\ Len(down') = Len(down) - n /\ down' \in Seq(AnswerCells)
      /\ \A i \in 1 .. Len(down) - n : down'[i] = down[n + i]
  BY <1>1, WholeBeyond
<1>4. CASE down' = <<>>
  <2>1. n = Len(down) /\ down # <<>>
    BY <1>1, <1>3, <1>4
  <2>2. Latest = received + 1
    BY <2>1 DEF Latest
  <2>3. Latest' = received + 1
    BY <1>4 DEF Latest
  <2> QED
    BY <1>4, <2>2, <2>3
<1>5. CASE down' # <<>>
  <2>1. /\ Len(down') # 0 /\ n \in 1 .. Len(down) - 1 /\ 1 \in 1 .. Len(down) - n /\ down # <<>>
        /\ Len(down') \in 1 .. Len(down) - n /\ n + Len(down') = Len(down)
    <3>1. Len(down') \in Nat /\ Len(down') # 0 /\ Len(down') = Len(down) - n
      BY <1>3, <1>5
    <3> DEFINE d == Len(down)
               r == Len(down')
    <3>2. d \in Nat /\ n \in Nat /\ r \in Nat /\ r # 0 /\ r = d - n /\ n \in 1 .. d
      BY <1>1, <3>1
    <3> HIDE DEF d, r
    <3>3. n \in 1 .. d - 1 /\ 1 \in 1 .. d - n /\ r \in 1 .. d - n /\ n + r = d /\ d # 0
      BY <3>2
    <3>4. down # <<>>
      BY <3>3 DEF d
    <3> QED
      BY <3>2, <3>3, <3>4 DEF d, r
  <2>2. down'[1] = down[n + 1] /\ down'[Len(down')] = down[Len(down)]
    BY <1>3, <2>1
  <2>3. ~ (AnswerSize(received + 1) < AnswerSize(received + 1))
    BY <1>2, AnswerFacts
  <2>4. down[n + 1][2] = 1
    <3>1. IF down[n][2] < AnswerSize(down[n][1])
          THEN down[n + 1] = <<down[n][1], down[n][2] + 1>>
          ELSE down[n + 1][2] = 1
      BY <2>1 DEF Whole
    <3> QED
      BY <2>3, <3>1
  <2>5. down[n + 1][1] = (received + 1) + 1
    <3>1. down[n][2] = AnswerSize(down[n][1]) => down[n + 1][1] = down[n][1] + 1
      BY <2>1 DEF Consecutive
    <3> QED
      BY <3>1
  <2>6. n + 1 \in DOMAIN down
    BY <1>1, <2>1
  <2>7. down[n + 1] = <<down[n + 1][1], down[n + 1][2]>>
    BY <1>1, <2>6, CellFacts
  <2>8. down'[1] = <<received' + 1, 1>>
    BY <2>2, <2>4, <2>5, <2>7
  <2> QED
    BY <1>5, <2>1, <2>2, <2>8 DEF Latest
<1> QED
  BY <1>4, <1>5

\* Without segments recv_response reads the whole head of the answer it waits
\* for.
LEMMA HeadInOrder ==
    ASSUME Types, Framed, Faultless, ClosesOnlyAtEnd, Handed, Whole(down), AtBody, Delivered,
           Consecutive, "segments" \notin faults, RecvHead
    PROVE  Consecutive' /\ Latest' = Latest
<1> DEFINE m == received + 1
<1>0. /\ cpc = "head" /\ m \in Queries /\ HeadLen = 2 /\ received < sent /\ received \in Nat
      /\ sent \in Nat /\ Len(down) \in Nat
  BY QueryCount DEF RecvHead, Types, HeadLen, Whole
<1>1. PICK cells \in Arrivals(HeadLen) :
        /\ down' = Beyond(down, Len(cells))
        /\ \/ ~ RightMagic(cells) /\ Return /\ accepted' = accepted
           \/ /\ RightMagic(cells) /\ LengthOfAnswer(cells) = 0 /\ Return
              /\ accepted' = [accepted EXCEPT ![received + 1] = cells]
           \/ /\ RightMagic(cells) /\ LengthOfAnswer(cells) > 0
              /\ head' = cells /\ cpc' = "body" /\ accepted' = accepted /\ received' = received
  BY DEF RecvHead
<1>2. PICK n \in 0 .. Len(down) : /\ Len(cells) = n /\ \A i \in 1 .. n : cells[i] = down[i]
                                  /\ n = AtMost(Len(down), HeadLen)
                                  /\ cells \in Seq(AnswerCells)
  BY <1>0, ArrivalFacts
<1>3. down # <<>>
  <2>1. ASSUME down = <<>> PROVE FALSE
    <3>1. Reads(down, HeadLen) = {}
      <4>1. Len(down) = 0 /\ AtMost(0, HeadLen) = 0
        BY <1>0, <2>1 DEF AtMost
      <4> QED
        BY <4>1 DEF Reads
    <3>2. spc = "closed"
      BY <3>1 DEF Arrivals
    <3>3. cpc = "gone"
      BY <3>2, NoFaults DEF ClosesOnlyAtEnd
    <3> QED
      BY <1>0, <3>3
  <2> QED
    BY <2>1
<1>4. down[1] = <<m, 1>>
  BY <1>0, <1>3 DEF Consecutive
<1>5. /\ AnswerSize(m) \in Nat /\ AnswerSize(m) >= 2 /\ AnswerSize(m) <= Len(down)
      /\ AnswerSize(m) = 2 + AnswerLens[m] /\ AnswerLens[m] \in Nat
      /\ \A i \in 1 .. AnswerSize(m) : down[i] = <<m, i>>
  <2> HIDE DEF m
  <2>1. AnswerSize(m) \in Nat /\ AnswerSize(m) >= 2 /\ AnswerSize(m) = 2 + AnswerLens[m]
        /\ AnswerLens[m] \in Nat /\ 1 \in Nat /\ 1 <= AnswerSize(m) /\ AnswerSize(m) - 1 + 1 = AnswerSize(m)
    BY <1>0, AnswerFacts
  <2>2. AnswerSize(m) - 1 + 1 <= Len(down)
        /\ \A i \in 1 .. AnswerSize(m) - 1 + 1 : down[i] = <<m, i + 1 - 1>>
    BY <1>0, <1>3, <1>4, <2>1, WholeFlow
  <2>3. ASSUME NEW i \in 1 .. AnswerSize(m) PROVE down[i] = <<m, i>>
    <3>1. i + 1 - 1 = i
      OBVIOUS
    <3> QED
      BY <2>1, <2>2, <3>1
  <2> QED
    BY <2>1, <2>2, <2>3
<1>6. n = 2 /\ 2 \in 1 .. Len(down) /\ 2 \in 0 .. Len(down) /\ 1 \in 1 .. AnswerSize(m) /\ 2 \in 1 .. AnswerSize(m)
  <2> HIDE DEF m
  <2> QED
    BY <1>0, <1>2, <1>5 DEF AtMost
<1>7. RightMagic(cells)
  BY <1>2, <1>4, <1>6 DEF RightMagic, HasHead, HeadLen
<1>8. cells = <<<<m, 1>>, <<m, 2>>>> /\ LengthOfAnswer(cells) = AnswerLens[m]
  <2>1. PICK k \in Queries : /\ cells = <<<<k, 1>>, <<k, 2>>>> /\ down[1] = <<k, 1>>
                             /\ LengthOfAnswer(cells) = AnswerLens[k]
    BY <1>7, HeadOfAnswer
  <2>2. k = m
    BY <1>4, <2>1
  <2> QED
    BY <2>1, <2>2
<1>9. (\A i \in 1 .. Len(down) - 1 :
            down[i][2] = AnswerSize(down[i][1]) => down[i + 1][1] = down[i][1] + 1)'
  BY <1>1, <1>2, ConsecutiveRest
<1>10. CASE AnswerLens[m] = 0
  <2>1. Return /\ accepted' = [accepted EXCEPT ![m] = cells]
    BY <1>1, <1>7, <1>8, <1>10
  <2>2. cells = Answer(m)
    <3> DEFINE a == Answer(m)
    <3>1. a \in Seq(AnswerCells) /\ Len(a) = AnswerSize(m) /\ \A i \in 1 .. AnswerSize(m) : a[i] = <<m, i>>
      <4> HIDE DEF m
      <4> QED
        BY <1>0, AnswerFacts
    <3> HIDE DEF a, m
    <3>2. AnswerSize(m) = 2
      BY <1>5, <1>10
    <3>3. ASSUME NEW i \in 1 .. 2 PROVE a[i] = cells[i]
      BY <1>2, <1>5, <1>6, <3>1, <3>2, <3>3
    <3>4. a = cells
      BY <1>2, <1>6, <3>1, <3>2, <3>3, SameElements
    <3> QED
      BY <3>4 DEF a
  <2>3. cpc' = "idle" /\ received' = m
    BY <2>1 DEF Return
  <2>4. (\A q \in Queries : IF q <= received THEN Took(q, q) ELSE accepted[q] = <<>>)'
    <3> SUFFICES ASSUME NEW q \in Queries
                 PROVE  IF q <= m THEN accepted'[q] = Answer(q) ELSE accepted'[q] = <<>>
      BY <2>3 DEF Took
    <3>1. accepted \in [Queries -> {Answer(k) : k \in Queries} \union {<<>>}]
      BY DEF AtBody
    <3>2. accepted'[q] = IF q = m THEN Answer(m) ELSE accepted[q]
      BY <1>0, <2>1, <2>2, <3>1
    <3>3. q \in Nat
      BY QueryCount
    <3>4. IF q <= received THEN accepted[q] = Answer(q) ELSE accepted[q] = <<>>
      BY DEF Consecutive, Took
    <3> QED
      BY <1>0, <3>2, <3>3, <3>4
  <2>5. (down' # <<>> => down'[1] = <<received' + 1, 1>>) /\ Latest' = Latest
    <3>1. down[2] = <<received + 1, AnswerSize(received + 1)>>
      BY <1>5, <1>6, <1>10
    <3> QED
      BY <1>1, <1>2, <1>6, <2>3, <3>1, NextAnswer
  <2> QED
    BY <1>9, <2>3, <2>4, <2>5 DEF Consecutive
<1>11. CASE AnswerLens[m] # 0
  <2>1. head' = cells /\ cpc' = "body" /\ accepted' = accepted /\ received' = received
    BY <1>1, <1>5, <1>7, <1>8, <1>11
  <2>2. Reading(received + 1)'
    BY <1>8, <2>1 DEF Reading
  <2>3. (\A q \in Queries : IF q <= received THEN Took(q, q) ELSE accepted[q] = <<>>)'
    BY <2>1 DEF Consecutive, Took
  <2>4. /\ Len(down') = Len(down) - 2 /\ down' \in Seq(AnswerCells)
        /\ \A i \in 1 .. Len(down) - 2 : down'[i] = down[2 + i]
    <3>1. down' = Beyond(down, 2)
      BY <1>1, <1>2, <1>6
    <3> QED
      BY <1>6, <3>1, WholeBeyond
  <2>5. /\ Len(down) >= 3 /\ 1 \in 1 .. Len(down) - 2 /\ 3 \in 1 .. AnswerSize(m)
        /\ Len(down') \in 1 .. Len(down) - 2 /\ 2 + Len(down') = Len(down)
    <3> HIDE DEF m
    <3>1. AnswerSize(m) >= 3 /\ Len(down) >= 3
      BY <1>0, <1>5, <1>11
    <3> QED
      BY <1>0, <1>5, <2>4, <3>1
  <2>6. down'[1] = <<m, 3>> /\ down'[Len(down')] = down[Len(down)]
    BY <1>5, <2>4, <2>5
  <2>7. down' # <<>>
    BY <2>4, <2>5
  <2>8. Latest' = Latest
    BY <1>3, <2>6, <2>7 DEF Latest
  <2> QED
    BY <1>9, <2>1, <2>2, <2>3, <2>6, <2>8 DEF Consecutive
<1> QED
  BY <1>10, <1>11

\* Without segments recv_response reads the whole body.
LEMMA BodyInOrder ==
    ASSUME Types, Framed, Faultless, Whole(down), AtBody, Delivered, Consecutive,
           "segments" \notin faults, RecvBody
    PROVE  Consecutive' /\ Latest' = Latest
<1> DEFINE m == received + 1
<1>0. /\ cpc = "body" /\ m \in Queries /\ received \in Nat /\ Len(down) \in Nat
      /\ received' = m /\ cpc' = "idle"
  BY QueryCount DEF RecvBody, Types, Whole, Return
<1>1. Reading(m)
  BY <1>0 DEF Consecutive
<1>2. PICK k \in Queries :
            /\ Reading(k) /\ LengthOfAnswer(head) = AnswerLens[k]
            /\ AnswerLens[k] \in Nat \ {0} /\ AnswerLens[k] <= Len(down) /\ down # <<>>
            /\ \A cells \in Arrivals(AnswerLens[k]) :
                    Len(cells) = AnswerLens[k] => head \o cells = Answer(k)
  BY <1>0, BodyOfAnswer
<1>3. k = m
  BY <1>1, <1>2 DEF Reading
<1>4. PICK cells \in Arrivals(AnswerLens[k]) :
        /\ down' = Beyond(down, Len(cells))
        /\ accepted' = IF Len(cells) = AnswerLens[k]
                       THEN [accepted EXCEPT ![received + 1] = head \o cells]
                       ELSE accepted
  BY <1>2 DEF RecvBody
<1>5. PICK n \in 0 .. Len(down) : Len(cells) = n /\ n = AtMost(Len(down), AnswerLens[k])
  BY <1>2, ArrivalFacts
<1>6. n = AnswerLens[k] /\ n \in 1 .. Len(down)
  BY <1>0, <1>2, <1>5 DEF AtMost
<1>7. accepted' = [accepted EXCEPT ![m] = Answer(m)]
  BY <1>2, <1>3, <1>4, <1>5, <1>6
<1>8. (\A i \in 1 .. Len(down) - 1 :
            down[i][2] = AnswerSize(down[i][1]) => down[i + 1][1] = down[i][1] + 1)'
  BY <1>4, <1>5, ConsecutiveRest
<1>9. down[n] = <<m, AnswerSize(m)>>
  <2> HIDE DEF m
  <2>1. down[1] = <<m, 3>>
    BY <1>0, <1>2 DEF Consecutive, m
  <2>2. AnswerSize(m) \in Nat /\ AnswerSize(m) = 2 + n /\ 3 \in Nat /\ 3 <= AnswerSize(m)
        /\ n \in 1 .. AnswerSize(m) - 3 + 1 /\ n + 3 - 1 = AnswerSize(m)
    <3>1. AnswerSize(m) \in Nat /\ AnswerSize(m) = 2 + AnswerLens[m]
      BY <1>0, AnswerFacts
    <3> QED
      BY <1>2, <1>3, <1>6, <3>1
  <2>3. \A i \in 1 .. AnswerSize(m) - 3 + 1 : down[i] = <<m, i + 3 - 1>>
    BY <1>0, <1>2, <2>1, <2>2, WholeFlow
  <2> QED
    BY <2>2, <2>3
<1>10. (down' # <<>> => down'[1] = <<received' + 1, 1>>) /\ Latest' = Latest
  BY <1>0, <1>4, <1>5, <1>6, <1>9, NextAnswer
<1>11. (\A q \in Queries : IF q <= received THEN Took(q, q) ELSE accepted[q] = <<>>)'
  <2> SUFFICES ASSUME NEW q \in Queries
               PROVE  IF q <= m THEN accepted'[q] = Answer(q) ELSE accepted'[q] = <<>>
    BY <1>0 DEF Took
  <2>1. accepted \in [Queries -> {Answer(i) : i \in Queries} \union {<<>>}]
    BY DEF AtBody
  <2>2. accepted'[q] = IF q = m THEN Answer(m) ELSE accepted[q]
    BY <1>0, <1>7, <2>1
  <2>3. q \in Nat
    BY QueryCount
  <2>4. IF q <= received THEN accepted[q] = Answer(q) ELSE accepted[q] = <<>>
    BY DEF Consecutive, Took
  <2> QED
    BY <1>0, <2>2, <2>3, <2>4
<1> QED
  BY <1>0, <1>8, <1>10, <1>11 DEF Consecutive

\* Without pipelining the client has one query under way at most.
LEMMA OneAtATime ==
    ASSUME Types, [Next]_vars, "pipeline" \notin faults, sent <= received + 1
    PROVE  "pipeline" \notin faults' /\ sent' <= received' + 1
<1> USE DEF setting, serverVars, clientVars, poolVars
<1>1. sent \in Nat /\ received \in Nat
  BY QueryCount DEF Types
<1>2. faults' = faults
  BY SameFaults
<1>3. CASE SendRequest
  BY <1>1, <1>2, <1>3 DEF SendRequest
<1>4. CASE ~ SendRequest
  <2>1. sent' = sent /\ (received' = received \/ Return)
    BY <1>4 DEF Next, ServerStep, Dispatch, Grow, ReadSome, ReadAgain, ReadEnd, Parse, Handle, Post,
           WorkerStep, StartJob, GiveResponse, ClientStep, RecvResponse, RecvHead, RecvBody,
           Quit, vars
  <2>2. received' = received \/ received' = received + 1
    BY <2>1 DEF Return
  <2> QED
    BY <1>1, <1>2, <2>1, <2>2
<1> QED
  BY <1>3, <1>4

\* The next answer to be written is that to the query after the latest.
LEMMA NextToWrite ==
    ASSUME Types, Framed, Faultless, Handed, Whole(down), AtBody, Delivered, Consecutive, Queued,
           NEW m \in Queries, ~ Done(m), m <= Len(parsed), spc # "closed",
           \/ threads = {} /\ spc = "handle" /\ m = Len(parsed)
           \/ \E w \in threads : working[w] = Request(m)
    PROVE  m = Latest + 1
<1>0. /\ Latest \in Nat /\ received \in Nat /\ m \in Nat /\ Len(parsed) \in Nat
      /\ Len(parsed) <= sent /\ sent \in Nat /\ Len(parsed) <= Len(RequestLens)
      /\ Len(RequestLens) \in Nat
  BY LatestFacts, QueryCount, ParsedWereSent, SMTT(30) DEF Handed, Types
<1>1. CASE threads = {} /\ Latest = IF spc = "handle" THEN Len(parsed) - 1 ELSE Len(parsed)
  BY <1>0, <1>1
<1>2. ASSUME NEW w \in Workers, LET busy == IF working[w] = <<>> THEN 0 ELSE 1 IN
             /\ threads = {w}
             /\ working[w] # <<>> => working[w] = Request(Latest + 1)
             /\ Len(parsed) = Latest + busy + Len(todo[w]) + IF spc = "handle" THEN 1 ELSE 0
      PROVE  m = Latest + 1
  <2>1. working[w] = Request(m) /\ working[w] # <<>>
    BY <1>2, RequestsDiffer
  <2>2. Request(m) = Request(Latest + 1)
    BY <1>2, <2>1
  <2>3. Len(todo[w]) \in Nat
    BY DEF Handed
  <2>4. Latest + 1 <= Len(parsed)
    <3> DEFINE more == IF spc = "handle" THEN 1 ELSE 0
               queued == Len(todo[w])
    <3>1. Len(parsed) = Latest + 1 + queued + more
      BY <1>2, <2>1
    <3>2. more \in Nat /\ queued \in Nat
      BY <2>3
    <3> HIDE DEF more, queued
    <3>3. Latest + 1 <= Latest + 1 + queued + more
      BY <1>0, <3>2
    <3> QED
      BY <3>1, <3>3
  <2>5. Latest + 1 \in Queries
    BY <1>0, <2>4, QueryCount
  <2> QED
    BY <2>2, <2>5, RequestsDiffer
<1>3. CASE "pipeline" \notin faults /\ sent <= received + 1
  <2>1. \A q \in Queries : q <= received => Done(q)
    BY DEF Consecutive, Delivered
  <2>2. m = received + 1
    BY <1>0, <1>3, <2>1
  <2>3. down = <<>>
    <3> SUFFICES ASSUME down # <<>> PROVE FALSE
      OBVIOUS
    <3>1. down[1][1] = m /\ 1 \in DOMAIN down
      BY <2>2 DEF Consecutive, Whole
    <3>2. Done(m)
      BY <3>1 DEF Delivered
    <3> QED
      BY <3>2
  <2> QED
    BY <2>2, <2>3 DEF Latest
<1> QED
  BY <1>1, <1>2, <1>3 DEF Queued

\* What stays as it is keeps the requests in order.
LEMMA QueuedSame ==
    ASSUME Types, [Next]_vars, Queued, Latest' = Latest,
           UNCHANGED <<threads, parsed, todo, working>>, spc' = "handle" <=> spc = "handle"
    PROVE  Queued'
<1>1. CASE "pipeline" \notin faults /\ sent <= received + 1
  BY <1>1, OneAtATime DEF Queued
<1>2. CASE threads = {} /\ Latest = IF spc = "handle" THEN Len(parsed) - 1 ELSE Len(parsed)
  BY <1>2 DEF Queued
<1>3. ASSUME NEW w \in Workers, LET busy == IF working[w] = <<>> THEN 0 ELSE 1 IN
             /\ threads = {w}
             /\ working[w] # <<>> => working[w] = Request(Latest + 1)
             /\ \A k \in DOMAIN todo[w] : todo[w][k] = Request(Latest + busy + k)
             /\ Len(parsed) = Latest + busy + Len(todo[w]) + IF spc = "handle" THEN 1 ELSE 0
      PROVE  Queued'
  BY <1>3 DEF Queued
<1> QED
  BY <1>1, <1>2, <1>3 DEF Queued

\* The requests come to the worker, or to handle_cmd, in their order.
LEMMA QueuedMoves ==
    ASSUME Types, Framed, Faultless, Handed, Whole(down), [Next]_vars, Queued, Latest' = Latest,
           Parse \/ Post \/ \E w \in Workers : StartJob(w)
    PROVE  Queued'
<1> USE DEF setting, serverVars, clientVars, poolVars
<1>0. Latest \in Nat /\ Len(parsed) \in Nat
  BY LatestFacts DEF Types
<1>1. CASE "pipeline" \notin faults /\ sent <= received + 1
  BY <1>1, OneAtATime DEF Queued
<1>2. CASE Parse
  <2>1. UNCHANGED <<threads, todo, working>> /\ spc = "parse"
    BY <1>2 DEF Parse
  <2>2. CASE parsed' = parsed /\ spc' # "handle"
    BY <2>1, <2>2, QueuedSame
  <2>3. CASE Complete(rbuf) /\ spc' = "handle" /\ parsed' = Append(parsed, First(rbuf, Parsed(rbuf)))
    <3>1. Len(parsed') = Len(parsed) + 1
      BY <2>3, CompleteRequest, ParsedMore DEF Types
    <3>2. CASE threads = {} /\ Latest = Len(parsed)
      BY <1>0, <2>1, <2>3, <3>1, <3>2 DEF Queued
    <3>3. ASSUME NEW w \in Workers, LET busy == IF working[w] = <<>> THEN 0 ELSE 1 IN
                 /\ threads = {w}
                 /\ working[w] # <<>> => working[w] = Request(Latest + 1)
                 /\ \A k \in DOMAIN todo[w] : todo[w][k] = Request(Latest + busy + k)
                 /\ Len(parsed) = Latest + busy + Len(todo[w]) + IF spc = "handle" THEN 1 ELSE 0
          PROVE  Queued'
      <4> DEFINE busy == IF working[w] = <<>> THEN 0 ELSE 1
      <4>1. Len(todo[w]) \in Nat /\ busy \in Nat
        BY DEF Handed
      <4>2. Len(parsed) = Latest + busy + Len(todo[w]) + 0
        BY <2>1, <3>3
      <4> HIDE DEF busy
      <4>3. Len(parsed') = Latest + busy + Len(todo[w]) + 1
        BY <1>0, <3>1, <4>1, <4>2
      <4> QED
        BY <2>1, <2>3, <3>3, <4>3 DEF Queued, busy
    <3> QED
      BY <1>1, <2>1, <3>2, <3>3 DEF Queued
  <2> QED
    BY <1>2, <2>2, <2>3, NoFaults DEF Parse, CloseConnection
<1>3. ASSUME NEW w \in Workers, Post \/ StartJob(w), LET busy == IF working[w] = <<>> THEN 0 ELSE 1 IN
             /\ threads = {w}
             /\ working[w] # <<>> => working[w] = Request(Latest + 1)
             /\ \A k \in DOMAIN todo[w] : todo[w][k] = Request(Latest + busy + k)
             /\ Len(parsed) = Latest + busy + Len(todo[w]) + IF spc = "handle" THEN 1 ELSE 0
      PROVE  Queued'
  <2> DEFINE busy == IF working[w] = <<>> THEN 0 ELSE 1
             n == Len(todo[w])
  <2>1. /\ todo \in [Workers -> Seq(Seq(Cells))] /\ todo[w] \in Seq(Seq(Cells)) /\ n \in Nat
        /\ busy \in Nat /\ working \in [Workers -> Seq(Cells)]
        /\ spc = "handle" => request = Request(Len(parsed)) /\ request \in Seq(Cells)
    <3>1. spc = "handle" => request = Request(Len(parsed)) /\ Len(parsed) \in Queries
      BY QueryCount DEF Handed, Types
    <3> QED
      BY <3>1, RequestFacts DEF Handed
  <2>2. \A k \in 1 .. n : todo[w][k] = Request(Latest + busy + k)
    BY <1>3, <2>1
  <2>3. Len(parsed) = Latest + busy + n + IF spc = "handle" THEN 1 ELSE 0
    BY <1>3
  <2>4. CASE Post
    <3>1. /\ UNCHANGED <<threads, parsed, working>> /\ spc = "handle" /\ spc' = "parse"
          /\ todo' = [todo EXCEPT ![w] = Append(todo[w], request)]
      <4>1. PICK v \in threads : Pool!Accept(v, request)
        BY <2>4 DEF Post
      <4>2. v = w
        BY <1>3, <4>1
      <4> QED
        BY <2>4, <4>1, <4>2 DEF Post, Pool!Accept
    <3>2. todo'[w] = Append(todo[w], request)
      BY <2>1, <3>1
    <3>3. /\ todo'[w] \in Seq(Seq(Cells)) /\ Len(todo'[w]) = n + 1
          /\ \A k \in 1 .. n : todo'[w][k] = todo[w][k]
          /\ todo'[w][n + 1] = request
      <4>1. request \in Seq(Cells)
        BY <2>1, <3>1
      <4> DEFINE q == todo[w]
      <4>2. q \in Seq(Seq(Cells)) /\ Len(q) = n /\ todo'[w] = Append(q, request)
        BY <2>1, <3>2
      <4> HIDE DEF q, n
      <4>3. /\ Append(q, request) \in Seq(Seq(Cells)) /\ Len(Append(q, request)) = Len(q) + 1
            /\ \A i \in 1 .. Len(q) : Append(q, request)[i] = q[i]
            /\ Append(q, request)[Len(q) + 1] = request
        BY <4>1, <4>2, ParsedMore
      <4> QED
        BY <4>2, <4>3 DEF q
    <3> HIDE DEF n, busy
    <3>4. DOMAIN todo'[w] = 1 .. n + 1
      BY <3>3
    <3>5. ASSUME NEW k \in DOMAIN todo'[w] PROVE todo'[w][k] = Request(Latest + busy + k)
      <4>1. CASE k \in 1 .. n
        BY <2>2, <3>3, <4>1
      <4>2. CASE k = n + 1
        <5>1. Len(parsed) = Latest + busy + k
          BY <1>0, <2>1, <2>3, <3>1, <4>2
        <5> QED
          BY <2>1, <3>1, <3>3, <4>2, <5>1
      <4> QED
        BY <2>1, <3>4, <4>1, <4>2
    <3>6. Len(parsed) = Latest + busy + (n + 1) + 0
      BY <1>0, <2>1, <2>3, <3>1
    <3> QED
      BY <1>3, <3>1, <3>3, <3>5, <3>6 DEF Queued, busy
  <2>5. CASE StartJob(w)
    <3>1. PICK a : /\ WasParsed(a) /\ working' = [working EXCEPT ![w] = a]
                   /\ working[w] = <<>> /\ todo[w] # <<>> /\ a = todo[w][1]
                   /\ todo' = [todo EXCEPT ![w] = Tail(todo[w])]
      BY <2>5, StartHanded
    <3>2. UNCHANGED <<threads, parsed, spc>>
      BY <2>5 DEF StartJob
    <3>3. working'[w] = a /\ todo'[w] = Tail(todo[w]) /\ a # <<>>
      BY <2>1, <3>1, ParsedAreQueries DEF Handed
    <3>4. busy = 0 /\ n >= 1 /\ 1 \in 1 .. n
      BY <2>1, <3>1
    <3>5. a = Request(Latest + 1)
      <4>1. a = Request(Latest + busy + 1)
        BY <2>2, <3>1, <3>4
      <4>2. Latest + busy + 1 = Latest + 1
        BY <1>0, <3>4
      <4> QED
        BY <4>1, <4>2
    <3>6. /\ DOMAIN todo'[w] = 1 .. n - 1 /\ Len(todo'[w]) = n - 1
          /\ \A k \in 1 .. n - 1 : todo'[w][k] = todo[w][k + 1]
      BY <2>1, <3>3, <3>1
    <3> HIDE DEF n, busy
    <3>7. ASSUME NEW k \in DOMAIN todo'[w] PROVE todo'[w][k] = Request(Latest + 1 + k)
      <4>1. k + 1 \in 1 .. n /\ Latest + busy + (k + 1) = Latest + 1 + k
        <5>1. k \in 1 .. n - 1
          BY <3>6
        <5> QED
          BY <1>0, <2>1, <3>4, <5>1
      <4>2. todo[w][k + 1] = Request(Latest + busy + (k + 1))
        BY <2>2, <4>1
      <4> QED
        BY <3>6, <4>1, <4>2
    <3>8. Len(parsed) = Latest + 1 + (n - 1) + IF spc = "handle" THEN 1 ELSE 0
      BY <1>0, <2>1, <2>3, <3>4
    <3> QED
      BY <1>3, <3>2, <3>3, <3>5, <3>6, <3>7, <3>8 DEF Queued
  <2> QED
    BY <1>3, <2>4, <2>5
<1>4. CASE Post \/ \E w \in Workers : StartJob(w)
  <2>1. threads # {}
    BY <1>4, NoThreads DEF Post
  <2>2. \A w, v \in Workers : StartJob(v) /\ threads = {w} => v = w
    BY DEF StartJob, Pool!Run, Handed
  <2> QED
    BY <1>1, <1>3, <1>4, <2>1, <2>2 DEF Queued
<1> QED
  BY <1>2, <1>4

\* At first no request was sent.
LEMMA OrderInit == Init => OrderInv
<1> SUFFICES ASSUME Init, InOrder PROVE Consecutive /\ Queued
  BY DEF OrderInv
<1>1. /\ down = <<>> /\ cpc = "idle" /\ received = 0 /\ sent = 0 /\ spc = "loop" /\ parsed = <<>>
      /\ accepted = [m \in Queries |-> <<>>] /\ Len(down) = 0 /\ Len(parsed) = 0
      /\ working = [w \in Workers |-> <<>>] /\ todo = [w \in Workers |-> <<>>]
      /\ threads \in SUBSET Workers
  BY TypesInit DEF Init, Pool!Init, Types
<1>2. Consecutive
  <2>1. \A m \in Queries : ~ (m <= received) /\ accepted[m] = <<>>
    BY <1>1, QueryCount
  <2> QED
    BY <1>1, <2>1 DEF Consecutive
<1>3. Latest = 0
  BY <1>1 DEF Latest
<1>4. CASE "pipeline" \notin faults
  BY <1>1, <1>2, <1>4 DEF Queued
<1>5. CASE threads = {}
  BY <1>1, <1>2, <1>3, <1>5 DEF Queued
<1>6. ASSUME NEW w \in Workers, threads = {w} PROVE Queued
  <2>1. working[w] = <<>> /\ todo[w] = <<>> /\ DOMAIN todo[w] = {} /\ Len(todo[w]) = 0
    BY <1>1
  <2> QED
    BY <1>1, <1>3, <1>6, <2>1 DEF Queued
<1>7. CASE "pipeline" \in faults
  <2>1. IsFiniteSet(threads)
    BY <1>1, FS_Subset, WireAssumption
  <2>2. Cardinality(threads) \in Nat /\ ~ (Cardinality(threads) > 1)
    BY <1>7, <2>1, FS_CardinalityType DEF InOrder, Overtaking
  <2>3. CASE Cardinality(threads) = 0
    BY <1>2, <1>5, <2>1, <2>3, FS_EmptySet
  <2>4. CASE Cardinality(threads) = 1
    <3>1. PICK w : threads = {w}
      BY <2>1, <2>4, FS_Singleton
    <3> QED
      BY <1>1, <1>2, <1>6, <3>1
  <2> QED
    BY <2>2, <2>3, <2>4
<1> QED
  BY <1>4, <1>7, <1>2

\* A step that moves no answer keeps their order.
LEMMA ConsecutiveSame ==
    ASSUME Consecutive, UNCHANGED <<down, head, accepted, received>>,
           cpc' = cpc \/ (cpc \notin {"head", "body"} /\ cpc' # "body")
    PROVE  Consecutive' /\ Latest' = Latest
<1>1. Latest' = Latest
  BY DEF Latest
<1>2. cpc' = "body" <=> cpc = "body"
  OBVIOUS
<1> QED
  BY <1>1, <1>2 DEF Consecutive, Reading, Took

\* Every step keeps the answers in the order of the queries.
LEMMA OrderStep == StreamInv /\ AnswersInv /\ OrderInv /\ [Next]_vars => OrderInv'
<1> SUFFICES ASSUME StreamInv, AnswersInv, OrderInv, [Next]_vars, InOrder'
             PROVE  Consecutive' /\ Queued'
  BY DEF OrderInv
<1> USE DEF setting, serverVars, clientVars, poolVars
<1>1. InOrder /\ Faultless /\ "segments" \notin faults
  BY SameFaults DEF InOrder, Faultless, Overtaking
<1>2. /\ Types /\ Framed /\ ClosesOnlyAtEnd /\ Handed /\ Whole(down) /\ AtBody /\ Delivered
      /\ Consecutive /\ Queued
  BY <1>1 DEF StreamInv, AnswersInv, OrderInv
<1>3. CASE Handle
  <2>1. PICK m \in Queries : m = Len(parsed) /\ ~ Done(m) /\ down' = down \o Answer(m)
    BY <1>1, <1>2, <1>3, HandleWrites
  <2>2. /\ UNCHANGED <<threads, cpc, head, accepted, received, parsed>> /\ threads = {} /\ spc = "handle"
        /\ spc' = "parse"
    BY <1>1, <1>3, NoFaults DEF Handle, NoRoom
  <2>3. Len(parsed) \in Nat /\ m <= Len(parsed)
    BY <1>2, <2>1 DEF Types
  <2>4. m = Latest + 1
    BY <1>1, <1>2, <2>1, <2>2, <2>3, NextToWrite
  <2>5. Consecutive' /\ Latest' = m
    BY <1>2, <2>1, <2>2, <2>4, ConsecutiveWrite
  <2>6. Queued'
    BY <2>1, <2>2, <2>5 DEF Queued
  <2> QED
    BY <2>5, <2>6
<1>4. ASSUME NEW w \in Workers, GiveResponse(w) PROVE Consecutive' /\ Queued'
  <2>1. PICK m \in Queries : /\ working[w] = Request(m) /\ ~ Done(m) /\ down' = down \o Answer(m)
                             /\ m <= Len(parsed) /\ w \in threads
    BY <1>1, <1>2, <1>4, GiveWrites
  <2>2. /\ UNCHANGED <<threads, cpc, head, accepted, received, parsed, todo, spc>> /\ spc # "closed"
        /\ working' = [working EXCEPT ![w] = <<>>] /\ working[w] # <<>>
    BY <1>4 DEF GiveResponse
  <2>3. m = Latest + 1
    BY <1>1, <1>2, <2>1, <2>2, NextToWrite
  <2>4. Consecutive' /\ Latest' = m
    BY <1>2, <2>1, <2>2, <2>3, ConsecutiveWrite
  <2>5. Latest \in Nat /\ working \in [Workers -> Seq(Cells)]
    BY <1>2, LatestFacts DEF Handed
  <2>6. CASE "pipeline" \notin faults /\ sent <= received + 1
    BY <1>2, <2>4, <2>6, OneAtATime DEF Queued
  <2>7. ASSUME NEW v \in Workers, LET busy == IF working[v] = <<>> THEN 0 ELSE 1 IN
             /\ threads = {v}
             /\ working[v] # <<>> => working[v] = Request(Latest + 1)
             /\ \A k \in DOMAIN todo[v] : todo[v][k] = Request(Latest + busy + k)
             /\ Len(parsed) = Latest + busy + Len(todo[v]) + IF spc = "handle" THEN 1 ELSE 0
        PROVE  Queued'
    <3>1. v = w /\ working'[w] = <<>>
      BY <2>1, <2>2, <2>5, <2>7
    <3>2. \A k \in DOMAIN todo[w] : todo[w][k] = Request(m + 0 + k)
      <4>1. \A k \in DOMAIN todo[w] : todo[w][k] = Request(Latest + 1 + k)
        BY <2>2, <2>7, <3>1
      <4>2. m + 0 = Latest + 1
        BY <2>3, <2>5
      <4> QED
        BY <4>1, <4>2
    <3>3. Len(parsed) = m + 0 + Len(todo[w]) + IF spc = "handle" THEN 1 ELSE 0
      <4>1. Len(parsed) = Latest + 1 + Len(todo[w]) + IF spc = "handle" THEN 1 ELSE 0
        BY <2>2, <2>7, <3>1
      <4>2. m + 0 = Latest + 1
        BY <2>3, <2>5
      <4> QED
        BY <4>1, <4>2
    <3> QED
      BY <2>2, <2>4, <2>7, <3>1, <3>2, <3>3 DEF Queued
  <2> QED
    BY <1>2, <2>1, <2>4, <2>6, <2>7 DEF Queued
<1>5. CASE RecvHead
  <2>1. Consecutive' /\ Latest' = Latest
    BY <1>1, <1>2, <1>5, HeadInOrder
  <2>2. UNCHANGED <<threads, parsed, todo, working, spc>>
    BY <1>5 DEF RecvHead
  <2> QED
    BY <1>2, <2>1, <2>2, QueuedSame
<1>6. CASE RecvBody
  <2>1. Consecutive' /\ Latest' = Latest
    BY <1>1, <1>2, <1>6, BodyInOrder
  <2>2. UNCHANGED <<threads, parsed, todo, working, spc>>
    BY <1>6 DEF RecvBody
  <2> QED
    BY <1>2, <2>1, <2>2, QueuedSame
<1>7. CASE ReadEnd \/ Parse
  <2>1. UNCHANGED <<cpc, head, accepted, received>>
    BY <1>7 DEF ReadEnd, Parse
  <2>2. /\ spc' # "closed" => down' = down
        /\ spc' = "closed" => down' \in {down, <<>>}
    BY <1>7 DEF ReadEnd, Parse, CloseConnection
  <2>3. spc' = "closed" => cpc' = "gone"
    BY <1>1, NoFaults, SameFaults, StreamStep DEF StreamInv, ClosesOnlyAtEnd, KeepsGoing, LosesCells
  <2>4. spc' = "closed" => down = <<>>
    BY <1>2, <2>1, <2>3, GoneEmpty
  <2>5. down' = down
    BY <2>2, <2>4
  <2>6. Consecutive' /\ Latest' = Latest
    BY <1>2, <2>1, <2>5, ConsecutiveSame
  <2>7. CASE ReadEnd
    <3>1. UNCHANGED <<threads, parsed, todo, working>> /\ spc = "read" /\ spc' = "closed"
      BY <2>7 DEF ReadEnd, CloseConnection
    <3> QED
      BY <1>2, <2>6, <3>1, QueuedSame
  <2> QED
    BY <1>1, <1>2, <1>7, <2>6, <2>7, QueuedMoves
<1>8. CASE Post \/ \E w \in Workers : StartJob(w)
  <2>1. UNCHANGED <<down, cpc, head, accepted, received>>
    BY <1>8 DEF Post, StartJob
  <2>2. Consecutive' /\ Latest' = Latest
    BY <1>2, <2>1, ConsecutiveSame
  <2> QED
    BY <1>1, <1>2, <1>8, <2>2, QueuedMoves
<1>9. CASE \/ Dispatch \/ Grow \/ ReadSome \/ ReadAgain
           \/ RecvResponse \/ SendRequest \/ Quit \/ UNCHANGED vars
  <2>1. /\ UNCHANGED <<down, head, accepted, received>>
        /\ cpc' = cpc \/ (cpc \notin {"head", "body"} /\ cpc' # "body")
    BY <1>9 DEF Dispatch, Grow, ReadSome, ReadAgain, RecvResponse, SendRequest, Quit, vars
  <2>2. UNCHANGED <<threads, parsed, todo, working>> /\ (spc' = "handle" <=> spc = "handle")
    BY <1>9 DEF Dispatch, Grow, ReadSome, ReadAgain, RecvResponse, SendRequest, Quit, vars
  <2>3. Consecutive' /\ Latest' = Latest
    BY <1>2, <2>1, ConsecutiveSame
  <2> QED
    BY <1>2, <2>2, <2>3, QueuedSame
<1> QED
  BY <1>3, <1>4, <1>5, <1>6, <1>7, <1>8, <1>9 DEF Next, ServerStep, WorkerStep, ClientStep

\* The whole invariant says whose answer the client takes.
LEMMA OwnFromInv == WireInv => OwnWholeAnswer
<1> SUFFICES ASSUME WireInv, Faultless, NEW m \in Queries, accepted[m] # <<>>
             PROVE  /\ accepted[m] \in Answers
                    /\ \A q \in Queries \ {m} : accepted[q] # accepted[m]
                    /\ "segments" \notin faults /\ ~ Overtaking =>
                            accepted[m] = Message(m, AnswerLens[m])
  BY DEF OwnWholeAnswer
<1>1. AtBody /\ Delivered
  BY DEF WireInv, AnswersInv
<1>2. PICK k \in Queries : accepted[m] = Answer(k)
  BY <1>1 DEF AtBody
<1>3. accepted[m] \in Answers
  BY <1>2 DEF Answers, Answer
<1>4. \A q \in Queries \ {m} : accepted[q] # accepted[m]
  BY <1>1, <1>2 DEF Delivered, Took
<1>5. ASSUME "segments" \notin faults, ~ Overtaking PROVE accepted[m] = Answer(m)
  <2>1. Consecutive
    BY <1>5 DEF WireInv, OrderInv, InOrder
  <2> QED
    BY <2>1 DEF Consecutive, Took
<1> QED
  BY <1>3, <1>4, <1>5 DEF Answer

\* Without faults recv_response takes whole answers only, none of them twice,
\* and, when answers arrive in one piece and nobody overtakes, the answer to
\* the query that waits for it.
THEOREM OwnAnswers == Spec => []OwnWholeAnswer
<1>1. Init => OrderInv
  BY OrderInit
<1>2. StreamInv /\ AnswersInv /\ OrderInv /\ [Next]_vars => OrderInv'
  BY OrderStep
<1>3. StreamInv /\ AnswersInv /\ OrderInv => OwnWholeAnswer
  BY OwnFromInv DEF WireInv
<1> QED
  BY <1>1, <1>2, <1>3, StreamInvariant, AnswersInvariant, PTL DEF Spec
=============================================================================
