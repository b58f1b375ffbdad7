--------------------------- MODULE UdpServerProofs ---------------------------
(***************************************************************************)
(* What UdpServer promises its clients: a request is answered at most once *)
(* for each time it is delivered, and without worker threads an answer     *)
(* reaches whoever asked.  Both rest on where a request can be on its way  *)
(* through the server.                                                     *)
(***************************************************************************)
EXTENDS UdpServer, SequenceTheorems, TLAPS

-----------------------------------------------------------------------------
(* The inductive invariant *)

Cells == Requests \union {Bad}
Datagrams == [from : Clients, body : Seq(Cells)]

\* What every variable may hold, and what a thread has in its hands.
Types ==
    /\ setting \in Settings
    /\ net \subseteq Datagrams
    /\ sent \in [Clients -> 0 .. MaxSend]
    /\ got \in [Clients -> [Requests -> Nat]]
    /\ addr \in Clients \union {None} /\ sender \in Clients \union {None}
    /\ rbuf \in Seq(Cells)
    /\ pc \in {"loop", "recv", "parse", "handle"}
    /\ req \in Requests \union {None} /\ (pc = "handle" <=> req # None)
    /\ wpc \in [Workers -> {"idle", "handle"}]
    /\ wreq \in [Workers -> Requests \union {None}]
    /\ \A w \in Workers : wpc[w] = "handle" <=> wreq[w] # None
    /\ todo \in [Workers -> Seq(Requests)]
    /\ runs \in [Requests -> Nat]

\* What a sequence holds, and that it holds it once.
Items(q) == {q[i] : i \in 1 .. Len(q)}
Distinct(q) == \A i, j \in 1 .. Len(q) : q[i] = q[j] => i = j

\* Where a request that is not answered yet may be.
InFlight(r) == \E d \in net : r \in Items(d.body)
InBuffer(r) == r \in Items(rbuf)
InLoop(r) == req = r
InQueue(r) == \E w \in Workers : r \in Items(todo[w])
InWork(r) == \E w \in Workers : wreq[w] = r

Pending(r) == InFlight(r) \/ InBuffer(r) \/ InLoop(r) \/ InQueue(r) \/ InWork(r)

\* It is in one of these places, once.
OnePlace ==
    /\ Distinct(rbuf)
    /\ \A d \in net : Distinct(d.body)
    /\ \A w \in Workers : Distinct(todo[w])
    /\ \A r \in Requests : \A d, e \in net : r \in Items(d.body) /\ r \in Items(e.body) => d = e
    /\ \A r \in Requests : \A v, w \in Workers : r \in Items(todo[v]) /\ r \in Items(todo[w]) => v = w
    /\ \A r \in Requests : \A v, w \in Workers : wreq[v] = r /\ wreq[w] = r => v = w
    /\ \A r \in Requests : InFlight(r) => ~ InBuffer(r) /\ ~ InLoop(r) /\ ~ InQueue(r) /\ ~ InWork(r)
    /\ \A r \in Requests : InBuffer(r) => ~ InLoop(r) /\ ~ InQueue(r) /\ ~ InWork(r)
    /\ \A r \in Requests : InLoop(r) => ~ InQueue(r) /\ ~ InWork(r)
    /\ \A r \in Requests : InQueue(r) => ~ InWork(r)

\* It was sent, and nobody has got an answer to it.
Unanswered ==
    \A r \in Requests :
        /\ Pending(r) => r[2] <= sent[r[1]]
        /\ Pending(r) \/ r[2] > sent[r[1]] => \A k \in Clients : got[k][r] = 0

\* A request the pool has run is nowhere but with the worker that runs it.
RunOnce ==
    \A r \in Requests : runs[r] > 0 => r[2] <= sent[r[1]] /\ (Pending(r) => InWork(r))

\* A datagram holds its sender's requests, and without threads the loop
\* answers them before request_addr is another's.
Inline ==
    /\ \A d \in net : \A r \in Items(d.body) : r \in Requests => r[1] = d.from
    /\ pc = "recv" => sender \in Clients /\ \A r \in Items(rbuf) : r \in Requests => r[1] = sender
    /\ pc \in {"parse", "handle"} =>
            addr \in Clients /\ \A r \in Items(rbuf) : r \in Requests => r[1] = addr
    /\ pc = "handle" => req[1] = addr
    /\ setting.threads = {} => \A w \in Workers : todo[w] = <<>> /\ wpc[w] = "idle"

UdpInv ==
    Types /\ OnePlace /\ Unanswered /\ AnsweredOnce /\ RunOnce /\ Inline /\ InlineAnswersAsker

USE DEF netVars, connVars, workerVars, poolVars, Cells, Datagrams

-----------------------------------------------------------------------------
(* Constants and lists *)

\* What the assumption says, in parts.
LEMMA Constants ==
    /\ MaxSend \in Nat /\ MaxBatch \in Nat /\ MaxCopies \in Nat \ {0}
    /\ None \notin Clients /\ None \notin Requests /\ Bad \notin Requests
    /\ \A s \in Settings : s.threads \subseteq Workers
BY UdpServerAssumption DEF Requests, Setting

\* A request is its client's, has a number, and comes in one copy of it.
LEMMA RequestParts ==
    \A r \in Requests : r[1] \in Clients /\ r[2] \in 1 .. MaxSend /\ r[3] \in 1 .. MaxCopies
BY DEF Requests

\* A list that got one more element at its end.
LEMMA AppendItems ==
    ASSUME NEW S, NEW q \in Seq(S), NEW x \in S
    PROVE  /\ Append(q, x) \in Seq(S)
           /\ Items(Append(q, x)) = Items(q) \union {x}
           /\ Distinct(q) /\ x \notin Items(q) => Distinct(Append(q, x))
<1>1. /\ Append(q, x) \in Seq(S) /\ Len(Append(q, x)) = Len(q) + 1 /\ Len(q) \in Nat
      /\ \A i \in 1 .. Len(q) : Append(q, x)[i] = q[i]
      /\ Append(q, x)[Len(q) + 1] = x
  OBVIOUS
<1>2. Items(Append(q, x)) = Items(q) \union {x}
  <2>1. \A i \in 1 .. Len(q) + 1 : i \in 1 .. Len(q) \/ i = Len(q) + 1
    BY <1>1
  <2>2. \A i \in 1 .. Len(q) : i \in 1 .. Len(q) + 1
    BY <1>1
  <2>3. Len(q) + 1 \in 1 .. Len(q) + 1
    BY <1>1
  <2> QED
    BY <1>1, <2>1, <2>2, <2>3 DEF Items
<1>3. ASSUME Distinct(q), x \notin Items(q) PROVE Distinct(Append(q, x))
  BY <1>1, <1>3 DEF Distinct, Items
<1> QED
  BY <1>1, <1>2, <1>3

\* A list without its head.
LEMMA TailItems ==
    ASSUME NEW S, NEW q \in Seq(S), q # <<>>
    PROVE  /\ Tail(q) \in Seq(S) /\ Head(q) \in S
           /\ Items(q) = Items(Tail(q)) \union {Head(q)}
           /\ Distinct(q) => Distinct(Tail(q)) /\ Head(q) \notin Items(Tail(q))
<1>1. /\ Tail(q) \in Seq(S) /\ Len(Tail(q)) = Len(q) - 1 /\ Len(q) \in Nat \ {0}
      /\ \A i \in 1 .. Len(q) - 1 : Tail(q)[i] = q[i + 1]
      /\ Head(q) = q[1] /\ Head(q) \in S
  OBVIOUS
<1>2. Items(q) = Items(Tail(q)) \union {Head(q)}
  <2>1. ASSUME NEW i \in 1 .. Len(q) PROVE q[i] \in Items(Tail(q)) \union {Head(q)}
    <3>1. i = 1 \/ (i - 1 \in 1 .. Len(q) - 1 /\ q[i] = Tail(q)[i - 1])
      BY <1>1
    <3> QED
      BY <1>1, <3>1 DEF Items
  <2>2. ASSUME NEW i \in 1 .. Len(q) - 1 PROVE Tail(q)[i] \in Items(q)
    <3>1. i + 1 \in 1 .. Len(q)
      BY <1>1
    <3> QED
      BY <1>1, <3>1 DEF Items
  <2>3. Head(q) \in Items(q)
    BY <1>1 DEF Items
  <2> QED
    BY <1>1, <2>1, <2>2, <2>3 DEF Items
<1>3. ASSUME Distinct(q) PROVE Distinct(Tail(q)) /\ Head(q) \notin Items(Tail(q))
  BY <1>1, <1>3 DEF Distinct, Items
<1> QED
  BY <1>1, <1>2, <1>3

\* A list with nothing in it.
LEMMA EmptyItems == Items(<<>>) = {} /\ Distinct(<<>>) /\ \A S : <<>> \in Seq(S)
BY DEF Items, Distinct

\* A datagram has a client's next requests in it, all of one copy, and nothing
\* else it has sent.
LEMMA NextBody ==
    ASSUME NEW k \in Clients, NEW n \in Nat, sent[k] \in Nat, sent[k] + n <= MaxSend,
           NEW bad \in {<<>>, <<Bad>>}, NEW copy \in 1 .. MaxCopies
    PROVE  LET d == Datagram(k, n, copy, bad) IN
           /\ d \in Datagrams /\ d.from = k /\ Distinct(d.body)
           /\ \A r \in Items(d.body) : r \in Requests =>
                r[1] = k /\ sent[k] < r[2] /\ r[2] <= sent[k] + n /\ r[3] = copy
<1> DEFINE s == sent[k]
           b == [m \in 1 .. n |-> <<k, s + m, copy>>]
           q == bad \o b
<1>1. \A m \in 1 .. n : <<k, s + m, copy>> \in Requests /\ <<k, s + m, copy>> \in Cells
  BY Constants DEF Requests
<1>2. b \in Seq(Cells) /\ Len(b) = n /\ \A m \in 1 .. n : b[m] = <<k, s + m, copy>>
  BY <1>1, SMTT(30)
<1>3. bad \in Seq(Cells) /\ Len(bad) \in 0 .. 1 /\ (Len(bad) = 1 => bad[1] = Bad)
  <2>1. CASE bad = <<>>
    BY <2>1
  <2>2. CASE bad = <<Bad>>
    BY <2>2
  <2> QED
    BY <2>1, <2>2
<1> HIDE DEF b
<1>4. /\ q \in Seq(Cells) /\ Len(q) = Len(bad) + n
      /\ \A i \in 1 .. Len(bad) + n : q[i] = IF i <= Len(bad) THEN bad[i] ELSE b[i - Len(bad)]
  <2>1. /\ q \in Seq(Cells) /\ Len(q) = Len(bad) + Len(b)
        /\ \A i \in 1 .. Len(bad) + Len(b) : q[i] = IF i <= Len(bad) THEN bad[i] ELSE b[i - Len(bad)]
    BY <1>2, <1>3, ConcatProperties, ZenonT(60)
  <2> QED
    BY <1>2, <2>1
<1> HIDE DEF q
<1>5. ASSUME NEW i \in 1 .. Len(q)
      PROVE  \/ i = 1 /\ Len(bad) = 1 /\ q[i] = Bad
             \/ i - Len(bad) \in 1 .. n /\ q[i] = <<k, s + (i - Len(bad)), copy>>
  <2>1. CASE i <= Len(bad)
    BY <1>3, <1>4, <2>1
  <2>2. CASE i > Len(bad)
    <3>1. i - Len(bad) \in 1 .. n /\ q[i] = b[i - Len(bad)]
      BY <1>3, <1>4, <2>2
    <3> QED
      BY <1>2, <3>1
  <2> QED
    BY <1>3, <2>1, <2>2
<1>6. Distinct(q)
  <2> SUFFICES ASSUME NEW i \in 1 .. Len(q), NEW j \in 1 .. Len(q), q[i] = q[j] PROVE i = j
    BY DEF Distinct
  <2>1. \A m \in 1 .. n : <<k, s + m, copy>> # Bad
    BY <1>1, Constants
  <2>2. (q[i] = Bad => i = 1) /\ (q[j] = Bad => j = 1)
    BY <1>5, <2>1
  <2>3. CASE q[i] = Bad
    BY <2>2, <2>3
  <2>4. CASE q[i] # Bad
    <3>1. s + (i - Len(bad)) = s + (j - Len(bad))
      BY <1>5, <2>4
    <3> QED
      BY <1>3, <1>4, <3>1
  <2> QED
    BY <2>3, <2>4
<1>7. ASSUME NEW r \in Items(q), r \in Requests
      PROVE  r[1] = k /\ s < r[2] /\ r[2] <= s + n /\ r[3] = copy
  <2>1. PICK i \in 1 .. Len(q) : q[i] = r
    BY <1>7 DEF Items
  <2>2. i - Len(bad) \in 1 .. n /\ r = <<k, s + (i - Len(bad)), copy>>
    BY <1>5, <1>7, <2>1, Constants
  <2> QED
    BY <2>2
<1>8. Datagram(k, n, copy, bad) = [from |-> k, body |-> q]
  BY DEF Datagram, q, b
<1> QED
  BY <1>4, <1>6, <1>7, <1>8

\* What a client sends is new, and no two datagrams share a request.
LEMMA NewDatagrams ==
    ASSUME Types, NEW k \in Clients, NEW n \in 1 .. MaxBatch, Send(k, n)
    PROVE  /\ sent[k] \in Nat /\ n \in Nat /\ sent[k] + n <= MaxSend
           /\ sent' = [sent EXCEPT ![k] = @ + n]
           /\ \E new \in SUBSET Datagrams :
                /\ net' = net \union new
                /\ \A d \in new :
                    /\ d.from = k /\ Distinct(d.body)
                    /\ \A r \in Items(d.body) : r \in Requests =>
                            r[1] = k /\ sent[k] < r[2] /\ r[2] <= sent[k] + n
                /\ \A r \in Requests : \A d, e \in new :
                        r \in Items(d.body) /\ r \in Items(e.body) => d = e
<1>1. sent[k] \in Nat /\ n \in Nat /\ sent[k] + n <= MaxSend /\ sent' = [sent EXCEPT ![k] = @ + n]
  <2>1. sent[k] \in 0 .. MaxSend /\ n \in 1 .. MaxBatch
    BY DEF Types
  <2> QED
    BY <2>1, Constants DEF Send
<1>2. PICK bad \in {<<>>, <<Bad>>}, copies \in {1, MaxCopies} :
        net' = net \union {Datagram(k, n, copy, bad) : copy \in 1 .. copies}
  BY DEF Send
<1>3. \A copy \in 1 .. copies : copy \in 1 .. MaxCopies
  BY Constants
<1> DEFINE new == {Datagram(k, n, copy, bad) : copy \in 1 .. copies}
<1>4. ASSUME NEW copy \in 1 .. copies
      PROVE  LET d == Datagram(k, n, copy, bad) IN
             /\ d \in Datagrams /\ d.from = k /\ Distinct(d.body)
             /\ \A r \in Items(d.body) : r \in Requests =>
                    r[1] = k /\ sent[k] < r[2] /\ r[2] <= sent[k] + n /\ r[3] = copy
  BY <1>1, <1>3, NextBody
<1>5. ASSUME NEW d \in new
      PROVE  /\ d \in Datagrams /\ d.from = k /\ Distinct(d.body)
             /\ \A r \in Items(d.body) : r \in Requests =>
                    r[1] = k /\ sent[k] < r[2] /\ r[2] <= sent[k] + n
  BY <1>4
<1>6. ASSUME NEW r \in Requests, NEW d \in new, NEW e \in new,
             r \in Items(d.body), r \in Items(e.body)
      PROVE  d = e
  <2>1. PICK c \in 1 .. copies : d = Datagram(k, n, c, bad)
    OBVIOUS
  <2>2. PICK f \in 1 .. copies : e = Datagram(k, n, f, bad)
    OBVIOUS
  <2>3. r[3] = c /\ r[3] = f
    BY <1>4, <1>6, <2>1, <2>2
  <2> QED
    BY <2>1, <2>2, <2>3
<1>7. new \in SUBSET Datagrams
  BY <1>5
<1>8. net' = net \union new
  BY <1>2
<1> HIDE DEF new
<1> QED
  BY <1>1, <1>5, <1>6, <1>7, <1>8

-----------------------------------------------------------------------------
(* The steps *)

\* sendto may reach one client, which counts the answer.
LEMMA Given ==
    ASSUME Types, NEW r \in Requests, GiveResponse(r)
    PROVE  \/ got' = got /\ addr = None
           \/ \E k \in Clients : addr \in {k, None} /\ got' = [got EXCEPT ![k][r] = @ + 1]
BY DEF GiveResponse

\* Nothing is anywhere, and nothing answered, to start with.
LEMMA InitUdp == Init => UdpInv
<1> SUFFICES ASSUME Init PROVE UdpInv
  OBVIOUS
<1>1. /\ net = {} /\ rbuf = <<>> /\ req = None /\ pc = "loop"
      /\ \A w \in Workers : todo[w] = <<>> /\ wreq[w] = None /\ wpc[w] = "idle"
      /\ \A k \in Clients : \A r \in Requests : got[k][r] = 0
  BY DEF Init, Pool!Init
<1>2. Types
  BY Constants, EmptyItems DEF Init, Pool!Init, Types
<1>3. \A r \in Requests : ~ Pending(r)
  BY <1>1, EmptyItems, Constants
     DEF Pending, InFlight, InBuffer, InLoop, InQueue, InWork
<1>4. OnePlace
  BY <1>1, EmptyItems, Constants
     DEF OnePlace, InFlight, InBuffer, InLoop, InQueue, InWork
<1>5. Unanswered /\ AnsweredOnce /\ InlineAnswersAsker
  BY <1>1, <1>3 DEF Unanswered, AnsweredOnce, InlineAnswersAsker, AnswerToAsker
<1>6. Inline
  BY <1>1 DEF Inline
<1>7. RunOnce
  BY DEF Init, Pool!Init, RunOnce
<1> QED
  BY <1>2, <1>4, <1>5, <1>6, <1>7 DEF UdpInv

\* Every step keeps the types.
LEMMA TypesStep == Types /\ [Next]_vars => Types'
<1> SUFFICES ASSUME Types, [Next]_vars PROVE Types'
  OBVIOUS
<1>1. ASSUME NEW k \in Clients, NEW n \in 1 .. MaxBatch, Send(k, n) PROVE Types'
  <2>1. /\ sent[k] \in Nat /\ n \in Nat /\ sent[k] + n <= MaxSend
        /\ sent' = [sent EXCEPT ![k] = @ + n]
        /\ \E new \in SUBSET Datagrams : net' = net \union new
    BY <1>1, NewDatagrams
  <2>2. sent[k] + n \in 0 .. MaxSend
    BY <2>1, Constants
  <2>3. sent' \in [Clients -> 0 .. MaxSend] /\ net' \subseteq Datagrams
    BY <2>1, <2>2 DEF Types
  <2> QED
    BY <1>1, <2>3 DEF Send, Types
<1>2. ASSUME NEW d \in net, Lose(d) \/ Recv(d) PROVE Types'
  BY <1>2, Constants DEF Lose, Recv, Types
<1>3. CASE Received
  BY <1>3, Constants DEF Received, Types
<1>4. CASE Parse
  <2>1. CASE ~ Parsable
    BY <1>4, <2>1, Constants DEF Parse, Types
  <2>2. CASE Parsable
    <3>1. rbuf \in Seq(Cells) /\ rbuf # <<>> /\ Head(rbuf) # Bad
      BY <2>2 DEF Parsable, Types
    <3>2. Tail(rbuf) \in Seq(Cells) /\ Head(rbuf) \in Requests
      BY <3>1, TailItems
    <3> QED
      BY <1>4, <2>2, <3>2, Constants DEF Parse, Types
  <2> QED
    BY <2>1, <2>2
<1>5. ASSUME NEW r \in Requests, GiveResponse(r) PROVE got' \in [Clients -> [Requests -> Nat]]
  <2>1. got \in [Clients -> [Requests -> Nat]]
    BY DEF Types
  <2>2. ASSUME NEW k \in Clients, got' = [got EXCEPT ![k][r] = @ + 1]
        PROVE  got' \in [Clients -> [Requests -> Nat]]
    <3>1. got[k] \in [Requests -> Nat] /\ got[k][r] + 1 \in Nat
      BY <2>1
    <3>2. got' = [got EXCEPT ![k] = [got[k] EXCEPT ![r] = got[k][r] + 1]]
      BY <2>2
    <3> QED
      BY <2>1, <3>1, <3>2
  <2> QED
    BY <1>5, <2>1, <2>2, Given
<1>6. CASE HandleInline
  <2>1. req \in Requests
    BY <1>6 DEF HandleInline, Types
  <2>2. got' \in [Clients -> [Requests -> Nat]]
    BY <1>5, <1>6, <2>1 DEF HandleInline, Types
  <2> QED
    BY <1>6, <2>2 DEF HandleInline, Types
<1>7. CASE Post
  <2>1. req \in Requests /\ setting.threads \subseteq Workers
    BY <1>7, Constants DEF Post, Types
  <2>2. todo' \in [Workers -> Seq(Requests)] /\ runs' = runs
    <3>1. ASSUME NEW w \in setting.threads, Pool!Accept(w, req)
          PROVE  todo' \in [Workers -> Seq(Requests)] /\ runs' = runs
      <4>1. w \in Workers /\ Append(todo[w], req) \in Seq(Requests)
        BY <2>1, AppendItems DEF Types
      <4> QED
        BY <3>1, <4>1 DEF Pool!Accept, Types
    <3> QED
      BY <1>7, <3>1 DEF Post, Types
  <2> QED
    BY <1>7, <2>2 DEF Post, Types
<1>8. ASSUME NEW w \in Workers, StartJob(w) PROVE Types'
  <2>1. todo[w] \in Seq(Requests) /\ todo[w] # <<>>
    BY <1>8 DEF StartJob, Types
  <2>2. Tail(todo[w]) \in Seq(Requests) /\ Head(todo[w]) \in Requests /\ Head(todo[w]) # None
    BY <2>1, TailItems, Constants
  <2>3. todo' \in [Workers -> Seq(Requests)] /\ runs' \in [Requests -> Nat]
    BY <1>8, <2>2, SMTT(30) DEF StartJob, Pool!Run, Types
  <2>4. /\ wreq' \in [Workers -> Requests \union {None}] /\ wpc' \in [Workers -> {"idle", "handle"}]
        /\ \A v \in Workers : wpc'[v] = "handle" <=> wreq'[v] # None
    BY <1>8, <2>2 DEF StartJob, Types
  <2> QED
    BY <1>8, <2>3, <2>4 DEF StartJob, Types
<1>9. ASSUME NEW w \in Workers, Handle(w) PROVE Types'
  <2>1. wreq[w] \in Requests
    BY <1>9 DEF Handle, Types
  <2>2. got' \in [Clients -> [Requests -> Nat]]
    BY <1>5, <1>9, <2>1 DEF Handle, Types
  <2>3. /\ wreq' \in [Workers -> Requests \union {None}] /\ wpc' \in [Workers -> {"idle", "handle"}]
        /\ \A v \in Workers : wpc'[v] = "handle" <=> wreq'[v] # None
    BY <1>9 DEF Handle, Types
  <2> QED
    BY <1>9, <2>2, <2>3 DEF Handle, Types
<1>10. CASE UNCHANGED vars
  BY <1>10 DEF vars, Types
<1> QED
  BY <1>1, <1>2, <1>3, <1>4, <1>6, <1>7, <1>8, <1>9, <1>10 DEF Next, MainStep, WorkerStep

\* The requests a step puts somewhere were pending, or are being sent.
Sent(r) == sent[r[1]] < r[2] /\ r[2] <= sent'[r[1]]

\* A datagram carries requests that were not sent before.
LEMMA SendPlaces ==
    ASSUME Types, OnePlace, Unanswered, NEW k \in Clients, NEW n \in 1 .. MaxBatch, Send(k, n)
    PROVE  /\ OnePlace'
           /\ \A r \in Requests : Pending(r)' => Pending(r) \/ Sent(r)
           /\ sent[k] \in Nat /\ n \in Nat /\ sent' = [sent EXCEPT ![k] = @ + n]
<1>1. sent[k] \in Nat /\ n \in Nat /\ sent' = [sent EXCEPT ![k] = @ + n]
  BY NewDatagrams
<1>2. PICK new \in SUBSET Datagrams :
        /\ net' = net \union new
        /\ \A d \in new :
            /\ d.from = k /\ Distinct(d.body)
            /\ \A r \in Items(d.body) : r \in Requests =>
                    r[1] = k /\ sent[k] < r[2] /\ r[2] <= sent[k] + n
        /\ \A r \in Requests : \A d, e \in new :
                r \in Items(d.body) /\ r \in Items(e.body) => d = e
  BY NewDatagrams
<1>3. sent'[k] = sent[k] + n
  BY <1>1 DEF Types
<1>4. ASSUME NEW r \in Requests, NEW d \in new, r \in Items(d.body) PROVE Sent(r) /\ ~ Pending(r)
  <2>1. r[1] = k /\ sent[k] < r[2] /\ r[2] <= sent[k] + n /\ r[2] \in Nat
    BY <1>2, <1>4, RequestParts, Constants
  <2> QED
    BY <1>1, <1>3, <2>1 DEF Sent, Unanswered
<1>5. \A r \in Requests :
        /\ InFlight(r)' <=> InFlight(r) \/ \E d \in new : r \in Items(d.body)
        /\ InBuffer(r)' <=> InBuffer(r)
        /\ InLoop(r)' <=> InLoop(r)
        /\ InQueue(r)' <=> InQueue(r)
        /\ InWork(r)' <=> InWork(r)
  BY <1>2 DEF Send, InFlight, InBuffer, InLoop, InQueue, InWork
<1>6. UNCHANGED <<rbuf, todo, req, wreq>>
  BY DEF Send
<1>7. \A r \in Requests : Pending(r)' => Pending(r) \/ Sent(r)
  BY <1>4, <1>5 DEF Pending
<1>8. \A r \in Requests : \A e, f \in net' : r \in Items(e.body) /\ r \in Items(f.body) => e = f
  <2>1. \A r \in Requests : \A e \in net, f \in new :
            r \in Items(e.body) => r \notin Items(f.body)
    BY <1>4 DEF Pending, InFlight
  <2> QED
    BY <1>2, <2>1 DEF OnePlace
<1>9. \A e \in net' : Distinct(e.body)
  BY <1>2 DEF OnePlace
<1>10. \A r \in Requests :
        /\ InFlight(r)' => ~ InBuffer(r)' /\ ~ InLoop(r)' /\ ~ InQueue(r)' /\ ~ InWork(r)'
        /\ InBuffer(r)' => ~ InLoop(r)' /\ ~ InQueue(r)' /\ ~ InWork(r)'
        /\ InLoop(r)' => ~ InQueue(r)' /\ ~ InWork(r)'
        /\ InQueue(r)' => ~ InWork(r)'
  BY <1>4, <1>5 DEF OnePlace, Pending
<1>11. OnePlace'
  BY <1>6, <1>8, <1>9, <1>10 DEF OnePlace
<1> QED
  BY <1>1, <1>7, <1>11

\* recvfrom takes a datagram as a whole.
LEMMA RecvPlaces ==
    ASSUME Types, OnePlace, NEW d \in net, Recv(d) \/ Lose(d)
    PROVE  OnePlace' /\ \A r \in Requests : Pending(r)' => Pending(r)
<1>1. \A r \in Requests : r \in Items(d.body) => InFlight(r)
  BY DEF InFlight
<1>2. CASE Lose(d)
  <2>1. net' \subseteq net /\ UNCHANGED <<rbuf, req, todo, wreq>>
    BY <1>2 DEF Lose
  <2>2. \A r \in Requests :
        /\ InFlight(r)' => InFlight(r)
        /\ InBuffer(r)' <=> InBuffer(r)
        /\ InLoop(r)' <=> InLoop(r)
        /\ InQueue(r)' <=> InQueue(r)
        /\ InWork(r)' <=> InWork(r)
    BY <2>1 DEF InFlight, InBuffer, InLoop, InQueue, InWork
  <2> QED
    BY <2>1, <2>2 DEF OnePlace, Pending
<1>3. CASE Recv(d)
  <2>1. net' = net \ {d} /\ rbuf' = d.body /\ UNCHANGED <<req, todo, wreq>>
    BY <1>3 DEF Recv
  <2>2. \A r \in Requests :
        /\ InFlight(r)' => InFlight(r) /\ r \notin Items(d.body)
        /\ InBuffer(r)' <=> r \in Items(d.body)
        /\ InLoop(r)' <=> InLoop(r)
        /\ InQueue(r)' <=> InQueue(r)
        /\ InWork(r)' <=> InWork(r)
    BY <2>1 DEF OnePlace, InFlight, InBuffer, InLoop, InQueue, InWork
  <2> QED
    BY <1>1, <2>1, <2>2 DEF OnePlace, Pending
<1> QED
  BY <1>2, <1>3

\* parse_request takes the first request of the datagram.
LEMMA ParsePlaces ==
    ASSUME Types, OnePlace, Parse
    PROVE  OnePlace' /\ \A r \in Requests : Pending(r)' => Pending(r)
<1>1. UNCHANGED <<net, todo, wreq>>
  BY DEF Parse
<1>2. \A r \in Requests :
        /\ InFlight(r)' <=> InFlight(r)
        /\ InQueue(r)' <=> InQueue(r)
        /\ InWork(r)' <=> InWork(r)
  BY <1>1 DEF InFlight, InQueue, InWork
<1>3. CASE ~ Parsable
  <2>1. UNCHANGED <<rbuf, req>>
    BY <1>3 DEF Parse
  <2> QED
    BY <1>1, <1>2, <2>1 DEF OnePlace, Pending, InBuffer, InLoop
<1>4. CASE Parsable
  <2>1. rbuf \in Seq(Cells) /\ rbuf # <<>> /\ rbuf' = Tail(rbuf) /\ req' = Head(rbuf)
    BY <1>4 DEF Parse, Parsable, Types
  <2>2. Items(rbuf) = Items(rbuf') \union {req'} /\ req' \notin Items(rbuf') /\ Distinct(rbuf')
    BY <2>1, TailItems DEF OnePlace
  <2>3. \A r \in Requests :
        /\ InBuffer(r) <=> InBuffer(r)' \/ InLoop(r)'
        /\ ~ (InBuffer(r)' /\ InLoop(r)')
    BY <2>2 DEF InBuffer, InLoop
  <2> QED
    BY <1>1, <1>2, <2>2, <2>3 DEF OnePlace, Pending
<1> QED
  BY <1>3, <1>4

\* create_job puts the request into one queue, or loses it.
LEMMA PostPlaces ==
    ASSUME Types, OnePlace, Post
    PROVE  OnePlace' /\ \A r \in Requests : Pending(r)' => Pending(r)
<1>1. req \in Requests /\ req' = None /\ setting.threads \subseteq Workers
      /\ UNCHANGED <<net, rbuf, wreq>>
  BY Constants DEF Post, Types
<1>2. \A r \in Requests :
        /\ InFlight(r)' <=> InFlight(r)
        /\ InBuffer(r)' <=> InBuffer(r)
        /\ ~ InLoop(r)'
        /\ InWork(r)' <=> InWork(r)
  BY <1>1, Constants DEF InFlight, InBuffer, InLoop, InWork
<1>3. CASE todo' = todo
  BY <1>1, <1>2, <1>3 DEF OnePlace, Pending, InQueue
<1>4. ASSUME NEW w \in setting.threads, Pool!Accept(w, req)
      PROVE  OnePlace' /\ \A r \in Requests : Pending(r)' => Pending(r)
  <2>1. w \in Workers /\ todo[w] \in Seq(Requests) /\ todo' = [todo EXCEPT ![w] = Append(@, req)]
    BY <1>1, <1>4 DEF Pool!Accept, Types
  <2>2. \A v \in Workers : req \notin Items(todo[v])
    BY <1>1 DEF OnePlace, InLoop, InQueue
  <2>3. /\ todo'[w] = Append(todo[w], req)
        /\ \A v \in Workers : v # w => todo'[v] = todo[v]
    BY <2>1 DEF Types
  <2>4. /\ Items(todo'[w]) = Items(todo[w]) \union {req}
        /\ Distinct(todo'[w])
    BY <1>1, <2>1, <2>2, <2>3, AppendItems DEF OnePlace
  <2>5. \A v \in Workers : \A r \in Requests :
            r \in Items(todo'[v]) <=> r \in Items(todo[v]) \/ (v = w /\ r = req)
    BY <2>3, <2>4
  <2>6. \A v \in Workers : Distinct(todo'[v])
    BY <2>3, <2>4 DEF OnePlace
  <2>7. \A r \in Requests : InQueue(r)' <=> InQueue(r) \/ InLoop(r)
    BY <2>1, <2>5 DEF InQueue, InLoop
  <2>8. \A r \in Requests : \A u, v \in Workers :
            r \in Items(todo'[u]) /\ r \in Items(todo'[v]) => u = v
    BY <2>2, <2>5 DEF OnePlace
  <2> QED
    BY <1>1, <1>2, <2>6, <2>7, <2>8 DEF OnePlace, Pending
<1> QED
  BY <1>3, <1>4 DEF Post

\* A worker takes the first request of its queue.
LEMMA StartPlaces ==
    ASSUME Types, OnePlace, NEW w \in Workers, StartJob(w)
    PROVE  OnePlace' /\ \A r \in Requests : Pending(r)' => Pending(r)
<1> DEFINE h == Head(todo[w])
<1>1. todo[w] \in Seq(Requests) /\ todo[w] # <<>> /\ wreq[w] = None
  BY DEF StartJob, Types
<1>2. /\ todo' = [todo EXCEPT ![w] = Tail(@)] /\ wreq' = [wreq EXCEPT ![w] = h]
      /\ UNCHANGED <<net, rbuf, req>>
  BY DEF StartJob, Pool!Run
<1>3. /\ h \in Requests /\ h \notin Items(Tail(todo[w])) /\ Distinct(Tail(todo[w]))
      /\ Items(todo[w]) = Items(Tail(todo[w])) \union {h}
  BY <1>1, TailItems DEF OnePlace
<1> HIDE DEF h
<1>4. /\ todo'[w] = Tail(todo[w]) /\ wreq'[w] = h
      /\ \A v \in Workers : v # w => todo'[v] = todo[v] /\ wreq'[v] = wreq[v]
  BY <1>2 DEF Types
<1>5. \A v \in Workers : \A r \in Requests :
        r \in Items(todo'[v]) <=> r \in Items(todo[v]) /\ ~ (v = w /\ r = h)
  BY <1>3, <1>4
<1>6. \A v \in Workers : Distinct(todo'[v])
  BY <1>3, <1>4 DEF OnePlace
<1>7. h \in Items(todo[w])
  BY <1>3
<1>8. \A r \in Requests :
        /\ InQueue(r)' <=> InQueue(r) /\ r # h
        /\ InWork(r)' <=> InWork(r) \/ r = h
  <2>1. \A v \in Workers : h \in Items(todo[v]) => v = w
    BY <1>3, <1>7 DEF OnePlace
  <2>2. \A r \in Requests : r # None
    BY Constants
  <2> QED
    BY <1>1, <1>4, <1>5, <2>1, <2>2 DEF InQueue, InWork
<1>9. InQueue(h) /\ ~ InWork(h)
  BY <1>3, <1>7 DEF OnePlace, InQueue
<1>10. \A r \in Requests : \A u, v \in Workers : wreq'[u] = r /\ wreq'[v] = r => u = v
  BY <1>3, <1>4, <1>9 DEF OnePlace, InWork
<1>11. \A r \in Requests :
        /\ InFlight(r)' <=> InFlight(r)
        /\ InBuffer(r)' <=> InBuffer(r)
        /\ InLoop(r)' <=> InLoop(r)
  BY <1>2 DEF InFlight, InBuffer, InLoop
<1>12. \A r \in Requests : \A u, v \in Workers :
        r \in Items(todo'[u]) /\ r \in Items(todo'[v]) => u = v
  BY <1>5 DEF OnePlace
<1>13. rbuf' = rbuf /\ net' = net
  BY <1>2
<1>14. \A r \in Requests : InQueue(r)' => ~ InWork(r)'
  BY <1>8, <1>9 DEF OnePlace
<1>15. \A r \in Requests :
        /\ InFlight(r)' => ~ InBuffer(r)' /\ ~ InLoop(r)' /\ ~ InQueue(r)' /\ ~ InWork(r)'
        /\ InBuffer(r)' => ~ InLoop(r)' /\ ~ InQueue(r)' /\ ~ InWork(r)'
        /\ InLoop(r)' => ~ InQueue(r)' /\ ~ InWork(r)'
  BY <1>8, <1>9, <1>11 DEF OnePlace
<1>16. OnePlace'
  BY <1>6, <1>10, <1>12, <1>13, <1>14, <1>15 DEF OnePlace
<1> QED
  BY <1>8, <1>9, <1>11, <1>16 DEF Pending

\* Whoever answers a request, or fails to, is through with it.
LEMMA HandlePlaces ==
    ASSUME Types, OnePlace, NEW r \in Requests,
           (HandleInline /\ r = req) \/ \E w \in Workers : Handle(w) /\ r = wreq[w]
    PROVE  /\ OnePlace' /\ Pending(r)
           /\ \A q \in Requests : Pending(q)' => Pending(q) /\ q # r
           /\ sent' = sent
           /\ got' = got \/ GiveResponse(r)
<1>1. CASE HandleInline /\ r = req
  <2>1. req' = None /\ UNCHANGED <<net, rbuf, todo, wreq, sent>>
    BY <1>1 DEF HandleInline
  <2>2. \A q \in Requests :
        /\ InFlight(q)' <=> InFlight(q)
        /\ InBuffer(q)' <=> InBuffer(q)
        /\ InQueue(q)' <=> InQueue(q)
        /\ InWork(q)' <=> InWork(q)
        /\ ~ InLoop(q)'
    BY <2>1, Constants DEF InFlight, InBuffer, InLoop, InQueue, InWork
  <2>3. \A q \in Requests : Pending(q)' => Pending(q) /\ q # r
    BY <1>1, <2>2 DEF OnePlace, Pending, InLoop
  <2>4. OnePlace'
    BY <2>1, <2>2 DEF OnePlace
  <2>5. Pending(r)
    BY <1>1 DEF Pending, InLoop
  <2>6. got' = got \/ GiveResponse(r)
    BY <1>1 DEF HandleInline
  <2> QED
    BY <2>1, <2>3, <2>4, <2>5, <2>6
<1>2. ASSUME NEW w \in Workers, Handle(w), r = wreq[w]
      PROVE  /\ OnePlace' /\ Pending(r)
             /\ \A q \in Requests : Pending(q)' => Pending(q) /\ q # r
             /\ sent' = sent
             /\ got' = got \/ GiveResponse(r)
  <2>1. /\ wreq' = [wreq EXCEPT ![w] = None] /\ UNCHANGED <<net, rbuf, todo, req, sent>>
        /\ got' = got \/ GiveResponse(r)
    BY <1>2 DEF Handle
  <2>2. wreq'[w] = None /\ \A v \in Workers : v # w => wreq'[v] = wreq[v]
    BY <2>1 DEF Types
  <2>3. \A v \in Workers : wreq[v] = r => v = w
    BY <1>2 DEF OnePlace
  <2>4. \A q \in Requests :
        /\ InFlight(q)' <=> InFlight(q)
        /\ InBuffer(q)' <=> InBuffer(q)
        /\ InQueue(q)' <=> InQueue(q)
        /\ InLoop(q)' <=> InLoop(q)
        /\ InWork(q)' => InWork(q) /\ q # r
    BY <2>1, <2>2, <2>3, Constants DEF InFlight, InBuffer, InLoop, InQueue, InWork
  <2>5. InWork(r)
    BY <1>2 DEF InWork
  <2>6. \A q \in Requests : Pending(q)' => Pending(q) /\ q # r
    BY <2>4, <2>5 DEF OnePlace, Pending
  <2>7. \A q \in Requests : \A u, v \in Workers : wreq'[u] = q /\ wreq'[v] = q => u = v
    BY <2>2, Constants DEF OnePlace
  <2>8. OnePlace'
    BY <2>1, <2>4, <2>7 DEF OnePlace
  <2> QED
    BY <2>1, <2>5, <2>6, <2>8 DEF Pending
<1> QED
  BY <1>1, <1>2

\* Every step is one of the ones above as far as requests go.
LEMMA PlacesStep ==
    ASSUME Types, OnePlace, Unanswered, [Next]_vars
    PROVE  /\ OnePlace'
           /\ \/ /\ \A r \in Requests : Pending(r)' => Pending(r) \/ Sent(r)
                 /\ got' = got
                 /\ \/ sent' = sent
                    \/ \E k \in Clients, n \in Nat :
                        sent[k] \in Nat /\ sent' = [sent EXCEPT ![k] = @ + n]
              \/ \E r \in Requests :
                    /\ (HandleInline /\ r = req) \/ \E w \in Workers : Handle(w) /\ r = wreq[w]
                    /\ Pending(r)
                    /\ \A q \in Requests : Pending(q)' => Pending(q) /\ q # r
                    /\ sent' = sent
                    /\ got' = got \/ GiveResponse(r)
<1>1. ASSUME NEW k \in Clients, NEW n \in 1 .. MaxBatch, Send(k, n)
      PROVE  /\ OnePlace' /\ got' = got
             /\ \A r \in Requests : Pending(r)' => Pending(r) \/ Sent(r)
             /\ sent[k] \in Nat /\ n \in Nat /\ sent' = [sent EXCEPT ![k] = @ + n]
  BY <1>1, SendPlaces DEF Send
<1>2. ASSUME OnePlace', \A r \in Requests : Pending(r)' => Pending(r), UNCHANGED <<got, sent>>
      PROVE  /\ OnePlace' /\ got' = got /\ sent' = sent
             /\ \A r \in Requests : Pending(r)' => Pending(r) \/ Sent(r)
  BY <1>2
<1>3. ASSUME NEW d \in net, Lose(d) \/ Recv(d)
      PROVE  OnePlace' /\ (\A r \in Requests : Pending(r)' => Pending(r)) /\ UNCHANGED <<got, sent>>
  BY <1>3, RecvPlaces DEF Lose, Recv
<1>4. CASE UNCHANGED <<net, rbuf, req, todo, wreq>> /\ UNCHANGED <<got, sent>>
  <2>1. OnePlace' /\ \A r \in Requests : Pending(r)' => Pending(r)
    BY <1>4 DEF OnePlace, Pending, InFlight, InBuffer, InLoop, InQueue, InWork
  <2> QED
    BY <1>2, <1>4, <2>1
<1>5. CASE Received \/ UNCHANGED vars
  BY <1>4, <1>5 DEF Received, vars
<1>6. CASE Parse
  BY <1>2, <1>6, ParsePlaces DEF Parse
<1>7. CASE Post
  BY <1>2, <1>7, PostPlaces DEF Post
<1>8. ASSUME NEW w \in Workers, StartJob(w)
      PROVE  OnePlace' /\ (\A r \in Requests : Pending(r)' => Pending(r)) /\ UNCHANGED <<got, sent>>
  BY <1>8, StartPlaces DEF StartJob
<1>9. CASE HandleInline
  <2>1. PICK r \in Requests : r = req
    BY <1>9 DEF HandleInline, Types
  <2> QED
    BY <1>9, <2>1, HandlePlaces
<1>10. ASSUME NEW w \in Workers, Handle(w)
       PROVE  OnePlace' /\ \E r \in Requests :
                    /\ Handle(w) /\ r = wreq[w]
                    /\ Pending(r)
                    /\ \A q \in Requests : Pending(q)' => Pending(q) /\ q # r
                    /\ sent' = sent
                    /\ got' = got \/ GiveResponse(r)
  <2>1. PICK r \in Requests : r = wreq[w]
    BY <1>10 DEF Handle, Types
  <2> QED
    BY <1>10, <2>1, HandlePlaces
<1> QED
  <2>1. CASE \E k \in Clients, n \in 1 .. MaxBatch : Send(k, n)
    BY <1>1, <2>1
  <2>2. CASE \E d \in net : Lose(d) \/ Recv(d)
    BY <1>2, <1>3, <2>2
  <2>3. CASE MainStep \/ UNCHANGED vars
    BY <1>5, <1>6, <1>7, <1>9, <2>3 DEF MainStep
  <2>4. CASE \E w \in Workers : WorkerStep(w)
    <3>1. ASSUME NEW w \in Workers, StartJob(w)
          PROVE  /\ OnePlace' /\ got' = got /\ sent' = sent
                 /\ \A r \in Requests : Pending(r)' => Pending(r) \/ Sent(r)
      BY <1>2, <1>8, <3>1
    <3> QED
      BY <1>10, <2>4, <3>1 DEF WorkerStep
  <2> QED
    BY <2>1, <2>2, <2>3, <2>4 DEF Next

\* An answer to a request that has none is the only one.
LEMMA AnsweredStep ==
    ASSUME Types, OnePlace, Unanswered, AnsweredOnce, [Next]_vars
    PROVE  Unanswered' /\ AnsweredOnce'
<1>1. sent \in [Clients -> 0 .. MaxSend] /\ got \in [Clients -> [Requests -> Nat]]
  BY DEF Types
<1>2. \A k \in Clients : sent[k] \in Nat
  BY <1>1, Constants
<1>3. CASE /\ \A r \in Requests : Pending(r)' => Pending(r) \/ Sent(r)
           /\ got' = got
           /\ \/ sent' = sent
              \/ \E k \in Clients, n \in Nat : sent[k] \in Nat /\ sent' = [sent EXCEPT ![k] = @ + n]
  <2>1. \A k \in Clients : sent'[k] \in Nat /\ sent'[k] >= sent[k]
    BY <1>1, <1>2, <1>3
  <2>2. AnsweredOnce'
    BY <1>3 DEF AnsweredOnce
  <2>3. ASSUME NEW r \in Requests
        PROVE  /\ Pending(r)' => r[2] <= sent'[r[1]]
               /\ Pending(r)' \/ r[2] > sent'[r[1]] => \A k \in Clients : got'[k][r] = 0
    <3>1. r[1] \in Clients /\ r[2] \in Nat
      BY RequestParts, Constants
    <3> QED
      BY <1>2, <1>3, <2>1, <3>1 DEF Unanswered, Sent
  <2> QED
    BY <2>2, <2>3 DEF Unanswered
<1>4. ASSUME NEW r \in Requests, Pending(r), sent' = sent,
             \A q \in Requests : Pending(q)' => Pending(q) /\ q # r,
             got' = got \/ GiveResponse(r)
      PROVE  Unanswered' /\ AnsweredOnce'
  <2>1. CASE got' = got
    BY <1>4, <2>1 DEF Unanswered, AnsweredOnce
  <2>2. ASSUME NEW k \in Clients, got' = [got EXCEPT ![k][r] = @ + 1]
        PROVE  Unanswered' /\ AnsweredOnce'
    <3>1. /\ \A q \in Requests : \A j \in Clients : q # r => got'[j][q] = got[j][q]
          /\ got[k][r] = 0 /\ \A j \in Clients : got'[j][r] = IF j = k THEN 1 ELSE 0
      <4>1. \A j \in Clients : got[j][r] = 0
        BY <1>4 DEF Unanswered
      <4>2. \A j \in Clients : got'[j] = IF j = k THEN [got[k] EXCEPT ![r] = got[k][r] + 1] ELSE got[j]
        BY <1>1, <2>2
      <4>3. \A j \in Clients : got[j] \in [Requests -> Nat]
        BY <1>1
      <4> QED
        BY <4>1, <4>2, <4>3
    <3>2. AnsweredOnce'
      <4> SUFFICES ASSUME NEW q \in Requests, NEW i \in Clients, NEW j \in Clients
                   PROVE  got'[i][q] + (IF i = j THEN 0 ELSE got'[j][q]) <= 1
        BY DEF AnsweredOnce
      <4>1. CASE q = r
        BY <3>1, <4>1
      <4>2. CASE q # r
        BY <3>1, <4>2 DEF AnsweredOnce
      <4> QED
        BY <4>1, <4>2
    <3>3. r[2] <= sent[r[1]] /\ r[1] \in Clients /\ r[2] \in Nat /\ sent[r[1]] \in Nat
      BY <1>2, <1>4, RequestParts, Constants DEF Unanswered
    <3>4. Unanswered'
      BY <1>4, <3>1, <3>3 DEF Unanswered
    <3> QED
      BY <3>2, <3>4
  <2> QED
    BY <1>4, <2>1, <2>2, Given
<1> QED
  BY <1>3, <1>4, PlacesStep

\* Whoever works on a request goes on until it has handled it.
LEMMA WorkSteps ==
    ASSUME Types, [Next]_vars, NEW r \in Requests, InWork(r)
    PROVE  InWork(r)' \/ \E w \in Workers : Handle(w) /\ r = wreq[w]
<1>1. PICK v \in Workers : wreq[v] = r
  BY DEF InWork
<1>2. CASE wreq'[v] = wreq[v]
  BY <1>1, <1>2 DEF InWork
<1>3. CASE \E k \in Clients, n \in 1 .. MaxBatch : Send(k, n)
  BY <1>2, <1>3 DEF Send
<1>4. CASE \E d \in net : Lose(d) \/ Recv(d)
  BY <1>2, <1>4 DEF Lose, Recv
<1>5. CASE MainStep \/ UNCHANGED vars
  BY <1>2, <1>5 DEF MainStep, Received, Parse, HandleInline, Post, vars
<1>6. ASSUME NEW w \in Workers, StartJob(w) PROVE wreq'[v] = wreq[v]
  <2>1. wreq[w] = None /\ wreq' = [wreq EXCEPT ![w] = Head(todo[w])]
    BY <1>6 DEF StartJob, Types
  <2> QED
    BY <1>1, <2>1, Constants DEF Types
<1>7. ASSUME NEW w \in Workers, Handle(w) PROVE wreq'[v] = wreq[v] \/ v = w
  BY <1>7 DEF Handle, Types
<1> QED
  BY <1>1, <1>2, <1>3, <1>4, <1>5, <1>6, <1>7 DEF Next, WorkerStep

\* What the pool runs is not posted again.
LEMMA RunOnceStep ==
    ASSUME Types, Types', OnePlace, Unanswered, Unanswered', RunOnce, [Next]_vars
    PROVE  RunOnce'
<1> SUFFICES ASSUME NEW r \in Requests, runs'[r] > 0
             PROVE  r[2] <= sent'[r[1]] /\ (Pending(r)' => InWork(r)')
  BY DEF RunOnce
<1>1. ASSUME NEW w \in Workers, StartJob(w), r = Head(todo[w])
      PROVE  InWork(r)'
  BY <1>1 DEF StartJob, InWork, Types
<1>2. CASE InWork(r)'
  BY <1>2 DEF Unanswered, Pending
<1>3. CASE runs[r] > 0 /\ ~ InWork(r)'
  <2>1. r[1] \in Clients /\ r[2] \in Nat /\ r[2] <= sent[r[1]] /\ (Pending(r) => InWork(r))
    BY <1>3, RequestParts, Constants DEF RunOnce
  <2>2. sent \in [Clients -> Nat] /\ sent' \in [Clients -> Nat]
    <3>1. sent \in [Clients -> 0 .. MaxSend] /\ sent' \in [Clients -> 0 .. MaxSend]
      BY DEF Types
    <3> QED
      BY <3>1, Constants
  <2>3. ~ Sent(r)
    BY <2>1, <2>2 DEF Sent
  <2>4. sent'[r[1]] >= sent[r[1]]
    BY <2>1, <2>2, PlacesStep
  <2>5. ~ Pending(r)'
    <3>1. ASSUME Pending(r)' PROVE FALSE
      <4>1. Pending(r)
        BY <2>3, <3>1, PlacesStep
      <4>2. InWork(r)
        BY <2>1, <4>1
      <4>3. PICK w \in Workers : Handle(w) /\ r = wreq[w]
        BY <1>3, <4>2, WorkSteps
      <4>4. ~ Pending(r)'
        BY <4>3, HandlePlaces
      <4> QED
        BY <3>1, <4>4
    <3> QED
      BY <3>1
  <2> QED
    BY <2>1, <2>2, <2>4, <2>5
<1>4. runs' = runs \/ \E w \in Workers : StartJob(w)
  BY DEF Next, Send, Lose, Recv, MainStep, Received, Parse, HandleInline, Post, Pool!Accept,
         WorkerStep, Handle, vars
<1>5. ASSUME NEW w \in Workers, StartJob(w) PROVE runs'[r] = runs[r] \/ r = Head(todo[w])
  BY <1>5 DEF StartJob, Pool!Run, Types
<1> QED
  BY <1>1, <1>2, <1>3, <1>4, <1>5

\* Steps of the network and the workers leave the event loop's datagram alone.
LEMMA InlineFrame ==
    ASSUME Inline, UNCHANGED <<setting, addr, sender, rbuf, pc, req, todo, wpc>>,
           \A d \in net' : d \in net \/ \A r \in Items(d.body) : r \in Requests => r[1] = d.from
    PROVE  Inline'
BY DEF Inline

\* The loop works on one datagram at a time, whose sender request_addr is.
LEMMA InlineStep == Types /\ Inline /\ [Next]_vars => Inline'
<1> SUFFICES ASSUME Types, Inline, [Next]_vars PROVE Inline'
  OBVIOUS
<1>1. ASSUME NEW k \in Clients, NEW n \in 1 .. MaxBatch, Send(k, n) PROVE Inline'
  <2>1. PICK new \in SUBSET Datagrams :
          /\ net' = net \union new
          /\ \A d \in new : d.from = k /\ \A r \in Items(d.body) : r \in Requests => r[1] = k
    BY <1>1, NewDatagrams
  <2>2. UNCHANGED <<setting, addr, sender, rbuf, pc, req, todo, wpc>>
    BY <1>1 DEF Send
  <2>3. \A d \in net' : d \in net \/ \A r \in Items(d.body) : r \in Requests => r[1] = d.from
    BY <2>1
  <2> QED
    BY <2>2, <2>3, InlineFrame
<1>2. ASSUME NEW d \in net, Lose(d) PROVE Inline'
  BY <1>2, InlineFrame DEF Lose
<1>3. ASSUME NEW d \in net, Recv(d) PROVE Inline'
  <2>1. d.from \in Clients /\ \A r \in Items(d.body) : r \in Requests => r[1] = d.from
    BY DEF Types, Inline
  <2>2. /\ pc' = "recv" /\ sender' = d.from /\ rbuf' = d.body /\ net' = net \ {d}
        /\ UNCHANGED <<setting, todo, wpc>>
    BY <1>3 DEF Recv
  <2> QED
    BY <2>1, <2>2 DEF Inline
<1>4. CASE Received
  BY <1>4 DEF Received, Inline
<1>5. CASE Parse
  <2>1. CASE ~ Parsable
    BY <1>5, <2>1 DEF Parse, Inline
  <2>2. CASE Parsable
    <3>1. rbuf \in Seq(Cells) /\ rbuf # <<>> /\ Head(rbuf) # Bad
      BY <2>2 DEF Parsable, Types
    <3>2. /\ Items(rbuf) = Items(Tail(rbuf)) \union {Head(rbuf)} /\ Head(rbuf) \in Requests
      BY <3>1, TailItems
    <3> QED
      BY <1>5, <2>2, <3>2 DEF Parse, Inline
  <2> QED
    BY <2>1, <2>2
<1>6. CASE HandleInline
  BY <1>6 DEF HandleInline, Inline
<1>7. CASE Post
  BY <1>7 DEF Post, Inline
<1>8. ASSUME NEW w \in Workers, StartJob(w) PROVE Inline'
  <2>1. setting.threads # {}
    BY <1>8 DEF StartJob, Inline
  <2> QED
    BY <1>8, <2>1 DEF StartJob, Inline
<1>9. ASSUME NEW w \in Workers, Handle(w) PROVE Inline'
  <2>1. setting.threads # {}
    BY <1>9 DEF Handle, Inline
  <2> QED
    BY <1>9, <2>1 DEF Handle, Inline
<1>10. CASE UNCHANGED vars
  BY <1>10, InlineFrame DEF vars
<1> QED
  BY <1>1, <1>2, <1>3, <1>4, <1>5, <1>6, <1>7, <1>8, <1>9, <1>10 DEF Next, MainStep, WorkerStep

\* Only these steps answer.
LEMMA GotSteps ==
    ASSUME [Next]_vars
    PROVE  got' = got \/ HandleInline \/ \E w \in Workers : Handle(w)
<1>1. CASE \E k \in Clients, n \in 1 .. MaxBatch : Send(k, n)
  BY <1>1 DEF Send
<1>2. CASE \E d \in net : Lose(d) \/ Recv(d)
  BY <1>2 DEF Lose, Recv
<1>3. CASE MainStep
  BY <1>3 DEF MainStep, Received, Parse, Post
<1>4. CASE \E w \in Workers : WorkerStep(w)
  BY <1>4 DEF WorkerStep, StartJob
<1>5. CASE UNCHANGED vars
  BY <1>5 DEF vars
<1> QED
  BY <1>1, <1>2, <1>3, <1>4, <1>5 DEF Next

\* Without threads the answer goes to the sender of the datagram.
LEMMA AskerStep ==
    ASSUME Types, Inline, InlineAnswersAsker, [Next]_vars, setting' = setting
    PROVE  InlineAnswersAsker'
<1> SUFFICES ASSUME setting.threads = {} PROVE AnswerToAsker'
  BY DEF InlineAnswersAsker
<1>1. AnswerToAsker
  BY DEF InlineAnswersAsker
<1>2. CASE got' = got
  BY <1>1, <1>2 DEF AnswerToAsker
<1>3. ASSUME NEW w \in Workers, Handle(w) PROVE FALSE
  BY <1>3 DEF Handle, Inline
<1>4. CASE HandleInline /\ got' # got
  <2>1. PICK r \in Requests : r = req
    BY <1>4 DEF HandleInline, Types
  <2>2. GiveResponse(r) /\ addr \in Clients /\ r[1] = addr
    BY <1>4, <2>1 DEF HandleInline, Inline
  <2>3. PICK k \in Clients : addr \in {k, None} /\ got' = [got EXCEPT ![k][r] = @ + 1]
    BY <1>4, <2>1, <2>2, Given
  <2>4. k = r[1]
    BY <2>2, <2>3, Constants
  <2>5. got \in [Clients -> [Requests -> Nat]]
    BY DEF Types
  <2>6. \A j \in Clients : \A q \in Requests : got'[j][q] = got[j][q] \/ (j = k /\ q = r)
    <3>1. \A j \in Clients : got'[j] = IF j = k THEN [got[k] EXCEPT ![r] = got[k][r] + 1] ELSE got[j]
      BY <2>3, <2>5
    <3>2. \A j \in Clients : got[j] \in [Requests -> Nat]
      BY <2>5
    <3> QED
      BY <3>1, <3>2
  <2> QED
    BY <1>1, <2>4, <2>6 DEF AnswerToAsker
<1> QED
  BY <1>2, <1>3, <1>4, GotSteps

\* No step changes what server it is.
LEMMA SettingKept == [Next]_vars => setting' = setting
BY DEF Next, Send, Lose, Recv, MainStep, Received, Parse, HandleInline, Post, WorkerStep,
       StartJob, Handle, vars

\* The invariant of a UDP server: where each request is, that it has no answer
\* there, and whose datagram the event loop works on.
THEOREM UdpInvariant == Spec => []UdpInv
<1>1. Init => UdpInv
  BY InitUdp
<1>2. UdpInv /\ [Next]_vars => UdpInv'
  <2> SUFFICES ASSUME UdpInv, [Next]_vars PROVE UdpInv'
    OBVIOUS
  <2>1. Types /\ OnePlace /\ Unanswered /\ AnsweredOnce /\ RunOnce /\ Inline /\ InlineAnswersAsker
    BY DEF UdpInv
  <2>2. Types' /\ OnePlace' /\ Unanswered' /\ AnsweredOnce' /\ Inline' /\ InlineAnswersAsker'
    BY <2>1, TypesStep, PlacesStep, AnsweredStep, InlineStep, AskerStep, SettingKept
  <2>3. RunOnce'
    BY <2>1, <2>2, RunOnceStep
  <2> QED
    BY <2>2, <2>3 DEF UdpInv
<1> QED
  BY <1>1, <1>2, PTL DEF Spec

\* However datagrams are reordered, lost and copied, a request is answered at
\* most once in all for each time it is delivered, by whichever worker and to
\* whomever.
THEOREM UdpAnsweredOnce == Spec => []AnsweredOnce
<1>1. UdpInv => AnsweredOnce
  BY DEF UdpInv
<1> QED
  BY <1>1, UdpInvariant, PTL

\* Without worker threads give_response reaches the client whose request it
\* answers, though all clients share one request_addr.
THEOREM UdpOwnAnswers == Spec => []InlineAnswersAsker
<1>1. UdpInv => InlineAnswersAsker
  BY DEF UdpInv
<1> QED
  BY <1>1, UdpInvariant, PTL

\* The pool is never handed a request that it holds or has run: what
\* AbstractPool asks of whoever calls create_job.
PostsFreshJobs == pc = "handle" => ~ Pool!Waiting(req) /\ runs[req] = 0

\* handle_one_request posts a request once, however datagrams arrive: the
\* guards of the pool's create_job never keep the event loop waiting.
THEOREM UdpPostsFreshJobs == Spec => []PostsFreshJobs
<1>1. UdpInv => PostsFreshJobs
  <2> SUFFICES ASSUME UdpInv, pc = "handle" PROVE ~ Pool!Waiting(req) /\ runs[req] = 0
    BY DEF PostsFreshJobs
  <2>1. req \in Requests /\ InLoop(req)
    BY DEF UdpInv, Types, InLoop
  <2>2. ~ InQueue(req) /\ ~ InWork(req)
    BY <2>1 DEF UdpInv, OnePlace
  <2>3. runs[req] = 0
    <3>1. runs[req] \in Nat /\ ~ runs[req] > 0
      BY <2>1, <2>2 DEF UdpInv, Types, RunOnce, Pending
    <3> QED
      BY <3>1
  <2>4. ASSUME NEW w \in Workers, NEW i \in DOMAIN todo[w], todo[w][i] = req PROVE FALSE
    <3>1. DOMAIN todo[w] = 1 .. Len(todo[w])
      <4>1. todo[w] \in Seq(Requests)
        BY DEF UdpInv, Types
      <4> QED
        BY <4>1
    <3> QED
      BY <2>2, <2>4, <3>1 DEF InQueue, Items
  <2> QED
    BY <2>3, <2>4 DEF Pool!Waiting
<1> QED
  BY <1>1, UdpInvariant, PTL
=============================================================================
