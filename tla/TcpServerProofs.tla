--------------------------- MODULE TcpServerProofs ---------------------------
(***************************************************************************)
(* The inductive invariant of TcpServer: types, what each thread has in    *)
(* its hands, whose it is, and where a request can be on its way through   *)
(* the server; the conn objects (references, descriptors, teardown); what  *)
(* it promises its clients, and the bounds of the refercounts.             *)
(***************************************************************************)
EXTENDS TcpServer, FiniteSetTheorems, SequenceTheorems, TLAPS

-----------------------------------------------------------------------------
(* The inductive invariant *)

\* The requests of one client.
Own(k) == {k} \X (1 .. MaxSend)

\* The stations of a pass over one connection, of a job, of conn_free.
Passes == {"read", "parse", "inline", "postparams", "post", "fail"}
Serving == {"handle", "write"}
Freeing == {"drop", "evdel", "close", "unlist"}
Stations == {"loop", "scan", "idle", "dead"} \union Passes \union Serving \union Freeing

\* What every variable may hold, but for the bounds of the refercounts.
Types ==
    /\ setting \in Settings
    /\ net \in [Clients -> {"new", "pending", "open", "closed"}]
    /\ hup \in [Clients -> BOOLEAN]
    /\ inbox \in [Clients -> Seq(Requests \union {Bad})]
    /\ sent \in [Clients -> 0 .. MaxSend]
    /\ got \in [Clients -> SUBSET Requests]
    /\ file \in [Fds -> Clients \union {None}]
    /\ fd \in [Clients -> Fds \union {None}]
    /\ ref \in [Clients -> Int]
    /\ err \in [Clients -> BOOLEAN] /\ ev \in [Clients -> BOOLEAN]
    /\ rbuf \in [Clients -> Seq(Requests \union {Bad})]
    /\ stale \in [Clients -> BOOLEAN]
    /\ conns \in Seq(Clients) /\ pos \in Seq(Clients)
    /\ torn \in [Clients -> Nat]
    /\ pc \in [Threads -> Stations]
    /\ cur \in [Threads -> Clients \union {None}]
    /\ req \in [Threads -> Requests \union {None}]
    /\ loaded \in [Workers -> Fds \union {None}]
    /\ crash \in {None, "null gs", "list poison"}
    /\ todo \in [Workers -> Seq(Requests)]
    /\ runs \in [Requests -> Nat]

\* Which stations belong to whom, and what a thread has in its hands there.
Control ==
    /\ pc[Main] \in {"loop", "scan", "dead"} \union Passes \union Freeing
    /\ \A w \in Workers : pc[w] \in {"idle", "dead"} \union Serving \union Freeing
    /\ \A t \in Threads : pc[t] = "dead" <=> crash # None
    /\ pc[Main] \in {"loop", "scan"} => cur[Main] = None
    /\ \A w \in Workers : pc[w] = "idle" => cur[w] = None
    /\ \A t \in Threads : pc[t] \in Passes \union Serving \union Freeing => cur[t] \in Clients
    /\ \A t \in Threads : pc[t] \in {"inline", "postparams", "post"} \union Serving =>
            req[t] \in Own(cur[t])
    /\ pc[Main] = "inline" => setting.threads = {}
    /\ pc[Main] = "scan" => "expiry" \in setting.faults /\ Range(pos) \subseteq Range(conns)

\* Without worker threads nothing is posted and nothing runs.
Threadless ==
    setting.threads = {} =>
        /\ pc[Main] \notin {"postparams", "post"}
        /\ \A w \in Workers : pc[w] \in {"idle", "dead"} /\ todo[w] = <<>>
                              /\ cur[w] = None

\* The bytes of a connection are its client's.
Keyed ==
    \A k \in Clients :
        inbox[k] \in Seq(Own(k) \union {Bad}) /\ rbuf[k] \in Seq(Own(k) \union {Bad})

BasicInv == Types /\ Control /\ Threadless /\ Keyed

\* A request occurs once in a sequence; malformed bytes may occur again.
Distinct(q) == \A i, j \in 1 .. Len(q) : q[i] = q[j] /\ q[i] # Bad => i = j

\* Where a request that is not answered yet may be.
Unread(r) == r \in Range(inbox[r[1]])
Unparsed(r) == r \in Range(rbuf[r[1]])
Posted(w, r) == r \in Range(todo[w])
Hands == {"inline", "postparams", "post"} \union Serving
InHand(t, r) == req[t] = r /\ pc[t] \in Hands
Fresh(r) == Unread(r) \/ Unparsed(r)

\* It is in one of these places, once, it was sent by its client, and its
\* answer has not reached the client.
OnePlace ==
    /\ \A k \in Clients : Distinct(inbox[k]) /\ Distinct(rbuf[k])
    /\ \A w \in Workers : Distinct(todo[w])
    /\ \A r \in Requests : ~ (Unread(r) /\ Unparsed(r))
    /\ \A r \in Requests : \A t \in Threads : InHand(t, r) => ~ Fresh(r)
    /\ \A r \in Requests : \A w \in Workers : Posted(w, r) => ~ Fresh(r)
    /\ \A r \in Requests : \A t, u \in Threads : InHand(t, r) /\ InHand(u, r) => t = u
    /\ \A r \in Requests : \A v, w \in Workers : Posted(v, r) /\ Posted(w, r) => v = w
    /\ \A r \in Requests : \A t \in Threads : \A w \in Workers : ~ (InHand(t, r) /\ Posted(w, r))

Pending(r) ==
    Fresh(r) \/ (\E t \in Threads : InHand(t, r)) \/ (\E w \in Workers : Posted(w, r))

\* Not posted yet.
Coming(r) == Fresh(r) \/ InHand(Main, r)

\* It was sent, its answer has not reached its client, and it was not run if
\* it is not posted: create_job is never handed a request a second time.
Unanswered ==
    /\ \A r \in Requests : Pending(r) => r[2] <= sent[r[1]] /\ r \notin got[r[1]]
    /\ \A k \in Clients : \A r \in got[k] : r[2] <= sent[r[1]]
    /\ \A r \in Requests : Coming(r) \/ r[2] > sent[r[1]] => runs[r] = 0

\* A conn object and its descriptor know each other.
Sockets ==
    /\ \A k \in Clients : fd[k] # None => file[fd[k]] = k
    /\ \A f \in Fds : file[f] # None => fd[file[f]] = f

\* A client for whom there is no conn object: it has not been accepted, or
\* add_conn failed.
NoConn(k) == fd[k] = None /\ ~ err[k]

Unborn ==
    /\ \A k \in Clients : net[k] \in {"new", "pending"} => NoConn(k) /\ ~ hup[k]
    /\ \A k \in Clients : NoConn(k) =>
            /\ ref[k] = 0 /\ ~ ev[k] /\ torn[k] = 0
            /\ k \notin Range(conns)
            /\ rbuf[k] = <<>>
            /\ \A t \in Threads : cur[t] # k
            /\ \A w \in Workers : \A r \in Range(todo[w]) : r[1] # k

\* Whoever tears a connection down has set its error, and its event is gone
\* before its descriptor is.
Failing ==
    /\ \A t \in Threads : pc[t] \in {"evdel", "close", "unlist"} => err[cur[t]]
    /\ pc[Main] = "drop" => err[cur[Main]]
    /\ \A t \in Threads : pc[t] \in {"close", "unlist"} => ~ ev[cur[t]]
    /\ \A k \in Clients : ev[k] => fd[k] # None

\* One reference of the event loop and one for each job not given back.
Jobs(k) == {r \in Requests : \E w \in Workers : r \in Range(todo[w]) /\ r[1] = k}
Runners(k) == {w \in Workers : cur[w] = k}

Counted ==
    crash = None => \A k \in Clients : fd[k] # None /\ ~ err[k] =>
        /\ ref[k] >= 1 + Outstanding(k)
        /\ "job" \notin setting.faults => ref[k] = 1 + Outstanding(k)

\* A failed connection whose bytes will never be parsed again.
DeadEnd(k) ==
    \/ net[k] = "closed" \/ fd[k] = None
    \/ rbuf[k] # <<>> /\ Head(rbuf[k]) = Bad

\* The list of the server holds each connection once, until it is torn down.
Listed ==
    /\ \A i, j \in 1 .. Len(conns) : conns[i] = conns[j] => i = j
    /\ \A k \in Clients : torn[k] >= 1 => k \notin Range(conns)

Tearing(t, k) == cur[t] = k /\ pc[t] \in {"evdel", "close", "unlist"}

\* Where a failure lasts, the count of a failed connection only goes down, so
\* it passes zero once.
Teardown ==
    FailureLasts =>
        /\ setting.threads # {} => \A k \in Clients : err[k] => DeadEnd(k)
        /\ setting.threads # {} /\ pc[Main] \in {"fail", "drop"} => DeadEnd(cur[Main])
        /\ setting.threads # {} /\ pc[Main] = "parse" /\ err[cur[Main]] =>
                rbuf[cur[Main]] # <<>> /\ Head(rbuf[cur[Main]]) = Bad
        /\ pc[Main] \in {"postparams", "post"} => ~ err[cur[Main]]
        /\ \A k \in Clients : \A t \in Threads : Tearing(t, k) =>
                ref[k] <= 0 /\ torn[k] = 0
        /\ \A k \in Clients : torn[k] >= 1 => err[k] /\ ref[k] <= 0
        /\ \A k \in Clients : torn[k] <= 1
        /\ \A k \in Clients : \A t, u \in Threads : Tearing(t, k) /\ Tearing(u, k) => t = u
        /\ pc[Main] = "scan" => setting.threads = {}

TcpInv ==
    BasicInv /\ OnePlace /\ Unanswered /\ Sockets /\ Unborn /\ Failing /\ Counted /\ Listed /\ Teardown

-----------------------------------------------------------------------------
(* Lists *)

\* A list that got one more element at its end holds that element too.
LEMMA AppendRange ==
    ASSUME NEW S, NEW q \in Seq(S), NEW x \in S
    PROVE  /\ Append(q, x) \in Seq(S)
           /\ Range(Append(q, x)) = Range(q) \union {x}
           /\ Distinct(q) /\ (x = Bad \/ x \notin Range(q)) => Distinct(Append(q, x))
<1>1. /\ Append(q, x) \in Seq(S) /\ Len(Append(q, x)) = Len(q) + 1
      /\ Len(q) \in Nat /\ DOMAIN q = 1 .. Len(q)
      /\ DOMAIN Append(q, x) = 1 .. Len(q) + 1
      /\ \A i \in 1 .. Len(q) : Append(q, x)[i] = q[i]
      /\ Append(q, x)[Len(q) + 1] = x
  OBVIOUS
<1>2. Range(Append(q, x)) = Range(q) \union {x}
  BY <1>1 DEF Range
<1>3. ASSUME Distinct(q), x = Bad \/ x \notin Range(q)
      PROVE  Distinct(Append(q, x))
  <2> SUFFICES ASSUME NEW i \in 1 .. Len(q) + 1, NEW j \in 1 .. Len(q) + 1,
                      Append(q, x)[i] = Append(q, x)[j], Append(q, x)[i] # Bad
               PROVE  i = j
    BY <1>1 DEF Distinct
  <2>1. \A n \in 1 .. Len(q) : q[n] # x \/ x = Bad
    BY <1>1, <1>3 DEF Range
  <2> QED
    BY <1>1, <1>3, <2>1 DEF Distinct
<1> QED
  BY <1>1, <1>2, <1>3

\* A list without its head.
LEMMA TailRange ==
    ASSUME NEW S, NEW q \in Seq(S), q # <<>>
    PROVE  /\ Tail(q) \in Seq(S) /\ Head(q) \in S
           /\ Range(q) = Range(Tail(q)) \union {Head(q)}
           /\ Distinct(q) => Distinct(Tail(q)) /\ (Head(q) = Bad \/ Head(q) \notin Range(Tail(q)))
<1>1. /\ Tail(q) \in Seq(S) /\ Len(Tail(q)) = Len(q) - 1 /\ Len(q) \in Nat \ {0}
      /\ DOMAIN q = 1 .. Len(q) /\ DOMAIN Tail(q) = 1 .. Len(q) - 1
      /\ \A i \in 1 .. Len(q) - 1 : Tail(q)[i] = q[i + 1]
      /\ Head(q) = q[1] /\ Head(q) \in S
  OBVIOUS
<1>2. Range(q) = Range(Tail(q)) \union {Head(q)}
  <2>1. ASSUME NEW i \in 1 .. Len(q) PROVE q[i] \in Range(Tail(q)) \union {Head(q)}
    <3>1. i = 1 \/ (i - 1 \in 1 .. Len(q) - 1 /\ q[i] = Tail(q)[i - 1])
      BY <1>1
    <3> QED
      BY <1>1, <3>1 DEF Range
  <2>2. ASSUME NEW i \in 1 .. Len(q) - 1 PROVE Tail(q)[i] \in Range(q)
    <3>1. i + 1 \in 1 .. Len(q)
      BY <1>1
    <3> QED
      BY <1>1, <3>1 DEF Range
  <2>3. Head(q) \in Range(q)
    BY <1>1 DEF Range
  <2> QED
    BY <1>1, <2>1, <2>2, <2>3 DEF Range
<1>3. ASSUME Distinct(q)
      PROVE  Distinct(Tail(q)) /\ (Head(q) = Bad \/ Head(q) \notin Range(Tail(q)))
  BY <1>1, <1>3 DEF Distinct, Range
<1> QED
  BY <1>1, <1>2, <1>3

\* Two lists, one after the other.
LEMMA ConcatRange ==
    ASSUME NEW S, NEW p \in Seq(S), NEW q \in Seq(S)
    PROVE  /\ p \o q \in Seq(S)
           /\ Range(p \o q) = Range(p) \union Range(q)
           /\ Distinct(p) /\ Distinct(q) /\ (\A x \in Range(p) \intersect Range(q) : x = Bad) =>
                Distinct(p \o q)
<1>1. /\ p \o q \in Seq(S) /\ Len(p \o q) = Len(p) + Len(q)
      /\ Len(p) \in Nat /\ Len(q) \in Nat
      /\ DOMAIN p = 1 .. Len(p) /\ DOMAIN q = 1 .. Len(q)
      /\ DOMAIN (p \o q) = 1 .. Len(p) + Len(q)
      /\ \A i \in 1 .. Len(p) + Len(q) :
            (p \o q)[i] = IF i <= Len(p) THEN p[i] ELSE q[i - Len(p)]
  OBVIOUS
<1>2. Range(p \o q) = Range(p) \union Range(q)
  <2>1. \A i \in 1 .. Len(p) : i \in 1 .. Len(p) + Len(q) /\ (p \o q)[i] = p[i]
    BY <1>1
  <2>2. \A i \in 1 .. Len(q) :
            i + Len(p) \in 1 .. Len(p) + Len(q) /\ (p \o q)[i + Len(p)] = q[i]
    BY <1>1
  <2>3. \A i \in 1 .. Len(p) + Len(q) :
            \/ i \in 1 .. Len(p) /\ (p \o q)[i] = p[i]
            \/ i - Len(p) \in 1 .. Len(q) /\ (p \o q)[i] = q[i - Len(p)]
    BY <1>1
  <2> QED
    BY <1>1, <2>1, <2>2, <2>3, SMTT(30) DEF Range
<1>3. ASSUME Distinct(p), Distinct(q), \A x \in Range(p) \intersect Range(q) : x = Bad
      PROVE  Distinct(p \o q)
  <2> SUFFICES ASSUME NEW i \in 1 .. Len(p) + Len(q), NEW j \in 1 .. Len(p) + Len(q),
                      (p \o q)[i] = (p \o q)[j], (p \o q)[i] # Bad
               PROVE  i = j
    BY <1>1 DEF Distinct
  <2>1. \A m \in 1 .. Len(p), n \in 1 .. Len(q) : p[m] = q[n] => p[m] = Bad
    BY <1>1, <1>3, ZenonT(60) DEF Range
  <2> QED
    BY <1>1, <1>3, <2>1 DEF Distinct
<1> QED
  BY <1>1, <1>2, <1>3

\* The parts of a list before and after one of its elements, joined.
LEMMA SpliceLists ==
    ASSUME NEW S, NEW q \in Seq(S), NEW n \in 1 .. Len(q),
           NEW a \in Seq(S), Len(a) = n - 1, \A i \in 1 .. n - 1 : a[i] = q[i],
           NEW b \in Seq(S), Len(b) = Len(q) - n, \A i \in 1 .. Len(q) - n : b[i] = q[i + n]
    PROVE  /\ a \o b \in Seq(S) /\ Len(a \o b) = Len(q) - 1
           /\ \A i \in 1 .. Len(q) - 1 : (a \o b)[i] = IF i < n THEN q[i] ELSE q[i + 1]
<1>1. Len(q) \in Nat /\ n \in Nat
  OBVIOUS
<1>2. /\ a \o b \in Seq(S) /\ Len(a \o b) = Len(a) + Len(b)
      /\ \A i \in 1 .. Len(a) + Len(b) : (a \o b)[i] = IF i <= Len(a) THEN a[i] ELSE b[i - Len(a)]
  BY ConcatProperties
<1>3. ASSUME NEW i \in 1 .. Len(q) - 1
      PROVE  (a \o b)[i] = IF i < n THEN q[i] ELSE q[i + 1]
  <2>1. (a \o b)[i] = IF i <= n - 1 THEN a[i] ELSE b[i - (n - 1)]
    BY <1>1, <1>2
  <2>2. CASE i < n
    BY <1>1, <2>1, <2>2
  <2>3. CASE i >= n
    <3>1. i - (n - 1) \in 1 .. Len(q) - n /\ i - (n - 1) + n = i + 1 /\ ~ i <= n - 1
      BY <1>1, <2>3
    <3>2. b[i - (n - 1)] = q[i - (n - 1) + n]
      BY <3>1
    <3> QED
      BY <1>1, <2>1, <2>3, <3>1, <3>2
  <2> QED
    BY <1>1, <2>2, <2>3
<1> QED
  BY <1>1, <1>2, <1>3

\* A list whose elements all differ, without one of them.
LEMMA RemoveRange ==
    ASSUME NEW S, NEW q \in Seq(S), NEW n \in DOMAIN q
    PROVE  /\ RemoveAt(q, n) \in Seq(S)
           /\ (\A i, j \in 1 .. Len(q) : q[i] = q[j] => i = j) =>
                /\ Range(RemoveAt(q, n)) = Range(q) \ {q[n]}
                /\ \A i, j \in 1 .. Len(RemoveAt(q, n)) :
                    RemoveAt(q, n)[i] = RemoveAt(q, n)[j] => i = j
<1> DEFINE p == RemoveAt(q, n)
<1>1. /\ Len(q) \in Nat /\ DOMAIN q = 1 .. Len(q) /\ n \in 1 .. Len(q)
      /\ SubSeq(q, 1, n - 1) \in Seq(S) /\ Len(SubSeq(q, 1, n - 1)) = n - 1
      /\ SubSeq(q, n + 1, Len(q)) \in Seq(S) /\ Len(SubSeq(q, n + 1, Len(q))) = Len(q) - n
      /\ \A i \in 1 .. n - 1 : SubSeq(q, 1, n - 1)[i] = q[i]
      /\ \A i \in 1 .. Len(q) - n : SubSeq(q, n + 1, Len(q))[i] = q[i + n]
  OBVIOUS
<1>2. /\ p \in Seq(S) /\ Len(p) = Len(q) - 1 /\ DOMAIN p = 1 .. Len(q) - 1
      /\ \A i \in 1 .. Len(q) - 1 : p[i] = IF i < n THEN q[i] ELSE q[i + 1]
  <2>1. /\ p \in Seq(S) /\ Len(p) = Len(q) - 1
        /\ \A i \in 1 .. Len(q) - 1 : p[i] = IF i < n THEN q[i] ELSE q[i + 1]
    <3> DEFINE a == SubSeq(q, 1, n - 1)
               b == SubSeq(q, n + 1, Len(q))
    <3>1. /\ a \in Seq(S) /\ Len(a) = n - 1 /\ b \in Seq(S) /\ Len(b) = Len(q) - n
          /\ \A i \in 1 .. n - 1 : a[i] = q[i]
          /\ \A i \in 1 .. Len(q) - n : b[i] = q[i + n]
          /\ n \in 1 .. Len(q) /\ q \in Seq(S)
      BY <1>1
    <3>2. p = a \o b
      BY DEF RemoveAt
    <3> HIDE DEF a, b, p
    <3>3. /\ a \o b \in Seq(S) /\ Len(a \o b) = Len(q) - 1
          /\ \A i \in 1 .. Len(q) - 1 : (a \o b)[i] = IF i < n THEN q[i] ELSE q[i + 1]
      BY <3>1, SpliceLists, SMTT(30)
    <3> QED
      BY <3>2, <3>3
  <2> HIDE DEF p
  <2> QED
    BY <2>1
<1> HIDE DEF p
<1>3. ASSUME \A i, j \in 1 .. Len(q) : q[i] = q[j] => i = j
      PROVE  Range(p) = Range(q) \ {q[n]}
  <2>1. ASSUME NEW i \in 1 .. Len(q), i # n PROVE q[i] \in Range(p) /\ q[i] # q[n]
    <3>1. CASE i < n
      <4>1. i \in 1 .. Len(q) - 1 /\ p[i] = q[i]
        BY <1>1, <1>2, <3>1, SMTT(30)
      <4> QED
        BY <1>1, <1>2, <1>3, <2>1, <4>1 DEF Range
    <3>2. CASE i > n
      <4>1. i - 1 \in 1 .. Len(q) - 1 /\ p[i - 1] = q[i]
        BY <1>1, <1>2, <3>2
      <4> QED
        BY <1>1, <1>2, <1>3, <2>1, <4>1 DEF Range
    <3> QED
      BY <1>1, <1>3, <2>1, <3>1, <3>2
  <2>2. ASSUME NEW i \in 1 .. Len(q) - 1 PROVE p[i] \in Range(q) \ {q[n]}
    <3>1. \E j \in 1 .. Len(q) : j # n /\ p[i] = q[j]
      <4>1. CASE i < n
        BY <1>1, <1>2, <4>1
      <4>2. CASE i >= n
        <5>1. i + 1 \in 1 .. Len(q) /\ i + 1 # n /\ p[i] = q[i + 1]
          BY <1>1, <1>2, <4>2
        <5> QED
          BY <5>1
      <4> QED
        BY <1>1, <4>1, <4>2
    <3> QED
      BY <1>1, <1>3, <3>1 DEF Range
  <2>3. \A x \in Range(p) : x \in Range(q) \ {q[n]}
    BY <1>2, <2>2 DEF Range
  <2>4. \A x \in Range(q) \ {q[n]} : x \in Range(p)
    <3> TAKE x \in Range(q) \ {q[n]}
    <3>1. PICK i \in 1 .. Len(q) : q[i] = x
      BY <1>1 DEF Range
    <3> QED
      BY <2>1, <3>1
  <2> QED
    BY <2>3, <2>4
<1>4. ASSUME \A i, j \in 1 .. Len(q) : q[i] = q[j] => i = j
      PROVE  \A i, j \in 1 .. Len(p) : p[i] = p[j] => i = j
  <2> SUFFICES ASSUME NEW i \in 1 .. Len(q) - 1, NEW j \in 1 .. Len(q) - 1, p[i] = p[j]
               PROVE  i = j
    BY <1>2
  <2>1. /\ i \in Nat /\ j \in Nat /\ n \in Nat
        /\ i \in 1 .. Len(q) /\ i + 1 \in 1 .. Len(q)
        /\ j \in 1 .. Len(q) /\ j + 1 \in 1 .. Len(q)
    BY <1>1, SMTT(30)
  <2>2. CASE i < n /\ j < n
    <3>1. p[i] = q[i] /\ p[j] = q[j]
      BY <1>2, <2>2
    <3> QED
      BY <1>4, <2>1, <3>1
  <2>3. CASE i < n /\ ~ (j < n)
    <3>1. p[i] = q[i] /\ p[j] = q[j + 1]
      BY <1>2, <2>3
    <3>2. i = j + 1
      BY <1>4, <2>1, <3>1
    <3> QED
      BY <2>1, <2>3, <3>2
  <2>4. CASE ~ (i < n) /\ j < n
    <3>1. p[i] = q[i + 1] /\ p[j] = q[j]
      BY <1>2, <2>4
    <3>2. i + 1 = j
      BY <1>4, <2>1, <3>1
    <3> QED
      BY <2>1, <2>4, <3>2
  <2>5. CASE ~ (i < n) /\ ~ (j < n)
    <3>1. p[i] = q[i + 1] /\ p[j] = q[j + 1]
      BY <1>2, <2>5
    <3>2. i + 1 = j + 1
      BY <1>4, <2>1, <3>1
    <3> QED
      BY <2>1, <3>2
  <2> QED
    BY <2>2, <2>3, <2>4, <2>5
<1> QED
  BY <1>2, <1>3, <1>4 DEF p

-----------------------------------------------------------------------------
(* Types and control *)

USE DEF netVars, connVars, threadVars, poolVars

\* The event loop is no worker.
LEMMA ThreadKinds == Main \in Threads /\ Workers \subseteq Threads /\ Main \notin Workers
BY TcpServerAssumption DEF Threads, Main

\* What a setting says lies within the constants.
LEMMA SettingFacts ==
    ASSUME setting \in Settings
    PROVE  /\ setting.threads \subseteq Workers /\ setting.fds \subseteq Fds
           /\ setting.sends \in 0 .. MaxSend /\ setting.faults \subseteq FaultKinds
BY TcpServerAssumption DEF Setting

\* What the assumption says, in parts.
LEMMA Bounds == MaxSend \in Nat /\ RefDepth \in Nat
BY TcpServerAssumption

\* The model values that stand for nothing, and for a crash, are nothing else.
LEMMA NoneApart == None \notin Clients /\ None \notin Fds /\ None # "null gs" /\ None # "list poison"
BY TcpServerAssumption

\* A request is its client and its number, and none is malformed.
LEMMA RequestParts ==
    /\ \A r \in Requests : r[1] \in Clients /\ r[2] \in 1 .. MaxSend /\ r = <<r[1], r[2]>>
                           /\ r \in Own(r[1]) /\ r # Bad
    /\ \A k \in Clients : \A r \in Own(k) : r \in Requests /\ r[1] = k /\ r # Bad
    /\ \A k \in Clients : \A n \in 1 .. MaxSend : <<k, n>> \in Own(k)
<1>1. ASSUME NEW k \in Clients, NEW n \in 1 .. MaxSend
      PROVE  <<k, n>> \in Requests /\ <<k, n>> # Bad /\ <<k, n>> \in Own(k)
  <2>1. <<k, n>> \in Clients \X (1 .. MaxSend)
    OBVIOUS
  <2>2. Bad \notin Clients \X (1 .. MaxSend)
    BY TcpServerAssumption
  <2>3. <<k, n>> # Bad
    BY <2>1, <2>2, Zenon
  <2> QED
    BY <2>1, <2>3 DEF Requests, Own
<1>2. \A r \in Requests : \E k \in Clients, n \in 1 .. MaxSend : r = <<k, n>>
  BY DEF Requests
<1>3. \A k : \A r \in Own(k) : \E n \in 1 .. MaxSend : r = <<k, n>>
  BY DEF Own
<1>4. \A r \in Requests : r[1] \in Clients /\ r[2] \in 1 .. MaxSend /\ r = <<r[1], r[2]>>
                          /\ r \in Own(r[1]) /\ r # Bad
  BY <1>1, <1>2
<1>5. \A k \in Clients : \A r \in Own(k) : r \in Requests /\ r[1] = k /\ r # Bad
  BY <1>1, <1>3
<1> QED
  BY <1>1, <1>4, <1>5

\* Every station a step names is a station.
LEMMA InStations ==
    /\ "loop" \in Stations /\ "scan" \in Stations /\ "idle" \in Stations /\ "dead" \in Stations
    /\ "read" \in Stations /\ "parse" \in Stations /\ "inline" \in Stations
    /\ "postparams" \in Stations /\ "post" \in Stations /\ "fail" \in Stations
    /\ "handle" \in Stations /\ "write" \in Stations
    /\ "drop" \in Stations /\ "evdel" \in Stations /\ "close" \in Stations
    /\ "unlist" \in Stations
BY DEF Stations, Passes, Serving, Freeing

\* A server starts without connections, jobs or anything in a thread's hands.
LEMMA InitBasic == Init => BasicInv
<1> SUFFICES ASSUME Init PROVE BasicInv
  OBVIOUS
<1> USE DEF Init, Pool!Init
<1>1. Types
  <2>1. <<>> \in Seq(Requests \union {Bad}) /\ <<>> \in Seq(Requests) /\ <<>> \in Seq(Clients)
    OBVIOUS
  <2>2. pc \in [Threads -> Stations]
    BY InStations
  <2>3. 0 \in 0 .. MaxSend
    BY Bounds
  <2> QED
    BY <2>1, <2>2, <2>3 DEF Types
<1>2. Control
  BY TcpServerAssumption, ThreadKinds DEF Control, Passes, Serving, Freeing
<1>3. Threadless
  BY ThreadKinds DEF Threadless
<1>4. Keyed
  <2>1. \A k : <<>> \in Seq(Own(k) \union {Bad})
    OBVIOUS
  <2> QED
    BY <2>1 DEF Keyed
<1> QED
  BY <1>1, <1>2, <1>3, <1>4 DEF BasicInv

\* Wherever a thread stands but between two jobs or passes, it works on a
\* connection, and has that connection's request in its hands.
LEMMA AtWork ==
    ASSUME Control
    PROVE  /\ \A t \in Threads : pc[t] \in Freeing => cur[t] \in Clients
           /\ \A w \in Workers : pc[w] \in Serving => cur[w] \in Clients /\ req[w] \in Own(cur[w])
           /\ pc[Main] \in Passes => cur[Main] \in Clients
           /\ pc[Main] \in {"inline", "postparams", "post"} => req[Main] \in Own(cur[Main])
BY ThreadKinds DEF Control

\* Every step keeps the types.
LEMMA TypesStep == BasicInv /\ [Next]_vars => Types'
<1> SUFFICES ASSUME Types, Control, [Next]_vars
             PROVE  Types'
  BY DEF BasicInv
<1>25. todo \in [Workers -> Seq(Requests)] /\ runs \in [Requests -> Nat]
  BY DEF Types
<1>26. pc \in [Threads -> Stations] /\ crash \in {None, "null gs", "list poison"}
  BY DEF Types
<1>27. fd \in [Clients -> Fds \union {None}] /\ file \in [Fds -> Clients \union {None}]
  BY DEF Types
<1>28. /\ err \in [Clients -> BOOLEAN] /\ ev \in [Clients -> BOOLEAN]
       /\ ref \in [Clients -> Int] /\ torn \in [Clients -> Nat]
  BY DEF Types
<1>29. got \in [Clients -> SUBSET Requests] /\ loaded \in [Workers -> Fds \union {None}]
  BY DEF Types
<1>30. /\ conns \in Seq(Clients) /\ pos \in Seq(Clients)
       /\ inbox \in [Clients -> Seq(Requests \union {Bad})] /\ hup \in [Clients -> BOOLEAN]
  BY DEF Types
<1>31. cur \in [Threads -> Clients \union {None}] /\ req \in [Threads -> Requests \union {None}]
  BY DEF Types
<1>32. rbuf \in [Clients -> Seq(Requests \union {Bad})]
  BY DEF Types
<1> USE ThreadKinds, InStations DEF Goto, Die, Leave
<1>1. ASSUME NEW k \in Clients, Connect(k) PROVE Types'
  BY <1>1 DEF Connect, Types
<1>2. ASSUME NEW k \in Clients, Send(k) PROVE Types'
  <2>1. sent[k] \in 0 .. MaxSend /\ sent[k] < setting.sends
    BY <1>2 DEF Send, Types
  <2>2. sent[k] + 1 \in 1 .. MaxSend
    <3>1. setting.sends \in 0 .. MaxSend
      BY SettingFacts DEF Types
    <3> QED
      BY <2>1, <3>1, Bounds
  <2>3. sent' \in [Clients -> 0 .. MaxSend]
    <3>1. sent \in [Clients -> 0 .. MaxSend]
      BY DEF Types
    <3>2. sent[k] + 1 \in 0 .. MaxSend
      BY <2>2, Bounds
    <3> QED
      BY <1>2, <3>1, <3>2 DEF Send
  <2>4. <<k, sent[k] + 1>> \in Requests
    BY <2>2 DEF Requests
  <2>5. inbox' \in [Clients -> Seq(Requests \union {Bad})]
    BY <1>2, <1>30, <2>4 DEF Send
  <2> QED
    BY <1>2, <2>3, <2>5 DEF Send, Types
<1>3. ASSUME NEW k \in Clients, SendMalformed(k) PROVE Types'
  <2>1. inbox' \in [Clients -> Seq(Requests \union {Bad})]
    BY <1>3, <1>30 DEF SendMalformed
  <2> QED
    BY <1>3, <2>1 DEF SendMalformed, Types
<1>4. ASSUME NEW k \in Clients, Close(k) PROVE Types'
  BY <1>4 DEF Close, Types
<1>5. ASSUME NEW k \in Clients, TimePasses(k) PROVE Types'
  BY <1>5 DEF TimePasses, Types
<1>6. ASSUME NEW k \in Clients, Accept(k) PROVE Types'
  <2>1. /\ ref' \in [Clients -> Int] /\ ev' \in [Clients -> BOOLEAN]
        /\ hup' \in [Clients -> BOOLEAN] /\ conns' \in Seq(Clients)
    <3>1. /\ ref' = ref \/ ref' = [ref EXCEPT ![k] = 1]
          /\ ev' = ev \/ ev' = [ev EXCEPT ![k] = TRUE]
          /\ hup' = hup \/ hup' = [hup EXCEPT ![k] = TRUE]
          /\ conns' = conns \/ conns' = Append(conns, k)
      BY <1>6 DEF Accept
    <3>2. ref' \in [Clients -> Int]
      BY <1>28, <3>1
    <3>3. ev' \in [Clients -> BOOLEAN] /\ hup' \in [Clients -> BOOLEAN]
      BY <1>28, <1>30, <3>1
    <3>4. conns' \in Seq(Clients)
      <4>1. conns \in Seq(Clients) /\ Append(conns, k) \in Seq(Clients)
        BY <1>30
      <4> QED
        BY <3>1, <4>1
    <3> QED
      BY <3>2, <3>3, <3>4
  <2>2. fd' \in [Clients -> Fds \union {None}] /\ file' \in [Fds -> Clients \union {None}]
    <3>1. \/ UNCHANGED <<fd, file>>
          \/ \E f \in Fds : file' = [file EXCEPT ![f] = k] /\ fd' = [fd EXCEPT ![k] = f]
      BY <1>6, SettingFacts DEF Accept, Types
    <3> QED
      BY <1>27, <3>1
  <2> QED
    BY <1>6, <2>1, <2>2 DEF Accept, Types
<1>7. ASSUME NEW k \in Clients, Dispatch(k) PROVE Types'
  BY <1>7 DEF Dispatch, Types
<1>8. CASE ExpireStart
  BY <1>8 DEF ExpireStart, Types
<1>9. CASE TryRead
  <2>1. rbuf' \in [Clients -> Seq(Requests \union {Bad})]
    <3>1. rbuf[cur[Main]] \o inbox[cur[Main]] \in Seq(Requests \union {Bad})
      BY <1>9, <1>30, <1>32, AtWork, ConcatRange DEF TryRead, Passes
    <3> QED
      BY <1>9, <1>32, <3>1 DEF TryRead
  <2>2. inbox' \in [Clients -> Seq(Requests \union {Bad})] /\ stale' \in [Clients -> BOOLEAN]
    <3>1. <<>> \in Seq(Requests \union {Bad})
      OBVIOUS
    <3>2. inbox' \in [Clients -> Seq(Requests \union {Bad})]
      BY <1>9, <1>30, <3>1 DEF TryRead
    <3>3. stale' \in [Clients -> BOOLEAN]
      BY <1>9 DEF TryRead, Types
    <3> QED
      BY <3>2, <3>3
  <2>3. pc' \in [Threads -> Stations]
    BY <1>9, <1>26 DEF TryRead
  <2> QED
    BY <1>9, <2>1, <2>2, <2>3 DEF TryRead, Types
<1>10. CASE Parse
  <2>1. cur[Main] \in Clients
    BY <1>10, AtWork DEF Parse, Passes
  <2>2. Head(rbuf[cur[Main]]) # Bad /\ rbuf[cur[Main]] # <<>> => Head(rbuf[cur[Main]]) \in Requests
    BY <1>32, <2>1, TailRange
  <2>3. rbuf' \in [Clients -> Seq(Requests \union {Bad})]
    <3>1. rbuf' = rbuf \/ (rbuf[cur[Main]] # <<>> /\ rbuf' = [rbuf EXCEPT ![cur[Main]] = Tail(@)])
      BY <1>10 DEF Parse
    <3>2. rbuf[cur[Main]] # <<>> => Tail(rbuf[cur[Main]]) \in Seq(Requests \union {Bad})
      BY <1>32, <2>1, TailRange
    <3> QED
      BY <1>32, <2>1, <3>1, <3>2
  <2>4. req' \in [Threads -> Requests \union {None}] /\ cur' \in [Threads -> Clients \union {None}]
    BY <1>10, <1>31, <2>2 DEF Parse
  <2>5. pc' \in [Threads -> Stations]
    BY <1>10, <1>26 DEF Parse
  <2> QED
    BY <1>10, <2>3, <2>4, <2>5 DEF Parse, Types
<1>11. CASE HandleInline
  <2>1. cur[Main] \in Clients /\ req[Main] \in Requests
    BY <1>11, AtWork, RequestParts DEF HandleInline, Passes
  <2>2. got' = got \/ \E f \in Fds : file[f] # None /\ got' = [got EXCEPT ![file[f]] = @ \union {req[Main]}]
    BY <1>11 DEF HandleInline, Write
  <2>3. got' \in [Clients -> SUBSET Requests]
    BY <1>27, <1>29, <2>1, <2>2
  <2>4. req' \in [Threads -> Requests \union {None}] /\ pc' \in [Threads -> Stations]
    BY <1>11, <1>26, <1>31 DEF HandleInline
  <2> QED
    BY <1>11, <2>3, <2>4 DEF HandleInline, Types
<1>12. CASE PostParams
  <2>1. ref' \in [Clients -> Int] /\ req' \in [Threads -> Requests \union {None}]
    BY <1>12, <1>28, <1>31 DEF PostParams
  <2>2. pc' \in [Threads -> Stations]
    BY <1>12, <1>26 DEF PostParams
  <2> QED
    BY <1>12, <2>1, <2>2 DEF PostParams, Types
<1>13. CASE CreateJob
  <2>1. req[Main] \in Requests
    <3>1. cur[Main] \in Clients /\ req[Main] \in Own(cur[Main])
      BY <1>13, AtWork DEF CreateJob, Passes
    <3> QED
      BY <3>1, RequestParts
  <2>2. todo' = todo \/ \E w \in Workers : todo' = [todo EXCEPT ![w] = Append(@, req[Main])]
    BY <1>13, SettingFacts DEF CreateJob, Pool!Accept, Types
  <2>3. todo' \in [Workers -> Seq(Requests)] /\ runs' = runs
    <3>1. runs' = runs
      BY <1>13 DEF CreateJob, Pool!Accept
    <3>2. \A w \in Workers : Append(todo[w], req[Main]) \in Seq(Requests)
      BY <1>25, <2>1
    <3> QED
      BY <1>25, <2>2, <3>1, <3>2
  <2>4. req' \in [Threads -> Requests \union {None}] /\ pc' \in [Threads -> Stations]
    BY <1>13, <1>26, <1>31 DEF CreateJob
  <2> QED
    BY <1>13, <2>3, <2>4 DEF CreateJob, Types
<1>14. CASE SetConnError
  BY <1>14 DEF SetConnError, Types, Control
<1>15. ASSUME NEW t \in Threads, DropRef(t) PROVE Types'
  <2>1. cur[t] \in Clients
    BY <1>15, AtWork DEF DropRef, Freeing
  <2> QED
    <3>1. ref' \in [Clients -> Int]
      BY <1>15, <1>28, <2>1 DEF DropRef
    <3>2. cur' \in [Threads -> Clients \union {None}]
      BY <1>15, <1>31, <2>1 DEF DropRef
    <3>3. pc' \in [Threads -> Stations]
      BY <1>15, <1>26 DEF DropRef
    <3> QED
      BY <1>15, <3>1, <3>2, <3>3 DEF DropRef, Types
<1>16. ASSUME NEW t \in Threads, EventDel(t) PROVE Types'
  BY <1>16 DEF EventDel, Types, Control
<1>17. ASSUME NEW t \in Threads, CloseConn(t) PROVE Types'
  <2>1. cur[t] \in Clients
    BY <1>17, AtWork DEF CloseConn, Freeing
  <2>2. inbox' \in [Clients -> Seq(Requests \union {Bad})] /\ hup' \in [Clients -> BOOLEAN]
    <3>1. CloseFd(cur[t])
      BY <1>17 DEF CloseConn
    <3>2. hup' \in [Clients -> BOOLEAN]
      BY <1>30, <3>1 DEF CloseFd
    <3>3. \/ inbox' = inbox
          \/ \E o : inbox' = [j \in Clients |-> IF j = o THEN <<>> ELSE inbox[j]]
      BY <3>1 DEF CloseFd
    <3>4. <<>> \in Seq(Requests \union {Bad})
      OBVIOUS
    <3> QED
      BY <1>30, <3>2, <3>3, <3>4
  <2>3. fd' \in [Clients -> Fds \union {None}] /\ file' \in [Fds -> Clients \union {None}]
    BY <1>17, <2>1 DEF CloseConn, CloseFd, Types
  <2>4. pc' \in [Threads -> Stations]
    BY <1>17 DEF CloseConn, Types
  <2> QED
    BY <1>17, <2>2, <2>3, <2>4 DEF CloseConn, Types
<1>18. ASSUME NEW t \in Threads, Unlist(t) PROVE Types'
  <2>1. cur[t] \in Clients
    BY <1>18, AtWork DEF Unlist, Freeing
  <2>2. conns' \in Seq(Clients)
    <3>1. conns' = conns \/ \E i \in DOMAIN conns : conns' = RemoveAt(conns, i)
      BY <1>18 DEF Unlist, Unlink
    <3>2. \A i \in DOMAIN conns : RemoveAt(conns, i) \in Seq(Clients)
      BY <1>30, RemoveRange
    <3> QED
      BY <1>30, <3>1, <3>2
  <2>3. pc' \in [Threads -> Stations]
    <3>1. (\E x \in Stations : pc' = [pc EXCEPT ![t] = x]) \/ pc' = [u \in Threads |-> "dead"]
      BY <1>18 DEF Unlist
    <3> QED
      BY <1>26, <3>1
  <2> QED
    <3>1. torn' \in [Clients -> Nat]
      <4>1. torn' = [torn EXCEPT ![cur[t]] = @ + 1]
        BY <1>18 DEF Unlist
      <4> QED
        BY <1>28, <2>1, <4>1
    <3>2. cur' \in [Threads -> Clients \union {None}] /\ crash' \in {None, "null gs", "list poison"}
      BY <1>18, <1>26, <1>31, <2>1 DEF Unlist
    <3> QED
      BY <1>18, <2>2, <2>3, <3>1, <3>2 DEF Unlist, Types
<1>19. CASE ExpireVisit
  <2>1. Head(pos) \in Clients /\ Tail(pos) \in Seq(Clients)
    <3>1. pos # <<>>
      BY <1>19 DEF ExpireVisit
    <3> QED
      BY <1>30, <3>1, TailRange
  <2>2. conns' \in Seq(Clients) /\ pos' \in Seq(Clients)
    <3>1. /\ conns' = conns \/ \E i \in DOMAIN conns : conns' = RemoveAt(conns, i)
          /\ pos' = pos \/ pos' = Tail(pos)
      BY <1>19 DEF ExpireVisit, Unlink
    <3> QED
      <4>1. \A i \in DOMAIN conns : RemoveAt(conns, i) \in Seq(Clients)
        BY <1>30, RemoveRange
      <4> QED
        BY <1>30, <2>1, <3>1, <4>1
  <2>3. inbox' \in [Clients -> Seq(Requests \union {Bad})] /\ hup' \in [Clients -> BOOLEAN]
    <3>1. (inbox' = inbox /\ hup' = hup) \/ CloseFd(Head(pos))
      BY <1>19 DEF ExpireVisit
    <3>2. hup' \in [Clients -> BOOLEAN]
      BY <1>30, <3>1 DEF CloseFd
    <3>3. \/ inbox' = inbox
          \/ \E o : inbox' = [j \in Clients |-> IF j = o THEN <<>> ELSE inbox[j]]
      BY <3>1 DEF CloseFd
    <3>4. <<>> \in Seq(Requests \union {Bad})
      OBVIOUS
    <3> QED
      BY <1>30, <3>2, <3>3, <3>4
  <2>4. fd' \in [Clients -> Fds \union {None}] /\ file' \in [Fds -> Clients \union {None}]
    <3>1. (fd' = fd /\ file' = file) \/ CloseFd(Head(pos))
      BY <1>19 DEF ExpireVisit
    <3> QED
      BY <1>27, <2>1, <3>1 DEF CloseFd
  <2>5. /\ err' \in [Clients -> BOOLEAN] /\ ev' \in [Clients -> BOOLEAN]
        /\ ref' \in [Clients -> Int] /\ torn' \in [Clients -> Nat]
    <3>1. /\ err' = err \/ err' = [err EXCEPT ![Head(pos)] = TRUE]
          /\ ev' = ev \/ ev' = [ev EXCEPT ![Head(pos)] = FALSE]
          /\ ref' = ref \/ ref' = [ref EXCEPT ![Head(pos)] = @ - 1]
          /\ torn' = torn \/ torn' = [torn EXCEPT ![Head(pos)] = @ + 1]
      BY <1>19 DEF ExpireVisit
    <3>2. err' \in [Clients -> BOOLEAN] /\ ev' \in [Clients -> BOOLEAN]
      BY <1>28, <2>1, <3>1
    <3>3. ref' \in [Clients -> Int]
      BY <1>28, <2>1, <3>1
    <3>4. torn' \in [Clients -> Nat]
      BY <1>28, <2>1, <3>1, SMTT(30)
    <3> QED
      BY <3>2, <3>3, <3>4
  <2>6. pc' \in [Threads -> Stations] /\ crash' \in {None, "null gs", "list poison"}
    <3>1. UNCHANGED <<pc, crash>> \/ Die("list poison")
      BY <1>19 DEF ExpireVisit
    <3> QED
      BY <1>26, <3>1
  <2> QED
    BY <1>19, <2>2, <2>3, <2>4, <2>5, <2>6 DEF ExpireVisit, Types
<1>20. CASE ExpireEnd
  BY <1>20 DEF ExpireEnd, Types, Control
<1>21. ASSUME NEW w \in Workers, StartJob(w) PROVE Types'
  <2>1. Head(todo[w]) \in Requests /\ Tail(todo[w]) \in Seq(Requests)
    <3>1. todo[w] \in Seq(Requests) /\ todo[w] # <<>>
      BY <1>21 DEF StartJob, Types
    <3> QED
      BY <3>1
  <2>2. todo' \in [Workers -> Seq(Requests)] /\ runs' \in [Requests -> Nat]
    <3>1. /\ todo' = [todo EXCEPT ![w] = Tail(@)]
          /\ runs' = [runs EXCEPT ![Head(todo[w])] = @ + 1]
      BY <1>21 DEF StartJob, Pool!Run
    <3> QED
      BY <1>25, <2>1, <3>1
  <2>3. pc' \in [Threads -> Stations] /\ crash' \in {None, "null gs", "list poison"}
    <3>1. Die("null gs") \/ (Goto(w, "handle") /\ UNCHANGED crash)
      BY <1>21 DEF StartJob
    <3> QED
      BY <1>26, <3>1
  <2>4. req' \in [Threads -> Requests \union {None}] /\ cur' \in [Threads -> Clients \union {None}]
    BY <1>21, <2>1, RequestParts DEF StartJob, Types
  <2> QED
    BY <1>21, <2>2, <2>3, <2>4 DEF StartJob, Types
<1>22. ASSUME NEW w \in Workers, Handle(w) PROVE Types'
  <2>1. cur[w] \in Clients
    BY <1>22 DEF Handle, Control
  <2>2. loaded' \in [Workers -> Fds \union {None}]
    BY <1>22, <1>27, <1>29, <2>1 DEF Handle
  <2>3. pc' \in [Threads -> Stations]
    BY <1>22, <1>26 DEF Handle
  <2> QED
    BY <1>22, <2>2, <2>3 DEF Handle, Types
<1>23. ASSUME NEW w \in Workers, GiveResponse(w) PROVE Types'
  <2>1. req[w] \in Requests
    <3>1. cur[w] \in Clients /\ req[w] \in Own(cur[w])
      BY <1>23, AtWork DEF GiveResponse, Serving
    <3> QED
      BY <3>1, RequestParts
  <2>2. got' \in [Clients -> SUBSET Requests]
    <3>1. got' = got \/ \E f \in Fds : file[f] # None /\ got' = [got EXCEPT ![file[f]] = @ \union {req[w]}]
      BY <1>23 DEF GiveResponse, Write
    <3> QED
      BY <1>27, <1>29, <2>1, <3>1
  <2> QED
    BY <1>23, <2>2 DEF GiveResponse, Types
<1>24. CASE UNCHANGED vars
  BY <1>24 DEF vars, Types
<1> QED
  BY <1>1, <1>2, <1>3, <1>4, <1>5, <1>6, <1>7, <1>8, <1>9, <1>10, <1>11, <1>12, <1>13, <1>14,
     <1>15, <1>16, <1>17, <1>18, <1>19, <1>20, <1>21, <1>22, <1>23, <1>24
     DEF Next, MainStep, WorkerStep, ClientStep, Free

\* Steps that leave the threads where they are.
LEMMA ControlFrame ==
    ASSUME Control, UNCHANGED <<setting, pc, cur, req, pos, conns, crash>>
    PROVE  Control'
BY DEF Control

\* A dead process stands nowhere.
LEMMA DeadControl ==
    ASSUME Types, NEW why \in {"null gs", "list poison"}, Die(why)
    PROVE  Control'
<1>1. \A t \in Threads : pc'[t] = "dead"
  BY DEF Die
<1>2. crash' # None
  BY NoneApart DEF Die
<1> QED
  BY <1>1, <1>2, ThreadKinds DEF Control, Passes, Serving, Freeing

\* Every step leaves each thread with what its station needs.
LEMMA ControlStep == BasicInv /\ [Next]_vars => Control'
<1> SUFFICES ASSUME Types, Control, Keyed, [Next]_vars
             PROVE  Control'
  BY DEF BasicInv
<1>26. pc \in [Threads -> Stations] /\ cur \in [Threads -> Clients \union {None}]
       /\ req \in [Threads -> Requests \union {None}]
  BY DEF Types
<1> USE ThreadKinds DEF Goto, Leave, Passes, Serving, Freeing
<1>1. ASSUME NEW k \in Clients, Connect(k) PROVE Control'
  BY <1>1, ControlFrame DEF Connect
<1>2. ASSUME NEW k \in Clients, Send(k) PROVE Control'
  BY <1>2, ControlFrame DEF Send
<1>3. ASSUME NEW k \in Clients, SendMalformed(k) PROVE Control'
  BY <1>3, ControlFrame DEF SendMalformed
<1>4. ASSUME NEW k \in Clients, Close(k) PROVE Control'
  BY <1>4, ControlFrame DEF Close
<1>5. ASSUME NEW k \in Clients, TimePasses(k) PROVE Control'
  BY <1>5, ControlFrame DEF TimePasses
<1>6. ASSUME NEW k \in Clients, Accept(k) PROVE Control'
  BY <1>6 DEF Accept, Control
<1>7. ASSUME NEW k \in Clients, Dispatch(k) PROVE Control'
  BY <1>7, <1>26 DEF Dispatch, Control
<1>8. CASE ExpireStart
  BY <1>8, <1>26 DEF ExpireStart, Control
<1>9. CASE TryRead
  BY <1>9, <1>26 DEF TryRead, Control
<1>10. CASE Parse
  <2>1. CASE pc'[Main] = "loop"
    BY <1>10, <1>26, <2>1 DEF Parse, Control
  <2>2. CASE pc'[Main] = "fail"
    BY <1>10, <1>26, <2>2 DEF Parse, Control
  <2>3. CASE pc'[Main] \in {"inline", "postparams"}
    <3>1. LET k == cur[Main] IN Head(rbuf[k]) \in Own(k)
      <4> DEFINE q == rbuf[cur[Main]]
      <4>1. cur[Main] \in Clients /\ q # <<>> /\ Head(q) # Bad
        BY <1>10, <1>26, <2>3, AtWork DEF Parse
      <4>2. q \in Seq(Own(cur[Main]) \union {Bad})
        BY <4>1 DEF Keyed
      <4> HIDE DEF q
      <4>3. Head(q) \in Own(cur[Main])
        BY <4>1, <4>2, TailRange
      <4> QED
        BY <4>3 DEF q
    <3> QED
      BY <1>10, <1>26, <2>3, <3>1 DEF Parse, Control
  <2> QED
    BY <1>10, <1>26, <2>1, <2>2, <2>3 DEF Parse
<1>11. CASE HandleInline
  BY <1>11, <1>26 DEF HandleInline, Control
<1>12. CASE PostParams
  BY <1>12, <1>26 DEF PostParams, Control
<1>13. CASE CreateJob
  BY <1>13, <1>26 DEF CreateJob, Control
<1>14. CASE SetConnError
  BY <1>14, <1>26 DEF SetConnError, Control
<1>15. ASSUME NEW t \in Threads, DropRef(t) PROVE Control'
  BY <1>15, <1>26 DEF DropRef, Control
<1>16. ASSUME NEW t \in Threads, EventDel(t) PROVE Control'
  BY <1>16, <1>26 DEF EventDel, Control
<1>17. ASSUME NEW t \in Threads, CloseConn(t) PROVE Control'
  BY <1>17, <1>26 DEF CloseConn, Control
<1>18. ASSUME NEW t \in Threads, Unlist(t) PROVE Control'
  <2>1. CASE Die("list poison")
    BY <2>1, DeadControl
  <2>2. CASE Leave(t) /\ UNCHANGED crash
    BY <1>18, <1>26, <2>2 DEF Unlist, Control
  <2> QED
    BY <1>18, <2>1, <2>2 DEF Unlist
<1>19. CASE ExpireVisit
  <2>1. CASE Die("list poison")
    BY <2>1, DeadControl
  <2>2. CASE pos' = Tail(pos) /\ UNCHANGED <<pc, conns, crash>>
    <3>1. pos \in Seq(Clients) /\ pos # <<>> /\ pc[Main] = "scan"
      BY <1>19 DEF ExpireVisit, Types
    <3>2. Range(pos') \subseteq Range(pos)
      BY <2>2, <3>1, TailRange
    <3> QED
      BY <1>19, <2>2, <3>1, <3>2 DEF ExpireVisit, Control
  <2> QED
    BY <1>19, <2>1, <2>2 DEF ExpireVisit
<1>20. CASE ExpireEnd
  BY <1>20, <1>26 DEF ExpireEnd, Control
<1>21. ASSUME NEW w \in Workers, StartJob(w) PROVE Control'
  <2>1. CASE Die("null gs")
    BY <2>1, DeadControl
  <2>2. CASE Goto(w, "handle") /\ UNCHANGED crash
    <3>1. todo[w] \in Seq(Requests) /\ todo[w] # <<>>
      BY <1>21 DEF StartJob, Types
    <3>2. Head(todo[w]) \in Requests
      BY <3>1
    <3>3. Head(todo[w])[1] \in Clients /\ Head(todo[w]) \in Own(Head(todo[w])[1])
      BY <3>2, RequestParts
    <3>4. req' = [req EXCEPT ![w] = Head(todo[w])] /\ cur' = [cur EXCEPT ![w] = Head(todo[w])[1]]
      BY <1>21 DEF StartJob
    <3>5. pc[w] = "idle" /\ UNCHANGED <<setting, pos, conns>>
      BY <1>21 DEF StartJob
    <3> QED
      BY <1>26, <2>2, <3>3, <3>4, <3>5 DEF Control
  <2> QED
    BY <1>21, <2>1, <2>2 DEF StartJob
<1>22. ASSUME NEW w \in Workers, Handle(w) PROVE Control'
  BY <1>22, <1>26 DEF Handle, Control
<1>23. ASSUME NEW w \in Workers, GiveResponse(w) PROVE Control'
  BY <1>23, <1>26 DEF GiveResponse, Control
<1>24. CASE UNCHANGED vars
  BY <1>24, ControlFrame DEF vars
<1> QED
  BY <1>1, <1>2, <1>3, <1>4, <1>5, <1>6, <1>7, <1>8, <1>9, <1>10, <1>11, <1>12, <1>13, <1>14,
     <1>15, <1>16, <1>17, <1>18, <1>19, <1>20, <1>21, <1>22, <1>23, <1>24
     DEF Next, MainStep, WorkerStep, ClientStep, Free

\* Steps that move no bytes.
LEMMA KeyedFrame ==
    ASSUME Keyed, UNCHANGED <<inbox, rbuf>>
    PROVE  Keyed'
BY DEF Keyed

\* Closing a descriptor empties an inbox at most.
LEMMA ClosedInbox ==
    ASSUME Types, NEW k \in Clients, CloseFd(k)
    PROVE  \A j \in Clients : inbox'[j] = inbox[j] \/ inbox'[j] = <<>>
BY DEF CloseFd, Types

\* Whatever travels with a connection or a job stays its client's.
LEMMA KeyedStep == BasicInv /\ [Next]_vars => Keyed'
<1> SUFFICES ASSUME Types, Control, Keyed, [Next]_vars
             PROVE  Keyed'
  BY DEF BasicInv
<1>25. /\ inbox \in [Clients -> Seq(Requests \union {Bad})] /\ sent \in [Clients -> 0 .. MaxSend]
       /\ rbuf \in [Clients -> Seq(Requests \union {Bad})]
  BY DEF Types
<1>26. \A k : <<>> \in Seq(Own(k) \union {Bad})
  OBVIOUS
<1>2. ASSUME NEW k \in Clients, Send(k) PROVE Keyed'
  <2>1. sent[k] + 1 \in 1 .. MaxSend
    <3>1. setting.sends \in 0 .. MaxSend /\ sent[k] \in 0 .. MaxSend /\ sent[k] < setting.sends
      BY <1>2, <1>25, SettingFacts DEF Send, Types
    <3> QED
      BY <3>1, Bounds
  <2>2. <<k, sent[k] + 1>> \in Own(k)
    BY <2>1 DEF Own
  <2>3. inbox[k] \in Seq(Own(k) \union {Bad})
    BY DEF Keyed
  <2>4. Append(inbox[k], <<k, sent[k] + 1>>) \in Seq(Own(k) \union {Bad})
    BY <2>2, <2>3, AppendRange
  <2> QED
    BY <1>2, <1>25, <2>4 DEF Send, Keyed
<1>3. ASSUME NEW k \in Clients, SendMalformed(k) PROVE Keyed'
  <2>1. Append(inbox[k], Bad) \in Seq(Own(k) \union {Bad})
    BY AppendRange DEF Keyed
  <2> QED
    BY <1>3, <1>25, <2>1 DEF SendMalformed, Keyed
<1>9. CASE TryRead
  <2>1. cur[Main] \in Clients
    BY <1>9, AtWork DEF TryRead, Passes
  <2>2. rbuf[cur[Main]] \o inbox[cur[Main]] \in Seq(Own(cur[Main]) \union {Bad})
    BY <2>1, ConcatRange DEF Keyed
  <2> QED
    BY <1>9, <1>25, <1>26, <2>1, <2>2 DEF TryRead, Keyed
<1>10. CASE Parse
  <2>1. cur[Main] \in Clients
    BY <1>10, AtWork DEF Parse, Passes
  <2>2. rbuf[cur[Main]] # <<>> => Tail(rbuf[cur[Main]]) \in Seq(Own(cur[Main]) \union {Bad})
    BY <2>1, TailRange DEF Keyed
  <2> QED
    BY <1>10, <1>25, <2>1, <2>2 DEF Parse, Keyed
<1>17. ASSUME NEW t \in Threads, CloseConn(t) PROVE Keyed'
  <2>1. cur[t] \in Clients
    BY <1>17, AtWork DEF CloseConn, Freeing
  <2>2. \A j \in Clients : inbox'[j] = inbox[j] \/ inbox'[j] = <<>>
    BY <1>17, <2>1, ClosedInbox DEF CloseConn
  <2> QED
    BY <1>17, <1>26, <2>2 DEF CloseConn, Keyed
<1>19. CASE ExpireVisit
  <2>1. Head(pos) \in Clients
    <3>1. pos \in Seq(Clients) /\ pos # <<>>
      BY <1>19 DEF ExpireVisit, Types
    <3> QED
      BY <3>1
  <2>2. \A j \in Clients : inbox'[j] = inbox[j] \/ inbox'[j] = <<>>
    BY <1>19, <2>1, ClosedInbox DEF ExpireVisit
  <2> QED
    BY <1>19, <1>26, <2>2 DEF ExpireVisit, Keyed
<1>20. CASE \E k \in Clients : Connect(k) \/ Close(k) \/ TimePasses(k) \/ Accept(k) \/ Dispatch(k)
  BY <1>20, KeyedFrame DEF Connect, Close, TimePasses, Accept, Dispatch
<1>21. CASE ExpireStart \/ HandleInline \/ PostParams \/ CreateJob \/ SetConnError \/ ExpireEnd
  BY <1>21, KeyedFrame DEF ExpireStart, HandleInline, PostParams, CreateJob, SetConnError, ExpireEnd
<1>22. CASE \E t \in Threads : DropRef(t) \/ EventDel(t) \/ Unlist(t)
  BY <1>22, KeyedFrame DEF DropRef, EventDel, Unlist
<1>23. CASE \E w \in Workers : StartJob(w) \/ Handle(w) \/ GiveResponse(w)
  BY <1>23, KeyedFrame DEF StartJob, Handle, GiveResponse
<1>24. CASE UNCHANGED vars
  BY <1>24, KeyedFrame DEF vars
<1> QED
  BY <1>2, <1>3, <1>9, <1>10, <1>17, <1>19, <1>20, <1>21, <1>22, <1>23, <1>24, ThreadKinds
     DEF Next, MainStep, WorkerStep, ClientStep, Free

\* Steps that start no job and post none.
LEMMA ThreadlessStep == BasicInv /\ [Next]_vars => Threadless'
<1> SUFFICES ASSUME Types, Control, Threadless, [Next]_vars, setting'.threads = {}
             PROVE  /\ pc'[Main] \notin {"postparams", "post"}
                    /\ \A w \in Workers : pc'[w] \in {"idle", "dead"} /\ todo'[w] = <<>>
                                          /\ cur'[w] = None
  BY DEF BasicInv, Threadless
<1>1. UNCHANGED setting
  BY DEF Next, MainStep, WorkerStep, ClientStep, Free, Connect, Send, SendMalformed, Close,
         TimePasses, Accept, Dispatch, ExpireStart, TryRead, Parse, HandleInline, PostParams,
         CreateJob, SetConnError, DropRef, EventDel, CloseConn, Unlist, ExpireVisit, ExpireEnd,
         StartJob, Handle, GiveResponse, vars
<1>2. /\ setting.threads = {} /\ pc[Main] \notin {"postparams", "post"}
      /\ \A w \in Workers : pc[w] \in {"idle", "dead"} /\ todo[w] = <<>> /\ cur[w] = None
      /\ pc \in [Threads -> Stations] /\ cur \in [Threads -> Clients \union {None}]
  BY <1>1 DEF Threadless, Types
<1> USE ThreadKinds DEF Goto, Leave, Die
<1>3. CASE UNCHANGED <<pc, cur, todo>>
  BY <1>2, <1>3
<1>4. CASE ExpireStart
  BY <1>2, <1>4 DEF ExpireStart
<1>5. ASSUME NEW k \in Clients, Dispatch(k) PROVE Threadless'
  BY <1>2, <1>5 DEF Dispatch, Threadless
<1>6. CASE TryRead
  BY <1>2, <1>6 DEF TryRead
<1>7. CASE Parse
  BY <1>2, <1>7 DEF Parse
<1>8. CASE HandleInline
  BY <1>2, <1>8 DEF HandleInline
<1>9. CASE SetConnError
  BY <1>2, <1>9 DEF SetConnError
<1>10. CASE \E t \in Threads : DropRef(t)
  BY <1>2, <1>10 DEF DropRef, Threads
<1>11. CASE \E t \in Threads : EventDel(t)
  BY <1>2, <1>11 DEF EventDel, Threads
<1>12. CASE \E t \in Threads : CloseConn(t)
  BY <1>2, <1>12 DEF CloseConn, Threads
<1>13. CASE \E t \in Threads : Unlist(t)
  BY <1>2, <1>13 DEF Unlist, Threads
<1>14. CASE ExpireVisit
  BY <1>2, <1>14 DEF ExpireVisit
<1>15. CASE ExpireEnd
  BY <1>2, <1>15 DEF ExpireEnd
<1>16. CASE PostParams \/ CreateJob \/ \E w \in Workers : StartJob(w) \/ Handle(w) \/ GiveResponse(w)
  BY <1>2, <1>16 DEF PostParams, CreateJob, StartJob, Handle, GiveResponse
<1> QED
  BY <1>1, <1>3, <1>4, <1>5, <1>6, <1>7, <1>8, <1>9, <1>10, <1>11, <1>12, <1>13, <1>14, <1>15, <1>16
     DEF Next, MainStep, WorkerStep, ClientStep, Free, Connect, Send, SendMalformed, Close,
         TimePasses, Accept, Threadless, vars

\* Every step keeps types, control and whose request is where.
LEMMA BasicStep == BasicInv /\ [Next]_vars => BasicInv'
BY TypesStep, ControlStep, KeyedStep, ThreadlessStep DEF BasicInv

-----------------------------------------------------------------------------
(* Where a request is *)

\* Steps that take no request further: bytes may be lost and a request leave
\* the hands it is in.
Quiet ==
    /\ UNCHANGED <<rbuf, todo, runs, sent>>
    /\ \A k \in Clients : inbox'[k] = inbox[k] \/ inbox'[k] = <<>>
    /\ \A t \in Threads : pc'[t] \in Hands => pc[t] \in Hands /\ req'[t] = req[t]

\* All steps are quiet but those that follow.
LEMMA QuietSteps ==
    ASSUME BasicInv, [Next]_vars
    PROVE  \/ \E k \in Clients : Send(k) \/ SendMalformed(k)
           \/ TryRead
           \/ Parse /\ rbuf' # rbuf
           \/ CreateJob
           \/ \E w \in Workers : StartJob(w)
           \/ Quiet
<1> USE ThreadKinds DEF Goto, Leave, Die, Hands, Serving
<1>1. pc \in [Threads -> Stations] /\ cur \in [Threads -> Clients \union {None}]
      /\ req \in [Threads -> Requests \union {None}]
  BY DEF BasicInv, Types
<1>2. CASE \E k \in Clients : Connect(k) \/ Close(k) \/ TimePasses(k) \/ Accept(k)
  BY <1>2 DEF Connect, Close, TimePasses, Accept, Quiet
<1>3. CASE \E k \in Clients : Dispatch(k)
  BY <1>1, <1>3 DEF Dispatch, Quiet
<1>4. CASE ExpireStart \/ ExpireEnd \/ SetConnError
  BY <1>1, <1>4 DEF ExpireStart, ExpireEnd, SetConnError, Quiet
<1>5. CASE Parse /\ rbuf' = rbuf
  <2>1. pc'[Main] \notin Hands
    <3>1. ASSUME rbuf[cur[Main]] # <<>>, rbuf' = [rbuf EXCEPT ![cur[Main]] = Tail(@)]
          PROVE  FALSE
      <4> DEFINE q == rbuf[cur[Main]]
      <4>1. cur[Main] \in Clients
        BY <1>5, AtWork DEF Parse, Passes, BasicInv
      <4>2. q \in Seq(Requests \union {Bad}) /\ Tail(q) = q /\ q # <<>>
        BY <1>5, <3>1, <4>1 DEF BasicInv, Types
      <4> HIDE DEF q
      <4> QED
        BY <4>2
    <3> QED
      BY <1>1, <1>5, <3>1 DEF Parse
  <2> QED
    BY <1>1, <1>5, <2>1 DEF Parse, Quiet
<1>6. CASE HandleInline
  BY <1>1, <1>6 DEF HandleInline, Quiet
<1>7. CASE PostParams
  BY <1>1, <1>7 DEF PostParams, Quiet
<1>8. CASE \E t \in Threads : DropRef(t)
  BY <1>1, <1>8 DEF DropRef, Quiet
<1>9. CASE \E t \in Threads : EventDel(t)
  BY <1>1, <1>9 DEF EventDel, Quiet
<1>10. CASE \E t \in Threads : CloseConn(t)
  <2>1. PICK t \in Threads : CloseConn(t)
    BY <1>10
  <2>2. cur[t] \in Clients
    BY <2>1, AtWork DEF CloseConn, Freeing, BasicInv
  <2>3. \A k \in Clients : inbox'[k] = inbox[k] \/ inbox'[k] = <<>>
    BY <2>1, <2>2, ClosedInbox DEF CloseConn, BasicInv
  <2> QED
    BY <1>1, <2>1, <2>3 DEF CloseConn, Quiet
<1>11. CASE \E t \in Threads : Unlist(t)
  BY <1>1, <1>11, ZenonT(60) DEF Unlist, Quiet
<1>12. CASE ExpireVisit
  <2>1. Head(pos) \in Clients
    <3>1. pos \in Seq(Clients) /\ pos # <<>>
      BY <1>12 DEF ExpireVisit, BasicInv, Types
    <3> QED
      BY <3>1
  <2>2. \A k \in Clients : inbox'[k] = inbox[k] \/ inbox'[k] = <<>>
    BY <1>12, <2>1, ClosedInbox DEF ExpireVisit, BasicInv
  <2> QED
    BY <1>1, <1>12, <2>2 DEF ExpireVisit, Quiet
<1>13. CASE \E w \in Workers : Handle(w)
  BY <1>1, <1>13 DEF Handle, Quiet
<1>14. CASE \E w \in Workers : GiveResponse(w)
  BY <1>1, <1>14 DEF GiveResponse, Quiet
<1>15. CASE UNCHANGED vars
  BY <1>15 DEF vars, Quiet
<1> QED
  BY <1>2, <1>3, <1>4, <1>5, <1>6, <1>7, <1>8, <1>9, <1>10, <1>11, <1>12, <1>13, <1>14, <1>15
     DEF Next, MainStep, WorkerStep, ClientStep, Free

\* Nothing is put anywhere by a quiet step.
LEMMA QuietPlaces ==
    ASSUME BasicInv, OnePlace, Quiet
    PROVE  /\ \A r \in Requests : Unread(r)' => Unread(r)
           /\ \A r \in Requests : Unparsed(r)' = Unparsed(r)
           /\ \A r \in Requests : \A w \in Workers : Posted(w, r)' = Posted(w, r)
           /\ \A r \in Requests : \A t \in Threads : InHand(t, r)' => InHand(t, r)
           /\ OnePlace'
<1>1. \A k \in Clients : Range(inbox'[k]) \subseteq Range(inbox[k])
                         /\ (Distinct(inbox[k]) => Distinct(inbox'[k]))
  BY DEF Quiet, Range, Distinct
<1>2. \A r \in Requests : Unread(r)' => Unread(r)
  BY <1>1, RequestParts DEF Unread
<1>3. \A r \in Requests : Unparsed(r)' = Unparsed(r)
  BY DEF Unparsed, Quiet
<1>4. \A r \in Requests : \A w \in Workers : Posted(w, r)' = Posted(w, r)
  BY DEF Posted, Quiet
<1>5. \A r \in Requests : \A t \in Threads : InHand(t, r)' => InHand(t, r)
  BY DEF InHand, Quiet
<1>6. (\A k \in Clients : Distinct(inbox[k]) /\ Distinct(rbuf[k]))'
  BY <1>1 DEF OnePlace, Quiet
<1>7. (\A w \in Workers : Distinct(todo[w]))'
  BY DEF OnePlace, Quiet, Distinct
<1> QED
  BY <1>2, <1>3, <1>4, <1>5, <1>6, <1>7 DEF OnePlace, Fresh

\* send puts the client's next request into its inbox.
LEMMA SendPlaces ==
    ASSUME BasicInv, NEW k \in Clients, Send(k)
    PROVE  LET new == <<k, sent[k] + 1>> IN
           /\ new \in Requests
           /\ \A r \in Requests : Unread(r)' <=> Unread(r) \/ r = new
           /\ \A r \in Requests : Unparsed(r)' = Unparsed(r)
           /\ \A r \in Requests : \A w \in Workers : Posted(w, r)' = Posted(w, r)
           /\ \A r \in Requests : \A t \in Threads : InHand(t, r)' = InHand(t, r)
           /\ \A j \in Clients : Distinct(inbox[j]) /\ ~ Unread(new) => Distinct(inbox'[j])
<1> DEFINE new == <<k, sent[k] + 1>>
<1>1. /\ inbox \in [Clients -> Seq(Requests \union {Bad})] /\ sent \in [Clients -> 0 .. MaxSend]
      /\ setting.sends \in 0 .. MaxSend /\ sent[k] < setting.sends
      /\ inbox' = [inbox EXCEPT ![k] = Append(@, new)]
      /\ UNCHANGED <<rbuf, todo, pc, req>>
  BY SettingFacts DEF Send, BasicInv, Types
<1>2. new \in Requests /\ new # Bad /\ new[1] = k
  <2>1. sent[k] + 1 \in 1 .. MaxSend
    BY <1>1, Bounds
  <2>2. new \in Own(k)
    BY <2>1, RequestParts
  <2> QED
    BY <2>2, RequestParts
<1>3. /\ Range(inbox'[k]) = Range(inbox[k]) \union {new}
      /\ Distinct(inbox[k]) /\ new \notin Range(inbox[k]) => Distinct(inbox'[k])
      /\ \A j \in Clients : j # k => inbox'[j] = inbox[j]
  <2>1. inbox[k] \in Seq(Requests \union {Bad})
    BY <1>1
  <2>2. inbox'[k] = Append(inbox[k], new) /\ \A j \in Clients : j # k => inbox'[j] = inbox[j]
    BY <1>1
  <2> QED
    BY <1>2, <2>1, <2>2, AppendRange
<1> HIDE DEF new
<1>4. \A r \in Requests : Unread(r)' <=> Unread(r) \/ r = new
  BY <1>2, <1>3, RequestParts DEF Unread
<1>5. \A j \in Clients : Distinct(inbox[j]) /\ ~ Unread(new) => Distinct(inbox'[j])
  BY <1>2, <1>3 DEF Unread
<1> QED
  BY <1>1, <1>2, <1>4, <1>5 DEF Unparsed, Posted, InHand, new

\* Malformed bytes are no request.
LEMMA MalformedPlaces ==
    ASSUME BasicInv, NEW k \in Clients, SendMalformed(k)
    PROVE  /\ \A r \in Requests : Unread(r)' = Unread(r)
           /\ \A r \in Requests : Unparsed(r)' = Unparsed(r)
           /\ \A r \in Requests : \A w \in Workers : Posted(w, r)' = Posted(w, r)
           /\ \A r \in Requests : \A t \in Threads : InHand(t, r)' = InHand(t, r)
           /\ \A j \in Clients : Distinct(inbox[j]) => Distinct(inbox'[j])
<1>1. /\ inbox \in [Clients -> Seq(Requests \union {Bad})]
      /\ inbox' = [inbox EXCEPT ![k] = Append(@, Bad)]
      /\ UNCHANGED <<rbuf, todo, pc, req>>
  BY DEF SendMalformed, BasicInv, Types
<1>2. /\ Range(inbox'[k]) = Range(inbox[k]) \union {Bad}
      /\ Distinct(inbox[k]) => Distinct(inbox'[k])
      /\ \A j \in Clients : j # k => inbox'[j] = inbox[j]
  <2>1. inbox[k] \in Seq(Requests \union {Bad})
    BY <1>1
  <2>2. inbox'[k] = Append(inbox[k], Bad) /\ \A j \in Clients : j # k => inbox'[j] = inbox[j]
    BY <1>1
  <2> QED
    BY <2>1, <2>2, AppendRange
<1>3. \A r \in Requests : Unread(r)' = Unread(r)
  BY <1>2, RequestParts DEF Unread
<1> QED
  BY <1>1, <1>2, <1>3 DEF Unparsed, Posted, InHand

\* try_read_tcp moves the inbox of the connection behind its unparsed bytes.
LEMMA ReadPlaces ==
    ASSUME BasicInv, TryRead
    PROVE  LET k == cur[Main] IN
           /\ k \in Clients
           /\ \A r \in Requests : Unread(r)' <=> Unread(r) /\ r[1] # k
           /\ \A r \in Requests : Unparsed(r)' <=> Unparsed(r) \/ (Unread(r) /\ r[1] = k)
           /\ \A r \in Requests : \A w \in Workers : Posted(w, r)' = Posted(w, r)
           /\ \A r \in Requests : \A t \in Threads : InHand(t, r)' = InHand(t, r)
           /\ OnePlace => \A j \in Clients : Distinct(inbox'[j]) /\ Distinct(rbuf'[j])
<1> DEFINE k == cur[Main]
<1>1. k \in Clients
  BY AtWork DEF TryRead, Passes, BasicInv
<1>2. /\ inbox \in [Clients -> Seq(Requests \union {Bad})]
      /\ rbuf \in [Clients -> Seq(Requests \union {Bad})]
      /\ rbuf' = [rbuf EXCEPT ![k] = @ \o inbox[k]] /\ inbox' = [inbox EXCEPT ![k] = <<>>]
  BY DEF TryRead, BasicInv, Types
<1>3. \A r \in Requests : \A t \in Threads : InHand(t, r)' = InHand(t, r)
  BY ThreadKinds DEF TryRead, BasicInv, Types, Goto, InHand, Hands, Serving
<1>4. \A r \in Requests : \A w \in Workers : Posted(w, r)' = Posted(w, r)
  BY DEF TryRead, Posted
<1> HIDE DEF k
<1>5. /\ Range(rbuf'[k]) = Range(rbuf[k]) \union Range(inbox[k])
      /\ Distinct(rbuf[k]) /\ Distinct(inbox[k])
            /\ (\A x \in Range(rbuf[k]) \intersect Range(inbox[k]) : x = Bad) => Distinct(rbuf'[k])
      /\ \A j \in Clients : j # k => rbuf'[j] = rbuf[j]
  <2>1. inbox[k] \in Seq(Requests \union {Bad}) /\ rbuf[k] \in Seq(Requests \union {Bad})
    BY <1>1, <1>2
  <2>2. rbuf'[k] = rbuf[k] \o inbox[k] /\ \A j \in Clients : j # k => rbuf'[j] = rbuf[j]
    BY <1>1, <1>2
  <2> QED
    BY <2>1, <2>2, ConcatRange
<1>6. /\ Range(inbox'[k]) = {} /\ Distinct(inbox'[k])
      /\ \A j \in Clients : j # k => inbox'[j] = inbox[j]
  <2>1. inbox'[k] = <<>> /\ \A j \in Clients : j # k => inbox'[j] = inbox[j]
    BY <1>1, <1>2
  <2>2. Range(<<>>) = {} /\ Distinct(<<>>)
    BY DEF Range, Distinct
  <2> QED
    BY <2>1, <2>2
<1>7. \A r \in Requests : Unread(r)' <=> Unread(r) /\ r[1] # k
  BY <1>6, RequestParts DEF Unread
<1>8. \A r \in Requests : Unparsed(r)' <=> Unparsed(r) \/ (Unread(r) /\ r[1] = k)
  BY <1>5, RequestParts DEF Unread, Unparsed
<1>9. ASSUME OnePlace
      PROVE  \A j \in Clients : Distinct(inbox'[j]) /\ Distinct(rbuf'[j])
  <2>1. \A x \in Range(rbuf[k]) \intersect Range(inbox[k]) : x = Bad
    <3> SUFFICES ASSUME NEW x \in Range(rbuf[k]) \intersect Range(inbox[k]), x # Bad
                 PROVE  FALSE
      OBVIOUS
    <3>1. rbuf[k] \in Seq(Own(k) \union {Bad})
      BY <1>1 DEF BasicInv, Keyed
    <3>2. x \in Own(k)
      BY <3>1 DEF Range
    <3> QED
      BY <1>1, <1>9, <3>2, RequestParts DEF OnePlace, Unread, Unparsed
  <2> QED
    BY <1>1, <1>5, <1>6, <1>9, <2>1 DEF OnePlace
<1> QED
  BY <1>1, <1>3, <1>4, <1>7, <1>8, <1>9 DEF k

\* parse_request takes the first request of the unparsed bytes.
LEMMA ParsePlaces ==
    ASSUME BasicInv, OnePlace, Parse, rbuf' # rbuf
    PROVE  LET h == Head(rbuf[cur[Main]]) IN
           /\ h \in Requests /\ h[1] = cur[Main] /\ Unparsed(h)
           /\ \A r \in Requests : Unread(r)' = Unread(r)
           /\ \A r \in Requests : Unparsed(r)' <=> Unparsed(r) /\ r # h
           /\ \A r \in Requests : \A w \in Workers : Posted(w, r)' = Posted(w, r)
           /\ \A r \in Requests : \A t \in Threads :
                InHand(t, r)' <=> InHand(t, r) \/ (t = Main /\ r = h)
           /\ \A t \in Threads : \A r \in Requests : InHand(t, r) => t # Main
           /\ \A j \in Clients : Distinct(rbuf'[j])
<1> DEFINE k == cur[Main]
           h == Head(rbuf[k])
<1>1. k \in Clients
  BY AtWork DEF Parse, Passes, BasicInv
<1>2. /\ rbuf \in [Clients -> Seq(Requests \union {Bad})]
      /\ rbuf[k] # <<>> /\ h # Bad
      /\ rbuf' = [rbuf EXCEPT ![k] = Tail(@)]
      /\ UNCHANGED <<inbox, todo>>
      /\ pc[Main] = "parse" /\ req' = [req EXCEPT ![Main] = h]
      /\ Goto(Main, IF setting.threads = {} THEN "inline" ELSE "postparams")
  BY DEF Parse, BasicInv, Types
<1>3. \A r \in Requests : \A t \in Threads :
        /\ InHand(t, r)' <=> InHand(t, r) \/ (t = Main /\ r = h)
        /\ InHand(t, r) => t # Main
  <2>1. pc \in [Threads -> Stations] /\ req \in [Threads -> Requests \union {None}]
    BY DEF BasicInv, Types
  <2> HIDE DEF h
  <2> QED
    BY <1>2, <2>1, ThreadKinds DEF Goto, InHand, Hands, Serving
<1>4. /\ rbuf[k] \in Seq(Own(k) \union {Bad})
      /\ rbuf'[k] = Tail(rbuf[k]) /\ \A j \in Clients : j # k => rbuf'[j] = rbuf[j]
  BY <1>1, <1>2 DEF BasicInv, Keyed
<1> HIDE DEF k
<1>5. /\ h \in Own(k) \union {Bad} /\ Range(rbuf[k]) = Range(rbuf'[k]) \union {h}
      /\ Distinct(rbuf[k]) => Distinct(rbuf'[k]) /\ (h = Bad \/ h \notin Range(rbuf'[k]))
  BY <1>2, <1>4, TailRange
<1> HIDE DEF h
<1>6. h \in Requests /\ h[1] = k
  BY <1>1, <1>2, <1>5, RequestParts
<1>7. \A r \in Requests : Unparsed(r)' <=> Unparsed(r) /\ r # h
  BY <1>1, <1>2, <1>4, <1>5, <1>6, RequestParts DEF Unparsed, OnePlace
<1>8. \A j \in Clients : Distinct(rbuf'[j])
  BY <1>1, <1>4, <1>5 DEF OnePlace
<1>9. Unparsed(h)
  BY <1>5, <1>6 DEF Unparsed
<1> QED
  BY <1>2, <1>3, <1>6, <1>7, <1>8, <1>9 DEF Unread, Posted, h, k

\* create_job puts the request of the pass into one queue, or loses it.
LEMMA CreatePlaces ==
    ASSUME BasicInv, CreateJob
    PROVE  LET q == req[Main] IN
           /\ InHand(Main, q) /\ q \in Own(cur[Main]) /\ cur[Main] \in Clients
           /\ UNCHANGED <<inbox, rbuf, runs>>
           /\ \A r \in Requests : \A t \in Threads : InHand(t, r)' <=> InHand(t, r) /\ t # Main
           /\ \/ todo' = todo /\ "job" \in setting.faults
              \/ \E w \in Workers :
                    /\ \A r \in Requests : \A v \in Workers :
                            Posted(v, r)' <=> Posted(v, r) \/ (v = w /\ r = q)
                    /\ ~ Posted(w, q) /\ (\A v \in Workers : Distinct(todo[v]))
                            => \A v \in Workers : Distinct(todo'[v])
<1> DEFINE q == req[Main]
<1>1. /\ InHand(Main, q) /\ q \in Own(cur[Main]) /\ cur[Main] \in Clients
  BY AtWork DEF CreateJob, Passes, InHand, Hands, BasicInv
<1>2. q \in Requests
  BY <1>1, RequestParts
<1>3. \A r \in Requests : \A t \in Threads : InHand(t, r)' <=> InHand(t, r) /\ t # Main
  BY ThreadKinds DEF CreateJob, BasicInv, Types, Goto, InHand, Hands, Serving
<1>4. ASSUME NEW w \in Workers, Pool!Accept(w, q)
      PROVE  /\ \A r \in Requests : \A v \in Workers :
                    Posted(v, r)' <=> Posted(v, r) \/ (v = w /\ r = q)
             /\ ~ Posted(w, q) /\ (\A v \in Workers : Distinct(todo[v]))
                    => \A v \in Workers : Distinct(todo'[v])
  <2>1. todo \in [Workers -> Seq(Requests)] /\ todo' = [todo EXCEPT ![w] = Append(@, q)]
    BY <1>4 DEF Pool!Accept, BasicInv, Types
  <2> HIDE DEF q
  <2>2. todo[w] \in Seq(Requests)
    BY <2>1
  <2>3. todo'[w] = Append(todo[w], q) /\ \A v \in Workers : v # w => todo'[v] = todo[v]
    BY <2>1
  <2>4. /\ Range(todo'[w]) = Range(todo[w]) \union {q}
        /\ Distinct(todo[w]) /\ q \notin Range(todo[w]) => Distinct(todo'[w])
    BY <1>2, <2>2, <2>3, AppendRange
  <2> QED
    BY <2>3, <2>4 DEF Posted
<1>5. (todo' = todo /\ "job" \in setting.faults) \/ \E w \in Workers : Pool!Accept(w, q)
  <2>1. setting.threads \subseteq Workers
    BY SettingFacts DEF BasicInv, Types
  <2> QED
    BY <2>1 DEF CreateJob
<1>6. UNCHANGED <<inbox, rbuf, runs>>
  BY DEF CreateJob, Pool!Accept
<1> HIDE DEF q
<1> QED
  BY <1>1, <1>3, <1>4, <1>5, <1>6 DEF q

\* A worker takes the first request of its queue; the process may die of it.
LEMMA StartPlaces ==
    ASSUME BasicInv, OnePlace, NEW w \in Workers, StartJob(w)
    PROVE  LET h == Head(todo[w]) IN
           /\ h \in Requests /\ Posted(w, h) /\ cur[w] = None /\ pc[w] = "idle"
           /\ UNCHANGED <<inbox, rbuf>>
           /\ \A r \in Requests : \A v \in Workers :
                Posted(v, r)' <=> Posted(v, r) /\ ~ (v = w /\ r = h)
           /\ \A r \in Requests : \A t \in Threads :
                InHand(t, r)' => InHand(t, r) \/ (t = w /\ r = h)
           /\ \A r \in Requests : ~ InHand(w, r)
           /\ \A v \in Workers : Distinct(todo'[v])
<1> DEFINE h == Head(todo[w])
<1>1. /\ todo \in [Workers -> Seq(Requests)] /\ todo[w] # <<>>
      /\ todo' = [todo EXCEPT ![w] = Tail(@)]
      /\ req' = [req EXCEPT ![w] = h] /\ pc[w] = "idle" /\ UNCHANGED <<inbox, rbuf>>
      /\ Die("null gs") \/ Goto(w, "handle")
  BY DEF StartJob, Pool!Run, BasicInv, Types
<1>2. cur[w] = None
  BY <1>1 DEF BasicInv, Control
<1>3. \A r \in Requests : \A t \in Threads :
        /\ InHand(t, r)' => InHand(t, r) \/ (t = w /\ r = h)
        /\ ~ InHand(w, r)
  <2>1. pc \in [Threads -> Stations] /\ req \in [Threads -> Requests \union {None}]
    BY DEF BasicInv, Types
  <2> HIDE DEF h
  <2> QED
    BY <1>1, <2>1, ThreadKinds DEF Die, Goto, InHand, Hands, Serving
<1>4. /\ todo[w] \in Seq(Requests)
      /\ todo'[w] = Tail(todo[w]) /\ \A v \in Workers : v # w => todo'[v] = todo[v]
  BY <1>1
<1>5. /\ h \in Requests /\ Range(todo[w]) = Range(todo'[w]) \union {h}
      /\ Distinct(todo[w]) => Distinct(todo'[w]) /\ (h = Bad \/ h \notin Range(todo'[w]))
  BY <1>1, <1>4, TailRange
<1> HIDE DEF h
<1>6. h # Bad
  BY <1>5, RequestParts
<1>7. \A r \in Requests : \A v \in Workers : Posted(v, r)' <=> Posted(v, r) /\ ~ (v = w /\ r = h)
  BY <1>4, <1>5, <1>6 DEF Posted, OnePlace
<1>8. \A v \in Workers : Distinct(todo'[v])
  BY <1>4, <1>5 DEF OnePlace
<1>10. pc[w] = "idle" /\ UNCHANGED <<inbox, rbuf>>
  BY <1>1
<1>9. Posted(w, h)
  BY <1>5 DEF Posted
<1> QED
  BY <1>2, <1>3, <1>5, <1>7, <1>8, <1>9, <1>10, ThreadKinds DEF h

\* No request is anywhere to start with.
LEMMA InitPlaces == Init => OnePlace /\ Unanswered
<1> SUFFICES ASSUME Init PROVE OnePlace /\ Unanswered
  OBVIOUS
<1>1. Range(<<>>) = {} /\ Distinct(<<>>)
  BY DEF Range, Distinct
<1>2. /\ \A k \in Clients : inbox[k] = <<>> /\ rbuf[k] = <<>> /\ got[k] = {}
      /\ \A w \in Workers : todo[w] = <<>>
      /\ \A t \in Threads : pc[t] \notin Hands
  BY DEF Init, Pool!Init, Hands, Serving
<1>3. \A r \in Requests : ~ Unread(r) /\ ~ Unparsed(r)
  BY <1>1, <1>2, RequestParts DEF Unread, Unparsed
<1>4. \A r \in Requests : /\ \A w \in Workers : ~ Posted(w, r)
                          /\ \A t \in Threads : ~ InHand(t, r)
  BY <1>1, <1>2 DEF Posted, InHand
<1>5. \A r \in Requests : runs[r] = 0
  BY DEF Init, Pool!Init
<1> QED
  BY <1>1, <1>2, <1>3, <1>4, <1>5, ThreadKinds DEF OnePlace, Unanswered, Pending, Coming, Fresh

\* Every step keeps a request in one place at most.
LEMMA PlacesStep == BasicInv /\ OnePlace /\ Unanswered /\ [Next]_vars => OnePlace'
<1> SUFFICES ASSUME BasicInv, OnePlace, Unanswered, [Next]_vars
             PROVE  OnePlace'
  OBVIOUS
<1> USE ThreadKinds
<1>1. ASSUME NEW k \in Clients, Send(k) PROVE OnePlace'
  <2> DEFINE new == <<k, sent[k] + 1>>
  <2>1. new \in Requests /\ sent[k] \in Nat /\ new[1] = k /\ new[2] = sent[k] + 1
    <3>1. sent[k] \in 0 .. MaxSend
      BY DEF BasicInv, Types
    <3> QED
      BY <1>1, <3>1, SendPlaces
  <2>2. ~ Pending(new)
    BY <2>1 DEF Unanswered
  <2> HIDE DEF new
  <2>3. /\ ~ Unread(new) /\ ~ Unparsed(new) /\ \A w \in Workers : ~ Posted(w, new)
        /\ \A t \in Threads : ~ InHand(t, new)
    BY <2>2 DEF Pending, Fresh
  <2>4. /\ \A r \in Requests : Unread(r)' <=> Unread(r) \/ r = new
        /\ \A r \in Requests : Unparsed(r)' = Unparsed(r)
        /\ \A r \in Requests : \A w \in Workers : Posted(w, r)' = Posted(w, r)
        /\ \A r \in Requests : \A t \in Threads : InHand(t, r)' = InHand(t, r)
    BY <1>1, SendPlaces DEF new
  <2>5. \A j \in Clients : Distinct(inbox'[j]) /\ Distinct(rbuf'[j])
    <3>1. \A j \in Clients : Distinct(inbox[j]) /\ ~ Unread(new) => Distinct(inbox'[j])
      BY <1>1, SendPlaces DEF new
    <3>2. rbuf' = rbuf
      BY <1>1 DEF Send
    <3> QED
      BY <2>3, <3>1, <3>2 DEF OnePlace
  <2>6. \A w \in Workers : Distinct(todo'[w])
    BY <1>1 DEF Send, OnePlace
  <2> QED
    BY <2>1, <2>3, <2>4, <2>5, <2>6 DEF OnePlace, Fresh
<1>2. ASSUME NEW k \in Clients, SendMalformed(k) PROVE OnePlace'
  <2>1. UNCHANGED <<rbuf, todo>>
    BY <1>2 DEF SendMalformed
  <2> QED
    BY <1>2, <2>1, MalformedPlaces DEF OnePlace, Fresh
<1>3. CASE TryRead
  <2>1. UNCHANGED todo
    BY <1>3 DEF TryRead
  <2>2. \A w \in Workers : Distinct(todo'[w])
    BY <2>1 DEF OnePlace
  <2> QED
    BY <1>3, <2>2, ReadPlaces DEF OnePlace, Fresh
<1>4. CASE Parse /\ rbuf' # rbuf
  <2> DEFINE h == Head(rbuf[cur[Main]])
  <2>1. UNCHANGED <<todo, inbox>>
    BY <1>4 DEF Parse
  <2>2. /\ \A w \in Workers : Distinct(todo'[w])
        /\ \A j \in Clients : Distinct(inbox'[j])
    BY <2>1 DEF OnePlace
  <2>3. /\ h \in Requests /\ Unparsed(h)
        /\ \A r \in Requests : Unread(r)' = Unread(r)
        /\ \A r \in Requests : Unparsed(r)' <=> Unparsed(r) /\ r # h
        /\ \A r \in Requests : \A w \in Workers : Posted(w, r)' = Posted(w, r)
        /\ \A r \in Requests : \A t \in Threads :
             InHand(t, r)' <=> InHand(t, r) \/ (t = Main /\ r = h)
        /\ \A t \in Threads : \A r \in Requests : InHand(t, r) => t # Main
        /\ \A j \in Clients : Distinct(rbuf'[j])
    BY <1>4, ParsePlaces
  <2> HIDE DEF h
  <2> QED
    BY <2>2, <2>3 DEF OnePlace, Fresh
<1>5. CASE CreateJob
  <2> DEFINE q == req[Main]
  <2>1. /\ InHand(Main, q) /\ q \in Requests
        /\ UNCHANGED <<inbox, rbuf>>
        /\ \A r \in Requests : \A t \in Threads : InHand(t, r)' <=> InHand(t, r) /\ t # Main
    BY <1>5, CreatePlaces, RequestParts
  <2>2. /\ \A j \in Clients : Distinct(inbox'[j]) /\ Distinct(rbuf'[j])
        /\ \A r \in Requests : Unread(r)' = Unread(r) /\ Unparsed(r)' = Unparsed(r)
    BY <2>1 DEF OnePlace, Unread, Unparsed
  <2>3. CASE todo' = todo
    BY <2>1, <2>2, <2>3 DEF OnePlace, Fresh, Posted
  <2>4. ASSUME NEW w \in Workers,
               \A r \in Requests : \A v \in Workers :
                    Posted(v, r)' <=> Posted(v, r) \/ (v = w /\ r = q),
               ~ Posted(w, q) /\ (\A v \in Workers : Distinct(todo[v]))
                    => \A v \in Workers : Distinct(todo'[v])
        PROVE  OnePlace'
    <3> HIDE DEF q
    <3> QED
      BY <2>1, <2>2, <2>4 DEF OnePlace, Fresh
  <2> QED
    BY <1>5, <2>3, <2>4, CreatePlaces
<1>6. ASSUME NEW w \in Workers, StartJob(w) PROVE OnePlace'
  <2> DEFINE h == Head(todo[w])
  <2>1. /\ h \in Requests /\ Posted(w, h)
        /\ UNCHANGED <<inbox, rbuf>>
        /\ \A r \in Requests : \A v \in Workers :
             Posted(v, r)' <=> Posted(v, r) /\ ~ (v = w /\ r = h)
        /\ \A r \in Requests : \A t \in Threads :
             InHand(t, r)' => InHand(t, r) \/ (t = w /\ r = h)
        /\ \A v \in Workers : Distinct(todo'[v])
    BY <1>6, StartPlaces
  <2>2. /\ \A j \in Clients : Distinct(inbox'[j]) /\ Distinct(rbuf'[j])
        /\ \A r \in Requests : Unread(r)' = Unread(r) /\ Unparsed(r)' = Unparsed(r)
    BY <2>1 DEF OnePlace, Unread, Unparsed
  <2> HIDE DEF h
  <2> QED
    BY <2>1, <2>2 DEF OnePlace, Fresh
<1>7. CASE Quiet
  BY <1>7, QuietPlaces
<1> QED
  BY <1>1, <1>2, <1>3, <1>4, <1>5, <1>6, <1>7, QuietSteps

\* Only a request that is sent becomes pending, or comes.
LEMMA PendingSteps ==
    ASSUME BasicInv, OnePlace, [Next]_vars
    PROVE  \A r \in Requests : \/ \E k \in Clients : Send(k) /\ r = <<k, sent[k] + 1>>
                               \/ /\ Pending(r)' => Pending(r)
                                  /\ Coming(r)' => Coming(r)
<1> USE ThreadKinds DEF Pending, Coming, Fresh
<1>1. ASSUME NEW k \in Clients, Send(k)
      PROVE  \A r \in Requests : \/ r = <<k, sent[k] + 1>>
                                 \/ (Pending(r)' => Pending(r)) /\ (Coming(r)' => Coming(r))
  BY <1>1, SendPlaces
<1>2. ASSUME NEW k \in Clients, SendMalformed(k)
      PROVE  \A r \in Requests : (Pending(r)' => Pending(r)) /\ (Coming(r)' => Coming(r))
  BY <1>2, MalformedPlaces
<1>3. CASE TryRead
  BY <1>3, ReadPlaces
<1>4. CASE Parse /\ rbuf' # rbuf
  BY <1>4, ParsePlaces
<1>5. CASE CreateJob
  <2> DEFINE q == req[Main]
  <2>1. /\ InHand(Main, q) /\ q \in Requests
        /\ UNCHANGED <<inbox, rbuf>>
        /\ \A r \in Requests : \A t \in Threads : InHand(t, r)' <=> InHand(t, r) /\ t # Main
    BY <1>5, CreatePlaces, RequestParts
  <2>2. \A r \in Requests : Unread(r)' = Unread(r) /\ Unparsed(r)' = Unparsed(r)
    BY <2>1 DEF Unread, Unparsed
  <2>3. \A r \in Requests : \A v \in Workers : Posted(v, r)' => Posted(v, r) \/ r = q
    BY <1>5, CreatePlaces DEF Posted
  <2> HIDE DEF q
  <2> QED
    BY <2>1, <2>2, <2>3
<1>6. ASSUME NEW w \in Workers, StartJob(w)
      PROVE  \A r \in Requests : (Pending(r)' => Pending(r)) /\ (Coming(r)' => Coming(r))
  <2>1. \A r \in Requests : Unread(r)' = Unread(r) /\ Unparsed(r)' = Unparsed(r)
    BY <1>6, StartPlaces DEF Unread, Unparsed
  <2>2. \A r \in Requests : ~ InHand(Main, r)'  \/ InHand(Main, r)
    BY <1>6, StartPlaces
  <2> QED
    BY <1>6, <2>1, <2>2, StartPlaces
<1>7. CASE Quiet
  BY <1>7, QuietPlaces
<1> QED
  BY <1>1, <1>2, <1>3, <1>4, <1>5, <1>6, <1>7, QuietSteps

\* An answer goes out to one client at most, and its request with it.
LEMMA AnswerGiven ==
    ASSUME BasicInv, NEW t \in Threads,
           (t = Main /\ HandleInline) \/ (t \in Workers /\ GiveResponse(t))
    PROVE  /\ req[t] \in Requests /\ InHand(t, req[t]) /\ req[t] \in Own(cur[t])
           /\ \A r \in Requests : \A u \in Threads : InHand(u, r)' <=> InHand(u, r) /\ u # t
           /\ got' = got \/ \E k \in Clients : got' = [got EXCEPT ![k] = @ \union {req[t]}]
           /\ UNCHANGED <<inbox, rbuf, todo, runs, sent>>
<1>1. cur[t] \in Clients /\ req[t] \in Own(cur[t]) /\ pc[t] \in Hands
  BY AtWork, ThreadKinds DEF HandleInline, GiveResponse, Passes, Hands, Serving, BasicInv
<1>2. \/ got' = got
      \/ \E f \in Fds : file[f] # None /\ got' = [got EXCEPT ![file[f]] = @ \union {req[t]}]
  BY DEF HandleInline, GiveResponse, Write
<1>3. file \in [Fds -> Clients \union {None}]
  BY DEF BasicInv, Types
<1>4. \A r \in Requests : \A u \in Threads : InHand(u, r)' <=> InHand(u, r) /\ u # t
  <2>1. pc \in [Threads -> Stations] /\ req \in [Threads -> Requests \union {None}]
    BY DEF BasicInv, Types
  <2>2. CASE t = Main /\ HandleInline
    BY <2>1, <2>2, ThreadKinds DEF HandleInline, Goto, InHand, Hands, Serving
  <2>3. CASE t \in Workers /\ GiveResponse(t)
    BY <2>1, <2>3, ThreadKinds DEF GiveResponse, Goto, InHand, Hands, Serving
  <2> QED
    BY <2>2, <2>3
<1>5. UNCHANGED <<inbox, rbuf, todo, runs, sent>>
  BY DEF HandleInline, GiveResponse
<1> QED
  BY <1>1, <1>2, <1>3, <1>4, <1>5, RequestParts DEF InHand

\* Nothing else changes what has been answered.
LEMMA NothingAnswered ==
    ASSUME [Next]_vars, ~ HandleInline, \A w \in Workers : ~ GiveResponse(w)
    PROVE  got' = got
<1>1. CASE \E k \in Clients : ClientStep(k) \/ Accept(k) \/ Dispatch(k)
  BY <1>1 DEF ClientStep, Connect, Send, SendMalformed, Close, TimePasses, Accept, Dispatch
<1>2. CASE ExpireStart \/ TryRead \/ Parse \/ PostParams \/ CreateJob \/ SetConnError
  BY <1>2 DEF ExpireStart, TryRead, Parse, PostParams, CreateJob, SetConnError
<1>3. CASE \E t \in Threads : Free(t)
  BY <1>3 DEF Free, DropRef, EventDel, CloseConn, Unlist
<1>4. CASE ExpireVisit \/ ExpireEnd
  BY <1>4 DEF ExpireVisit, ExpireEnd
<1>5. CASE \E w \in Workers : StartJob(w) \/ Handle(w)
  BY <1>5 DEF StartJob, Handle
<1>6. CASE UNCHANGED vars
  BY <1>6 DEF vars
<1> QED
  BY <1>1, <1>2, <1>3, <1>4, <1>5, <1>6, ThreadKinds DEF Next, MainStep, WorkerStep

\* Only sending moves the clients' counters, only StartJob those of the runs.
LEMMA SentRuns ==
    ASSUME [Next]_vars
    PROVE  /\ sent' = sent \/ \E k \in Clients : Send(k)
           /\ runs' = runs \/ \E w \in Workers : StartJob(w)
<1>1. CASE \E k \in Clients : ClientStep(k) \/ Accept(k) \/ Dispatch(k)
  BY <1>1 DEF ClientStep, Connect, Send, SendMalformed, Close, TimePasses, Accept, Dispatch
<1>2. CASE ExpireStart \/ TryRead \/ Parse \/ HandleInline \/ PostParams \/ CreateJob \/ SetConnError
  BY <1>2 DEF ExpireStart, TryRead, Parse, HandleInline, PostParams, CreateJob, Pool!Accept,
              SetConnError
<1>3. CASE \E t \in Threads : Free(t)
  BY <1>3 DEF Free, DropRef, EventDel, CloseConn, Unlist
<1>4. CASE ExpireVisit \/ ExpireEnd
  BY <1>4 DEF ExpireVisit, ExpireEnd
<1>5. CASE \E w \in Workers : StartJob(w) \/ Handle(w) \/ GiveResponse(w)
  BY <1>5 DEF StartJob, Handle, GiveResponse
<1>6. CASE UNCHANGED vars
  BY <1>6 DEF vars
<1> QED
  BY <1>1, <1>2, <1>3, <1>4, <1>5, <1>6, ThreadKinds DEF Next, MainStep, WorkerStep

\* Every step keeps a request that is on its way unanswered.
LEMMA UnansweredStep == BasicInv /\ OnePlace /\ Unanswered /\ [Next]_vars => Unanswered'
<1> SUFFICES ASSUME BasicInv, OnePlace, Unanswered, [Next]_vars
             PROVE  Unanswered'
  OBVIOUS
<1>t. sent \in [Clients -> 0 .. MaxSend] /\ got \in [Clients -> SUBSET Requests]
      /\ runs \in [Requests -> Nat]
  BY DEF BasicInv, Types
<1>1. ASSUME NEW k \in Clients, Send(k) PROVE Unanswered'
  <2> DEFINE new == <<k, sent[k] + 1>>
  <2>1. /\ \A j \in Clients : sent'[j] = IF j = k THEN sent[k] + 1 ELSE sent[j]
        /\ got' = got /\ runs' = runs
    BY <1>1, <1>t DEF Send
  <2>2. new \in Requests /\ new[1] = k /\ new[2] = sent[k] + 1 /\ \A j \in Clients : sent[j] \in Nat
    BY <1>1, <1>t, SendPlaces
  <2>3. \A r \in Requests : r = new \/ ((Pending(r)' => Pending(r)) /\ (Coming(r)' => Coming(r)))
    <3>1. ASSUME NEW j \in Clients, Send(j) PROVE j = k
      <4>1. sent'[j] = sent[j] + 1 /\ sent'[j] = IF j = k THEN sent[k] + 1 ELSE sent[j]
        BY <2>1, <1>t, <3>1 DEF Send
      <4> QED
        BY <2>2, <4>1
    <3>2. ASSUME NEW r \in Requests, r # new
          PROVE  ~ \E j \in Clients : Send(j) /\ r = <<j, sent[j] + 1>>
      BY <3>1, <3>2
    <3>3. \A r \in Requests : \/ \E j \in Clients : Send(j) /\ r = <<j, sent[j] + 1>>
                              \/ (Pending(r)' => Pending(r)) /\ (Coming(r)' => Coming(r))
      BY PendingSteps
    <3> HIDE DEF new
    <3> QED
      BY <3>2, <3>3
  <2>4. new \notin got[k]
    BY <2>2 DEF Unanswered
  <2>6. runs[new] = 0
    BY <2>2 DEF Unanswered
  <2> HIDE DEF new
  <2>7. \A r \in Requests : r[1] \in Clients /\ r[2] \in Nat
    BY RequestParts
  <2> QED
    BY <2>1, <2>2, <2>3, <2>4, <2>6, <2>7, <1>t DEF Unanswered
<1>2. ASSUME NEW t \in Threads,
             (t = Main /\ HandleInline) \/ (t \in Workers /\ GiveResponse(t))
      PROVE  Unanswered'
  <2>1. /\ req[t] \in Requests /\ InHand(t, req[t])
        /\ \A r \in Requests : \A u \in Threads : InHand(u, r)' <=> InHand(u, r) /\ u # t
        /\ \A r \in Requests : Unread(r)' = Unread(r) /\ Unparsed(r)' = Unparsed(r)
        /\ \A r \in Requests : \A w \in Workers : Posted(w, r)' = Posted(w, r)
        /\ runs' = runs /\ sent' = sent
    BY <1>2, AnswerGiven DEF Unread, Unparsed, Posted
  <2>2. got' = got \/ \E k \in Clients : got' = [got EXCEPT ![k] = @ \union {req[t]}]
    BY <1>2, AnswerGiven
  <2>3. \A k \in Clients : got'[k] = got[k] \/ got'[k] = got[k] \union {req[t]}
    BY <1>t, <2>2
  <2>4. \A r \in Requests : Pending(r)' => Pending(r) /\ r # req[t]
    BY <2>1 DEF Pending, Fresh, OnePlace
  <2>5. req[t][2] <= sent[req[t][1]]
    BY <2>1 DEF Unanswered, Pending
  <2>6. \A r \in Requests : Coming(r)' => Coming(r)
    BY <2>1, ThreadKinds DEF Coming, Fresh
  <2> QED
    BY <2>1, <2>3, <2>4, <2>5, <2>6, RequestParts DEF Unanswered
<1>3. ASSUME NEW w \in Workers, StartJob(w) PROVE Unanswered'
  <2> DEFINE h == Head(todo[w])
  <2>1. /\ h \in Requests /\ Posted(w, h)
        /\ \A r \in Requests : Unread(r)' = Unread(r) /\ Unparsed(r)' = Unparsed(r)
        /\ \A r \in Requests : InHand(Main, r)' => InHand(Main, r)
    BY <1>3, StartPlaces, ThreadKinds DEF Unread, Unparsed
  <2>2. got' = got /\ sent' = sent /\ runs' = [runs EXCEPT ![h] = @ + 1]
    BY <1>3 DEF StartJob, Pool!Run
  <2>3. \A r \in Requests : (Pending(r)' => Pending(r)) /\ (Coming(r)' => Coming(r))
    <3>1. \A k \in Clients : ~ Send(k)
      <4>1. ASSUME NEW k \in Clients, Send(k) PROVE FALSE
        <5>1. sent[k] \in Nat /\ sent'[k] = sent[k] + 1
          BY <1>t, <4>1, Bounds DEF Send
        <5> QED
          BY <2>2, <5>1
      <4> QED
        BY <4>1
    <3> QED
      BY <3>1, PendingSteps
  <2>4. ~ Coming(h) /\ h[2] <= sent[h[1]]
    BY <2>1, ThreadKinds DEF Coming, OnePlace, Unanswered, Pending
  <2> HIDE DEF h
  <2>5. \A r \in Requests : r[1] \in Clients /\ r[2] \in Nat /\ sent[r[1]] \in Nat
    BY <1>t, RequestParts
  <2>6. \A r \in Requests : r # h => runs'[r] = runs[r]
    BY <1>t, <2>2
  <2> QED
    BY <1>t, <2>1, <2>2, <2>3, <2>4, <2>5, <2>6 DEF Unanswered
<1>4. ASSUME ~ HandleInline, \A w \in Workers : ~ GiveResponse(w) /\ ~ StartJob(w),
             \A k \in Clients : ~ Send(k)
      PROVE  Unanswered'
  <2>1. got' = got /\ sent' = sent /\ runs' = runs
    BY <1>4, NothingAnswered, SentRuns
  <2>2. \A r \in Requests : (Pending(r)' => Pending(r)) /\ (Coming(r)' => Coming(r))
    BY <1>4, PendingSteps
  <2> QED
    BY <2>1, <2>2 DEF Unanswered
<1> QED
  BY <1>1, <1>2, <1>3, <1>4, ThreadKinds

-----------------------------------------------------------------------------
(* Conn objects and descriptors *)

\* There are none to start with.
LEMMA InitObjects == Init => Sockets /\ Unborn /\ Failing /\ Listed
<1> SUFFICES ASSUME Init PROVE Sockets /\ Unborn /\ Failing /\ Listed
  OBVIOUS
<1>1. Range(<<>>) = {}
  BY DEF Range
<1>2. /\ fd = [k \in Clients |-> None] /\ file = [f \in Fds |-> None]
      /\ ref = [k \in Clients |-> 0] /\ err = [k \in Clients |-> FALSE]
      /\ ev = [k \in Clients |-> FALSE] /\ torn = [k \in Clients |-> 0]
      /\ conns = <<>> /\ rbuf = [k \in Clients |-> <<>>]
      /\ net = [k \in Clients |-> "new"] /\ hup = [k \in Clients |-> FALSE]
      /\ cur = [t \in Threads |-> None] /\ todo = [w \in Workers |-> <<>>]
      /\ pc = [t \in Threads |-> IF t = Main THEN "loop" ELSE "idle"]
  BY DEF Init, Pool!Init
<1>3. Sockets
  BY <1>2 DEF Sockets
<1>4. Unborn
  BY <1>1, <1>2, NoneApart DEF Unborn, NoConn
<1>5. Failing
  BY <1>2, ThreadKinds DEF Failing
<1>6. Listed
  BY <1>1, <1>2 DEF Listed
<1> QED
  BY <1>3, <1>4, <1>5, <1>6

\* A step that closes a descriptor closes the one of the connection it names.
LEMMA ClosedFd ==
    ASSUME Types, Sockets, NEW k \in Clients, CloseFd(k)
    PROVE  /\ \A j \in Clients : fd'[j] = IF j = k THEN None ELSE fd[j]
           /\ \A f \in Fds : file'[f] = IF f = fd[k] THEN None ELSE file[f]
           /\ \A j \in Clients : hup'[j] = (hup[j] \/ (j = k /\ fd[k] # None))
           /\ Sockets'
<1>1. /\ fd \in [Clients -> Fds \union {None}] /\ file \in [Fds -> Clients \union {None}]
      /\ hup \in [Clients -> BOOLEAN]
  BY DEF Types
<1>2. fd[k] # None => file[fd[k]] = k /\ fd[k] \in Fds
  BY <1>1 DEF Sockets
<1>3. \A j \in Clients : fd'[j] = IF j = k THEN None ELSE fd[j]
  BY <1>1 DEF CloseFd
<1>4. \A f \in Fds : file'[f] = IF f = fd[k] THEN None ELSE file[f]
  BY <1>1, <1>2, NoneApart DEF CloseFd
<1>5. \A j \in Clients : hup'[j] = (hup[j] \/ (j = k /\ fd[k] # None))
  BY <1>1, <1>2 DEF CloseFd
<1>6. \A j \in Clients : fd'[j] # None => file'[fd'[j]] = j
  <2>1. ASSUME NEW j \in Clients, fd'[j] # None PROVE file'[fd'[j]] = j
    <3>1. j # k /\ fd'[j] = fd[j] /\ fd[j] \in Fds /\ file[fd[j]] = j
      BY <1>1, <1>3, <2>1 DEF Sockets
    <3>2. fd[j] # fd[k]
      BY <1>2, <3>1, NoneApart
    <3> QED
      BY <1>4, <3>1, <3>2
  <2> QED
    BY <2>1
<1>7. \A f \in Fds : file'[f] # None => fd'[file'[f]] = f
  <2>1. ASSUME NEW f \in Fds, file'[f] # None PROVE fd'[file'[f]] = f
    <3>1. f # fd[k] /\ file'[f] = file[f] /\ file[f] \in Clients /\ fd[file[f]] = f
      BY <1>1, <1>4, <2>1 DEF Sockets
    <3> QED
      BY <1>3, <3>1
  <2> QED
    BY <2>1
<1> QED
  BY <1>3, <1>4, <1>5, <1>6, <1>7 DEF Sockets

\* Only these steps open or close descriptors.
LEMMA FdSteps ==
    ASSUME BasicInv, [Next]_vars
    PROVE  \/ UNCHANGED <<fd, file>>
           \/ \E k \in Clients : Accept(k)
           \/ \E t \in Threads : CloseConn(t) /\ cur[t] \in Clients
           \/ ExpireVisit /\ Head(pos) \in Clients /\ CloseFd(Head(pos))
<1>1. CASE \E k \in Clients : ClientStep(k) \/ Dispatch(k)
  BY <1>1 DEF ClientStep, Connect, Send, SendMalformed, Close, TimePasses, Dispatch
<1>2. CASE ExpireStart \/ TryRead \/ Parse \/ HandleInline \/ PostParams \/ CreateJob \/ SetConnError
  BY <1>2 DEF ExpireStart, TryRead, Parse, HandleInline, PostParams, CreateJob, SetConnError
<1>3. CASE \E t \in Threads : DropRef(t) \/ EventDel(t) \/ Unlist(t)
  BY <1>3 DEF DropRef, EventDel, Unlist
<1>4. ASSUME NEW t \in Threads, CloseConn(t) PROVE cur[t] \in Clients
  BY <1>4, AtWork DEF CloseConn, Freeing, BasicInv
<1>5. CASE ExpireVisit
  <2>1. pos \in Seq(Clients) /\ pos # <<>>
    BY <1>5 DEF ExpireVisit, BasicInv, Types
  <2>2. Head(pos) \in Clients
    BY <2>1
  <2> QED
    BY <1>5, <2>2 DEF ExpireVisit
<1>6. CASE ExpireEnd
  BY <1>6 DEF ExpireEnd
<1>7. CASE \E w \in Workers : StartJob(w) \/ Handle(w) \/ GiveResponse(w)
  BY <1>7 DEF StartJob, Handle, GiveResponse
<1>8. CASE UNCHANGED vars
  BY <1>8 DEF vars
<1> QED
  BY <1>1, <1>2, <1>3, <1>4, <1>5, <1>6, <1>7, <1>8, ThreadKinds
     DEF Next, MainStep, WorkerStep, Free

\* What accept does to the tables.
LEMMA Accepted ==
    ASSUME BasicInv, Sockets, Unborn, NEW k \in Clients, Accept(k)
    PROVE  /\ NoConn(k) /\ ~ hup[k]
           /\ \/ /\ \E f \in Fds : /\ file[f] = None
                                   /\ file' = [file EXCEPT ![f] = k]
                                   /\ fd' = [fd EXCEPT ![k] = f]
                 /\ ref' = [ref EXCEPT ![k] = 1] /\ ev' = [ev EXCEPT ![k] = TRUE]
                 /\ conns' = Append(conns, k) /\ hup' = hup
                 /\ fd'[k] # None
              \/ UNCHANGED <<file, fd, ref, ev, conns>> /\ hup' = [hup EXCEPT ![k] = TRUE]
                 /\ "conn" \in setting.faults
           /\ net' = [net EXCEPT ![k] = "open"]
           /\ UNCHANGED <<setting, inbox, sent, got, err, rbuf, stale, torn, threadVars, crash, poolVars>>
           /\ pc[Main] = "loop"
           /\ Sockets'
<1>1. NoConn(k) /\ ~ hup[k]
  BY DEF Accept, Unborn
<1>2. setting.fds \subseteq Fds
  BY SettingFacts DEF BasicInv, Types
<1>3. fd \in [Clients -> Fds \union {None}] /\ file \in [Fds -> Clients \union {None}]
  BY DEF BasicInv, Types
<1>4. CASE /\ \E f \in setting.fds : /\ file[f] = None
                                     /\ file' = [file EXCEPT ![f] = k]
                                     /\ fd' = [fd EXCEPT ![k] = f]
           /\ ref' = [ref EXCEPT ![k] = 1] /\ ev' = [ev EXCEPT ![k] = TRUE]
           /\ conns' = Append(conns, k) /\ hup' = hup
  <2>1. PICK f \in Fds : /\ file[f] = None
                         /\ file' = [file EXCEPT ![f] = k]
                         /\ fd' = [fd EXCEPT ![k] = f]
    BY <1>2, <1>4
  <2>2. fd'[k] # None
    BY <1>3, <2>1, NoneApart
  <2>3. Sockets'
    BY <1>1, <1>3, <2>1, NoneApart DEF Sockets, NoConn
  <2> QED
    BY <1>1, <1>4, <2>1, <2>2, <2>3 DEF Accept
<1>5. CASE UNCHANGED <<file, fd, ref, ev, conns>> /\ hup' = [hup EXCEPT ![k] = TRUE]
           /\ "conn" \in setting.faults
  <2>1. Sockets'
    BY <1>5 DEF Sockets
  <2> QED
    BY <1>1, <1>5, <2>1 DEF Accept
<1> QED
  BY <1>4, <1>5 DEF Accept

\* Conn objects and descriptors go on knowing each other.
LEMMA SocketsStep == BasicInv /\ Sockets /\ Unborn /\ [Next]_vars => Sockets'
<1> SUFFICES ASSUME BasicInv, Sockets, Unborn, [Next]_vars
             PROVE  Sockets'
  OBVIOUS
<1>1. CASE UNCHANGED <<fd, file>>
  BY <1>1 DEF Sockets
<1>2. CASE \E k \in Clients : Accept(k)
  BY <1>2, Accepted
<1>3. CASE \E t \in Threads : CloseConn(t) /\ cur[t] \in Clients
  BY <1>3, ClosedFd DEF CloseConn, BasicInv
<1>4. CASE ExpireVisit /\ Head(pos) \in Clients /\ CloseFd(Head(pos))
  BY <1>4, ClosedFd DEF BasicInv
<1> QED
  BY <1>1, <1>2, <1>3, <1>4, FdSteps

\* The error of a connection is set for good, and by the event loop.
LEMMA ErrSteps ==
    ASSUME BasicInv, [Next]_vars
    PROVE  /\ \A k \in Clients : err[k] => err'[k]
           /\ \/ err' = err
              \/ SetConnError /\ cur[Main] \in Clients /\ err' = [err EXCEPT ![cur[Main]] = TRUE]
              \/ ExpireVisit /\ Head(pos) \in Clients /\ err' = [err EXCEPT ![Head(pos)] = TRUE]
<1>1. CASE \E k \in Clients : ClientStep(k) \/ Dispatch(k) \/ Accept(k)
  BY <1>1 DEF ClientStep, Connect, Send, SendMalformed, Close, TimePasses, Dispatch, Accept
<1>2. CASE ExpireStart \/ TryRead \/ Parse \/ HandleInline \/ PostParams \/ CreateJob
  BY <1>2 DEF ExpireStart, TryRead, Parse, HandleInline, PostParams, CreateJob
<1>3. CASE \E t \in Threads : DropRef(t) \/ EventDel(t) \/ CloseConn(t) \/ Unlist(t)
  BY <1>3 DEF DropRef, EventDel, CloseConn, Unlist
<1>4. CASE SetConnError
  <2>1. cur[Main] \in Clients
    BY <1>4, AtWork DEF SetConnError, Passes, BasicInv
  <2> QED
    BY <1>4, <2>1 DEF SetConnError, BasicInv, Types
<1>5. CASE ExpireVisit
  <2>1. pos \in Seq(Clients) /\ pos # <<>>
    BY <1>5 DEF ExpireVisit, BasicInv, Types
  <2>2. Head(pos) \in Clients
    BY <2>1
  <2>3. err' = err \/ err' = [err EXCEPT ![Head(pos)] = TRUE]
    BY <1>5 DEF ExpireVisit
  <2> QED
    BY <1>5, <2>2, <2>3 DEF BasicInv, Types
<1>6. CASE ExpireEnd
  BY <1>6 DEF ExpireEnd
<1>7. CASE \E w \in Workers : StartJob(w) \/ Handle(w) \/ GiveResponse(w)
  BY <1>7 DEF StartJob, Handle, GiveResponse
<1>8. CASE UNCHANGED vars
  BY <1>8 DEF vars
<1> QED
  BY <1>1, <1>2, <1>3, <1>4, <1>5, <1>6, <1>7, <1>8, ThreadKinds
     DEF Next, MainStep, WorkerStep, Free

\* Unlinking takes a connection out of the list.
LEMMA Unlinked ==
    ASSUME BasicInv, Listed, NEW k \in Clients, Unlink(k)
    PROVE  /\ k \in Range(conns) /\ Range(conns') = Range(conns) \ {k}
           /\ \A i, j \in 1 .. Len(conns') : conns'[i] = conns'[j] => i = j
<1>1. conns \in Seq(Clients) /\ \A i, j \in 1 .. Len(conns) : conns[i] = conns[j] => i = j
  BY DEF BasicInv, Types, Listed
<1>2. PICK n \in DOMAIN conns : conns[n] = k /\ conns' = RemoveAt(conns, n)
  BY DEF Unlink
<1>3. /\ Range(RemoveAt(conns, n)) = Range(conns) \ {conns[n]}
      /\ \A i, j \in 1 .. Len(RemoveAt(conns, n)) :
            RemoveAt(conns, n)[i] = RemoveAt(conns, n)[j] => i = j
  BY <1>1, RemoveRange
<1>4. k \in Range(conns)
  BY <1>2 DEF Range
<1> QED
  BY <1>2, <1>3, <1>4

\* What Unborn says of a client without a conn object.
Blank(k) ==
    /\ NoConn(k) /\ ref[k] = 0 /\ ~ ev[k] /\ torn[k] = 0
    /\ k \notin Range(conns) /\ rbuf[k] = <<>>
    /\ \A t \in Threads : cur[t] # k
    /\ \A w \in Workers : \A r \in Range(todo[w]) : r[1] # k

\* It stays without one until it is accepted.
LEMMA BlankStep ==
    ASSUME BasicInv, Sockets, Unborn, Listed, [Next]_vars,
           NEW k \in Clients, NoConn(k), ~ Accept(k)
    PROVE  Blank(k)' /\ hup'[k] = hup[k]
<1>1. Blank(k)
  BY DEF Unborn, Blank
<1>2. \A t \in Threads : cur[t] # k /\ ref[k] = 0 /\ ~ ev[k] /\ k \notin Range(conns)
  BY <1>1 DEF Blank
<1>t1. /\ fd \in [Clients -> Fds \union {None}] /\ ref \in [Clients -> Int]
       /\ err \in [Clients -> BOOLEAN] /\ ev \in [Clients -> BOOLEAN]
       /\ hup \in [Clients -> BOOLEAN] /\ torn \in [Clients -> Nat]
  BY DEF BasicInv, Types
<1>t2. /\ rbuf \in [Clients -> Seq(Requests \union {Bad})]
       /\ cur \in [Threads -> Clients \union {None}]
       /\ todo \in [Workers -> Seq(Requests)]
  BY DEF BasicInv, Types
<1>t3. conns \in Seq(Clients) /\ k # None
  BY NoneApart DEF BasicInv, Types
<1>3. CASE UNCHANGED <<fd, err, ref, ev, torn, conns, rbuf, cur, todo, hup>>
  BY <1>1, <1>3 DEF Blank, NoConn
<1>4. CASE \E j \in Clients : ClientStep(j)
  <2>1. UNCHANGED <<fd, err, ref, ev, torn, conns, rbuf, cur, todo, hup>>
    BY <1>4 DEF ClientStep, Connect, Send, SendMalformed, Close, TimePasses
  <2> QED
    BY <1>3, <2>1
<1>5. CASE ExpireStart \/ HandleInline \/ ExpireEnd
  <2>1. UNCHANGED <<fd, err, ref, ev, torn, conns, rbuf, cur, todo, hup>>
    BY <1>5 DEF ExpireStart, HandleInline, ExpireEnd
  <2> QED
    BY <1>3, <2>1
<1>6. CASE \E w \in Workers : Handle(w) \/ GiveResponse(w)
  <2>1. UNCHANGED <<fd, err, ref, ev, torn, conns, rbuf, cur, todo, hup>>
    BY <1>6 DEF Handle, GiveResponse
  <2> QED
    BY <1>3, <2>1
<1>7. CASE UNCHANGED vars
  <2>1. UNCHANGED <<fd, err, ref, ev, torn, conns, rbuf, cur, todo, hup>>
    BY <1>7 DEF vars
  <2> QED
    BY <1>3, <2>1
<1>8. ASSUME NEW j \in Clients, Accept(j) PROVE Blank(k)' /\ hup'[k] = hup[k]
  <2>1. j # k
    BY <1>8
  <2>2. UNCHANGED <<err, torn, rbuf, cur, todo>>
    BY <1>8 DEF Accept
  <2>3. /\ fd'[k] = fd[k] /\ ref'[k] = ref[k] /\ ev'[k] = ev[k] /\ hup'[k] = hup[k]
        /\ conns' = conns \/ conns' = Append(conns, j)
    BY <1>8, <1>t1, <2>1 DEF Accept
  <2>4. k \notin Range(conns')
    <3>1. Range(Append(conns, j)) = Range(conns) \union {j}
      BY <1>t3, AppendRange
    <3> QED
      BY <1>2, <2>1, <2>3, <3>1, ThreadKinds
  <2> QED
    BY <1>1, <2>2, <2>3, <2>4 DEF Blank, NoConn
<1>9. ASSUME NEW j \in Clients, Dispatch(j) PROVE Blank(k)' /\ hup'[k] = hup[k]
  <2>1. j # k /\ cur' = [cur EXCEPT ![Main] = j]
    BY <1>2, <1>9, ThreadKinds DEF Dispatch
  <2>2. UNCHANGED <<fd, err, ref, ev, torn, conns, rbuf, todo, hup>>
    BY <1>9 DEF Dispatch
  <2>3. \A t \in Threads : cur'[t] # k
    BY <1>2, <1>t2, <2>1
  <2> QED
    BY <1>1, <2>2, <2>3 DEF Blank, NoConn
<1>10. CASE TryRead
  <2>1. rbuf' = [rbuf EXCEPT ![cur[Main]] = @ \o inbox[cur[Main]]] /\ cur[Main] # k
    BY <1>2, <1>10, ThreadKinds DEF TryRead
  <2>2. UNCHANGED <<fd, err, ref, ev, torn, conns, cur, todo, hup>>
    BY <1>10 DEF TryRead
  <2>3. rbuf'[k] = rbuf[k]
    BY <1>t2, <2>1
  <2> QED
    BY <1>1, <2>2, <2>3 DEF Blank, NoConn
<1>11. CASE Parse
  <2>1. /\ rbuf' = rbuf \/ rbuf' = [rbuf EXCEPT ![cur[Main]] = Tail(@)]
        /\ cur' = cur \/ cur' = [cur EXCEPT ![Main] = None]
        /\ cur[Main] # k
    BY <1>2, <1>11, ThreadKinds DEF Parse
  <2>2. UNCHANGED <<fd, err, ref, ev, torn, conns, todo, hup>>
    BY <1>11 DEF Parse
  <2>3. rbuf'[k] = rbuf[k] /\ \A t \in Threads : cur'[t] # k
    BY <1>2, <1>t2, <1>t3, <2>1
  <2> QED
    BY <1>1, <2>2, <2>3 DEF Blank, NoConn
<1>12. CASE PostParams
  <2>1. (ref' = ref \/ ref' = [ref EXCEPT ![cur[Main]] = @ + 1]) /\ cur[Main] # k
    BY <1>2, <1>12, ThreadKinds DEF PostParams
  <2>2. UNCHANGED <<fd, err, ev, torn, conns, rbuf, cur, todo, hup>>
    BY <1>12 DEF PostParams
  <2>3. ref'[k] = ref[k]
    BY <1>t1, <2>1
  <2> QED
    BY <1>1, <2>2, <2>3 DEF Blank, NoConn
<1>13. CASE CreateJob
  <2>1. UNCHANGED <<fd, err, ref, ev, torn, conns, rbuf, cur, hup>>
    BY <1>13 DEF CreateJob
  <2>2. req[Main] \in Requests /\ req[Main][1] # k
    <3>1. req[Main] \in Own(cur[Main]) /\ cur[Main] \in Clients
      BY <1>13, AtWork, ThreadKinds DEF CreateJob, Passes, BasicInv, Control
    <3> QED
      BY <1>2, <3>1, RequestParts, ThreadKinds
  <2>3. \A w \in Workers : todo'[w] = todo[w] \/ todo'[w] = Append(todo[w], req[Main])
    BY <1>13, <1>t2 DEF CreateJob, Pool!Accept
  <2>4. ASSUME NEW w \in Workers, NEW r \in Range(todo'[w]) PROVE r[1] # k
    <3>1. Range(Append(todo[w], req[Main])) = Range(todo[w]) \union {req[Main]}
      BY <1>t2, <2>2, AppendRange
    <3> QED
      BY <1>1, <2>2, <2>3, <2>4, <3>1 DEF Blank
  <2> QED
    BY <1>1, <2>1, <2>4 DEF Blank, NoConn
<1>14. CASE SetConnError
  <2>1. err' = [err EXCEPT ![cur[Main]] = TRUE] /\ cur[Main] # k
    BY <1>2, <1>14, ThreadKinds DEF SetConnError
  <2>2. UNCHANGED <<fd, ref, ev, torn, conns, rbuf, cur, todo, hup>>
    BY <1>14 DEF SetConnError
  <2>3. err'[k] = err[k]
    BY <1>t1, <2>1
  <2> QED
    BY <1>1, <2>2, <2>3 DEF Blank, NoConn
<1>15. ASSUME NEW t \in Threads, DropRef(t) PROVE Blank(k)' /\ hup'[k] = hup[k]
  <2>1. /\ ref' = [ref EXCEPT ![cur[t]] = @ - 1] /\ cur[t] # k
        /\ cur' = cur \/ cur' = [cur EXCEPT ![t] = None]
    BY <1>2, <1>15 DEF DropRef, Leave
  <2>2. UNCHANGED <<fd, err, ev, torn, conns, rbuf, todo, hup>>
    BY <1>15 DEF DropRef
  <2>3. ref'[k] = ref[k] /\ \A u \in Threads : cur'[u] # k
    BY <1>2, <1>t1, <1>t2, <1>t3, <2>1
  <2> QED
    BY <1>1, <2>2, <2>3 DEF Blank, NoConn
<1>16. ASSUME NEW t \in Threads, EventDel(t) PROVE Blank(k)' /\ hup'[k] = hup[k]
  <2>1. ev' = [ev EXCEPT ![cur[t]] = FALSE] /\ cur[t] # k
    BY <1>2, <1>16 DEF EventDel
  <2>2. UNCHANGED <<fd, err, ref, torn, conns, rbuf, cur, todo, hup>>
    BY <1>16 DEF EventDel
  <2>3. ev'[k] = ev[k]
    BY <1>t1, <2>1
  <2> QED
    BY <1>1, <2>2, <2>3 DEF Blank, NoConn
<1>17. ASSUME NEW t \in Threads, CloseConn(t) PROVE Blank(k)' /\ hup'[k] = hup[k]
  <2>1. UNCHANGED <<err, ref, ev, torn, conns, rbuf, cur, todo>>
    BY <1>17 DEF CloseConn
  <2>2. fd'[k] = fd[k] /\ hup'[k] = hup[k]
    <3>1. cur[t] \in Clients /\ cur[t] # k
      BY <1>2, <1>17, AtWork DEF CloseConn, Freeing, BasicInv
    <3>2. CloseFd(cur[t]) /\ Types
      BY <1>17 DEF CloseConn, BasicInv
    <3> QED
      BY <1>t1, <3>1, <3>2, ClosedFd
  <2> QED
    BY <1>1, <2>1, <2>2 DEF Blank, NoConn
<1>18. ASSUME NEW t \in Threads, Unlist(t) PROVE Blank(k)' /\ hup'[k] = hup[k]
  <2>1. cur[t] \in Clients /\ cur[t] # k
    BY <1>2, <1>18, AtWork DEF Unlist, Freeing, BasicInv
  <2>2. UNCHANGED <<fd, err, ref, ev, rbuf, todo, hup>>
    BY <1>18 DEF Unlist
  <2>3. /\ torn' = [torn EXCEPT ![cur[t]] = @ + 1]
        /\ cur' = cur \/ cur' = [cur EXCEPT ![t] = None]
        /\ conns' = conns \/ Unlink(cur[t])
    BY <1>18 DEF Unlist, Leave
  <2>4. k \notin Range(conns')
    BY <1>2, <2>1, <2>3, Unlinked, ThreadKinds
  <2>5. torn'[k] = torn[k] /\ \A u \in Threads : cur'[u] # k
    BY <1>2, <1>t1, <1>t2, <1>t3, <2>1, <2>3
  <2> QED
    BY <1>1, <2>2, <2>4, <2>5 DEF Blank, NoConn
<1>19. ASSUME NEW w \in Workers, StartJob(w) PROVE Blank(k)' /\ hup'[k] = hup[k]
  <2>1. UNCHANGED <<fd, err, ref, ev, torn, conns, rbuf, hup>>
    BY <1>19 DEF StartJob
  <2>2. /\ todo[w] # <<>> /\ todo' = [todo EXCEPT ![w] = Tail(@)]
        /\ cur' = [cur EXCEPT ![w] = Head(todo[w])[1]]
    BY <1>19 DEF StartJob, Pool!Run
  <2>3. /\ Range(todo[w]) = Range(Tail(todo[w])) \union {Head(todo[w])}
    BY <1>t2, <2>2, TailRange
  <2>4. Head(todo[w])[1] # k /\ \A r \in Range(Tail(todo[w])) : r[1] # k
    BY <1>1, <2>3 DEF Blank
  <2>5. \A u \in Threads : cur'[u] # k
    BY <1>2, <1>t2, <2>2, <2>4
  <2>6. \A v \in Workers : \A r \in Range(todo'[v]) : r[1] # k
    <3>1. \A v \in Workers : v # w => todo'[v] = todo[v]
      BY <1>t2, <2>2
    <3>2. todo'[w] = Tail(todo[w])
      BY <1>t2, <2>2
    <3> QED
      BY <1>1, <2>4, <3>1, <3>2 DEF Blank
  <2> QED
    BY <1>1, <2>1, <2>5, <2>6 DEF Blank, NoConn
<1>20. CASE ExpireVisit
  <2> DEFINE h == Head(pos)
  <2>1. h \in Clients /\ h # k /\ UNCHANGED <<rbuf, cur, todo>>
    <3>1. pc[Main] = "scan" /\ pos # <<>> /\ pos \in Seq(Clients)
      BY <1>20 DEF ExpireVisit, BasicInv, Types
    <3>2. h \in Clients /\ h \in Range(pos) /\ Range(pos) \subseteq Range(conns)
      BY <3>1, TailRange DEF BasicInv, Control
    <3> QED
      BY <1>2, <1>20, <3>2, ThreadKinds DEF ExpireVisit
  <2>2. /\ err' = err \/ err' = [err EXCEPT ![h] = TRUE]
        /\ ref' = ref \/ ref' = [ref EXCEPT ![h] = @ - 1]
        /\ ev' = ev \/ ev' = [ev EXCEPT ![h] = FALSE]
        /\ torn' = torn \/ torn' = [torn EXCEPT ![h] = @ + 1]
        /\ conns' = conns \/ Unlink(h)
        /\ UNCHANGED <<fd, hup>> \/ CloseFd(h)
    BY <1>20 DEF ExpireVisit
  <2> HIDE DEF h
  <2>3. err'[k] = err[k] /\ ref'[k] = ref[k] /\ ev'[k] = ev[k] /\ torn'[k] = torn[k]
    BY <1>t1, <2>1, <2>2
  <2>4. fd'[k] = fd[k] /\ hup'[k] = hup[k]
    BY <1>t1, <2>1, <2>2, ClosedFd DEF BasicInv
  <2>5. k \notin Range(conns')
    BY <1>2, <2>1, <2>2, Unlinked, ThreadKinds
  <2> QED
    BY <1>1, <2>1, <2>3, <2>4, <2>5 DEF Blank, NoConn
<1> QED
  BY <1>4, <1>5, <1>6, <1>7, <1>8, <1>9, <1>10, <1>11, <1>12, <1>13, <1>14, <1>15, <1>16,
     <1>17, <1>18, <1>19, <1>20, ThreadKinds
     DEF Next, MainStep, WorkerStep, Free

\* A conn object never goes away.
LEMMA ConnKept ==
    ASSUME BasicInv, Sockets, Unborn, Failing, [Next]_vars, NEW k \in Clients, ~ NoConn(k)
    PROVE  ~ NoConn(k)'
<1>1. CASE err[k]
  BY <1>1, ErrSteps DEF NoConn
<1>2. CASE fd[k] # None /\ ~ err[k]
  <2>1. fd \in [Clients -> Fds \union {None}] /\ err \in [Clients -> BOOLEAN]
    BY DEF BasicInv, Types
  <2>2. CASE UNCHANGED <<fd, file>>
    BY <1>2, <2>2 DEF NoConn
  <2>3. ASSUME NEW j \in Clients, Accept(j) PROVE ~ NoConn(k)'
    <3>1. fd' = fd \/ \E f \in Fds : fd' = [fd EXCEPT ![j] = f]
      BY <2>3, Accepted
    <3> QED
      BY <1>2, <2>1, <3>1, NoneApart DEF NoConn
  <2>4. ASSUME NEW t \in Threads, CloseConn(t), cur[t] \in Clients PROVE ~ NoConn(k)'
    <3>1. err[cur[t]]
      BY <2>4 DEF CloseConn, Failing
    <3>2. \A j \in Clients : fd'[j] = IF j = cur[t] THEN None ELSE fd[j]
      BY <2>4, ClosedFd DEF CloseConn, BasicInv
    <3> QED
      BY <1>2, <3>1, <3>2 DEF NoConn
  <2>5. CASE ExpireVisit /\ Head(pos) \in Clients /\ CloseFd(Head(pos))
    <3>1. fd' = fd \/ err' = [err EXCEPT ![Head(pos)] = TRUE]
      BY <2>5 DEF ExpireVisit
    <3>2. \A j \in Clients : fd'[j] = IF j = Head(pos) THEN None ELSE fd[j]
      BY <2>5, ClosedFd DEF BasicInv
    <3> QED
      BY <1>2, <2>1, <2>5, <3>1, <3>2 DEF NoConn
  <2> QED
    BY <2>2, <2>3, <2>4, <2>5, FdSteps
<1> QED
  BY <1>1, <1>2 DEF NoConn

\* Who has not been accepted was not before, and this step is not its accept.
LEMMA NetSteps ==
    ASSUME BasicInv, [Next]_vars, NEW k \in Clients
    PROVE  /\ net[k] \in {"open", "closed"} => net'[k] \in {"open", "closed"}
           /\ net[k] = "closed" => net'[k] = "closed"
           /\ Accept(k) => net'[k] = "open"
<1>1. net \in [Clients -> {"new", "pending", "open", "closed"}]
  BY DEF BasicInv, Types
<1>2. CASE \E j \in Clients : Connect(j) \/ Close(j) \/ Accept(j)
  BY <1>1, <1>2 DEF Connect, Close, Accept
<1>3. CASE net' = net
  BY <1>1, <1>3 DEF Accept
<1>4. CASE \E j \in Clients : Send(j) \/ SendMalformed(j) \/ TimePasses(j) \/ Dispatch(j)
  BY <1>3, <1>4 DEF Send, SendMalformed, TimePasses, Dispatch
<1>5. CASE ExpireStart \/ TryRead \/ Parse \/ HandleInline \/ PostParams \/ CreateJob \/ SetConnError
  BY <1>3, <1>5 DEF ExpireStart, TryRead, Parse, HandleInline, PostParams, CreateJob, SetConnError
<1>6. CASE \E t \in Threads : DropRef(t) \/ EventDel(t) \/ CloseConn(t) \/ Unlist(t)
  BY <1>3, <1>6 DEF DropRef, EventDel, CloseConn, Unlist
<1>7. CASE ExpireVisit \/ ExpireEnd
  BY <1>3, <1>7 DEF ExpireVisit, ExpireEnd
<1>8. CASE \E w \in Workers : StartJob(w) \/ Handle(w) \/ GiveResponse(w)
  BY <1>3, <1>8 DEF StartJob, Handle, GiveResponse
<1>9. CASE UNCHANGED vars
  BY <1>3, <1>9 DEF vars
<1> QED
  BY <1>2, <1>3, <1>4, <1>5, <1>6, <1>7, <1>8, <1>9, ThreadKinds
     DEF Next, ClientStep, MainStep, WorkerStep, Free

\* Where there is no conn object, nothing refers to one.
LEMMA UnbornStep ==
    BasicInv /\ Sockets /\ Unborn /\ Failing /\ Listed /\ [Next]_vars => Unborn'
<1> SUFFICES ASSUME BasicInv, Sockets, Unborn, Failing, Listed, [Next]_vars
             PROVE  Unborn'
  OBVIOUS
<1>1. ASSUME NEW k \in Clients, net'[k] \in {"new", "pending"}
      PROVE  NoConn(k)' /\ ~ hup'[k]
  <2>1. net[k] \in {"new", "pending"} /\ ~ Accept(k)
    <3>1. net[k] \in {"new", "pending", "open", "closed"}
      BY DEF BasicInv, Types
    <3> QED
      BY <1>1, <3>1, NetSteps
  <2>2. NoConn(k) /\ ~ hup[k]
    BY <2>1 DEF Unborn
  <2> QED
    BY <2>1, <2>2, BlankStep DEF Blank
<1>2. ASSUME NEW k \in Clients, NoConn(k)'
      PROVE  Blank(k)'
  <2>1. NoConn(k)
    BY <1>2, ConnKept
  <2>2. CASE Accept(k)
    <3>1. UNCHANGED <<fd, ref, ev, conns, err, rbuf, torn, cur, todo>>
      BY <1>2, <2>2, Accepted DEF NoConn
    <3>2. Blank(k)
      BY <2>1 DEF Unborn, Blank
    <3> QED
      BY <3>1, <3>2 DEF Blank, NoConn
  <2> QED
    BY <2>1, <2>2, BlankStep
<1> QED
  BY <1>1, <1>2 DEF Unborn, Blank, NoConn

-----------------------------------------------------------------------------
(* References *)

\* The jobs of a connection are finitely many, and each one counts.
LEMMA Holders ==
    ASSUME BasicInv, NEW k \in Clients
    PROVE  /\ IsFiniteSet(Jobs(k)) /\ IsFiniteSet(Runners(k))
           /\ Cardinality(Jobs(k)) \in Nat /\ Cardinality(Runners(k)) \in Nat
           /\ Outstanding(k) = Cardinality(Jobs(k)) + Cardinality(Runners(k))
                               + (IF pc[Main] = "post" /\ cur[Main] = k THEN 1 ELSE 0)
           /\ \A w \in Workers : cur[w] = k => Outstanding(k) >= 1
<1>1. IsFiniteSet(Runners(k))
  <2>1. IsFiniteSet(Workers) /\ Runners(k) \in SUBSET Workers
    BY TcpServerAssumption DEF Runners
  <2> QED
    BY <2>1, FS_Subset
<1>2. IsFiniteSet(Jobs(k))
  <2>1. IsFiniteSet(1 .. MaxSend)
    <3>1. MaxSend \in Int /\ 1 \in Int
      BY Bounds
    <3> QED
      BY <3>1, FS_Interval
  <2>2. IsFiniteSet(Own(k))
    <3>1. IsFiniteSet({k})
      BY FS_Singleton
    <3> QED
      BY <2>1, <3>1, FS_Product DEF Own
  <2>3. \A r \in Jobs(k) : r \in Own(k)
    BY RequestParts DEF Jobs
  <2> QED
    BY <2>2, <2>3, FS_Subset
<1>3. Cardinality(Jobs(k)) \in Nat /\ Cardinality(Runners(k)) \in Nat
  BY <1>1, <1>2, FS_CardinalityType
<1>4. Outstanding(k) = Cardinality(Jobs(k)) + Cardinality(Runners(k))
                       + (IF pc[Main] = "post" /\ cur[Main] = k THEN 1 ELSE 0)
  BY DEF Outstanding, Jobs, Runners
<1>5. ASSUME NEW w \in Workers, cur[w] = k PROVE Outstanding(k) >= 1
  <2>1. Runners(k) # {}
    BY <1>5 DEF Runners
  <2>2. Cardinality(Runners(k)) # 0
    BY <1>1, <2>1, FS_EmptySet
  <2> QED
    BY <1>3, <1>4, <2>2
<1> QED
  BY <1>1, <1>2, <1>3, <1>4, <1>5

\* Whoever's jobs stay where they are has as many as before.
LEMMA HoldersKept ==
    ASSUME BasicInv, BasicInv', NEW k \in Clients, Jobs(k)' = Jobs(k), Runners(k)' = Runners(k),
           (pc[Main] = "post" /\ cur[Main] = k)' <=> (pc[Main] = "post" /\ cur[Main] = k)
    PROVE  Outstanding(k)' = Outstanding(k)
BY DEF Outstanding, Jobs, Runners

\* The part of Counted about one connection.
CountedAt(k) ==
    crash = None /\ fd[k] # None /\ ~ err[k] =>
        /\ ref[k] >= 1 + Outstanding(k)
        /\ "job" \notin setting.faults => ref[k] = 1 + Outstanding(k)

\* A crash is for good.
LEMMA CrashKept ==
    ASSUME BasicInv, [Next]_vars
    PROVE  /\ crash # None => crash' # None
           /\ setting' = setting
<1>1. CASE \E k \in Clients : ClientStep(k) \/ Accept(k) \/ Dispatch(k)
  BY <1>1 DEF ClientStep, Connect, Send, SendMalformed, Close, TimePasses, Accept, Dispatch
<1>2. CASE ExpireStart \/ TryRead \/ Parse \/ HandleInline \/ PostParams \/ CreateJob \/ SetConnError
  BY <1>2 DEF ExpireStart, TryRead, Parse, HandleInline, PostParams, CreateJob, SetConnError
<1>3. CASE \E t \in Threads : DropRef(t) \/ EventDel(t) \/ CloseConn(t)
  BY <1>3 DEF DropRef, EventDel, CloseConn
<1>4. CASE \E t \in Threads : Unlist(t)
  BY <1>4, NoneApart DEF Unlist, Die
<1>5. CASE ExpireVisit \/ ExpireEnd
  BY <1>5, NoneApart DEF ExpireVisit, ExpireEnd, Die
<1>6. CASE \E w \in Workers : StartJob(w) \/ Handle(w) \/ GiveResponse(w)
  BY <1>6, NoneApart DEF StartJob, Handle, GiveResponse, Die
<1>7. CASE UNCHANGED vars
  BY <1>7 DEF vars
<1> QED
  BY <1>1, <1>2, <1>3, <1>4, <1>5, <1>6, <1>7, ThreadKinds DEF Next, MainStep, WorkerStep, Free

\* A connection whose holders and count do not change stays counted.
LEMMA CountedKept ==
    ASSUME BasicInv, BasicInv', Sockets, Unborn, Failing, [Next]_vars, NEW k \in Clients,
           CountedAt(k), ~ Accept(k), ref'[k] = ref[k], Outstanding(k)' = Outstanding(k),
           fd'[k] # None => fd[k] # None
    PROVE  CountedAt(k)'
<1>1. err[k] => err'[k]
  BY ErrSteps
<1>2. (crash' = None => crash = None) /\ setting' = setting
  BY CrashKept
<1> QED
  BY <1>1, <1>2 DEF CountedAt

\* Only accepting gives a connection a descriptor.
LEMMA FdGiven ==
    ASSUME BasicInv, Sockets, Unborn, [Next]_vars, NEW k \in Clients, ~ Accept(k)
    PROVE  fd'[k] = fd[k] \/ fd'[k] = None
<1>1. fd \in [Clients -> Fds \union {None}]
  BY DEF BasicInv, Types
<1>2. ASSUME NEW j \in Clients, Accept(j) PROVE fd'[k] = fd[k]
  <2>1. j # k /\ (fd' = fd \/ \E f \in Fds : fd' = [fd EXCEPT ![j] = f])
    BY <1>2, Accepted
  <2> QED
    BY <1>1, <2>1
<1>3. ASSUME NEW t \in Threads, CloseConn(t), cur[t] \in Clients
      PROVE  fd'[k] = fd[k] \/ fd'[k] = None
  BY <1>3, ClosedFd DEF CloseConn, BasicInv
<1>4. CASE ExpireVisit /\ Head(pos) \in Clients /\ CloseFd(Head(pos))
  BY <1>4, ClosedFd DEF BasicInv
<1>5. CASE UNCHANGED <<fd, file>>
  BY <1>5
<1> QED
  BY <1>2, <1>3, <1>4, <1>5, FdSteps

\* Steps that leave the queues, the workers and conn_ref alone, and the
\* last step of a teardown.
Uncounted ==
    /\ UNCHANGED <<ref, todo>>
    /\ \A w \in Workers : cur'[w] = cur[w]
    /\ (pc[Main] = "post")' = (pc[Main] = "post") /\ (pc[Main] = "post" => cur'[Main] = cur[Main])

\* Every other step leaves the references alone.
LEMMA UncountedSteps ==
    ASSUME BasicInv, [Next]_vars
    PROVE  \/ Uncounted
           \/ \E k \in Clients : Accept(k)
           \/ PostParams \/ CreateJob \/ ExpireVisit
           \/ \E t \in Threads : DropRef(t) \/ Unlist(t)
           \/ \E w \in Workers : StartJob(w)
<1>1. pc \in [Threads -> Stations] /\ cur \in [Threads -> Clients \union {None}]
  BY DEF BasicInv, Types
<1>2. CASE \E k \in Clients : ClientStep(k)
  BY <1>2 DEF ClientStep, Connect, Send, SendMalformed, Close, TimePasses, Uncounted
<1>3. CASE \E k \in Clients : Dispatch(k)
  BY <1>1, <1>3, ThreadKinds DEF Dispatch, Goto, Uncounted
<1>4. CASE ExpireStart \/ TryRead \/ HandleInline
  BY <1>1, <1>4, ThreadKinds DEF ExpireStart, TryRead, HandleInline, Goto, Uncounted
<1>5. CASE Parse
  BY <1>1, <1>5, ThreadKinds DEF Parse, Goto, Uncounted
<1>6. CASE SetConnError \/ ExpireEnd
  BY <1>1, <1>6, ThreadKinds DEF SetConnError, ExpireEnd, Goto, Uncounted
<1>7. CASE \E t \in Threads : EventDel(t) \/ CloseConn(t)
  BY <1>1, <1>7, ThreadKinds DEF EventDel, CloseConn, Goto, Uncounted
<1>8. CASE \E w \in Workers : Handle(w) \/ GiveResponse(w)
  BY <1>1, <1>8, ThreadKinds DEF Handle, GiveResponse, Goto, Uncounted
<1>9. CASE UNCHANGED vars
  BY <1>9 DEF vars, Uncounted
<1> QED
  BY <1>2, <1>3, <1>4, <1>5, <1>6, <1>7, <1>8, <1>9, ThreadKinds
     DEF Next, MainStep, WorkerStep, Free

\* Every job that is posted, started and finished takes its reference along.
LEMMA CountedStep ==
    BasicInv /\ BasicInv' /\ OnePlace /\ Sockets /\ Unborn /\ Failing /\ Counted /\ [Next]_vars
        => Counted'
<1> SUFFICES ASSUME BasicInv, BasicInv', OnePlace, Sockets, Unborn, Failing, Counted, [Next]_vars
             PROVE  \A k \in Clients : CountedAt(k)'
  BY DEF Counted, CountedAt
<1> TAKE k \in Clients
<1>1. CountedAt(k)
  BY DEF Counted, CountedAt
<1>2. ~ Accept(k) => (fd'[k] # None => fd[k] # None)
  BY FdGiven
<1>3. ref \in [Clients -> Int] /\ cur \in [Threads -> Clients \union {None}]
      /\ pc \in [Threads -> Stations] /\ err \in [Clients -> BOOLEAN]
  BY DEF BasicInv, Types
<1>4. ASSUME ~ Accept(k), ref'[k] = ref[k], Jobs(k)' = Jobs(k), Runners(k)' = Runners(k),
             (pc[Main] = "post" /\ cur[Main] = k)' <=> (pc[Main] = "post" /\ cur[Main] = k)
      PROVE  CountedAt(k)'
  <2>1. Outstanding(k)' = Outstanding(k)
    BY <1>4, HoldersKept
  <2> QED
    BY <1>1, <1>2, <1>4, <2>1, CountedKept
<1>5. ASSUME Uncounted, ~ Accept(k) PROVE CountedAt(k)'
  <2>1. ref'[k] = ref[k] /\ Jobs(k)' = Jobs(k) /\ Runners(k)' = Runners(k)
    BY <1>5 DEF Uncounted, Jobs, Runners
  <2> QED
    BY <1>4, <1>5, <2>1 DEF Uncounted
<1>6. CASE Accept(k)
  <2>1. Blank(k)
    BY <1>6, Accepted DEF Unborn, Blank
  <2>2. Jobs(k)' = {} /\ Runners(k)' = {} /\ ~ (pc[Main] = "post" /\ cur[Main] = k)'
    BY <1>6, <2>1, Accepted, ThreadKinds DEF Blank, Jobs, Runners
  <2>3. Outstanding(k)' = 0
    <3>1. Cardinality(Jobs(k)') = 0 /\ Cardinality(Runners(k)') = 0
      BY <2>2, FS_EmptySet
    <3> QED
      BY <2>2, <3>1 DEF Outstanding, Jobs, Runners
  <2>4. fd'[k] # None => ref'[k] = 1
    BY <1>3, <1>6, Accepted DEF NoConn
  <2> QED
    BY <2>3, <2>4 DEF CountedAt
<1>7. ASSUME NEW j \in Clients, Accept(j), j # k PROVE CountedAt(k)'
  <2>1. ~ Accept(k)
    BY <1>7 DEF Accept, BasicInv, Types
  <2>2. ref'[k] = ref[k] /\ UNCHANGED <<todo, cur, pc>>
    BY <1>3, <1>7, Accepted
  <2> QED
    BY <1>4, <2>1, <2>2 DEF Jobs, Runners
<1>8. ASSUME PostParams, ~ Accept(k) PROVE CountedAt(k)'
  <2>1. UNCHANGED <<todo, cur, fd, err, crash, setting>> /\ pc[Main] = "postparams"
    BY <1>8 DEF PostParams
  <2>2. Jobs(k)' = Jobs(k) /\ Runners(k)' = Runners(k)
    BY <2>1 DEF Jobs, Runners
  <2>3. CASE ref' = ref /\ pc'[Main] # "post"
    BY <1>4, <1>8, <2>1, <2>2, <2>3
  <2>4. CASE ref' = [ref EXCEPT ![cur[Main]] = @ + 1] /\ pc'[Main] = "post"
    <3>1. CASE cur[Main] # k
      BY <1>3, <1>4, <1>8, <2>1, <2>2, <2>4, <3>1
    <3>2. CASE cur[Main] = k
      <4>1. ref'[k] = ref[k] + 1
        BY <1>3, <2>4, <3>2
      <4>2. /\ Outstanding(k) = Cardinality(Jobs(k)) + Cardinality(Runners(k))
            /\ Cardinality(Jobs(k)) \in Nat /\ Cardinality(Runners(k)) \in Nat
        BY <2>1, Holders
      <4>3. Outstanding(k)' = Cardinality(Jobs(k)') + Cardinality(Runners(k)') + 1
        BY <2>1, <2>4, <3>2 DEF Outstanding, Jobs, Runners
      <4>4. Outstanding(k)' = Outstanding(k) + 1 /\ Outstanding(k) \in Nat
        BY <2>2, <4>2, <4>3
      <4> QED
        BY <1>1, <1>3, <2>1, <4>1, <4>4 DEF CountedAt
    <3> QED
      BY <3>1, <3>2
  <2> QED
    BY <1>3, <1>8, <2>3, <2>4, ThreadKinds DEF PostParams, Goto
<1>9. ASSUME CreateJob, ~ Accept(k) PROVE CountedAt(k)'
  <2> DEFINE q == req[Main]
  <2>1. /\ UNCHANGED <<cur, fd, ref, err, crash, setting>>
        /\ pc[Main] = "post" /\ pc'[Main] # "post"
    BY <1>3, <1>9, ThreadKinds DEF CreateJob, Goto
  <2>2. /\ InHand(Main, q) /\ q \in Requests /\ q[1] = cur[Main]
        /\ \/ todo' = todo /\ "job" \in setting.faults
           \/ \E w \in Workers : \A r \in Requests : \A v \in Workers :
                    Posted(v, r)' <=> Posted(v, r) \/ (v = w /\ r = q)
    BY <1>9, CreatePlaces, RequestParts
  <2> HIDE DEF q
  <2>3. Runners(k)' = Runners(k)
    BY <2>1 DEF Runners
  <2>4. \/ Jobs(k)' = Jobs(k) /\ "job" \in setting.faults
        \/ Jobs(k)' = IF cur[Main] = k THEN Jobs(k) \union {q} ELSE Jobs(k)
    BY <2>2 DEF Jobs, Posted
  <2>5. CASE cur[Main] # k
    BY <1>4, <1>9, <2>1, <2>3, <2>4, <2>5
  <2>6. CASE cur[Main] = k
    <3>1. q \notin Jobs(k)
      BY <2>2, ThreadKinds DEF Jobs, Posted, OnePlace
    <3>2. /\ Outstanding(k) = Cardinality(Jobs(k)) + Cardinality(Runners(k)) + 1
          /\ Cardinality(Jobs(k)) \in Nat /\ Cardinality(Runners(k)) \in Nat
          /\ IsFiniteSet(Jobs(k))
      BY <2>1, <2>6, Holders
    <3>3. Outstanding(k)' = Cardinality(Jobs(k)') + Cardinality(Runners(k)') + 0
      BY <2>1 DEF Outstanding, Jobs, Runners
    <3>4. Cardinality(Jobs(k) \union {q}) = Cardinality(Jobs(k)) + 1
      BY <3>1, <3>2, FS_AddElement
    <3>5. \/ Outstanding(k)' = Outstanding(k)
          \/ Outstanding(k)' = Outstanding(k) - 1 /\ "job" \in setting.faults
      <4>1. CASE Jobs(k)' = Jobs(k) /\ "job" \in setting.faults
        BY <2>3, <3>2, <3>3, <4>1
      <4>2. CASE Jobs(k)' = Jobs(k) \union {q}
        BY <2>3, <3>2, <3>3, <3>4, <4>2
      <4> QED
        BY <2>4, <2>6, <4>1, <4>2
    <3>6. Outstanding(k) \in Nat
      BY <3>2
    <3> QED
      BY <1>1, <1>3, <2>1, <3>5, <3>6 DEF CountedAt
  <2> QED
    BY <2>5, <2>6
<1>10. ASSUME ExpireVisit, ~ Accept(k) PROVE CountedAt(k)'
  <2>1. UNCHANGED <<todo, cur>> /\ pc[Main] = "scan" /\ pc'[Main] # "post"
    BY <1>3, <1>10, ThreadKinds DEF ExpireVisit, Die
  <2>2. ref'[k] = ref[k] \/ err'[k]
    BY <1>3, <1>10 DEF ExpireVisit
  <2>3. CASE ref'[k] = ref[k]
    BY <1>4, <1>10, <2>1, <2>3 DEF Jobs, Runners
  <2>4. CASE err'[k]
    BY <2>4 DEF CountedAt
  <2> QED
    BY <2>2, <2>3, <2>4
<1>11. ASSUME NEW t \in Threads, DropRef(t), ~ Accept(k) PROVE CountedAt(k)'
  <2>1. /\ UNCHANGED <<todo, fd, err, crash, setting>> /\ pc[t] = "drop" /\ cur[t] \in Clients
        /\ ref' = [ref EXCEPT ![cur[t]] = @ - 1]
        /\ \/ cur' = [cur EXCEPT ![t] = None] /\ ref[cur[t]] # 1
           \/ cur' = cur /\ ref[cur[t]] = 1
        /\ \A u \in Threads : u # t => pc'[u] = pc[u]
        /\ pc'[t] # "post"
    <3>1. cur[t] \in Clients /\ ref[cur[t]] \in Int
      BY <1>3, <1>11, AtWork DEF DropRef, Freeing, BasicInv
    <3> QED
      BY <1>3, <1>11, <3>1, ThreadKinds DEF DropRef, Leave, Goto
  <2>2. Jobs(k)' = Jobs(k)
    BY <2>1 DEF Jobs
  <2>3. (pc[Main] = "post" /\ cur[Main] = k)' <=> (pc[Main] = "post" /\ cur[Main] = k)
    BY <1>3, <2>1, ThreadKinds
  <2>4. CASE cur[t] # k
    <3>1. Runners(k)' = Runners(k) /\ ref'[k] = ref[k]
      BY <1>3, <2>1, <2>4, NoneApart, ThreadKinds DEF Runners
    <3> QED
      BY <1>4, <1>11, <2>2, <2>3, <3>1
  <2>5. CASE cur[t] = k /\ (err[k] \/ crash # None \/ fd[k] = None)
    BY <2>1, <2>5 DEF CountedAt
  <2>6. CASE cur[t] = k /\ ~ err[k] /\ crash = None /\ fd[k] # None
    <3>1. t \in Workers
      BY <2>1, <2>6 DEF Failing, Threads
    <3>2. /\ Outstanding(k) >= 1 /\ IsFiniteSet(Runners(k))
          /\ Outstanding(k) = Cardinality(Jobs(k)) + Cardinality(Runners(k))
                              + (IF pc[Main] = "post" /\ cur[Main] = k THEN 1 ELSE 0)
          /\ Cardinality(Jobs(k)) \in Nat /\ Cardinality(Runners(k)) \in Nat
      BY <2>6, <3>1, Holders
    <3>3. ref[k] >= 1 + Outstanding(k) /\ ref[k] \in Int
      BY <1>1, <1>3, <2>6 DEF CountedAt
    <3>4. ref[k] # 1
      BY <3>2, <3>3
    <3>5. Runners(k)' = Runners(k) \ {t} /\ t \in Runners(k) /\ ref'[k] = ref[k] - 1
      BY <1>3, <2>1, <2>6, <3>1, <3>4, NoneApart, ThreadKinds DEF Runners
    <3>6. Cardinality(Runners(k) \ {t}) = Cardinality(Runners(k)) - 1
      BY <3>2, <3>5, FS_RemoveElement
    <3>7. Outstanding(k)' = Cardinality(Jobs(k)') + Cardinality(Runners(k)')
                            + (IF pc[Main] = "post" /\ cur[Main] = k THEN 1 ELSE 0)
      BY <2>3 DEF Outstanding, Jobs, Runners
    <3>8. Outstanding(k)' = Outstanding(k) - 1
      BY <2>2, <3>2, <3>5, <3>6, <3>7
    <3> QED
      BY <1>1, <2>1, <3>2, <3>3, <3>5, <3>8 DEF CountedAt
  <2> QED
    BY <2>4, <2>5, <2>6
<1>12. ASSUME NEW t \in Threads, Unlist(t), ~ Accept(k) PROVE CountedAt(k)'
  <2>1. /\ UNCHANGED <<todo, ref, err>> /\ pc[t] = "unlist" /\ err[cur[t]]
        /\ cur' = cur \/ cur' = [cur EXCEPT ![t] = None]
    BY <1>12 DEF Unlist, Leave, Failing
  <2>2. /\ t = Main \/ pc'[Main] = pc[Main] \/ pc'[Main] = "dead"
        /\ pc'[t] # "post" /\ pc[t] # "post"
    BY <1>3, <1>12, ThreadKinds DEF Unlist, Leave, Goto, Die
  <2>3. CASE cur[t] = k
    BY <2>1, <2>3 DEF CountedAt
  <2>4. CASE cur[t] # k
    <3>1. Jobs(k)' = Jobs(k) /\ Runners(k)' = Runners(k) /\ ref'[k] = ref[k]
      BY <1>3, <2>1, <2>4, NoneApart, ThreadKinds DEF Jobs, Runners
    <3>2. CASE pc'[Main] = "dead"
      BY <3>2, ThreadKinds DEF CountedAt, BasicInv, Control
    <3>3. CASE pc'[Main] # "dead"
      <4>1. (pc[Main] = "post" /\ cur[Main] = k)' <=> (pc[Main] = "post" /\ cur[Main] = k)
        BY <1>3, <2>1, <2>2, <2>4, <3>3, NoneApart, ThreadKinds
      <4> QED
        BY <1>4, <1>12, <3>1, <4>1
    <3> QED
      BY <3>2, <3>3
  <2> QED
    BY <2>3, <2>4
<1>13. ASSUME NEW w \in Workers, StartJob(w), ~ Accept(k) PROVE CountedAt(k)'
  <2> DEFINE h == Head(todo[w])
  <2>1. /\ UNCHANGED <<fd, ref, err, setting>> /\ cur' = [cur EXCEPT ![w] = h[1]]
        /\ (UNCHANGED crash /\ pc'[Main] = pc[Main]) \/ pc'[Main] = "dead"
    BY <1>3, <1>13, ThreadKinds DEF StartJob, Die, Goto
  <2>2. /\ h \in Requests /\ Posted(w, h) /\ cur[w] = None
        /\ \A r \in Requests : \A v \in Workers :
            Posted(v, r)' <=> Posted(v, r) /\ ~ (v = w /\ r = h)
    BY <1>13, StartPlaces
  <2>3. /\ \A r \in Requests : (\E v \in Workers : Posted(v, r)') <=> (\E v \in Workers : Posted(v, r)) /\ r # h
    BY <2>2 DEF OnePlace
  <2> HIDE DEF h
  <2>4. Jobs(k)' = Jobs(k) \ {h} /\ (h \in Jobs(k) <=> h[1] = k)
    BY <2>2, <2>3 DEF Jobs, Posted
  <2>5. Runners(k)' = (IF h[1] = k THEN Runners(k) \union {w} ELSE Runners(k)) /\ w \notin Runners(k)
    BY <1>3, <2>1, <2>2, NoneApart, ThreadKinds DEF Runners
  <2>6. CASE pc'[Main] = "dead"
    BY <2>6, ThreadKinds DEF CountedAt, BasicInv, Control
  <2>7. CASE UNCHANGED crash /\ pc'[Main] = pc[Main]
    <3>0. (pc[Main] = "post" /\ cur[Main] = k)' <=> (pc[Main] = "post" /\ cur[Main] = k)
      BY <1>3, <2>1, <2>7, ThreadKinds
    <3>1. CASE h[1] # k
      BY <1>4, <1>13, <2>1, <2>4, <2>5, <3>0, <3>1
    <3>2. CASE h[1] = k
      <4>1. /\ IsFiniteSet(Runners(k)) /\ IsFiniteSet(Jobs(k))
            /\ Outstanding(k) = Cardinality(Jobs(k)) + Cardinality(Runners(k))
                              + (IF pc[Main] = "post" /\ cur[Main] = k THEN 1 ELSE 0)
            /\ Cardinality(Jobs(k)) \in Nat /\ Cardinality(Runners(k)) \in Nat
        BY Holders
      <4>2. Cardinality(Jobs(k) \ {h}) = Cardinality(Jobs(k)) - 1
        BY <2>4, <3>2, <4>1, FS_RemoveElement
      <4>3. Cardinality(Runners(k) \union {w}) = Cardinality(Runners(k)) + 1
        BY <2>5, <4>1, FS_AddElement
      <4>4. Outstanding(k)' = Cardinality(Jobs(k)') + Cardinality(Runners(k)')
                              + (IF pc[Main] = "post" /\ cur[Main] = k THEN 1 ELSE 0)
        BY <3>0 DEF Outstanding, Jobs, Runners
      <4>5. Outstanding(k)' = Outstanding(k)
        BY <2>4, <2>5, <3>2, <4>1, <4>2, <4>3, <4>4
      <4> QED
        BY <1>1, <2>1, <2>7, <4>5 DEF CountedAt
    <3> QED
      BY <3>1, <3>2
  <2> QED
    BY <2>1, <2>6, <2>7
<1> QED
  BY <1>5, <1>6, <1>7, <1>8, <1>9, <1>10, <1>11, <1>12, <1>13, UncountedSteps

-----------------------------------------------------------------------------
(* Failing and tearing down *)

\* The way through conn_free, one thread at a time.
LEMMA FreeSteps ==
    ASSUME BasicInv, [Next]_vars, NEW t \in Threads, pc'[t] \in Freeing
    PROVE  /\ cur'[t] = cur[t] /\ cur[t] \in Clients
           /\ \/ pc'[t] = pc[t]
              \/ pc'[t] = "drop" /\ (t = Main => SetConnError)
                 /\ (t \in Workers => Handle(t) \/ GiveResponse(t))
              \/ pc'[t] = "evdel" /\ DropRef(t) /\ ref[cur[t]] = 1
              \/ pc'[t] = "close" /\ EventDel(t)
              \/ pc'[t] = "unlist" /\ CloseConn(t)
<1>1. /\ pc \in [Threads -> Stations] /\ cur \in [Threads -> Clients \union {None}]
      /\ ref \in [Clients -> Int]
  BY DEF BasicInv, Types
<1>2. pc[t] \in Freeing => cur[t] \in Clients
  BY AtWork DEF BasicInv
<1>3. CASE UNCHANGED <<pc, cur>>
  BY <1>2, <1>3
<1>4. CASE \E k \in Clients : ClientStep(k) \/ Accept(k)
  <2>1. UNCHANGED <<pc, cur>>
    BY <1>4 DEF ClientStep, Connect, Send, SendMalformed, Close, TimePasses, Accept
  <2> QED
    BY <1>3, <2>1
<1>5. CASE \E k \in Clients : Dispatch(k)
  <2>1. t # Main
    BY <1>1, <1>5 DEF Dispatch, Goto, Freeing
  <2> QED
    BY <1>1, <1>2, <1>5, <2>1 DEF Dispatch, Goto
<1>6. CASE ExpireStart \/ ExpireEnd \/ TryRead \/ Parse \/ HandleInline \/ PostParams \/ CreateJob
  <2>1. t # Main
    BY <1>1, <1>6
       DEF ExpireStart, ExpireEnd, TryRead, Parse, HandleInline, PostParams, CreateJob, Goto, Freeing
  <2> QED
    BY <1>1, <1>2, <1>6, <2>1
       DEF ExpireStart, ExpireEnd, TryRead, Parse, HandleInline, PostParams, CreateJob, Goto
<1>7. CASE SetConnError
  <2>1. cur[Main] \in Clients /\ cur' = cur /\ pc' = [pc EXCEPT ![Main] = "drop"]
    BY <1>7, AtWork DEF SetConnError, Passes, Goto, BasicInv
  <2> QED
    BY <1>1, <1>2, <1>7, <2>1, ThreadKinds
<1>8. ASSUME NEW u \in Threads, DropRef(u)
      PROVE  /\ cur'[t] = cur[t] /\ cur[t] \in Clients
             /\ pc'[t] = pc[t] \/ (pc'[t] = "evdel" /\ DropRef(t) /\ ref[cur[t]] = 1)
  <2>1. /\ pc[u] = "drop" /\ cur[u] \in Clients /\ ref[cur[u]] \in Int
    BY <1>1, <1>8, AtWork DEF DropRef, Freeing, BasicInv
  <2>2. \/ Leave(u)
        \/ ref[cur[u]] = 1 /\ Goto(u, "evdel") /\ UNCHANGED cur
    BY <1>8, <2>1 DEF DropRef
  <2>3. CASE Leave(u)
    <3>1. t # u
      BY <1>1, <2>3 DEF Leave, Goto, Freeing
    <3> QED
      BY <1>1, <1>2, <2>3, <3>1 DEF Leave, Goto
  <2>4. CASE ref[cur[u]] = 1 /\ Goto(u, "evdel") /\ UNCHANGED cur
    BY <1>1, <1>2, <1>8, <2>1, <2>4 DEF Goto
  <2> QED
    BY <2>2, <2>3, <2>4
<1>9. ASSUME NEW u \in Threads, EventDel(u)
      PROVE  /\ cur'[t] = cur[t] /\ cur[t] \in Clients
             /\ pc'[t] = pc[t] \/ (pc'[t] = "close" /\ EventDel(t))
  <2>1. cur[u] \in Clients /\ cur' = cur /\ pc' = [pc EXCEPT ![u] = "close"]
    BY <1>9, AtWork DEF EventDel, Freeing, Goto, BasicInv
  <2> QED
    BY <1>1, <1>2, <1>9, <2>1
<1>10. ASSUME NEW u \in Threads, CloseConn(u)
       PROVE  /\ cur'[t] = cur[t] /\ cur[t] \in Clients
              /\ pc'[t] = pc[t] \/ (pc'[t] = "unlist" /\ CloseConn(t))
  <2>1. cur[u] \in Clients /\ cur' = cur /\ pc' = [pc EXCEPT ![u] = "unlist"]
    BY <1>10, AtWork DEF CloseConn, Freeing, Goto, BasicInv
  <2> QED
    BY <1>1, <1>2, <1>10, <2>1
<1>11. ASSUME NEW u \in Threads, Unlist(u)
       PROVE  cur'[t] = cur[t] /\ cur[t] \in Clients /\ pc'[t] = pc[t]
  <2>1. Leave(u)
    BY <1>11 DEF Unlist, Die, Freeing
  <2>2. t # u
    BY <1>1, <2>1 DEF Leave, Goto, Freeing
  <2> QED
    BY <1>1, <1>2, <2>1, <2>2 DEF Leave, Goto
<1>12. CASE ExpireVisit
  <2>1. UNCHANGED <<pc, cur>>
    BY <1>12 DEF ExpireVisit, Die, Freeing
  <2> QED
    BY <1>3, <2>1
<1>13. ASSUME NEW w \in Workers, StartJob(w)
       PROVE  cur'[t] = cur[t] /\ cur[t] \in Clients /\ pc'[t] = pc[t]
  <2>1. Goto(w, "handle") /\ \E c : cur' = [cur EXCEPT ![w] = c]
    BY <1>13 DEF StartJob, Die, Freeing
  <2>2. t # w
    BY <1>1, <2>1, ThreadKinds DEF Goto, Freeing
  <2> QED
    BY <1>1, <1>2, <2>1, <2>2 DEF Goto
<1>14. ASSUME NEW w \in Workers, Handle(w) \/ GiveResponse(w)
       PROVE  /\ cur'[t] = cur[t] /\ cur[t] \in Clients
              /\ pc'[t] = pc[t] \/ (pc'[t] = "drop" /\ t = w)
  <2>1. cur[w] \in Clients /\ cur' = cur /\ (Goto(w, "write") \/ Goto(w, "drop"))
    BY <1>14, AtWork DEF Handle, GiveResponse, Serving, BasicInv
  <2> QED
    BY <1>1, <1>2, <2>1, ThreadKinds DEF Goto, Freeing
<1>15. CASE UNCHANGED vars
  <2>1. UNCHANGED <<pc, cur>>
    BY <1>15 DEF vars
  <2> QED
    BY <1>3, <2>1
<1> QED
  BY <1>4, <1>5, <1>6, <1>7, <1>8, <1>9, <1>10, <1>11, <1>12, <1>13, <1>14, <1>15, ThreadKinds
     DEF Next, MainStep, WorkerStep, Free

\* The last reference is given back on a failed connection only.
LEMMA LastReference ==
    ASSUME BasicInv, Unborn, Failing, Counted,
           NEW t \in Threads, DropRef(t), ref[cur[t]] = 1
    PROVE  err[cur[t]]
<1>1. pc[t] = "drop" /\ cur[t] \in Clients /\ crash = None
  BY AtWork DEF DropRef, Freeing, BasicInv, Control
<1>2. CASE t = Main
  BY <1>1, <1>2 DEF Failing
<1>3. CASE t \in Workers /\ ~ err[cur[t]]
  <2>1. fd[cur[t]] # None
    BY <1>1, <1>3 DEF Unborn, NoConn
  <2>2. ref[cur[t]] >= 1 + Outstanding(cur[t])
    BY <1>1, <1>3, <2>1 DEF Counted
  <2>3. Outstanding(cur[t]) >= 1 /\ Outstanding(cur[t]) \in Nat
    <3>1. /\ Outstanding(cur[t]) = Cardinality(Jobs(cur[t])) + Cardinality(Runners(cur[t]))
                               + (IF pc[Main] = "post" /\ cur[Main] = cur[t] THEN 1 ELSE 0)
          /\ Cardinality(Jobs(cur[t])) \in Nat /\ Cardinality(Runners(cur[t])) \in Nat
          /\ Outstanding(cur[t]) >= 1
      BY <1>1, <1>3, Holders
    <3> QED
      BY <3>1
  <2> QED
    BY <2>2, <2>3
<1> QED
  BY <1>2, <1>3 DEF Threads

\* Only accepting registers an event.
LEMMA EvGiven ==
    ASSUME BasicInv, [Next]_vars, NEW k \in Clients, ~ Accept(k), ev'[k]
    PROVE  ev[k]
<1>1. ev \in [Clients -> BOOLEAN]
  BY DEF BasicInv, Types
<1>2. ASSUME NEW j \in Clients, Accept(j) PROVE ev'[k] = ev[k]
  BY <1>1, <1>2 DEF Accept
<1>3. CASE \E j \in Clients : ClientStep(j) \/ Dispatch(j)
  BY <1>3 DEF ClientStep, Connect, Send, SendMalformed, Close, TimePasses, Dispatch
<1>4. CASE ExpireStart \/ TryRead \/ Parse \/ HandleInline \/ PostParams \/ CreateJob \/ SetConnError
  BY <1>4 DEF ExpireStart, TryRead, Parse, HandleInline, PostParams, CreateJob, SetConnError
<1>5. CASE \E t \in Threads : DropRef(t) \/ CloseConn(t) \/ Unlist(t)
  BY <1>5 DEF DropRef, CloseConn, Unlist
<1>6. CASE \E t \in Threads : EventDel(t)
  BY <1>1, <1>6 DEF EventDel
<1>7. CASE ExpireVisit \/ ExpireEnd
  BY <1>1, <1>7 DEF ExpireVisit, ExpireEnd
<1>8. CASE \E w \in Workers : StartJob(w) \/ Handle(w) \/ GiveResponse(w)
  BY <1>8 DEF StartJob, Handle, GiveResponse
<1>9. CASE UNCHANGED vars
  BY <1>9 DEF vars
<1> QED
  BY <1>2, <1>3, <1>4, <1>5, <1>6, <1>7, <1>8, <1>9, ThreadKinds
     DEF Next, MainStep, WorkerStep, Free

\* Whoever tears down goes on in the order of conn_free.
LEMMA FailingStep ==
    BasicInv /\ Sockets /\ Unborn /\ Failing /\ Counted /\ [Next]_vars => Failing'
<1> SUFFICES ASSUME BasicInv, Sockets, Unborn, Failing, Counted, [Next]_vars
             PROVE  Failing'
  OBVIOUS
<1>1. /\ err \in [Clients -> BOOLEAN] /\ ev \in [Clients -> BOOLEAN]
      /\ cur \in [Threads -> Clients \union {None}] /\ pc \in [Threads -> Stations]
  BY DEF BasicInv, Types
<1>2. ASSUME NEW t \in Threads, pc'[t] \in {"evdel", "close", "unlist"}
      PROVE  err'[cur'[t]]
  <2>1. /\ cur'[t] = cur[t] /\ cur[t] \in Clients
        /\ \/ pc'[t] = pc[t]
           \/ DropRef(t) /\ ref[cur[t]] = 1
           \/ EventDel(t) \/ CloseConn(t)
    BY <1>2, FreeSteps DEF Freeing
  <2>2. err[cur[t]]
    <3>1. CASE DropRef(t) /\ ref[cur[t]] = 1
      BY <3>1, LastReference
    <3>2. CASE EventDel(t) \/ CloseConn(t)
      BY <3>2 DEF EventDel, CloseConn, Failing
    <3> QED
      BY <1>2, <2>1, <3>1, <3>2 DEF Failing
  <2> QED
    BY <2>1, <2>2, ErrSteps
<1>3. ASSUME pc'[Main] = "drop" PROVE err'[cur'[Main]]
  <2>1. /\ cur'[Main] = cur[Main] /\ cur[Main] \in Clients
        /\ pc'[Main] = pc[Main] \/ SetConnError
    BY <1>3, FreeSteps, ThreadKinds DEF Freeing
  <2>2. CASE SetConnError
    BY <1>1, <2>1, <2>2 DEF SetConnError
  <2>3. CASE pc'[Main] = pc[Main]
    BY <1>3, <2>1, <2>3, ErrSteps DEF Failing
  <2> QED
    BY <2>1, <2>2, <2>3
<1>4. ASSUME NEW t \in Threads, pc'[t] \in {"close", "unlist"}
      PROVE  ~ ev'[cur'[t]]
  <2>1. /\ cur'[t] = cur[t] /\ cur[t] \in Clients
        /\ pc'[t] = pc[t] \/ EventDel(t) \/ CloseConn(t)
    BY <1>4, FreeSteps DEF Freeing
  <2>2. CASE EventDel(t)
    BY <1>1, <2>1, <2>2 DEF EventDel
  <2>3. CASE pc'[t] = pc[t] \/ CloseConn(t)
    <3>1. ~ ev[cur[t]]
      BY <1>4, <2>3 DEF CloseConn, Failing
    <3>2. ~ Accept(cur[t])
      BY <2>1, Accepted DEF Unborn
    <3> QED
      BY <2>1, <3>1, <3>2, EvGiven
  <2> QED
    BY <2>1, <2>2, <2>3
<1>5. ASSUME NEW k \in Clients, ev'[k] PROVE fd'[k] # None
  <2>1. CASE Accept(k)
    BY <1>5, <2>1, Accepted DEF Failing
  <2>2. CASE ~ Accept(k)
    <3>1. ev[k] /\ fd[k] # None
      BY <1>5, <2>2, EvGiven DEF Failing
    <3>2. CASE UNCHANGED <<fd, file>>
      BY <3>1, <3>2
    <3>3. ASSUME NEW j \in Clients, Accept(j) PROVE fd'[k] # None
      <4>1. fd' = fd \/ \E f \in Fds : fd' = [fd EXCEPT ![j] = f]
        BY <3>3, Accepted
      <4>2. fd \in [Clients -> Fds \union {None}] /\ j # k
        BY <2>2, <3>3 DEF BasicInv, Types
      <4> QED
        BY <3>1, <4>1, <4>2
    <3>4. ASSUME NEW t \in Threads, CloseConn(t), cur[t] \in Clients PROVE fd'[k] # None
      <4>1. ~ ev[cur[t]]
        BY <3>4 DEF CloseConn, Failing
      <4> QED
        BY <3>1, <3>4, <4>1, ClosedFd DEF CloseConn, BasicInv
    <3>5. CASE ExpireVisit /\ Head(pos) \in Clients /\ CloseFd(Head(pos))
      <4>1. fd' = fd \/ ev' = [ev EXCEPT ![Head(pos)] = FALSE]
        BY <3>5 DEF ExpireVisit
      <4>2. \A j \in Clients : fd'[j] = IF j = Head(pos) THEN None ELSE fd[j]
        BY <3>5, ClosedFd DEF BasicInv
      <4> QED
        BY <1>1, <1>5, <3>1, <3>5, <4>1, <4>2
    <3> QED
      BY <3>2, <3>3, <3>4, <3>5, FdSteps
  <2> QED
    BY <2>1, <2>2
<1> QED
  BY <1>2, <1>3, <1>4, <1>5 DEF Failing

\* Only these steps touch the list of connections or count a teardown.
LEMMA ListSteps ==
    ASSUME BasicInv, [Next]_vars
    PROVE  \/ UNCHANGED <<conns, torn>>
           \/ \E k \in Clients : Accept(k)
           \/ \E k \in Clients :
                /\ torn' = [torn EXCEPT ![k] = @ + 1]
                /\ Unlink(k) \/ (k \notin Range(conns) /\ conns' = conns)
                /\ \/ \E t \in Threads : Unlist(t) /\ cur[t] = k
                   \/ ExpireVisit /\ k = Head(pos) /\ stale[k] /\ ref[k] <= 1
<1>1. CASE \E j \in Clients : ClientStep(j) \/ Dispatch(j)
  BY <1>1 DEF ClientStep, Connect, Send, SendMalformed, Close, TimePasses, Dispatch
<1>2. CASE ExpireStart \/ TryRead \/ Parse \/ HandleInline \/ PostParams \/ CreateJob \/ SetConnError
  BY <1>2 DEF ExpireStart, TryRead, Parse, HandleInline, PostParams, CreateJob, SetConnError
<1>3. CASE \E t \in Threads : DropRef(t) \/ EventDel(t) \/ CloseConn(t)
  BY <1>3 DEF DropRef, EventDel, CloseConn
<1>4. ASSUME NEW t \in Threads, Unlist(t)
      PROVE  /\ cur[t] \in Clients
             /\ torn' = [torn EXCEPT ![cur[t]] = @ + 1]
             /\ Unlink(cur[t]) \/ (cur[t] \notin Range(conns) /\ conns' = conns)
  BY <1>4, AtWork DEF Unlist, Freeing, BasicInv
<1>5. CASE ExpireVisit
  <2>1. pos \in Seq(Clients) /\ pos # <<>>
    BY <1>5 DEF ExpireVisit, BasicInv, Types
  <2>2. Head(pos) \in Clients
    BY <2>1
  <2>3. \/ UNCHANGED <<conns, torn>>
        \/ /\ torn' = [torn EXCEPT ![Head(pos)] = @ + 1] /\ Unlink(Head(pos))
           /\ stale[Head(pos)] /\ ref[Head(pos)] <= 1
    BY <1>5 DEF ExpireVisit
  <2> QED
    BY <1>5, <2>2, <2>3
<1>6. CASE ExpireEnd
  BY <1>6 DEF ExpireEnd
<1>7. CASE \E w \in Workers : StartJob(w) \/ Handle(w) \/ GiveResponse(w)
  BY <1>7 DEF StartJob, Handle, GiveResponse
<1>8. CASE UNCHANGED vars
  BY <1>8 DEF vars
<1> QED
  BY <1>1, <1>2, <1>3, <1>4, <1>5, <1>6, <1>7, <1>8, ThreadKinds
     DEF Next, MainStep, WorkerStep, Free

\* The list stays a list of different connections that are not torn down.
LEMMA ListedStep ==
    BasicInv /\ Sockets /\ Unborn /\ Listed /\ [Next]_vars => Listed'
<1> SUFFICES ASSUME BasicInv, Sockets, Unborn, Listed, [Next]_vars
             PROVE  Listed'
  OBVIOUS
<1>1. conns \in Seq(Clients) /\ torn \in [Clients -> Nat]
  BY DEF BasicInv, Types
<1>2. CASE UNCHANGED <<conns, torn>>
  BY <1>2 DEF Listed
<1>3. ASSUME NEW k \in Clients, Accept(k) PROVE Listed'
  <2>1. torn' = torn /\ torn[k] = 0 /\ k \notin Range(conns)
    BY <1>3, Accepted DEF Unborn
  <2>2. conns' = conns \/ conns' = Append(conns, k)
    BY <1>3, Accepted
  <2>3. CASE conns' = conns
    BY <2>1, <2>3 DEF Listed
  <2>4. CASE conns' = Append(conns, k)
    <3>1. Range(conns') = Range(conns) \union {k}
      BY <1>1, <2>4, AppendRange
    <3>2. \A i, j \in 1 .. Len(conns') : conns'[i] = conns'[j] => i = j
      <4>1. \A i \in 1 .. Len(conns) : conns[i] # k
        BY <1>1, <2>1 DEF Range
      <4> QED
        BY <1>1, <2>4, <4>1 DEF Listed
    <3>3. \A j \in Clients : torn'[j] >= 1 => j \notin Range(conns')
      BY <2>1, <3>1 DEF Listed
    <3> QED
      BY <3>2, <3>3 DEF Listed
  <2> QED
    BY <2>2, <2>3, <2>4
<1>4. ASSUME NEW k \in Clients, torn' = [torn EXCEPT ![k] = @ + 1],
             Unlink(k) \/ (k \notin Range(conns) /\ conns' = conns)
      PROVE  Listed'
  <2>1. Range(conns') = Range(conns) \ {k} /\ \A i, j \in 1 .. Len(conns') : conns'[i] = conns'[j] => i = j
    BY <1>4, Unlinked DEF Listed
  <2> QED
    BY <1>1, <1>4, <2>1 DEF Listed
<1> QED
  BY <1>2, <1>3, <1>4, ListSteps

\* How the event loop gets to where it is.
LEMMA MainSteps ==
    ASSUME BasicInv, [Next]_vars
    PROVE  LET held == pc'[Main] = pc[Main] /\ cur'[Main] = cur[Main] IN
           /\ pc'[Main] = "fail" => held \/ TryRead \/ Parse \/ HandleInline \/ PostParams
           /\ pc'[Main] = "parse" => held \/ TryRead \/ HandleInline \/ CreateJob
           /\ pc'[Main] \in {"inline", "postparams"} => held \/ Parse
           /\ pc'[Main] = "post" => held \/ PostParams
           /\ pc'[Main] = "scan" => pc[Main] = "scan" \/ ExpireStart
<1> DEFINE held == pc'[Main] = pc[Main] /\ cur'[Main] = cur[Main]
           Goal == /\ pc'[Main] = "fail" => held \/ TryRead \/ Parse \/ HandleInline \/ PostParams
                   /\ pc'[Main] = "parse" => held \/ TryRead \/ HandleInline \/ CreateJob
                   /\ pc'[Main] \in {"inline", "postparams"} => held \/ Parse
                   /\ pc'[Main] = "post" => held \/ PostParams
                   /\ pc'[Main] = "scan" => pc[Main] = "scan" \/ ExpireStart
<1>1. pc \in [Threads -> Stations] /\ cur \in [Threads -> Clients \union {None}]
  BY DEF BasicInv, Types
<1>2. CASE UNCHANGED <<pc, cur>>
  BY <1>2
<1>3. CASE \E k \in Clients : ClientStep(k) \/ Accept(k)
  <2>1. UNCHANGED <<pc, cur>>
    BY <1>3 DEF ClientStep, Connect, Send, SendMalformed, Close, TimePasses, Accept
  <2> QED
    BY <1>2, <2>1
<1>4. CASE \E k \in Clients : Dispatch(k)
  BY <1>1, <1>4, ThreadKinds DEF Dispatch, Goto
<1>5. CASE TryRead \/ HandleInline \/ PostParams \/ CreateJob
  BY <1>1, <1>5, ThreadKinds DEF TryRead, HandleInline, PostParams, CreateJob, Goto
<1>6. CASE Parse
  BY <1>1, <1>6, ThreadKinds DEF Parse, Goto
<1>7. CASE SetConnError \/ ExpireStart \/ ExpireEnd
  BY <1>1, <1>7, ThreadKinds DEF SetConnError, ExpireStart, ExpireEnd, Goto
<1>8. ASSUME NEW t \in Threads, Free(t) PROVE Goal
  <2>1. t # Main => held \/ pc'[Main] = "dead"
    BY <1>1, <1>8, ThreadKinds DEF Free, DropRef, EventDel, CloseConn, Unlist, Leave, Goto, Die
  <2>2. t = Main => pc'[Main] \in {"evdel", "close", "unlist", "loop", "dead"}
    BY <1>1, <1>8, ThreadKinds DEF Free, DropRef, EventDel, CloseConn, Unlist, Leave, Goto, Die
  <2> QED
    BY <2>1, <2>2
<1>9. CASE ExpireVisit
  BY <1>1, <1>9, ThreadKinds DEF ExpireVisit, Die
<1>10. ASSUME NEW w \in Workers, StartJob(w) \/ Handle(w) \/ GiveResponse(w) PROVE Goal
  <2>1. held \/ pc'[Main] = "dead"
    BY <1>1, <1>10, ThreadKinds DEF StartJob, Handle, GiveResponse, Goto, Die
  <2> QED
    BY <2>1
<1>11. CASE UNCHANGED vars
  BY <1>2, <1>11 DEF vars
<1> QED
  BY <1>3, <1>4, <1>5, <1>6, <1>7, <1>8, <1>9, <1>10, <1>11, ThreadKinds
     DEF Next, MainStep, WorkerStep

\* A count goes up when its connection is accepted or posts a job.
LEMMA CountFalls ==
    ASSUME BasicInv, [Next]_vars, NEW k \in Clients, ~ Accept(k), ~ (PostParams /\ cur[Main] = k)
    PROVE  ref'[k] <= ref[k]
<1>1. ref \in [Clients -> Int] /\ ref[k] \in Int
  BY DEF BasicInv, Types
<1>2. CASE ref' = ref
  BY <1>1, <1>2
<1>3. CASE Uncounted \/ CreateJob \/ \E w \in Workers : StartJob(w)
  BY <1>2, <1>3 DEF Uncounted, CreateJob, StartJob
<1>4. ASSUME NEW j \in Clients, Accept(j) PROVE ref'[k] <= ref[k]
  <2>1. j # k /\ (ref' = ref \/ ref' = [ref EXCEPT ![j] = 1])
    BY <1>4 DEF Accept
  <2> QED
    BY <1>1, <2>1
<1>5. CASE PostParams
  <2>1. cur[Main] # k /\ (ref' = ref \/ ref' = [ref EXCEPT ![cur[Main]] = @ + 1])
    BY <1>5 DEF PostParams
  <2> QED
    BY <1>1, <2>1
<1>6. CASE ExpireVisit
  <2>1. ref' = ref \/ ref' = [ref EXCEPT ![Head(pos)] = @ - 1]
    BY <1>6 DEF ExpireVisit
  <2> QED
    BY <1>1, <2>1
<1>7. ASSUME NEW t \in Threads, DropRef(t) \/ Unlist(t) PROVE ref'[k] <= ref[k]
  <2>1. ref' = ref \/ ref' = [ref EXCEPT ![cur[t]] = @ - 1]
    BY <1>7 DEF DropRef, Unlist
  <2> QED
    BY <1>1, <2>1
<1> QED
  BY <1>3, <1>4, <1>5, <1>6, <1>7, UncountedSteps

\* The buffer of a connection grows at its end; bytes that cannot be parsed
\* stay at its front.
LEMMA BufferSteps ==
    ASSUME BasicInv, [Next]_vars, NEW k \in Clients
    PROVE  /\ rbuf[k] # <<>> /\ Head(rbuf[k]) = Bad => rbuf'[k] # <<>> /\ Head(rbuf'[k]) = Bad
           /\ rbuf' = rbuf \/ TryRead \/ Parse
<1>1. /\ rbuf \in [Clients -> Seq(Requests \union {Bad})]
      /\ inbox \in [Clients -> Seq(Requests \union {Bad})]
  BY DEF BasicInv, Types
<1>2. CASE \E j \in Clients : ClientStep(j) \/ Dispatch(j) \/ Accept(j)
  BY <1>2 DEF ClientStep, Connect, Send, SendMalformed, Close, TimePasses, Dispatch, Accept
<1>3. CASE ExpireStart \/ HandleInline \/ PostParams \/ CreateJob \/ SetConnError
  BY <1>3 DEF ExpireStart, HandleInline, PostParams, CreateJob, SetConnError
<1>4. CASE TryRead
  <2>1. rbuf'[k] = rbuf[k] \/ rbuf'[k] = rbuf[k] \o inbox[k]
    BY <1>1, <1>4 DEF TryRead
  <2>2. rbuf[k] # <<>> => rbuf[k] \o inbox[k] # <<>> /\ Head(rbuf[k] \o inbox[k]) = Head(rbuf[k])
    <3> DEFINE S == Requests \union {Bad}
               p == rbuf[k]
               q == inbox[k]
    <3> SUFFICES ASSUME p # <<>> PROVE p \o q # <<>> /\ Head(p \o q) = Head(p)
      OBVIOUS
    <3>1. p \in Seq(S) /\ q \in Seq(S)
      BY <1>1
    <3> HIDE DEF p, q, S
    <3>2. Len(p) \in Nat \ {0} /\ Len(q) \in Nat
      BY <3>1
    <3>3. p \o q \in Seq(S) /\ Len(p \o q) = Len(p) + Len(q) /\ (p \o q)[1] = p[1]
      BY <3>1, <3>2, ConcatProperties
    <3>4. Len(p \o q) > 0
      BY <3>2, <3>3
    <3>5. p \o q # <<>>
      BY <3>4
    <3> QED
      BY <3>1, <3>3, <3>5
  <2> QED
    BY <1>4, <2>1, <2>2
<1>5. CASE Parse
  <2>1. /\ rbuf' = rbuf \/ rbuf' = [rbuf EXCEPT ![cur[Main]] = Tail(@)]
        /\ Head(rbuf[cur[Main]]) = Bad /\ rbuf[cur[Main]] # <<>> => rbuf' = rbuf
    BY <1>5 DEF Parse
  <2> QED
    BY <1>1, <1>5, <2>1
<1>6. CASE \E t \in Threads : Free(t)
  BY <1>6 DEF Free, DropRef, EventDel, CloseConn, Unlist
<1>7. CASE ExpireVisit \/ ExpireEnd
  BY <1>7 DEF ExpireVisit, ExpireEnd
<1>8. CASE \E w \in Workers : StartJob(w) \/ Handle(w) \/ GiveResponse(w)
  BY <1>8 DEF StartJob, Handle, GiveResponse
<1>9. CASE UNCHANGED vars
  BY <1>9 DEF vars
<1> QED
  BY <1>2, <1>3, <1>4, <1>5, <1>6, <1>7, <1>8, <1>9, ThreadKinds DEF Next, MainStep, WorkerStep

\* A dead end stays one.
LEMMA DeadEndKept ==
    ASSUME BasicInv, Sockets, Unborn, [Next]_vars, NEW k \in Clients, DeadEnd(k), ~ Accept(k)
    PROVE  DeadEnd(k)'
BY NetSteps, FdGiven, BufferSteps DEF DeadEnd

\* Where failures last, a failed connection takes no reference any more: its
\* count passes zero once, and only whoever sees that tears it down.
LEMMA TeardownStep ==
    BasicInv /\ Sockets /\ Unborn /\ Failing /\ Counted /\ Listed /\ Teardown /\ [Next]_vars
        => Teardown'
<1> SUFFICES ASSUME BasicInv, Sockets, Unborn, Failing, Counted, Listed, Teardown, [Next]_vars
             PROVE  Teardown'
  OBVIOUS
<1>0. setting' = setting /\ FailureLasts' = FailureLasts
  BY CrashKept DEF FailureLasts
<1> SUFFICES ASSUME FailureLasts PROVE Teardown'
  BY <1>0 DEF Teardown
<1>1. /\ err \in [Clients -> BOOLEAN] /\ torn \in [Clients -> Nat] /\ ref \in [Clients -> Int]
      /\ cur \in [Threads -> Clients \union {None}] /\ pc \in [Threads -> Stations]
  BY DEF BasicInv, Types
<1>2. setting' = setting
  BY <1>0
<1>3. \A k \in Clients : ~ NoConn(k) => ~ Accept(k)
  BY Accepted
<1>4. \A k \in Clients : \A t \in Threads : cur[t] = k \/ torn[k] >= 1 => ~ NoConn(k)
  BY <1>1 DEF Unborn
<1>5. \A k \in Clients : err[k] => ~ NoConn(k)
  BY DEF NoConn
<1>6. \A k \in Clients : err[k] => ref'[k] <= ref[k]
  <2> TAKE k \in Clients
  <2> HAVE err[k]
  <2>1. ~ (PostParams /\ cur[Main] = k)
    BY DEF PostParams, Teardown
  <2> QED
    BY <1>3, <1>5, <2>1, CountFalls
<1>7. ASSUME setting.threads # {}, NEW k \in Clients, err'[k] PROVE DeadEnd(k)'
  <2>1. DeadEnd(k) /\ ~ NoConn(k)
    <3>1. CASE err[k]
      BY <1>5, <1>7, <3>1 DEF Teardown
    <3>2. CASE SetConnError /\ cur[Main] = k
      BY <1>4, <1>7, <3>2, ThreadKinds DEF SetConnError, Teardown
    <3>3. CASE ExpireVisit
      BY <1>7, <3>3 DEF ExpireVisit, Teardown
    <3> QED
      BY <1>1, <1>7, <3>1, <3>2, <3>3, ErrSteps
  <2> QED
    BY <1>3, <2>1, DeadEndKept
<1>8. ASSUME setting.threads # {}, pc'[Main] \in {"fail", "drop"} PROVE DeadEnd(cur[Main])'
  <2> DEFINE k == cur[Main]
  <2>1. CASE (pc'[Main] = pc[Main] /\ cur'[Main] = k) \/ SetConnError
    <3>1. pc[Main] \in {"fail", "drop"} /\ cur'[Main] = k
      BY <1>8, <2>1 DEF SetConnError
    <3>2. k \in Clients /\ DeadEnd(k)
      BY <1>8, <3>1, AtWork, ThreadKinds DEF Passes, Freeing, BasicInv, Teardown
    <3>3. PICK j \in Clients : j = k
      BY <3>2
    <3>4. DeadEnd(j) /\ ~ Accept(j)
      BY <1>3, <1>4, <3>2, <3>3, ThreadKinds
    <3>5. DeadEnd(j)' /\ cur'[Main] = j
      BY <3>1, <3>3, <3>4, DeadEndKept
    <3> QED
      BY <3>5 DEF DeadEnd
  <2>2. CASE TryRead
    <3>1. /\ cur'[Main] = k /\ k \in Clients
          /\ net' = net /\ fd' = fd /\ (Eof(k) \/ fd[k] = None)
      BY <1>1, <1>8, <2>2, AtWork, ThreadKinds DEF TryRead, Passes, Goto, BasicInv
    <3> QED
      BY <3>1 DEF DeadEnd, Eof
  <2>3. CASE Parse
    <3>1. /\ cur'[Main] = k /\ rbuf' = rbuf /\ rbuf[k] # <<>> /\ Head(rbuf[k]) = Bad
      BY <1>1, <1>8, <2>3, ThreadKinds DEF Parse, Goto
    <3> QED
      BY <3>1 DEF DeadEnd
  <2>4. ~ HandleInline
    BY <1>8 DEF HandleInline, BasicInv, Control
  <2>5. ~ (PostParams /\ pc'[Main] = "fail")
    <3>1. "postparams" \notin setting.faults
      BY <1>8 DEF FailureLasts
    <3> QED
      BY <1>1, <3>1, ThreadKinds DEF PostParams, Goto
  <2>6. CASE pc'[Main] = "fail"
    BY <2>1, <2>2, <2>3, <2>4, <2>5, <2>6, MainSteps
  <2>7. CASE pc'[Main] = "drop"
    BY <2>1, <2>7, FreeSteps, ThreadKinds DEF Freeing
  <2> QED
    BY <1>8, <2>6, <2>7
<1>9. ASSUME setting.threads # {}, pc'[Main] = "parse", err'[cur'[Main]]
      PROVE  rbuf'[cur'[Main]] # <<>> /\ Head(rbuf'[cur'[Main]]) = Bad
  <2> DEFINE k == cur[Main]
  <2>1. CASE pc'[Main] = pc[Main] /\ cur'[Main] = k
    <3>1. k \in Clients
      BY <1>9, <2>1, AtWork DEF Passes, BasicInv
    <3>2. err[k]
      BY <1>1, <1>9, <2>1, ErrSteps DEF SetConnError, ExpireVisit
    <3>3. rbuf[k] # <<>> /\ Head(rbuf[k]) = Bad
      BY <1>9, <2>1, <3>2 DEF Teardown
    <3> HIDE DEF k
    <3> QED
      BY <2>1, <3>1, <3>3, BufferSteps
  <2>2. CASE TryRead
    <3>1. /\ cur'[Main] = k /\ k \in Clients /\ err[k]
          /\ ~ Eof(k) /\ fd[k] # None
      BY <1>1, <1>9, <2>2, AtWork, ThreadKinds DEF TryRead, Passes, Goto, BasicInv
    <3>2. DeadEnd(k)
      BY <1>9, <3>1 DEF Teardown
    <3>3. rbuf[k] # <<>> /\ Head(rbuf[k]) = Bad
      BY <3>1, <3>2 DEF DeadEnd, Eof
    <3> HIDE DEF k
    <3> QED
      BY <3>1, <3>3, BufferSteps
  <2>3. ~ HandleInline
    BY <1>9 DEF HandleInline, BasicInv, Control
  <2>4. ~ CreateJob
    BY <1>9 DEF CreateJob, Teardown
  <2> QED
    BY <1>9, <2>1, <2>2, <2>3, <2>4, MainSteps
<1>10. ASSUME pc'[Main] \in {"postparams", "post"} PROVE ~ err'[cur'[Main]]
  <2>1. cur[Main] \in Clients => (err'[cur[Main]] => err[cur[Main]])
    <3>1. ~ SetConnError /\ ~ ExpireVisit
      BY <1>1, <1>10, ThreadKinds DEF SetConnError, ExpireVisit, Goto, Die
    <3> QED
      BY <3>1, ErrSteps
  <2>2. CASE pc'[Main] = pc[Main] /\ cur'[Main] = cur[Main]
    BY <1>10, <2>1, <2>2, AtWork DEF Passes, BasicInv, Teardown
  <2>3. CASE PostParams
    BY <2>3 DEF PostParams, Teardown
  <2>4. CASE Parse /\ pc'[Main] = "postparams"
    <3>1. /\ cur'[Main] = cur[Main] /\ err' = err /\ pc[Main] = "parse"
          /\ Head(rbuf[cur[Main]]) # Bad
          /\ setting.threads # {}
      BY <1>1, <2>4, ThreadKinds DEF Parse, Goto
    <3> QED
      BY <3>1 DEF Teardown
  <2> QED
    BY <1>10, <2>2, <2>3, <2>4, MainSteps
<1>11. \A k \in Clients : \A t \in Threads :
            Tearing(t, k)' => \/ Tearing(t, k)
                              \/ DropRef(t) /\ cur[t] = k /\ ref[k] = 1 /\ pc'[t] = "evdel"
  <2> SUFFICES ASSUME NEW k \in Clients, NEW t \in Threads, Tearing(t, k)'
               PROVE  \/ Tearing(t, k)
                      \/ DropRef(t) /\ cur[t] = k /\ ref[k] = 1 /\ pc'[t] = "evdel"
    OBVIOUS
  <2>1. pc'[t] \in {"evdel", "close", "unlist"} /\ cur'[t] = k
    BY DEF Tearing
  <2>2. /\ cur[t] = k
        /\ \/ pc'[t] = pc[t]
           \/ pc'[t] = "evdel" /\ DropRef(t) /\ ref[cur[t]] = 1
           \/ EventDel(t) \/ CloseConn(t)
    BY <2>1, FreeSteps DEF Freeing
  <2> QED
    BY <2>1, <2>2 DEF Tearing, EventDel, CloseConn
<1>12. \A k \in Clients : \A t \in Threads : Tearing(t, k) => err[k] /\ ref[k] <= 0 /\ torn[k] = 0
  BY DEF Tearing, Failing, Teardown
<1>13. \A k \in Clients : torn'[k] = torn[k] \/
            /\ torn'[k] = torn[k] + 1
            /\ \/ \E u \in Threads : Unlist(u) /\ Tearing(u, k)
               \/ ExpireVisit /\ torn[k] = 0 /\ ref'[k] <= 0 /\ err'[k] /\ \A t \in Threads : pc'[t] = "dead"
  <2> TAKE k \in Clients
  <2>1. CASE UNCHANGED <<conns, torn>> \/ \E j \in Clients : Accept(j)
    BY <2>1 DEF Accept
  <2>2. ASSUME NEW t \in Threads, Unlist(t)
        PROVE  torn'[k] = torn[k] \/ (torn'[k] = torn[k] + 1 /\ Tearing(t, k))
    BY <1>1, <2>2 DEF Unlist, Tearing
  <2>3. ASSUME ExpireVisit, Head(pos) \in Clients, torn'[k] # torn[k],
               torn' = [torn EXCEPT ![Head(pos)] = @ + 1]
        PROVE  /\ torn'[k] = torn[k] + 1 /\ torn[k] = 0 /\ ref'[k] <= 0 /\ err'[k]
               /\ \A t \in Threads : pc'[t] = "dead"
    <3>1. k = Head(pos) /\ torn'[k] = torn[k] + 1
      BY <1>1, <2>3
    <3>2. /\ ref' = [ref EXCEPT ![k] = @ - 1] /\ ref[k] <= 1
          /\ err' = [err EXCEPT ![k] = TRUE]
          /\ Unlink(k) /\ Die("list poison")
      BY <2>3, <3>1 DEF ExpireVisit
    <3>3. torn[k] = 0
      <4>1. k \in Range(conns) /\ torn[k] \in Nat
        BY <1>1, <3>2, Unlinked
      <4> QED
        BY <4>1 DEF Listed
    <3>4. ref'[k] <= 0 /\ err'[k]
      <4>1. ref[k] \in Int /\ ref'[k] = ref[k] - 1 /\ ref[k] <= 1 /\ err'[k] = TRUE
        BY <1>1, <3>2
      <4> QED
        BY <4>1
    <3> QED
      BY <3>1, <3>2, <3>3, <3>4 DEF Die
  <2> QED
    BY <2>1, <2>2, <2>3, ListSteps
<1>14. ASSUME NEW k \in Clients, NEW t \in Threads, Tearing(t, k)'
       PROVE  ref'[k] <= 0 /\ torn'[k] = 0
  <2>1. CASE Tearing(t, k)
    <3>1. ref'[k] <= 0
      <4>1. err[k] /\ ref[k] <= 0 /\ ref[k] \in Int /\ ref'[k] \in Int
        BY <1>1, <1>12, <2>1, TypesStep DEF Types
      <4> QED
        BY <1>6, <4>1
    <3>2. ASSUME NEW u \in Threads, Unlist(u), Tearing(u, k) PROVE FALSE
      <4>1. u = t
        BY <2>1, <3>2 DEF Teardown
      <4> QED
        BY <1>1, <1>14, <3>2, <4>1 DEF Unlist, Leave, Goto, Die, Tearing
    <3>3. ~ \A u \in Threads : pc'[u] = "dead"
      BY <1>14 DEF Tearing
    <3> QED
      BY <1>12, <1>13, <2>1, <3>1, <3>2, <3>3
  <2>2. CASE DropRef(t) /\ cur[t] = k /\ ref[k] = 1
    <3>1. ref'[k] = 0 /\ torn' = torn
      BY <1>1, <2>2 DEF DropRef
    <3>2. torn[k] = 0
      BY <1>1, <2>2 DEF Teardown
    <3> QED
      BY <3>1, <3>2
  <2> QED
    BY <1>11, <1>14, <2>1, <2>2
<1>15. ASSUME NEW k \in Clients, torn'[k] >= 1 PROVE err'[k] /\ ref'[k] <= 0
  <2>1. ref[k] \in Int /\ ref'[k] \in Int /\ torn[k] \in Nat
    BY <1>1, TypesStep DEF Types
  <2>2. err[k] /\ ref[k] <= 0 => err'[k] /\ ref'[k] <= 0
    BY <1>6, <2>1, ErrSteps
  <2> QED
    BY <1>12, <1>13, <1>15, <2>1, <2>2 DEF Teardown
<1>16. ASSUME NEW k \in Clients PROVE torn'[k] <= 1
  BY <1>1, <1>12, <1>13 DEF Teardown
<1>17. ASSUME NEW k \in Clients, NEW t \in Threads, NEW u \in Threads,
              Tearing(t, k)', Tearing(u, k)', t # u
       PROVE  FALSE
  <2>1. ASSUME NEW v \in Threads, NEW x \in Threads, v # x, Tearing(v, k)',
               DropRef(x), cur[x] = k, ref[k] = 1
        PROVE  FALSE
    <3>1. ~ Tearing(v, k)
      BY <1>12, <2>1
    <3>2. DropRef(v) /\ pc'[v] = "evdel"
      BY <1>11, <2>1, <3>1
    <3>3. pc'[v] = pc[v]
      BY <1>1, <2>1 DEF DropRef, Leave, Goto
    <3> QED
      BY <3>2, <3>3 DEF DropRef
  <2> QED
    BY <1>11, <1>17, <2>1 DEF Teardown
<1>18. ASSUME pc'[Main] = "scan" PROVE setting.threads = {}
  <2>1. pc[Main] = "scan" \/ ExpireStart
    BY <1>18, MainSteps
  <2> QED
    BY <2>1 DEF ExpireStart, FailureLasts, Teardown
<1> QED
  BY <1>2, <1>7, <1>8, <1>9, <1>10, <1>14, <1>15, <1>16, <1>17, <1>18 DEF Teardown

-----------------------------------------------------------------------------
(* What holds of the conn objects *)

\* Nothing is counted to start with.
LEMMA InitCounts == Init => Counted /\ Teardown
<1> SUFFICES ASSUME Init PROVE Counted /\ Teardown
  OBVIOUS
<1>1. /\ fd = [k \in Clients |-> None] /\ err = [k \in Clients |-> FALSE]
      /\ torn = [k \in Clients |-> 0]
      /\ pc = [t \in Threads |-> IF t = Main THEN "loop" ELSE "idle"]
  BY DEF Init
<1> QED
  BY <1>1, ThreadKinds DEF Counted, Teardown, Tearing

\* The invariant of the server: what its threads have in their hands, where
\* each request is, how connections are counted, failed and torn down.
THEOREM TcpInvariant == Spec => []TcpInv
<1>1. Init => TcpInv
  BY InitBasic, InitPlaces, InitObjects, InitCounts DEF TcpInv
<1>2. TcpInv /\ [Next]_vars => TcpInv'
  <2> SUFFICES ASSUME BasicInv, OnePlace, Unanswered, Sockets, Unborn, Failing, Counted, Listed,
                      Teardown, [Next]_vars
               PROVE  TcpInv'
    BY DEF TcpInv
  <2>1. BasicInv'
    BY BasicStep
  <2>2. OnePlace' /\ Unanswered'
    BY PlacesStep, UnansweredStep
  <2>3. Sockets' /\ Unborn' /\ Failing' /\ Listed'
    BY SocketsStep, UnbornStep, FailingStep, ListedStep
  <2>4. Counted'
    BY <2>1, CountedStep
  <2>5. Teardown'
    BY TeardownStep
  <2> QED
    BY <2>1, <2>2, <2>3, <2>4, <2>5 DEF TcpInv
<1> QED
  BY <1>1, <1>2, PTL DEF Spec

\* A registered event watches the socket of its own connection.
THEOREM TcpEvents == Spec => []EventOnOwnSocket
<1>1. TcpInv => EventOnOwnSocket
  BY DEF TcpInv, Failing, Sockets, EventOnOwnSocket
<1> QED
  BY <1>1, TcpInvariant, PTL

\* Until a connection fails its refercount is one more than its jobs.
THEOREM TcpReferences == Spec => []RefCountsHolders
<1>1. TcpInv => RefCountsHolders
  BY DEF TcpInv, Counted, RefCountsHolders
<1> QED
  BY <1>1, TcpInvariant, PTL

\* Where a failure lasts, a connection is torn down once.
THEOREM TcpTeardown == Spec => []TeardownOnce
<1>1. TcpInv => TeardownOnce
  BY DEF TcpInv, Teardown, TeardownOnce
<1> QED
  BY <1>1, TcpInvariant, PTL

\* The pool is never handed a request that it holds or has run: what
\* AbstractPool asks of whoever calls create_job.
PostsFreshJobs ==
    pc[Main] = "post" => ~ Pool!Waiting(req[Main]) /\ runs[req[Main]] = 0

\* handle_one_request posts a request once: the guards of the pool's create_job
\* never keep the event loop waiting.
THEOREM TcpPostsFreshJobs == Spec => []PostsFreshJobs
<1>1. TcpInv => PostsFreshJobs
  <2> SUFFICES ASSUME TcpInv, pc[Main] = "post"
               PROVE  ~ Pool!Waiting(req[Main]) /\ runs[req[Main]] = 0
    BY DEF PostsFreshJobs
  <2>1. BasicInv /\ OnePlace /\ Unanswered
    BY DEF TcpInv
  <2>2. req[Main] \in Requests /\ InHand(Main, req[Main])
    <3>1. req[Main] \in Own(cur[Main]) /\ cur[Main] \in Clients
      BY <2>1, AtWork DEF BasicInv, Passes
    <3> QED
      BY <3>1, RequestParts DEF InHand, Hands
  <2>3. \A w \in Workers : ~ Posted(w, req[Main])
    BY <2>1, <2>2, ThreadKinds DEF OnePlace
  <2>4. ~ Pool!Waiting(req[Main])
    BY <2>3 DEF Pool!Waiting, Posted, Range
  <2>5. runs[req[Main]] = 0
    BY <2>1, <2>2 DEF Unanswered, Coming
  <2> QED
    BY <2>4, <2>5
<1> QED
  BY <1>1, TcpInvariant, PTL

-----------------------------------------------------------------------------
(* Answers *)

\* Nothing takes a reference that stands for a job, and the event loop closes
\* no connection it answers.
Gentle ==
    setting.faults \subseteq (IF setting.threads = {} THEN {"conn", "job"}
                                                      ELSE {"conn", "job", "handler", "full"})

\* Then a connection fails only because its client closed it, and a client
\* that closed has all its answers.
Calm ==
    Gentle =>
        /\ \A k \in Clients : err[k] => Eof(k)
        /\ \A k \in Clients : hup[k] =>
                Eof(k) \/ (NoConn(k) /\ "conn" \in setting.faults)
        /\ pc[Main] \in {"fail", "drop"} => Eof(cur[Main])
        /\ \A k \in Clients : Eof(k) /\ ~ NoConn(k) =>
                \A n \in 1 .. sent[k] : <<k, n>> \in got[k]
        /\ \A k \in Clients : Bad \notin Range(inbox[k]) /\ Bad \notin Range(rbuf[k])
        /\ \A w \in Workers : pc[w] = "write" => loaded[w] = fd[cur[w]]

\* Where nothing answers for another, and nothing looks for a failed gs.
Answers ==
    setting.threads = {} \/ Gentle => AnswerToAsker /\ crash # "null gs"

\* A connection that was not torn down yet is in the list, and nothing unlinks
\* it before its one teardown does.
Linked ==
    /\ \A k \in Clients : ~ NoConn(k) /\ torn[k] = 0 => k \in Range(conns)
    /\ FailureLasts /\ "expiry" \notin setting.faults => crash # "list poison"

AnswerInv == TcpInv /\ Calm /\ Answers /\ Linked

\* A client that closed its connection waits for nothing.
LEMMA NoneWaits ==
    ASSUME BasicInv, Unanswered, Unborn, Calm, Gentle,
           NEW r \in Requests, Pending(r), Eof(r[1])
    PROVE  NoConn(r[1])
<1>1. r[1] \in Clients /\ r[2] \in 1 .. MaxSend /\ r = <<r[1], r[2]>>
  BY RequestParts
<1>2. r[2] <= sent[r[1]] /\ r \notin got[r[1]]
  BY DEF Unanswered
<1>3. sent[r[1]] \in 0 .. MaxSend
  BY <1>1 DEF BasicInv, Types
<1>4. r[2] \in 1 .. sent[r[1]]
  BY <1>1, <1>2, <1>3, Bounds
<1> QED
  BY <1>1, <1>2, <1>4 DEF Calm

\* Where an answer goes: to the client of the connection it was read from.
LEMMA WriteReaches ==
    ASSUME BasicInv, Sockets, Unborn, NEW c \in Clients, NEW t \in Threads, cur[t] = c,
           NEW r, NEW failed \in BOOLEAN, Write(fd[c], r, failed)
    PROVE  /\ got' = got \/ got' = [got EXCEPT ![c] = @ \union {r}]
           /\ failed => net[c] = "closed" \/ err[c] \/ "full" \in setting.faults
<1>1. /\ fd \in [Clients -> Fds \union {None}] /\ file \in [Fds -> Clients \union {None}]
      /\ net \in [Clients -> {"new", "pending", "open", "closed"}]
  BY DEF BasicInv, Types
<1>2. ~ NoConn(c) /\ net[c] \in {"open", "closed"}
  BY <1>1 DEF Unborn
<1>3. CASE fd[c] = None
  BY <1>2, <1>3, NoneApart DEF Write, NoConn
<1>4. CASE fd[c] # None
  <2>1. fd[c] \in Fds /\ file[fd[c]] = c
    BY <1>1, <1>4 DEF Sockets
  <2> QED
    BY <1>2, <2>1, NoneApart DEF Write
<1> QED
  BY <1>3, <1>4

\* Nobody has an answer, or a failed connection, to start with.
LEMMA InitAnswers == Init => Calm /\ Answers /\ Linked
<1> SUFFICES ASSUME Init PROVE Calm /\ Answers /\ Linked
  OBVIOUS
<1>1. Range(<<>>) = {}
  BY DEF Range
<1>2. /\ err = [k \in Clients |-> FALSE] /\ hup = [k \in Clients |-> FALSE]
      /\ net = [k \in Clients |-> "new"] /\ got = [k \in Clients |-> {}]
      /\ inbox = [k \in Clients |-> <<>>] /\ rbuf = [k \in Clients |-> <<>>]
      /\ pc = [t \in Threads |-> IF t = Main THEN "loop" ELSE "idle"]
      /\ crash = None /\ fd = [k \in Clients |-> None]
  BY DEF Init
<1>3. Calm
  BY <1>1, <1>2, ThreadKinds DEF Calm, Eof
<1>4. Answers
  BY <1>2, NoneApart DEF Answers, AnswerToAsker
<1>5. Linked
  BY <1>2, NoneApart DEF Linked, NoConn
<1> QED
  BY <1>3, <1>4, <1>5

\* An answer reaches the client whose request it answers.
LEMMA AskerStep ==
    ASSUME BasicInv, Sockets, Unborn, Calm, Answers, [Next]_vars,
           setting.threads = {} \/ Gentle
    PROVE  AnswerToAsker'
<1>1. got \in [Clients -> SUBSET Requests] /\ AnswerToAsker
  BY DEF BasicInv, Types, Answers
<1>2. CASE HandleInline
  <2>1. cur[Main] \in Clients /\ req[Main] \in Own(cur[Main])
    BY <1>2, AtWork DEF HandleInline, Passes, BasicInv
  <2>2. got' = got \/ got' = [got EXCEPT ![cur[Main]] = @ \union {req[Main]}]
    <3>1. got' = got \/ \E failed \in BOOLEAN : Write(fd[cur[Main]], req[Main], failed)
      BY <1>2 DEF HandleInline
    <3>2. ASSUME NEW failed \in BOOLEAN, Write(fd[cur[Main]], req[Main], failed)
          PROVE  got' = got \/ got' = [got EXCEPT ![cur[Main]] = @ \union {req[Main]}]
      BY <2>1, <3>2, WriteReaches, ThreadKinds
    <3> QED
      BY <3>1, <3>2
  <2> QED
    BY <1>1, <2>1, <2>2, RequestParts DEF AnswerToAsker
<1>3. ASSUME NEW w \in Workers, GiveResponse(w) PROVE AnswerToAsker'
  <2>1. cur[w] \in Clients /\ req[w] \in Own(cur[w]) /\ pc[w] = "write"
    BY <1>3, AtWork DEF GiveResponse, Serving, BasicInv
  <2>2. Gentle
    BY <2>1 DEF BasicInv, Threadless
  <2>3. loaded[w] = fd[cur[w]]
    BY <2>1, <2>2 DEF Calm
  <2>4. got' = got \/ got' = [got EXCEPT ![cur[w]] = @ \union {req[w]}]
    <3>1. PICK failed \in BOOLEAN : Write(fd[cur[w]], req[w], failed)
      BY <1>3, <2>3 DEF GiveResponse
    <3> QED
      BY <2>1, <3>1, WriteReaches, ThreadKinds
  <2> QED
    BY <1>1, <2>1, <2>4, RequestParts DEF AnswerToAsker
<1>4. CASE got' = got
  BY <1>1, <1>4 DEF AnswerToAsker
<1> QED
  BY <1>2, <1>3, <1>4, NothingAnswered

\* No job finds its connection failed.
LEMMA SurvivalStep ==
    ASSUME BasicInv, Unanswered, Unborn, Calm, Answers, [Next]_vars,
           setting.threads = {} \/ Gentle
    PROVE  crash' # "null gs"
<1>1. crash # "null gs"
  BY DEF Answers
<1>2. ASSUME NEW w \in Workers, StartJob(w) PROVE crash' # "null gs"
  <2>1. setting.threads # {} /\ Gentle /\ todo[w] # <<>> /\ todo[w] \in Seq(Requests)
    BY <1>2 DEF StartJob, BasicInv, Threadless, Types
  <2>2. Head(todo[w]) \in Requests /\ Posted(w, Head(todo[w]))
    BY <2>1, TailRange DEF Posted
  <2>3. ~ NoConn(Head(todo[w])[1])
    BY <2>2, RequestParts DEF Posted, Unborn
  <2>4. ~ err[Head(todo[w])[1]]
    BY <2>1, <2>2, <2>3, NoneWaits, RequestParts DEF Pending, Calm
  <2> QED
    BY <1>1, <1>2, <2>4 DEF StartJob
<1>3. CASE \E k \in Clients : ClientStep(k) \/ Accept(k) \/ Dispatch(k)
  BY <1>1, <1>3 DEF ClientStep, Connect, Send, SendMalformed, Close, TimePasses, Accept, Dispatch
<1>4. CASE ExpireStart \/ TryRead \/ Parse \/ HandleInline \/ PostParams \/ CreateJob \/ SetConnError
  BY <1>1, <1>4 DEF ExpireStart, TryRead, Parse, HandleInline, PostParams, CreateJob, SetConnError
<1>5. CASE \E t \in Threads : DropRef(t) \/ EventDel(t) \/ CloseConn(t)
  BY <1>1, <1>5 DEF DropRef, EventDel, CloseConn
<1>6. CASE \E t \in Threads : Unlist(t)
  BY <1>1, <1>6 DEF Unlist, Die
<1>7. CASE ExpireVisit \/ ExpireEnd
  BY <1>1, <1>7 DEF ExpireVisit, ExpireEnd, Die
<1>8. CASE \E w \in Workers : Handle(w) \/ GiveResponse(w)
  BY <1>1, <1>8 DEF Handle, GiveResponse
<1>9. CASE UNCHANGED vars
  BY <1>1, <1>9 DEF vars
<1> QED
  BY <1>2, <1>3, <1>4, <1>5, <1>6, <1>7, <1>8, <1>9, ThreadKinds
     DEF Next, MainStep, WorkerStep, Free

\* A client with as many answers as requests has the answer to each request.
LEMMA AllAnswered ==
    ASSUME BasicInv, Unanswered, AnswerToAsker, NEW k \in Clients, Answered(k),
           NEW n \in 1 .. sent[k]
    PROVE  <<k, n>> \in got[k]
<1> DEFINE S == {k} \X (1 .. sent[k])
<1>1. sent[k] \in 0 .. MaxSend /\ got[k] \subseteq Requests
  BY DEF BasicInv, Types
<1>2. sent[k] \in Nat
  BY <1>1, Bounds
<1>3. got[k] \in SUBSET S
  <2>1. ASSUME NEW r \in got[k] PROVE r \in S
    <3>1. r[1] = k /\ r[2] <= sent[k] /\ r[2] \in 1 .. MaxSend /\ r = <<r[1], r[2]>>
      BY <1>1, <2>1, RequestParts DEF AnswerToAsker, Unanswered
    <3>2. r[2] \in 1 .. sent[k]
      BY <1>2, <3>1, Bounds
    <3> QED
      BY <3>1, <3>2
  <2> QED
    BY <2>1
<1>4. IsFiniteSet(S) /\ Cardinality(S) = sent[k]
  <2>1. IsFiniteSet({k}) /\ Cardinality({k}) = 1
    BY FS_Singleton
  <2>2. IsFiniteSet(1 .. sent[k]) /\ Cardinality(1 .. sent[k]) = sent[k]
    <3>1. 1 \in Int /\ sent[k] \in Int
      BY <1>2
    <3>2. /\ IsFiniteSet(1 .. sent[k])
          /\ Cardinality(1 .. sent[k]) = IF 1 > sent[k] THEN 0 ELSE sent[k] - 1 + 1
      BY <3>1, FS_Interval
    <3> QED
      BY <1>2, <3>2
  <2>3. IsFiniteSet(S) /\ Cardinality(S) = 1 * sent[k]
    BY <2>1, <2>2, FS_Product
  <2> QED
    BY <1>2, <2>3
<1>5. <<k, n>> \in S
  OBVIOUS
<1> HIDE DEF S
<1>6. S = got[k]
  BY <1>3, <1>4, FS_Subset DEF Answered
<1> QED
  BY <1>5, <1>6

\* What was answered stays answered.
LEMMA AnswersStay ==
    ASSUME BasicInv, [Next]_vars, NEW k \in Clients
    PROVE  got[k] \subseteq got'[k]
<1>1. got \in [Clients -> SUBSET Requests]
  BY DEF BasicInv, Types
<1>2. CASE HandleInline \/ \E w \in Workers : GiveResponse(w)
  <2>1. got' = got \/ \E j \in Clients \union {None} : \E r \in {req[t] : t \in Threads} :
            j # None /\ got' = [got EXCEPT ![j] = @ \union {r}]
    <3>1. file \in [Fds -> Clients \union {None}]
      BY DEF BasicInv, Types
    <3>2. ASSUME NEW f, NEW t \in Threads, NEW failed \in BOOLEAN, Write(f, req[t], failed)
          PROVE  got' = got \/ \E j \in Clients \union {None} : \E r \in {req[u] : u \in Threads} :
                    j # None /\ got' = [got EXCEPT ![j] = @ \union {r}]
      BY <3>1, <3>2 DEF Write
    <3>3. CASE HandleInline
      <4>1. got' = got \/ \E failed \in BOOLEAN : Write(fd[cur[Main]], req[Main], failed)
        BY <3>3 DEF HandleInline
      <4> QED
        BY <3>2, <4>1, ThreadKinds
    <3>4. ASSUME NEW w \in Workers, GiveResponse(w)
          PROVE  \E failed \in BOOLEAN : Write(loaded[w], req[w], failed)
      BY <3>4 DEF GiveResponse
    <3> QED
      BY <1>2, <3>2, <3>3, <3>4, ThreadKinds
  <2> QED
    BY <1>1, <2>1
<1>3. CASE got' = got
  BY <1>3
<1> QED
  BY <1>2, <1>3, NothingAnswered

\* The server closes sockets of failed connections, or for want of memory.
LEMMA HupSteps ==
    ASSUME BasicInv, Sockets, Unborn, Failing, [Next]_vars, NEW k \in Clients, hup'[k]
    PROVE  \/ hup[k]
           \/ Accept(k) /\ NoConn(k)' /\ "conn" \in setting.faults
           \/ err[k]
           \/ ExpireVisit
<1>1. hup \in [Clients -> BOOLEAN]
  BY DEF BasicInv, Types
<1>2. CASE \E j \in Clients : ClientStep(j) \/ Dispatch(j)
  BY <1>2 DEF ClientStep, Connect, Send, SendMalformed, Close, TimePasses, Dispatch
<1>3. ASSUME NEW j \in Clients, Accept(j), ~ hup[k]
      PROVE  Accept(k) /\ NoConn(k)' /\ "conn" \in setting.faults
  <2>1. /\ NoConn(j) /\ hup' = [hup EXCEPT ![j] = TRUE] /\ "conn" \in setting.faults
        /\ UNCHANGED <<fd, err>>
    BY <1>3, Accepted
  <2>2. j = k
    BY <1>1, <1>3, <2>1
  <2> QED
    BY <1>3, <2>1, <2>2 DEF NoConn
<1>4. CASE ExpireStart \/ TryRead \/ Parse \/ HandleInline \/ PostParams \/ CreateJob \/ SetConnError
  BY <1>4 DEF ExpireStart, TryRead, Parse, HandleInline, PostParams, CreateJob, SetConnError
<1>5. CASE \E t \in Threads : DropRef(t) \/ EventDel(t) \/ Unlist(t)
  BY <1>5 DEF DropRef, EventDel, Unlist
<1>6. ASSUME NEW t \in Threads, CloseConn(t), ~ hup[k] PROVE err[k]
  <2>1. cur[t] \in Clients /\ CloseFd(cur[t]) /\ err[cur[t]]
    BY <1>6, AtWork DEF CloseConn, Freeing, BasicInv, Failing
  <2> QED
    BY <1>6, <2>1, ClosedFd DEF BasicInv
<1>7. CASE ExpireEnd
  BY <1>7 DEF ExpireEnd
<1>8. CASE \E w \in Workers : StartJob(w) \/ Handle(w) \/ GiveResponse(w)
  BY <1>8 DEF StartJob, Handle, GiveResponse
<1>9. CASE UNCHANGED vars
  BY <1>9 DEF vars
<1> QED
  BY <1>2, <1>3, <1>4, <1>5, <1>6, <1>7, <1>8, <1>9, ThreadKinds
     DEF Next, MainStep, WorkerStep, Free

\* Malformed bytes are never made up by the server.
LEMMA NoBadStep ==
    ASSUME BasicInv, [Next]_vars, "malformed" \notin setting.faults,
           \A j \in Clients : Bad \notin Range(inbox[j]) /\ Bad \notin Range(rbuf[j]),
           NEW k \in Clients
    PROVE  Bad \notin Range(inbox'[k]) /\ Bad \notin Range(rbuf'[k])
<1>1. /\ rbuf \in [Clients -> Seq(Requests \union {Bad})]
      /\ inbox \in [Clients -> Seq(Requests \union {Bad})]
  BY DEF BasicInv, Types
<1>2. Range(<<>>) = {}
  BY DEF Range
<1>3. CASE UNCHANGED <<inbox, rbuf>>
  BY <1>3
<1>4. CASE \E j \in Clients : Connect(j) \/ Close(j) \/ TimePasses(j) \/ Dispatch(j) \/ Accept(j)
  BY <1>3, <1>4 DEF Connect, Close, TimePasses, Dispatch, Accept
<1>5. ASSUME NEW j \in Clients, Send(j)
      PROVE  Bad \notin Range(inbox'[k]) /\ Bad \notin Range(rbuf'[k])
  <2> DEFINE x == <<j, sent[j] + 1>>
  <2>1. x \in Requests /\ x # Bad /\ rbuf' = rbuf /\ inbox' = [inbox EXCEPT ![j] = Append(@, x)]
    BY <1>5, SendPlaces, RequestParts DEF Send
  <2> HIDE DEF x
  <2>2. Range(Append(inbox[j], x)) = Range(inbox[j]) \union {x}
    <3>1. inbox[j] \in Seq(Requests \union {Bad}) /\ x \in Requests \union {Bad}
      BY <1>1, <2>1
    <3> QED
      BY <3>1, AppendRange
  <2>3. inbox'[k] = inbox[k] \/ (j = k /\ inbox'[k] = Append(inbox[j], x))
    BY <1>1, <2>1
  <2> QED
    BY <2>1, <2>2, <2>3
<1>6. ~ \E j \in Clients : SendMalformed(j)
  BY DEF SendMalformed
<1>7. CASE TryRead
  <2>1. /\ inbox'[k] = inbox[k] \/ inbox'[k] = <<>>
        /\ rbuf'[k] = rbuf[k] \/ rbuf'[k] = rbuf[k] \o inbox[k]
    BY <1>1, <1>7 DEF TryRead
  <2>2. Range(rbuf[k] \o inbox[k]) = Range(rbuf[k]) \union Range(inbox[k])
    BY <1>1, ConcatRange, SMTT(30)
  <2> QED
    BY <1>2, <2>1, <2>2
<1>8. CASE Parse
  <2>1. inbox' = inbox /\ (rbuf' = rbuf \/ (rbuf[cur[Main]] # <<>> /\ rbuf' = [rbuf EXCEPT ![cur[Main]] = Tail(@)]))
    BY <1>8 DEF Parse
  <2>2. rbuf'[k] = rbuf[k] \/ (rbuf[k] # <<>> /\ rbuf'[k] = Tail(rbuf[k]))
    BY <1>1, <2>1
  <2>3. rbuf[k] # <<>> => Range(Tail(rbuf[k])) \subseteq Range(rbuf[k])
    BY <1>1, TailRange
  <2> QED
    BY <2>1, <2>2, <2>3
<1>9. CASE ExpireStart \/ HandleInline \/ PostParams \/ CreateJob \/ SetConnError \/ ExpireEnd
  BY <1>3, <1>9 DEF ExpireStart, HandleInline, PostParams, CreateJob, SetConnError, ExpireEnd
<1>10. CASE \E t \in Threads : DropRef(t) \/ EventDel(t) \/ Unlist(t)
  BY <1>3, <1>10 DEF DropRef, EventDel, Unlist
<1>11. ASSUME NEW j \in Clients, CloseFd(j), rbuf' = rbuf
       PROVE  Bad \notin Range(inbox'[k]) /\ Bad \notin Range(rbuf'[k])
  <2>1. inbox'[k] = inbox[k] \/ inbox'[k] = <<>>
    BY <1>11 DEF CloseFd
  <2> QED
    BY <1>2, <1>11, <2>1
<1>12. ASSUME NEW t \in Threads, CloseConn(t)
       PROVE  Bad \notin Range(inbox'[k]) /\ Bad \notin Range(rbuf'[k])
  <2>1. cur[t] \in Clients /\ CloseFd(cur[t]) /\ rbuf' = rbuf
    BY <1>12, AtWork DEF CloseConn, Freeing, BasicInv
  <2> QED
    BY <1>11, <2>1
<1>13. CASE ExpireVisit
  <2>1. Head(pos) \in Clients
    <3>1. pos \in Seq(Clients) /\ pos # <<>>
      BY <1>13 DEF ExpireVisit, BasicInv, Types
    <3> QED
      BY <3>1
  <2>2. rbuf' = rbuf /\ (inbox' = inbox \/ CloseFd(Head(pos)))
    BY <1>13 DEF ExpireVisit
  <2> QED
    BY <1>3, <1>11, <2>1, <2>2
<1>14. CASE \E w \in Workers : StartJob(w) \/ Handle(w) \/ GiveResponse(w)
  BY <1>3, <1>14 DEF StartJob, Handle, GiveResponse
<1>15. CASE UNCHANGED vars
  BY <1>3, <1>15 DEF vars
<1> QED
  BY <1>4, <1>5, <1>6, <1>7, <1>8, <1>9, <1>10, <1>12, <1>13, <1>14, <1>15, ThreadKinds
     DEF Next, ClientStep, MainStep, WorkerStep, Free

\* Only the client itself closes its end.
LEMMA Closes ==
    ASSUME BasicInv, [Next]_vars, NEW k \in Clients, net'[k] = "closed"
    PROVE  net[k] = "closed" \/ Close(k)
<1>1. net \in [Clients -> {"new", "pending", "open", "closed"}]
  BY DEF BasicInv, Types
<1>2. CASE \E j \in Clients : Connect(j) \/ Close(j) \/ Accept(j)
  BY <1>1, <1>2 DEF Connect, Close, Accept
<1>3. CASE net' = net
  BY <1>3
<1>4. CASE \E j \in Clients : Send(j) \/ SendMalformed(j) \/ TimePasses(j) \/ Dispatch(j)
  BY <1>3, <1>4 DEF Send, SendMalformed, TimePasses, Dispatch
<1>5. CASE ExpireStart \/ TryRead \/ Parse \/ HandleInline \/ PostParams \/ CreateJob \/ SetConnError
  BY <1>3, <1>5 DEF ExpireStart, TryRead, Parse, HandleInline, PostParams, CreateJob, SetConnError
<1>6. CASE \E t \in Threads : Free(t)
  BY <1>3, <1>6 DEF Free, DropRef, EventDel, CloseConn, Unlist
<1>7. CASE ExpireVisit \/ ExpireEnd
  BY <1>3, <1>7 DEF ExpireVisit, ExpireEnd
<1>8. CASE \E w \in Workers : StartJob(w) \/ Handle(w) \/ GiveResponse(w)
  BY <1>3, <1>8 DEF StartJob, Handle, GiveResponse
<1>9. CASE UNCHANGED vars
  BY <1>3, <1>9 DEF vars
<1> QED
  BY <1>2, <1>4, <1>5, <1>6, <1>7, <1>8, <1>9, ThreadKinds
     DEF Next, ClientStep, MainStep, WorkerStep

\* give_response has read the descriptor and holds on to it until it writes.
LEMMA WriteSteps ==
    ASSUME BasicInv, [Next]_vars, NEW w \in Workers, pc'[w] = "write"
    PROVE  \/ Handle(w)
           \/ pc'[w] = pc[w] /\ cur'[w] = cur[w] /\ loaded'[w] = loaded[w] /\ req'[w] = req[w]
<1>1. /\ pc \in [Threads -> Stations] /\ cur \in [Threads -> Clients \union {None}]
      /\ req \in [Threads -> Requests \union {None}]
      /\ loaded \in [Workers -> Fds \union {None}]
  BY DEF BasicInv, Types
<1>2. w \in Threads /\ w # Main
  BY ThreadKinds
<1>3. CASE UNCHANGED <<pc, cur, loaded, req>>
  BY <1>3
<1>4. CASE \E k \in Clients : ClientStep(k) \/ Accept(k)
  <2>1. UNCHANGED <<pc, cur, loaded, req>>
    BY <1>4 DEF ClientStep, Connect, Send, SendMalformed, Close, TimePasses, Accept
  <2> QED
    BY <1>3, <2>1
<1>5. CASE \E k \in Clients : Dispatch(k)
  BY <1>1, <1>2, <1>5, ThreadKinds DEF Dispatch, Goto
<1>6. CASE TryRead \/ HandleInline \/ PostParams \/ CreateJob
  BY <1>1, <1>2, <1>6, ThreadKinds DEF TryRead, HandleInline, PostParams, CreateJob, Goto
<1>7. CASE Parse
  BY <1>1, <1>2, <1>7, ThreadKinds DEF Parse, Goto
<1>8. CASE SetConnError \/ ExpireStart \/ ExpireEnd
  BY <1>1, <1>2, <1>8, ThreadKinds DEF SetConnError, ExpireStart, ExpireEnd, Goto
<1>9. ASSUME NEW t \in Threads, Free(t)
      PROVE  pc'[w] = pc[w] /\ cur'[w] = cur[w] /\ loaded'[w] = loaded[w] /\ req'[w] = req[w]
  <2>1. /\ \A u \in Threads : u # t => (pc'[u] = pc[u] /\ cur'[u] = cur[u]) \/ pc'[u] = "dead"
        /\ pc'[t] \in {"evdel", "close", "unlist", "loop", "idle", "dead"}
        /\ loaded' = loaded /\ req' = req
    BY <1>1, <1>9, ThreadKinds DEF Free, DropRef, EventDel, CloseConn, Unlist, Leave, Goto, Die
  <2> QED
    BY <1>2, <2>1
<1>10. CASE ExpireVisit
  BY <1>1, <1>2, <1>10, ThreadKinds DEF ExpireVisit, Die
<1>11. ASSUME NEW v \in Workers, StartJob(v) \/ GiveResponse(v) \/ Handle(v)
       PROVE  \/ v = w /\ Handle(w)
              \/ pc'[w] = pc[w] /\ cur'[w] = cur[w] /\ loaded'[w] = loaded[w] /\ req'[w] = req[w]
  BY <1>1, <1>2, <1>11, ThreadKinds DEF StartJob, GiveResponse, Handle, Goto, Die
<1>12. CASE UNCHANGED vars
  BY <1>3, <1>12 DEF vars
<1> QED
  BY <1>4, <1>5, <1>6, <1>7, <1>8, <1>9, <1>10, <1>11, <1>12, ThreadKinds
     DEF Next, MainStep, WorkerStep

\* A client that closed had all its answers, and nothing is taken from it.
LEMMA CalmStep ==
    BasicInv /\ OnePlace /\ Unanswered /\ Sockets /\ Unborn /\ Failing /\ Listed /\ Calm /\ Answers
        /\ [Next]_vars => Calm'
<1> SUFFICES ASSUME BasicInv, OnePlace, Unanswered, Sockets, Unborn, Failing, Listed, Calm, Answers,
                    [Next]_vars
             PROVE  Calm'
  OBVIOUS
<1>0. setting' = setting /\ Gentle' = Gentle
  BY CrashKept DEF Gentle
<1> SUFFICES ASSUME Gentle PROVE Calm'
  BY <1>0 DEF Calm
<1>1. /\ err \in [Clients -> BOOLEAN] /\ net \in [Clients -> {"new", "pending", "open", "closed"}]
      /\ cur \in [Threads -> Clients \union {None}] /\ pc \in [Threads -> Stations]
      /\ loaded \in [Workers -> Fds \union {None}] /\ fd \in [Clients -> Fds \union {None}]
      /\ sent \in [Clients -> 0 .. MaxSend] /\ got \in [Clients -> SUBSET Requests]
  BY DEF BasicInv, Types
<1>2. /\ setting.faults \intersect {"postparams", "malformed", "impatient", "expiry"} = {}
      /\ setting.threads = {} => setting.faults \intersect {"handler", "full"} = {}
  BY DEF Gentle
<1>3. pc[Main] # "scan" /\ ~ ExpireVisit
  BY <1>2 DEF ExpireVisit, BasicInv, Control
<1>4. \A k \in Clients : Eof(k) => Eof(k)'
  BY NetSteps DEF Eof
<1>5. \A k \in Clients : \A t \in Threads : cur[t] = k => ~ NoConn(k) /\ ~ Accept(k)
  BY Accepted DEF Unborn
<1>6. ASSUME NEW k \in Clients, err'[k] PROVE Eof(k)'
  <2>1. err[k] \/ (SetConnError /\ cur[Main] = k)
    BY <1>1, <1>3, <1>6, ErrSteps
  <2> QED
    BY <1>4, <2>1 DEF SetConnError, Calm
<1>7. ASSUME NEW k \in Clients, hup'[k]
      PROVE  Eof(k)' \/ (NoConn(k)' /\ "conn" \in setting.faults)
  <2>1. CASE hup[k] /\ ~ Eof(k)
    <3>1. NoConn(k) /\ "conn" \in setting.faults
      BY <2>1 DEF Calm
    <3>2. ~ Accept(k)
      BY <2>1, Accepted
    <3> QED
      BY <3>1, <3>2, BlankStep DEF Blank
  <2>2. CASE err[k]
    BY <1>4, <2>2 DEF Calm
  <2> QED
    BY <1>3, <1>4, <1>7, <2>1, <2>2, HupSteps
<1>8. \A k \in Clients : fd[k] = None /\ ~ NoConn(k) => Eof(k)
  BY DEF NoConn, Calm
<1>9. ASSUME pc'[Main] \in {"fail", "drop"} PROVE Eof(cur[Main])'
  <2> DEFINE k == cur[Main]
  <2> SUFFICES cur'[Main] = k /\ net'[k] = "closed"
    BY DEF Eof
  <2>1. CASE (pc'[Main] = pc[Main] /\ cur'[Main] = k) \/ SetConnError
    <3>1. pc[Main] \in {"fail", "drop"} /\ cur'[Main] = k
      BY <1>9, <2>1 DEF SetConnError
    <3>2. k \in Clients /\ Eof(k)
      BY <3>1, AtWork, ThreadKinds DEF Passes, Freeing, BasicInv, Calm
    <3> QED
      BY <3>1, <3>2, NetSteps DEF Eof
  <2>2. CASE TryRead /\ pc'[Main] = "fail"
    <3>1. /\ cur'[Main] = k /\ k \in Clients
          /\ net' = net /\ (Eof(k) \/ fd[k] = None)
      BY <1>1, <2>2, AtWork, ThreadKinds DEF TryRead, Passes, Goto, BasicInv
    <3> QED
      BY <1>5, <1>8, <3>1, ThreadKinds DEF Eof
  <2>3. ~ (Parse /\ pc'[Main] = "fail")
    <3>1. ASSUME Parse, pc'[Main] = "fail" PROVE FALSE
      <4>1. k \in Clients /\ rbuf[k] # <<>> /\ Head(rbuf[k]) = Bad
        BY <1>1, <3>1, AtWork, ThreadKinds DEF Parse, Goto, Passes, BasicInv
      <4>2. rbuf[k] \in Seq(Requests \union {Bad})
        BY <4>1 DEF BasicInv, Types
      <4>3. Bad \in Range(rbuf[k])
        BY <4>1, <4>2, TailRange
      <4> QED
        BY <4>1, <4>3 DEF Calm
    <3> QED
      BY <3>1
  <2>4. CASE HandleInline /\ pc'[Main] = "fail"
    <3>1. /\ cur'[Main] = k /\ k \in Clients /\ net' = net /\ pc[Main] = "inline"
      BY <2>4, AtWork DEF HandleInline, Passes, BasicInv
    <3>2. setting.threads = {}
      BY <3>1 DEF BasicInv, Control
    <3>3. Write(fd[k], req[Main], TRUE)
      <4>1. PICK failed \in BOOLEAN : /\ Write(fd[k], req[Main], failed)
                                      /\ Goto(Main, IF failed THEN "fail" ELSE "parse")
        BY <1>2, <2>4, <3>2 DEF HandleInline
      <4>2. failed
        BY <1>1, <2>4, <4>1, ThreadKinds DEF Goto
      <4> QED
        BY <4>1, <4>2
    <3>4. net[k] = "closed" \/ err[k]
      BY <1>2, <3>1, <3>2, <3>3, WriteReaches, ThreadKinds
    <3> QED
      BY <3>1, <3>4 DEF Calm, Eof
  <2>5. ~ (PostParams /\ pc'[Main] = "fail")
    BY <1>1, <1>2, ThreadKinds DEF PostParams, Goto
  <2>6. CASE pc'[Main] = "fail"
    BY <2>1, <2>2, <2>3, <2>4, <2>5, <2>6, MainSteps
  <2>7. CASE pc'[Main] = "drop"
    BY <2>1, <2>7, FreeSteps, ThreadKinds DEF Freeing
  <2> QED
    BY <1>9, <2>6, <2>7
<1>10. ASSUME NEW k \in Clients, Eof(k)', ~ NoConn(k)', NEW n \in 1 .. sent'[k]
       PROVE  <<k, n>> \in got'[k]
  <2>1. CASE Eof(k)
    <3>1. sent'[k] = sent[k]
      <4>1. ASSUME NEW j \in Clients, Send(j) PROVE sent'[k] = sent[k]
        <5>1. j # k /\ sent' = [sent EXCEPT ![j] = @ + 1]
          BY <2>1, <4>1 DEF Send, Eof
        <5> QED
          BY <1>1, <5>1
      <4> QED
        BY <4>1, SentRuns
    <3>2. ~ NoConn(k)
      <4>1. ~ Accept(k)
        BY <2>1 DEF Accept, Eof
      <4> QED
        BY <1>10, <4>1, BlankStep DEF Blank
    <3> QED
      BY <1>10, <2>1, <3>1, <3>2, AnswersStay DEF Calm
  <2>2. CASE ~ Eof(k)
    <3>1. Close(k)
      BY <1>10, <2>2, Closes DEF Eof
    <3>2. ~ NoConn(k) /\ sent' = sent /\ net[k] = "open" /\ (Answered(k) \/ hup[k])
      BY <1>2, <1>10, <3>1 DEF Close, NoConn
    <3>3. Answered(k)
      BY <3>2 DEF Calm, Eof
    <3> QED
      BY <1>10, <3>2, <3>3, AllAnswered, AnswersStay DEF Answers
  <2> QED
    BY <2>1, <2>2
<1>11. ASSUME NEW k \in Clients
       PROVE  Bad \notin Range(inbox'[k]) /\ Bad \notin Range(rbuf'[k])
  BY <1>2, NoBadStep DEF Calm
<1>12. ASSUME NEW w \in Workers, pc'[w] = "write" PROVE loaded'[w] = fd'[cur'[w]]
  <2>1. CASE Handle(w)
    BY <1>1, <1>12, <2>1, ThreadKinds DEF Handle, Goto
  <2>2. CASE pc'[w] = pc[w] /\ cur'[w] = cur[w] /\ loaded'[w] = loaded[w] /\ req'[w] = req[w]
    <3>1. /\ cur[w] \in Clients /\ req[w] \in Own(cur[w]) /\ loaded[w] = fd[cur[w]]
          /\ pc[w] = "write"
      BY <1>12, <2>2, AtWork DEF BasicInv, Serving, Calm
    <3>2. Pending(req[w]) /\ req[w][1] = cur[w] /\ req[w] \in Requests
      BY <3>1, RequestParts, ThreadKinds DEF Pending, InHand, Hands, Serving
    <3>3. ~ Eof(cur[w])
      BY <1>5, <3>1, <3>2, NoneWaits, ThreadKinds
    <3>4. PICK k \in Clients : k = cur[w]
      BY <3>1
    <3>5. ~ NoConn(k) /\ ~ Accept(k) /\ ~ Eof(k)
      BY <1>5, <3>3, <3>4, ThreadKinds
    <3>6. ~ err'[k]
      <4>1. ~ err[k] /\ ~ (SetConnError /\ cur[Main] = k)
        BY <3>5 DEF SetConnError, Calm
      <4> QED
        BY <1>1, <1>3, <4>1, ErrSteps
    <3>7. fd'[k] # None
      BY <3>5, <3>6, ConnKept DEF NoConn
    <3>8. fd'[k] = fd[k]
      BY <3>5, <3>7, FdGiven
    <3> QED
      BY <2>2, <3>1, <3>4, <3>8
  <2> QED
    BY <1>12, <2>1, <2>2, WriteSteps
<1> QED
  BY <1>6, <1>7, <1>9, <1>10, <1>11, <1>12, <1>0 DEF Calm

\* A connection stays in the list until its teardown takes it out.
LEMMA LinkedStep ==
    ASSUME BasicInv, Sockets, Unborn, Listed, Teardown, Linked, [Next]_vars
    PROVE  Linked'
<1>1. /\ conns \in Seq(Clients) /\ torn \in [Clients -> Nat]
      /\ cur \in [Threads -> Clients \union {None}]
  BY DEF BasicInv, Types
<1>2. ASSUME NEW k \in Clients, ~ NoConn(k)', torn'[k] = 0 PROVE k \in Range(conns')
  <2>1. CASE Accept(k)
    <3>1. conns' = Append(conns, k)
      BY <1>2, <2>1, Accepted DEF NoConn
    <3> QED
      BY <1>1, <3>1, AppendRange
  <2>2. ASSUME ~ Accept(k), torn[k] = 0 PROVE k \in Range(conns)
    <3>1. ~ NoConn(k)
      BY <1>2, <2>2, BlankStep DEF Blank
    <3> QED
      BY <2>2, <3>1 DEF Linked
  <2>3. CASE UNCHANGED <<conns, torn>> /\ ~ Accept(k)
    BY <1>2, <2>2, <2>3
  <2>4. ASSUME NEW j \in Clients, Accept(j), ~ Accept(k) PROVE k \in Range(conns')
    <3>1. torn' = torn /\ (conns' = conns \/ conns' = Append(conns, j))
      BY <2>4, Accepted
    <3>2. Range(Append(conns, j)) = Range(conns) \union {j}
      BY <1>1, AppendRange
    <3> QED
      BY <1>2, <2>2, <2>4, <3>1, <3>2
  <2>5. ASSUME NEW j \in Clients, torn' = [torn EXCEPT ![j] = @ + 1],
               Unlink(j) \/ (j \notin Range(conns) /\ conns' = conns), ~ Accept(k)
        PROVE  k \in Range(conns')
    <3>1. j # k /\ torn[k] = 0
      BY <1>1, <1>2, <2>5
    <3>2. k \in Range(conns)
      BY <2>2, <2>5, <3>1
    <3> QED
      BY <2>5, <3>1, <3>2, Unlinked
  <2> QED
    BY <2>1, <2>3, <2>4, <2>5, ListSteps
<1>3. ASSUME FailureLasts, "expiry" \notin setting.faults PROVE crash' # "list poison"
  <2>1. crash # "list poison"
    BY <1>3 DEF Linked
  <2>2. ASSUME NEW t \in Threads, Unlist(t) PROVE crash' = crash
    <3>1. cur[t] \in Clients /\ Tearing(t, cur[t])
      BY <2>2, AtWork DEF Unlist, Freeing, BasicInv, Tearing
    <3>2. torn[cur[t]] = 0
      BY <1>3, <3>1 DEF Teardown
    <3>3. cur[t] \in Range(conns)
      BY <3>1, <3>2 DEF Linked, Unborn
    <3> QED
      BY <2>2, <3>3 DEF Unlist
  <2>3. CASE \E k \in Clients : ClientStep(k) \/ Accept(k) \/ Dispatch(k)
    BY <2>1, <2>3 DEF ClientStep, Connect, Send, SendMalformed, Close, TimePasses, Accept, Dispatch
  <2>4. CASE ExpireStart \/ TryRead \/ Parse \/ HandleInline \/ PostParams \/ CreateJob \/ SetConnError
    BY <2>1, <2>4 DEF ExpireStart, TryRead, Parse, HandleInline, PostParams, CreateJob, SetConnError
  <2>5. CASE \E t \in Threads : DropRef(t) \/ EventDel(t) \/ CloseConn(t)
    BY <2>1, <2>5 DEF DropRef, EventDel, CloseConn
  <2>6. ~ ExpireVisit
    BY <1>3 DEF ExpireVisit, BasicInv, Control
  <2>7. CASE ExpireEnd
    BY <2>1, <2>7 DEF ExpireEnd
  <2>8. CASE \E w \in Workers : StartJob(w) \/ Handle(w) \/ GiveResponse(w)
    BY <2>1, <2>8 DEF StartJob, Handle, GiveResponse, Die
  <2>9. CASE UNCHANGED vars
    BY <2>1, <2>9 DEF vars
  <2> QED
    BY <2>1, <2>2, <2>3, <2>4, <2>5, <2>6, <2>7, <2>8, <2>9, ThreadKinds
       DEF Next, MainStep, WorkerStep, Free
<1>4. setting' = setting
  BY CrashKept
<1> QED
  BY <1>2, <1>3, <1>4 DEF Linked, FailureLasts

\* The invariant of the server with what it promises its clients.
THEOREM TcpAnswers == Spec => []AnswerInv
<1>1. Init /\ TcpInv => AnswerInv
  BY InitAnswers DEF AnswerInv
<1>2. AnswerInv /\ [Next]_vars /\ TcpInv' => AnswerInv'
  <2> SUFFICES ASSUME BasicInv, OnePlace, Unanswered, Sockets, Unborn, Failing, Listed,
                      Teardown, Calm, Answers, Linked, [Next]_vars, TcpInv'
               PROVE  Calm' /\ Answers' /\ Linked'
    BY DEF AnswerInv, TcpInv
  <2>1. Calm'
    BY CalmStep
  <2>2. (setting.threads = {} \/ Gentle)' => setting.threads = {} \/ Gentle
    BY CrashKept DEF Gentle
  <2>3. Answers'
    BY <2>2, AskerStep, SurvivalStep DEF Answers
  <2>4. Linked'
    BY LinkedStep
  <2> QED
    BY <2>1, <2>3, <2>4
<1> QED
  BY <1>1, <1>2, TcpInvariant, PTL DEF Spec

\* An undisturbed server hangs up only on a client that has closed itself:
\* conn_free never closes a connection with a request under way.
THEOREM TcpHangsUp == Spec => []HangsUpOnlyOnClosed
<1>1. AnswerInv => HangsUpOnlyOnClosed
  <2> SUFFICES ASSUME Calm, Undisturbed, NEW k \in Clients, hup[k] PROVE net[k] = "closed"
    BY DEF AnswerInv, HangsUpOnlyOnClosed
  <2>1. Gentle /\ "conn" \notin setting.faults
    BY DEF Undisturbed, Gentle
  <2> QED
    BY <2>1 DEF Calm, Eof
<1> QED
  BY <1>1, TcpAnswers, PTL

\* give_response reaches the client whose request it answers: without worker
\* threads whatever goes wrong, and with them while every reference that stands
\* for a job is given back by that job.
THEOREM TcpOwnAnswers == Spec => []OwnAnswers
<1>1. AnswerInv => OwnAnswers
  BY DEF AnswerInv, OwnAnswers, KeepsReferences, Answers, Gentle
<1> QED
  BY <1>1, TcpAnswers, PTL

\* A connection that fails, while other requests of it are parsed, queued and
\* served, does not take the process down: no job finds gs unset, and conn_free
\* unlinks no connection twice.
THEOREM TcpSurvives == Spec => []SurvivesClosing
<1>1. AnswerInv => SurvivesClosing
  <2> SUFFICES ASSUME AnswerInv,
                      (setting.threads = {} /\ "expiry" \notin setting.faults) \/ KeepsReferences
               PROVE  crash = None
    BY DEF SurvivesClosing, SurvivesProcessError
  <2>1. setting.threads = {} \/ Gentle
    BY DEF KeepsReferences, Gentle
  <2>2. crash # "null gs"
    BY <2>1 DEF AnswerInv, Answers
  <2>3. FailureLasts /\ "expiry" \notin setting.faults
    BY DEF KeepsReferences, FailureLasts
  <2>4. crash # "list poison"
    BY <2>3 DEF AnswerInv, Linked
  <2> QED
    BY <2>2, <2>4 DEF AnswerInv, TcpInv, BasicInv, Types
<1> QED
  BY <1>1, TcpAnswers, PTL

-----------------------------------------------------------------------------
(* The bounds of a refercount *)

\* The requests of k that have not taken a reference yet.
Unreferenced(k) ==
    {r \in Own(k) : \/ r[2] > sent[k] \/ Fresh(r)
                    \/ InHand(Main, r) /\ pc[Main] \in {"inline", "postparams"}}

\* The threads that will give back a reference of k.
Givers(k) ==
    {t \in Threads : cur[t] = k /\ pc[t] \in Passes \union Serving \union {"drop"}}

\* A count goes up once for each request, and is followed no deeper than a
\* pass at -RefDepth + 1 and every worker can take it.
RefAbove == \A k \in Clients : ref[k] + Cardinality(Unreferenced(k)) <= 1 + MaxSend
RefBelow ==
    \A k \in Clients :
        ref[k] - Cardinality(Givers(k)) >=
            -RefDepth - Cardinality(Workers) - (IF crash = None THEN 0 ELSE 1)

\* A client's requests are finitely many.
LEMMA OwnFinite ==
    ASSUME NEW k \in Clients
    PROVE  IsFiniteSet(Own(k)) /\ Cardinality(Own(k)) = MaxSend
<1>1. MaxSend \in Nat
  BY Bounds
<1>2. IsFiniteSet(1 .. MaxSend) /\ Cardinality(1 .. MaxSend) = IF 1 > MaxSend THEN 0 ELSE MaxSend - 1 + 1
  <2>1. 1 \in Int /\ MaxSend \in Int
    BY <1>1
  <2> QED
    BY <2>1, FS_Interval
<1>3. IsFiniteSet({k}) /\ Cardinality({k}) = 1
  BY FS_Singleton
<1>4. IsFiniteSet(Own(k)) /\ Cardinality(Own(k)) = 1 * Cardinality(1 .. MaxSend)
  BY <1>2, <1>3, FS_Product DEF Own
<1> QED
  BY <1>1, <1>2, <1>4

\* So are those that wait for a reference.
LEMMA UnreferencedFinite ==
    ASSUME BasicInv, NEW k \in Clients
    PROVE  IsFiniteSet(Unreferenced(k)) /\ Cardinality(Unreferenced(k)) \in 0 .. MaxSend
<1>1. IsFiniteSet(Own(k)) /\ Cardinality(Own(k)) = MaxSend
  BY OwnFinite
<1>2. Unreferenced(k) \in SUBSET Own(k)
  BY DEF Unreferenced
<1>3. IsFiniteSet(Unreferenced(k)) /\ Cardinality(Unreferenced(k)) <= Cardinality(Own(k))
  BY <1>1, <1>2, FS_Subset
<1>4. Cardinality(Unreferenced(k)) \in Nat
  BY <1>3, FS_CardinalityType
<1> QED
  BY <1>1, <1>3, <1>4, Bounds

\* Only sending makes a request fresh.
LEMMA FreshSteps ==
    ASSUME BasicInv, OnePlace, [Next]_vars, NEW r \in Requests, Fresh(r)'
    PROVE  Fresh(r) \/ \E k \in Clients : Send(k) /\ r = <<k, sent[k] + 1>>
<1> USE DEF Fresh
<1>1. ASSUME NEW k \in Clients, Send(k) PROVE Fresh(r) \/ r = <<k, sent[k] + 1>>
  BY <1>1, SendPlaces
<1>2. ASSUME NEW k \in Clients, SendMalformed(k) PROVE Fresh(r)
  BY <1>2, MalformedPlaces
<1>3. CASE TryRead
  BY <1>3, ReadPlaces
<1>4. CASE Parse /\ rbuf' # rbuf
  BY <1>4, ParsePlaces
<1>5. CASE CreateJob
  BY <1>5, CreatePlaces DEF Unread, Unparsed
<1>6. CASE \E w \in Workers : StartJob(w)
  BY <1>6, StartPlaces DEF Unread, Unparsed
<1>7. CASE Quiet
  BY <1>7, QuietPlaces
<1> QED
  BY <1>1, <1>2, <1>3, <1>4, <1>5, <1>6, <1>7, QuietSteps

\* The event loop takes its requests from the parsed connection.
LEMMA MainHandSteps ==
    ASSUME BasicInv, OnePlace, [Next]_vars, NEW r \in Requests, InHand(Main, r)'
    PROVE  InHand(Main, r) \/ (Unparsed(r) /\ ~ \E q \in Requests : InHand(Main, q))
<1>1. CASE \E k \in Clients : Send(k)
  BY <1>1, SendPlaces, ThreadKinds
<1>2. CASE \E k \in Clients : SendMalformed(k)
  BY <1>2, MalformedPlaces, ThreadKinds
<1>3. CASE TryRead
  BY <1>3, ReadPlaces, ThreadKinds
<1>4. CASE Parse /\ rbuf' # rbuf
  BY <1>4, ParsePlaces, ThreadKinds
<1>5. CASE CreateJob
  BY <1>5, CreatePlaces, ThreadKinds
<1>6. CASE \E w \in Workers : StartJob(w)
  BY <1>6, StartPlaces, ThreadKinds
<1>7. CASE Quiet
  BY <1>7, QuietPlaces, ThreadKinds
<1> QED
  BY <1>1, <1>2, <1>3, <1>4, <1>5, <1>6, <1>7, QuietSteps

\* No request waits for a reference that did not before.
LEMMA UnreferencedFalls ==
    ASSUME BasicInv, BasicInv', OnePlace, [Next]_vars, NEW k \in Clients
    PROVE  Unreferenced(k)' \subseteq Unreferenced(k)
<1> SUFFICES ASSUME NEW r \in Unreferenced(k)' PROVE r \in Unreferenced(k)
  OBVIOUS
<1>1. /\ r \in Own(k) /\ r \in Requests /\ r[1] = k /\ r[2] \in 1 .. MaxSend
      /\ \/ r[2] > sent'[k] \/ Fresh(r)'
         \/ InHand(Main, r)' /\ pc'[Main] \in {"inline", "postparams"}
  BY RequestParts DEF Unreferenced
<1>2. sent \in [Clients -> 0 .. MaxSend] /\ sent[k] \in Nat /\ r[2] \in Nat
  <2>1. sent \in [Clients -> 0 .. MaxSend]
    BY DEF BasicInv, Types
  <2> QED
    BY <1>1, <2>1, Bounds
<1>3. CASE r[2] > sent'[k]
  <2>1. sent'[k] >= sent[k]
    <3>1. CASE sent' = sent
      BY <1>2, <3>1
    <3>2. ASSUME NEW j \in Clients, Send(j) PROVE sent'[k] >= sent[k]
      <4>1. sent' = [sent EXCEPT ![j] = @ + 1]
        BY <3>2 DEF Send
      <4> QED
        BY <1>2, <4>1, Bounds
    <3> QED
      BY <3>1, <3>2, SentRuns
  <2>2. sent'[k] \in Nat
    <3>1. sent' \in [Clients -> 0 .. MaxSend]
      BY DEF BasicInv, Types
    <3> QED
      BY <3>1, Bounds
  <2> QED
    BY <1>1, <1>2, <1>3, <2>1, <2>2 DEF Unreferenced
<1>4. CASE Fresh(r)'
  <2>1. Fresh(r) \/ r[2] > sent[k]
    <3>1. ASSUME NEW j \in Clients, r = <<j, sent[j] + 1>> PROVE r[2] > sent[k]
      BY <1>1, <1>2, <3>1
    <3> QED
      BY <1>1, <1>4, <3>1, FreshSteps
  <2> QED
    BY <1>1, <2>1 DEF Unreferenced
<1>5. CASE InHand(Main, r)' /\ pc'[Main] \in {"inline", "postparams"}
  <2>1. CASE Unparsed(r)
    BY <1>1, <2>1 DEF Unreferenced, Fresh
  <2>2. CASE InHand(Main, r) /\ ~ Unparsed(r)
    <3>1. ~ Parse
      BY <2>2 DEF Parse, InHand, Hands, Serving
    <3>2. pc'[Main] = pc[Main]
      BY <1>5, <3>1, MainSteps
    <3> QED
      BY <1>1, <1>5, <2>2, <3>2 DEF Unreferenced
  <2> QED
    BY <1>1, <1>5, <2>1, <2>2, MainHandSteps
<1> QED
  BY <1>1, <1>3, <1>4, <1>5

\* handle_one_request takes one reference for the request in its hands.
LEMMA AboveStep ==
    BasicInv /\ BasicInv' /\ OnePlace /\ Unanswered /\ Sockets /\ Unborn /\ RefAbove /\ [Next]_vars
        => RefAbove'
<1> SUFFICES ASSUME BasicInv, BasicInv', OnePlace, Unanswered, Sockets, Unborn, RefAbove,
                    [Next]_vars, NEW k \in Clients
             PROVE  ref'[k] + Cardinality(Unreferenced(k)') <= 1 + MaxSend
  BY DEF RefAbove
<1>1. /\ IsFiniteSet(Unreferenced(k)) /\ Cardinality(Unreferenced(k)) \in 0 .. MaxSend
      /\ MaxSend \in Nat
  BY UnreferencedFinite, Bounds
<1>2. Unreferenced(k)' \in SUBSET Unreferenced(k)
  BY UnreferencedFalls
<1>3. /\ IsFiniteSet(Unreferenced(k)')
      /\ Cardinality(Unreferenced(k)') <= Cardinality(Unreferenced(k))
  BY <1>1, <1>2, FS_Subset
<1>4. Cardinality(Unreferenced(k)') \in Nat
  BY <1>3, FS_CardinalityType
<1>5. ref[k] \in Int /\ ref'[k] \in Int /\ ref \in [Clients -> Int]
  BY DEF BasicInv, Types
<1>6. ref[k] + Cardinality(Unreferenced(k)) <= 1 + MaxSend
  BY DEF RefAbove
<1>7. CASE Accept(k)
  <2>1. ref'[k] <= 1
    <3>1. (ref' = ref /\ ref[k] = 0) \/ ref' = [ref EXCEPT ![k] = 1]
      BY <1>7, Accepted DEF Unborn
    <3> QED
      BY <1>5, <3>1
  <2> QED
    BY <1>1, <1>3, <1>4, <1>5, <2>1
<1>8. CASE PostParams /\ cur[Main] = k
  <2>1. CASE ref' = ref
    BY <1>1, <1>3, <1>4, <1>5, <1>6, <2>1
  <2>2. CASE ref' = [ref EXCEPT ![k] = @ + 1] /\ pc'[Main] = "post"
    <3> DEFINE q == req[Main]
    <3>1. /\ q \in Own(k) /\ InHand(Main, q) /\ pc[Main] = "postparams"
          /\ UNCHANGED <<inbox, rbuf, sent>>
      BY <1>8, AtWork DEF PostParams, BasicInv, InHand, Hands
    <3>2. q \in Requests /\ q[1] = k /\ q \in Unreferenced(k)
      BY <3>1, RequestParts DEF Unreferenced
    <3>3. q[2] <= sent[k] /\ ~ Fresh(q)
      BY <3>1, <3>2, ThreadKinds DEF Unanswered, Pending, OnePlace
    <3>4. PICK r \in Requests : r = q
      BY <3>2
    <3>5. r \notin Unreferenced(k)'
      <4>1. ~ Fresh(r)'
        BY <3>1, <3>3, <3>4 DEF Fresh, Unread, Unparsed
      <4>2. ~ r[2] > sent'[k]
        <5>1. sent[k] \in Int /\ r[2] \in Int
          <6>1. sent \in [Clients -> 0 .. MaxSend] /\ r[2] \in 1 .. MaxSend
            BY RequestParts DEF BasicInv, Types
          <6> QED
            BY <1>1, <6>1
        <5> QED
          BY <3>1, <3>3, <3>4, <5>1
      <4> QED
        BY <2>2, <4>1, <4>2 DEF Unreferenced
    <3>6. Unreferenced(k)' \in SUBSET (Unreferenced(k) \ {r})
      BY <1>2, <3>5
    <3>7. /\ IsFiniteSet(Unreferenced(k) \ {r})
          /\ Cardinality(Unreferenced(k) \ {r}) = Cardinality(Unreferenced(k)) - 1
      BY <1>1, <3>2, <3>4, FS_RemoveElement
    <3>8. Cardinality(Unreferenced(k)') <= Cardinality(Unreferenced(k)) - 1
      BY <3>6, <3>7, FS_Subset
    <3>9. ref'[k] = ref[k] + 1
      BY <1>5, <2>2
    <3> QED
      BY <1>1, <1>4, <1>5, <1>6, <3>8, <3>9
  <2> QED
    <3>1. pc \in [Threads -> Stations]
      BY DEF BasicInv, Types
    <3> QED
      BY <1>8, <2>1, <2>2, <3>1, ThreadKinds DEF PostParams, Goto
<1>9. CASE ~ Accept(k) /\ ~ (PostParams /\ cur[Main] = k)
  <2>1. ref'[k] <= ref[k]
    BY <1>9, CountFalls
  <2> QED
    BY <1>1, <1>3, <1>4, <1>5, <1>6, <2>1
<1> QED
  BY <1>7, <1>8, <1>9

\* Threads are finitely many, and the event loop is one of them.
LEMMA ThreadSets ==
    ASSUME NEW G \in SUBSET Threads
    PROVE  /\ IsFiniteSet(G) /\ Cardinality(G) \in 0 .. Cardinality(Workers) + 1
           /\ Cardinality(Workers) \in Nat
           /\ Main \notin G => Cardinality(G) <= Cardinality(Workers)
<1>1. IsFiniteSet(Workers) /\ Cardinality(Workers) \in Nat
  BY TcpServerAssumption, FS_CardinalityType
<1>2. IsFiniteSet(Threads) /\ Cardinality(Threads) = Cardinality(Workers) + 1
  BY <1>1, ThreadKinds, FS_AddElement DEF Threads
<1>3. IsFiniteSet(G) /\ Cardinality(G) <= Cardinality(Threads)
  BY <1>2, FS_Subset
<1>4. Cardinality(G) \in Nat
  BY <1>3, FS_CardinalityType
<1>5. ASSUME Main \notin G PROVE Cardinality(G) <= Cardinality(Workers)
  <2>1. G \in SUBSET Workers
    BY <1>5 DEF Threads
  <2> QED
    BY <1>1, <2>1, FS_Subset
<1> QED
  BY <1>1, <1>2, <1>3, <1>4, <1>5

\* A thread gets hold of a connection by dispatching it or by taking its job.
LEMMA GiverSteps ==
    ASSUME BasicInv, [Next]_vars, NEW k \in Clients, NEW t \in Threads, t \in Givers(k)'
    PROVE  \/ t \in Givers(k)
           \/ t = Main /\ Dispatch(k)
           \/ t \in Workers /\ StartJob(t)
<1>1. /\ pc \in [Threads -> Stations] /\ cur \in [Threads -> Clients \union {None}]
  BY DEF BasicInv, Types
<1>2. cur'[t] = k /\ pc'[t] \in Passes \union Serving \union {"drop"}
  BY DEF Givers
<1> DEFINE held == cur'[t] = cur[t] /\ pc[t] \in Passes \union Serving \union {"drop"}
<1>3. held => t \in Givers(k)
  BY <1>2 DEF Givers
<1>4. CASE UNCHANGED <<pc, cur>>
  BY <1>2, <1>3, <1>4
<1>5. CASE \E j \in Clients : ClientStep(j) \/ Accept(j)
  <2>1. UNCHANGED <<pc, cur>>
    BY <1>5 DEF ClientStep, Connect, Send, SendMalformed, Close, TimePasses, Accept
  <2> QED
    BY <1>4, <2>1
<1>6. ASSUME NEW j \in Clients, Dispatch(j) PROVE held \/ (t = Main /\ j = k)
  BY <1>1, <1>2, <1>6, ThreadKinds DEF Dispatch, Goto
<1>7. CASE TryRead \/ HandleInline \/ PostParams \/ CreateJob \/ SetConnError
  BY <1>1, <1>2, <1>3, <1>7, ThreadKinds
     DEF TryRead, HandleInline, PostParams, CreateJob, SetConnError, Goto, Passes
<1>8. CASE Parse
  BY <1>1, <1>2, <1>3, <1>8, ThreadKinds DEF Parse, Goto, Passes, Serving
<1>9. CASE ExpireStart \/ ExpireEnd
  BY <1>1, <1>2, <1>3, <1>9, ThreadKinds DEF ExpireStart, ExpireEnd, Goto, Passes, Serving
<1>10. ASSUME NEW u \in Threads, Free(u) PROVE held
  <2>1. /\ \A v \in Threads : v # u => (pc'[v] = pc[v] /\ cur'[v] = cur[v]) \/ pc'[v] = "dead"
        /\ pc'[u] \in {"evdel", "close", "unlist", "loop", "idle", "dead"}
    BY <1>1, <1>10, ThreadKinds DEF Free, DropRef, EventDel, CloseConn, Unlist, Leave, Goto, Die
  <2> QED
    BY <1>2, <2>1 DEF Passes, Serving
<1>11. CASE ExpireVisit
  <2>1. UNCHANGED <<pc, cur>>
    BY <1>2, <1>11 DEF ExpireVisit, Die, Passes, Serving
  <2> QED
    BY <1>4, <2>1
<1>12. ASSUME NEW w \in Workers, StartJob(w) PROVE held \/ t = w
  BY <1>1, <1>2, <1>12, ThreadKinds DEF StartJob, Goto, Die, Passes, Serving
<1>13. ASSUME NEW w \in Workers, Handle(w) \/ GiveResponse(w) PROVE held
  BY <1>1, <1>2, <1>13, ThreadKinds DEF Handle, GiveResponse, Goto, Serving
<1>14. CASE UNCHANGED vars
  BY <1>4, <1>14 DEF vars
<1> HIDE DEF held
<1> QED
  BY <1>3, <1>5, <1>6, <1>7, <1>8, <1>9, <1>10, <1>11, <1>12, <1>13, <1>14, ThreadKinds
     DEF Next, MainStep, WorkerStep

\* Only conn_free and the timer take a count down.
LEMMA CountStays ==
    ASSUME BasicInv, [Next]_vars, NEW k \in Clients, ~ Accept(k),
           \A t \in Threads : ~ (DropRef(t) /\ cur[t] = k),
           ~ (ExpireVisit /\ k = Head(pos))
    PROVE  ref'[k] >= ref[k]
<1>1. ref \in [Clients -> Int] /\ ref[k] \in Int
  BY DEF BasicInv, Types
<1>2. CASE ref' = ref
  BY <1>1, <1>2
<1>3. ASSUME NEW j \in Clients, Accept(j) PROVE ref'[k] >= ref[k]
  <2>1. j # k /\ (ref' = ref \/ ref' = [ref EXCEPT ![j] = 1])
    BY <1>3 DEF Accept
  <2> QED
    BY <1>1, <2>1
<1>4. CASE PostParams
  <2>1. ref' = ref \/ ref' = [ref EXCEPT ![cur[Main]] = @ + 1]
    BY <1>4 DEF PostParams
  <2> QED
    BY <1>1, <2>1
<1>5. ASSUME NEW t \in Threads, DropRef(t) PROVE ref'[k] >= ref[k]
  <2>1. cur[t] # k /\ ref' = [ref EXCEPT ![cur[t]] = @ - 1]
    BY <1>5 DEF DropRef
  <2> QED
    BY <1>1, <2>1
<1>6. CASE ExpireVisit
  <2>1. k # Head(pos) /\ (ref' = ref \/ ref' = [ref EXCEPT ![Head(pos)] = @ - 1])
    BY <1>6 DEF ExpireVisit
  <2> QED
    BY <1>1, <2>1
<1>7. CASE \E j \in Clients : ClientStep(j) \/ Dispatch(j)
  BY <1>2, <1>7 DEF ClientStep, Connect, Send, SendMalformed, Close, TimePasses, Dispatch
<1>8. CASE ExpireStart \/ TryRead \/ Parse \/ HandleInline \/ CreateJob \/ SetConnError \/ ExpireEnd
  BY <1>2, <1>8 DEF ExpireStart, TryRead, Parse, HandleInline, CreateJob, SetConnError, ExpireEnd
<1>9. CASE \E t \in Threads : EventDel(t) \/ CloseConn(t) \/ Unlist(t)
  BY <1>2, <1>9 DEF EventDel, CloseConn, Unlist
<1>10. CASE \E w \in Workers : StartJob(w) \/ Handle(w) \/ GiveResponse(w)
  BY <1>2, <1>10 DEF StartJob, Handle, GiveResponse
<1>11. CASE UNCHANGED vars
  BY <1>2, <1>11 DEF vars
<1> QED
  BY <1>3, <1>4, <1>5, <1>6, <1>7, <1>8, <1>9, <1>10, <1>11, ThreadKinds
     DEF Next, MainStep, WorkerStep, Free

\* Whoever gives back a reference of a sound connection runs one of its jobs,
\* or is the event loop.
LEMMA SoundCount ==
    ASSUME BasicInv', Counted', NEW k \in Clients, crash' = None, fd'[k] # None, ~ err'[k]
    PROVE  ref'[k] - Cardinality(Givers(k)') >= 0
<1>1. IsFiniteSet(Jobs(k)') /\ Cardinality(Jobs(k)') \in Nat
  <2>1. Jobs(k)' \in SUBSET Own(k)
    BY RequestParts DEF Jobs
  <2> QED
    BY <2>1, OwnFinite, FS_Subset, FS_CardinalityType
<1>2. IsFiniteSet(Runners(k)') /\ Cardinality(Runners(k)') \in Nat
  <2>1. Runners(k)' \in SUBSET Workers /\ IsFiniteSet(Workers)
    BY TcpServerAssumption DEF Runners
  <2> QED
    BY <2>1, FS_Subset, FS_CardinalityType
<1>3. /\ Outstanding(k)' \in Int /\ Outstanding(k)' >= Cardinality(Runners(k)')
      /\ ref'[k] >= 1 + Outstanding(k)' /\ ref'[k] \in Int
  <2>1. Outstanding(k)' = Cardinality(Jobs(k)') + Cardinality(Runners(k)')
                          + (IF pc'[Main] = "post" /\ cur'[Main] = k THEN 1 ELSE 0)
    BY DEF Outstanding, Jobs, Runners
  <2>2. ref'[k] >= 1 + Outstanding(k)'
    BY DEF Counted
  <2>3. ref'[k] \in Int
    BY DEF BasicInv, Types
  <2> QED
    BY <1>1, <1>2, <2>1, <2>2, <2>3
<1>4. Givers(k)' \in SUBSET (Runners(k)' \union {Main})
  BY DEF Givers, Runners, Threads
<1>5. /\ IsFiniteSet(Runners(k)' \union {Main})
      /\ Cardinality(Runners(k)' \union {Main}) <= Cardinality(Runners(k)') + 1
  <2>1. \A R : IsFiniteSet(R) /\ Cardinality(R) \in Nat =>
            IsFiniteSet(R \union {Main}) /\ Cardinality(R \union {Main}) <= Cardinality(R) + 1
    <3> SUFFICES ASSUME NEW R, IsFiniteSet(R), Cardinality(R) \in Nat
                 PROVE  /\ IsFiniteSet(R \union {Main})
                        /\ Cardinality(R \union {Main}) <= Cardinality(R) + 1
      OBVIOUS
    <3>1. /\ IsFiniteSet(R \union {Main})
          /\ \/ Cardinality(R \union {Main}) = Cardinality(R)
             \/ Cardinality(R \union {Main}) = Cardinality(R) + 1
      BY FS_AddElement
    <3> QED
      BY <3>1
  <2> QED
    BY <1>2, <2>1
<1>6. IsFiniteSet(Givers(k)') /\ Cardinality(Givers(k)') <= Cardinality(Runners(k)' \union {Main})
  BY <1>4, <1>5, FS_Subset
<1>7. Cardinality(Givers(k)') \in Nat /\ Cardinality(Runners(k)' \union {Main}) \in Nat
  BY <1>5, <1>6, FS_CardinalityType
<1> QED
  BY <1>2, <1>3, <1>5, <1>6, <1>7

\* A pass is only begun above -RefDepth, and the timer, which does not look at
\* the jobs, kills the process when it takes the last reference.
LEMMA BelowStep ==
    BasicInv /\ BasicInv' /\ OnePlace /\ Sockets /\ Unborn /\ Counted' /\ RefBelow /\ [Next]_vars
        => RefBelow'
<1> SUFFICES ASSUME BasicInv, BasicInv', OnePlace, Sockets, Unborn, Counted', RefBelow, [Next]_vars,
                    NEW k \in Clients
             PROVE  ref'[k] - Cardinality(Givers(k)') >=
                        -RefDepth - Cardinality(Workers) - (IF crash' = None THEN 0 ELSE 1)
  BY DEF RefBelow
<1>1. /\ Cardinality(Workers) \in Nat /\ RefDepth \in Nat
      /\ IsFiniteSet(Givers(k)) /\ Cardinality(Givers(k)) \in Nat
      /\ IsFiniteSet(Givers(k)') /\ Cardinality(Givers(k)') \in Nat
      /\ Cardinality(Givers(k)') <= Cardinality(Workers) + 1
      /\ Main \notin Givers(k)' => Cardinality(Givers(k)') <= Cardinality(Workers)
  <2>1. Givers(k) \in SUBSET Threads /\ Givers(k)' \in SUBSET Threads
    BY DEF Givers
  <2>2. \A G \in SUBSET Threads : Cardinality(G) \in 0 .. Cardinality(Workers) + 1 => Cardinality(G) \in Nat
    OBVIOUS
  <2> QED
    BY <2>1, <2>2, ThreadSets, Bounds
<1>2. ref \in [Clients -> Int] /\ ref[k] \in Int /\ ref'[k] \in Int
  BY DEF BasicInv, Types
<1>3. ref[k] - Cardinality(Givers(k)) >=
            -RefDepth - Cardinality(Workers) - (IF crash = None THEN 0 ELSE 1)
  BY DEF RefBelow
<1>4. crash # None => crash' # None
  BY CrashKept
<1>5. CASE Accept(k)
  <2>1. \A t \in Threads : cur'[t] # k
    BY <1>5, Accepted DEF Unborn
  <2>2. Givers(k)' = {}
    BY <2>1 DEF Givers
  <2>3. ref'[k] >= 0
    <3>1. (ref' = ref /\ ref[k] = 0) \/ ref' = [ref EXCEPT ![k] = 1]
      BY <1>5, Accepted DEF Unborn
    <3> QED
      BY <1>2, <3>1
  <2> QED
    BY <1>1, <1>2, <2>2, <2>3, FS_EmptySet
<1>6. CASE Dispatch(k)
  <2>1. ref[k] > -RefDepth /\ ref' = ref
    BY <1>6 DEF Dispatch
  <2> QED
    BY <1>1, <1>2, <2>1
<1>7. ASSUME NEW w \in Workers, StartJob(w), cur'[w] = k
      PROVE  ref'[k] - Cardinality(Givers(k)') >=
                -RefDepth - Cardinality(Workers) - (IF crash' = None THEN 0 ELSE 1)
  <2>1. todo[w] # <<>> /\ todo[w] \in Seq(Requests) /\ k = Head(todo[w])[1]
    <3>1. cur \in [Threads -> Clients \union {None}] /\ todo \in [Workers -> Seq(Requests)]
      BY DEF BasicInv, Types
    <3> QED
      BY <1>7, <3>1, ThreadKinds DEF StartJob
  <2>2. ref' = ref /\ UNCHANGED <<fd, err>>
    BY <1>7 DEF StartJob
  <2>3. CASE err[k]
    <3>1. \A t \in Threads : pc'[t] = "dead"
      BY <1>7, <2>1, <2>3 DEF StartJob, Die
    <3>2. Givers(k)' = {} /\ crash' # None
      BY <3>1, ThreadKinds DEF Givers, Passes, Serving, BasicInv, Control
    <3> QED
      BY <1>1, <1>2, <1>3, <2>2, <3>2, FS_EmptySet
  <2>4. CASE ~ err[k]
    <3>1. crash' = None
      <4>1. crash' = crash /\ pc[w] = "idle"
        BY <1>7, <2>1, <2>4 DEF StartJob
      <4> QED
        BY <4>1, ThreadKinds DEF BasicInv, Control
    <3>2. fd[k] # None
      <4>1. Head(todo[w]) \in Range(todo[w])
        BY <2>1, TailRange
      <4> QED
        BY <2>1, <2>4, <4>1 DEF Unborn, NoConn
    <3>3. ref'[k] - Cardinality(Givers(k)') >= 0
      BY <2>2, <2>4, <3>1, <3>2, SoundCount
    <3> QED
      BY <1>1, <1>2, <3>1, <3>3
  <2> QED
    BY <2>3, <2>4
<1>8. ASSUME NEW t \in Threads, DropRef(t), cur[t] = k
      PROVE  ref'[k] - Cardinality(Givers(k)') >=
                -RefDepth - Cardinality(Workers) - (IF crash' = None THEN 0 ELSE 1)
  <2>1. ref'[k] = ref[k] - 1 /\ crash' = crash
    BY <1>2, <1>8 DEF DropRef
  <2>2. t \in Givers(k) /\ t \notin Givers(k)'
    <3>1. pc[t] = "drop" /\ pc'[t] \in {"loop", "idle", "evdel"}
      <4>1. pc \in [Threads -> Stations]
        BY DEF BasicInv, Types
      <4> QED
        BY <1>8, <4>1 DEF DropRef, Leave, Goto
    <3> QED
      BY <1>8, <3>1 DEF Givers, Passes, Serving
  <2>3. Givers(k)' \in SUBSET (Givers(k) \ {t})
    <3>1. ASSUME NEW u \in Threads, u \in Givers(k)' PROVE u \in Givers(k)
      <4>1. ~ Dispatch(k) /\ ~ (u \in Workers /\ StartJob(u))
        <5>1. pc[t] = "drop"
          BY <1>8 DEF DropRef
        <5>2. ref' # ref
          BY <1>2, <2>1
        <5> QED
          BY <5>2 DEF Dispatch, StartJob
      <4> QED
        BY <3>1, <4>1, GiverSteps
    <3> QED
      BY <2>2, <3>1 DEF Givers
  <2>4. /\ IsFiniteSet(Givers(k) \ {t})
        /\ Cardinality(Givers(k) \ {t}) = Cardinality(Givers(k)) - 1
    BY <1>1, <2>2, FS_RemoveElement
  <2>5. Cardinality(Givers(k)') <= Cardinality(Givers(k)) - 1
    BY <2>3, <2>4, FS_Subset
  <2> QED
    BY <1>1, <1>2, <1>3, <2>1, <2>5
<1>9. CASE ExpireVisit /\ k = Head(pos)
  <2>1. pc[Main] = "scan" /\ crash = None
    BY <1>9, ThreadKinds DEF ExpireVisit, BasicInv, Control
  <2>2. CASE UNCHANGED <<pc, ref, crash>>
    <3>1. Givers(k)' = Givers(k)
      BY <1>9, <2>2 DEF ExpireVisit, Givers
    <3> QED
      BY <1>3, <2>2, <3>1
  <2>3. CASE ref[k] > 1 /\ ref' = [ref EXCEPT ![k] = @ - 1] /\ UNCHANGED <<pc, crash>>
    <3>1. Main \notin Givers(k)'
      BY <2>1, <2>3 DEF Givers, Passes, Serving
    <3>2. ref'[k] >= 1
      BY <1>2, <2>3
    <3> QED
      BY <1>1, <1>2, <2>1, <2>3, <3>1, <3>2
  <2>4. CASE ref' = [ref EXCEPT ![k] = @ - 1] /\ Die("list poison")
    <3>1. Givers(k)' = {} /\ crash' # None
      BY <2>4, NoneApart DEF Die, Givers, Passes, Serving
    <3>2. ref'[k] = ref[k] - 1
      BY <1>2, <2>4
    <3> QED
      BY <1>1, <1>2, <1>3, <2>1, <3>1, <3>2, FS_EmptySet
  <2> QED
    BY <1>9, <2>2, <2>3, <2>4 DEF ExpireVisit
<1>10. ASSUME ~ Accept(k), ~ Dispatch(k), \A w \in Workers : ~ (StartJob(w) /\ cur'[w] = k),
              \A t \in Threads : ~ (DropRef(t) /\ cur[t] = k), ~ (ExpireVisit /\ k = Head(pos))
       PROVE  ref'[k] - Cardinality(Givers(k)') >=
                -RefDepth - Cardinality(Workers) - (IF crash' = None THEN 0 ELSE 1)
  <2>1. ref'[k] >= ref[k]
    BY <1>10, CountStays
  <2>2. ASSUME NEW t \in Threads, t \in Givers(k)' PROVE t \in Givers(k)
    <3>1. cur'[t] = k
      BY <2>2 DEF Givers
    <3> QED
      BY <1>10, <2>2, <3>1, GiverSteps
  <2>3. Givers(k)' \in SUBSET Givers(k)
    BY <2>2 DEF Givers
  <2>4. Cardinality(Givers(k)') <= Cardinality(Givers(k))
    BY <1>1, <2>3, FS_Subset
  <2> QED
    BY <1>1, <1>2, <1>3, <1>4, <2>1, <2>4
<1> QED
  BY <1>5, <1>6, <1>7, <1>8, <1>9, <1>10

\* To start with, no count is above or below.
LEMMA InitBounds == Init => RefAbove /\ RefBelow
<1> SUFFICES ASSUME Init, NEW k \in Clients
             PROVE  /\ ref[k] + Cardinality(Unreferenced(k)) <= 1 + MaxSend
                    /\ ref[k] - Cardinality(Givers(k)) >=
                            -RefDepth - Cardinality(Workers) - (IF crash = None THEN 0 ELSE 1)
  BY DEF RefAbove, RefBelow
<1>1. ref[k] = 0 /\ crash = None /\ \A t \in Threads : cur[t] # k
  BY NoneApart DEF Init
<1>2. Cardinality(Unreferenced(k)) \in 0 .. MaxSend /\ MaxSend \in Nat
  BY InitBasic, UnreferencedFinite, Bounds
<1>3. Givers(k) = {}
  BY <1>1 DEF Givers
<1>4. Cardinality(Workers) \in Nat /\ RefDepth \in Nat
  BY TcpServerAssumption, FS_CardinalityType
<1> QED
  BY <1>1, <1>2, <1>3, <1>4, FS_EmptySet

\* Every variable holds what it should, the refercounts between the bounds
\* that the model follows them to: the requests that may still take a
\* reference above, the threads that may still give one back below.
THEOREM TcpTypes == Spec => []TypeOK
<1>1. Init => RefAbove /\ RefBelow
  BY InitBounds
<1>2. TcpInv /\ TcpInv' /\ RefAbove /\ RefBelow /\ [Next]_vars => RefAbove' /\ RefBelow'
  BY AboveStep, BelowStep DEF TcpInv
<1>3. TcpInv /\ RefAbove /\ RefBelow => TypeOK
  <2> SUFFICES ASSUME Types, BasicInv, RefAbove, RefBelow PROVE TypeOK
    BY DEF TcpInv, BasicInv
  <2>1. ASSUME NEW k \in Clients
        PROVE  ref[k] \in -RefDepth - Cardinality(Workers) - 1 .. MaxSend + 1
    <3>1. /\ Cardinality(Unreferenced(k)) \in 0 .. MaxSend /\ MaxSend \in Nat
          /\ Cardinality(Givers(k)) \in 0 .. Cardinality(Workers) + 1
          /\ Cardinality(Workers) \in Nat /\ RefDepth \in Nat
      <4>1. Givers(k) \in SUBSET Threads
        BY DEF Givers
      <4> QED
        BY <4>1, ThreadSets, UnreferencedFinite, Bounds
    <3>2. ref[k] \in Int
      BY DEF Types
    <3>3. /\ ref[k] + Cardinality(Unreferenced(k)) <= 1 + MaxSend
          /\ ref[k] - Cardinality(Givers(k)) >= -RefDepth - Cardinality(Workers) - 1
      <4>1. ref[k] - Cardinality(Givers(k)) >=
                -RefDepth - Cardinality(Workers) - (IF crash = None THEN 0 ELSE 1)
        BY DEF RefBelow
      <4> QED
        BY <3>1, <3>2, <4>1 DEF RefAbove
    <3> QED
      BY <3>1, <3>2, <3>3
  <2>2. \A S : \A q \in Seq(S) : Range(q) \subseteq S
    BY DEF Range
  <2>3. /\ \A k \in Clients : Range(inbox[k]) \union Range(rbuf[k]) \subseteq Requests \union {Bad}
        /\ Range(conns) \subseteq Clients /\ Range(pos) \subseteq Clients
        /\ \A w \in Workers : Range(todo[w]) \subseteq Requests
    <3>1. /\ \A k \in Clients : inbox[k] \in Seq(Requests \union {Bad})
          /\ \A k \in Clients : rbuf[k] \in Seq(Requests \union {Bad})
          /\ conns \in Seq(Clients) /\ pos \in Seq(Clients)
          /\ \A w \in Workers : todo[w] \in Seq(Requests)
      BY DEF Types
    <3> QED
      BY <2>2, <3>1
  <2>4. Stations = {"loop", "read", "parse", "inline", "postparams", "post",
                    "fail", "scan", "idle", "handle", "write",
                    "drop", "evdel", "close", "unlist", "dead"}
    BY DEF Stations, Passes, Serving, Freeing
  <2> QED
    BY <2>1, <2>3, <2>4 DEF Types, TypeOK
<1> QED
  BY <1>1, <1>2, <1>3, TcpInvariant, PTL DEF Spec
=============================================================================
