-------------------------------- MODULE Wire --------------------------------
(***************************************************************************)
(* How requests and answers are cut out of the byte streams of one TCP     *)
(* connection: try_read_tcp, basic_read_request, handle_one_request and    *)
(* post_handle of netskeleton.c, parse_cmd of server.cpp, and send_request *)
(* and recv_response of message.cpp in the client.  The job queues are     *)
(* those of AbstractPool.                                                  *)
(*                                                                         *)
(* A message is a head, a magic cell and a length cell, and the cells of   *)
(* its body; cell i of message m is <<m, i>>.  Request m is the m-th query *)
(* of the client and answer m what the server says to it.                  *)
(***************************************************************************)
EXTENDS Integers, Sequences, FiniteSets, SequencesExt

CONSTANTS
    RequestLens,    \* the lengths of the requests' bodies, in cells
    AnswerLens,     \* the lengths of the answers' bodies
    FirstSize,      \* DATA_BUFFER_SIZE, in cells
    MaxAllocs,      \* 8: how often one call of try_read_tcp may double rsize
    Misread,        \* the length read from a cell that is no length cell
    Workers,        \* the threads a server may have
    Settings        \* the servers and surroundings looked at, see Setting

FaultKinds == {
    "segments",     \* what is sent at once arrives in parts
    "pipeline",     \* the client sends before it has its earlier answers
    "cutrequest",   \* writev takes part of a request
    "full",         \* the socket has no room for all of an answer
    "realloc",      \* rbuf cannot grow
    "calloc" }      \* memory for a request or an answer is not there

\* gs->pworks, none meaning mt = 0.
Setting == [threads : SUBSET Workers, faults : SUBSET FaultKinds]

ASSUME WireAssumption ==
    /\ RequestLens \in Seq(Nat) /\ AnswerLens \in Seq(Nat)
    /\ Len(RequestLens) = Len(AnswerLens)
    /\ IsFiniteSet(Workers)
    /\ FirstSize \in Nat \ {0} /\ MaxAllocs \in Nat \ {0} /\ Misread \in Nat
    /\ Settings \subseteq Setting

Queries == 1 .. Len(RequestLens)
HeadLen == 2    \* sizeof(head)

Message(m, len) == [i \in 1 .. HeadLen + len |-> <<m, i>>]
Request(m) == Message(m, RequestLens[m])

VARIABLES
    threads, faults,    \* of one of Settings; they never change
    up, down,   \* cells under way to the server and to the client
    (* the server *)
    spc,        \* "loop", "read", "parse", "handle" or "closed"
    rbuf,       \* the rbytes cells at rcurr
    rsize,
    num_allocs, gotdata,    \* of try_read_tcp
    request,    \* what parse_cmd handed over
    parsed,     \* history: the requests cut out of the stream
    working,    \* the request in the hands of each worker
    todo, runs, \* of the pool
    (* the client *)
    cpc,        \* "idle", "head", "body" or "gone"
    sent,       \* queries sent
    received,   \* calls of recv_response that returned
    head,       \* the head recv_response has read
    accepted    \* history: the answers taken, by the query they were taken for

setting == <<threads, faults>>
poolVars == <<working, todo, runs>>
serverVars == <<spc, rbuf, rsize, num_allocs, gotdata, request, parsed, poolVars>>
clientVars == <<cpc, sent, received, head, accepted>>
vars == <<setting, up, down, serverVars, clientVars>>

Pool == INSTANCE AbstractPool WITH Args <- {Request(m) : m \in Queries}

Init ==
    /\ \E s \in Settings : threads = s.threads /\ faults = s.faults
    /\ up = <<>> /\ down = <<>>
    /\ spc = "loop" /\ rbuf = <<>> /\ rsize = FirstSize
    /\ num_allocs = 0 /\ gotdata = FALSE /\ request = <<>> /\ parsed = <<>>
    /\ working = [w \in Workers |-> <<>>] /\ Pool!Init
    /\ cpc = "idle" /\ sent = 0 /\ received = 0 /\ head = <<>>
    /\ accepted = [m \in Queries |-> <<>>]

First(cells, n) == SubSeq(cells, 1, n)
Beyond(cells, n) == SubSeq(cells, n + 1, Len(cells))
AtMost(n, limit) == IF n < limit THEN n ELSE limit

\* What one read may return of the cells under way.
Reads(cells, limit) ==
    LET n == AtMost(Len(cells), limit)
    IN IF "segments" \in faults THEN 1 .. n ELSE {n} \ {0}

\* What of a message one write may take.
Written(cells, cut) ==
    {cells} \union
        (IF cut \in faults THEN {First(cells, n) : n \in 1 .. Len(cells) - 1} ELSE {})

\* The server's socket does not block: while the client has answers to read, a
\* write may find no room at all and return -1 (EAGAIN).
NoRoom == "full" \in faults /\ down # <<>>

-----------------------------------------------------------------------------
(* The server: try_read_tcp *)

Dispatch ==
    /\ spc = "loop"
    /\ up # <<>> \/ cpc = "gone"
    /\ spc' = "read" /\ num_allocs' = 0 /\ gotdata' = FALSE
    /\ UNCHANGED <<setting, up, down, rbuf, rsize, request, parsed, poolVars, clientVars>>

\* Mutant of Full: the buffer grows a cell too late.
FullLate == Len(rbuf) > rsize

Full == Len(rbuf) >= rsize

\* The room behind the unparsed cells, which were moved to the front.
Avail == rsize - Len(rbuf)

\* The buffer is doubled, but no more than MaxAllocs times in one call.
Grow ==
    /\ spc = "read" /\ Full
    /\ \/ /\ num_allocs < MaxAllocs
          /\ num_allocs' = num_allocs + 1
          /\ rsize' = rsize * 2
          /\ UNCHANGED <<spc, rbuf>>
       \/ /\ num_allocs < MaxAllocs /\ "realloc" \in faults
          /\ rbuf' = <<>>
          /\ spc' = "loop"
          /\ num_allocs' = num_allocs + 1
          /\ UNCHANGED rsize
       \/ /\ num_allocs = MaxAllocs
          /\ spc' = IF gotdata THEN "parse" ELSE "loop"
          /\ UNCHANGED <<rbuf, rsize, num_allocs>>
    /\ UNCHANGED <<setting, up, down, gotdata, request, parsed, poolVars, clientVars>>

\* Mutant of ReadSome: gotdata stays READ_NO_DATA_RECEIVED.
ReadUnnoticed ==
    /\ spc = "read" /\ ~ Full
    /\ \E n \in Reads(up, Avail) :
        /\ rbuf' = rbuf \o First(up, n)
        /\ up' = Beyond(up, n)
    /\ UNCHANGED <<setting, down, spc, rsize, num_allocs, gotdata, request, parsed, poolVars, clientVars>>

ReadSome ==
    /\ spc = "read" /\ ~ Full
    /\ \E n \in Reads(up, Avail) :
        /\ rbuf' = rbuf \o First(up, n)
        /\ up' = Beyond(up, n)
    /\ gotdata' = TRUE
    /\ UNCHANGED <<setting, down, spc, rsize, num_allocs, request, parsed, poolVars, clientVars>>

\* EAGAIN: nothing is there, or nothing more has arrived.
ReadAgain ==
    /\ spc = "read" /\ ~ Full /\ cpc # "gone"
    /\ up = <<>> \/ (gotdata /\ "segments" \in faults)
    /\ spc' = IF gotdata THEN "parse" ELSE "loop"
    /\ UNCHANGED <<setting, up, down, rbuf, rsize, num_allocs, gotdata, request, parsed,
                   poolVars, clientVars>>

\* The connection is closed; what the client has not read yet may get lost.
CloseConnection ==
    /\ spc' = "closed"
    /\ down' \in {down, <<>>}

\* read returns 0, at the end of the stream or for a buffer without room.
ReadEnd ==
    /\ spc = "read" /\ ~ Full
    /\ Avail > 0 => up = <<>> /\ cpc = "gone"
    /\ CloseConnection
    /\ UNCHANGED <<setting, up, rbuf, rsize, num_allocs, gotdata, request, parsed, poolVars, clientVars>>

-----------------------------------------------------------------------------
(* The server: parse_cmd, handle_cmd, give_response *)

LengthIn(cells) ==
    LET cell == cells[HeadLen] IN IF cell[2] = HeadLen THEN RequestLens[cell[1]] ELSE Misread

HasHead(cells) == Len(cells) >= HeadLen
RightMagic(cells) == HasHead(cells) /\ cells[1][2] = 1
Complete(cells) == RightMagic(cells) /\ Len(cells) >= HeadLen + LengthIn(cells)

\* Mutant of Parsed: parse_cmd returns the length without the head.
ParsedBody(cells) == LengthIn(cells)

\* What parse_cmd returns for a complete request.
Parsed(cells) == HeadLen + LengthIn(cells)

\* One round of the loop in basic_read_request: too little data, a wrong
\* magic, or a request, which is lost if parse_cmd cannot copy it.
Parse ==
    /\ spc = "parse"
    /\ \/ /\ HasHead(rbuf) => RightMagic(rbuf) /\ ~ Complete(rbuf)
          /\ spc' = "loop"
          /\ UNCHANGED <<down, rbuf, request, parsed>>
       \/ /\ HasHead(rbuf) /\ ~ RightMagic(rbuf)
          /\ CloseConnection
          /\ UNCHANGED <<rbuf, request, parsed>>
       \/ /\ Complete(rbuf)
          /\ rbuf' = Beyond(rbuf, Parsed(rbuf))
          /\ parsed' = Append(parsed, First(rbuf, Parsed(rbuf)))
          /\ \/ spc' = "handle" /\ request' = First(rbuf, HeadLen + LengthIn(rbuf))
             \/ "calloc" \in faults /\ UNCHANGED <<spc, request>>
          /\ UNCHANGED down
    /\ UNCHANGED <<setting, up, rsize, num_allocs, gotdata, poolVars, clientVars>>

\* The answer to the bytes taken for a request: without records, or to bytes
\* that are no request, a head of length 0.
AnswerTo(cells) ==
    LET m == cells[1][1]
    IN Message(m, IF cells = Request(m) THEN AnswerLens[m] ELSE 0)

\* Mutant of Handle: a query without records gets no answer.
HandleSilent ==
    /\ spc = "handle" /\ threads = {}
    /\ down' = down \o (IF Len(AnswerTo(request)) = HeadLen THEN <<>> ELSE AnswerTo(request))
    /\ request' = <<>> /\ spc' = "parse"
    /\ UNCHANGED <<setting, up, rbuf, rsize, num_allocs, gotdata, parsed, poolVars, clientVars>>

\* handle_cmd, and give_response, for which part of an answer will do.  A write
\* that fails ends the connection, although the client is there.  So does a
\* lack of memory: handle_cmd fails for want of an empty answer, and for want
\* of a full one it writes the head to NULL, since it tests the pointers it was
\* given and not what they point at.
Handle ==
    /\ spc = "handle" /\ threads = {}
    /\ request' = <<>>
    /\ \/ /\ \E cells \in Written(AnswerTo(request), "full") : down' = down \o cells
          /\ spc' = "parse"
       \/ NoRoom /\ CloseConnection
       \/ "calloc" \in faults /\ CloseConnection
    /\ UNCHANGED <<setting, up, rbuf, rsize, num_allocs, gotdata, parsed, poolVars, clientVars>>

-----------------------------------------------------------------------------
(* The server with threads: handle_one_request and post_handle, as long as  *)
(* the connection is there; what jobs do after it failed is in TcpServer.   *)

\* create_job picks any worker.
Post ==
    /\ spc = "handle"
    /\ \E w \in threads : Pool!Accept(w, request)
    /\ request' = <<>> /\ spc' = "parse"
    /\ UNCHANGED <<setting, up, down, rbuf, rsize, num_allocs, gotdata, parsed, working,
                   clientVars>>

StartJob(w) ==
    /\ spc # "closed" /\ working[w] = <<>>
    /\ Pool!Run(w)
    /\ working' = [working EXCEPT ![w] = Head(todo[w])]
    /\ UNCHANGED <<setting, up, down, spc, rbuf, rsize, num_allocs, gotdata, request, parsed,
                   clientVars>>

\* Mutant of GiveResponse: the answer is written head first, body later.
GiveHeadFirst(w) ==
    /\ spc # "closed" /\ working[w] # <<>>
    /\ LET answer == IF working[w][1][2] = 1 THEN AnswerTo(working[w]) ELSE working[w]
           n == IF working[w][1][2] = 1 THEN HeadLen ELSE Len(answer)
       IN /\ down' = down \o First(answer, n)
          /\ working' = [working EXCEPT ![w] = Beyond(answer, n)]
    /\ UNCHANGED <<setting, up, spc, rbuf, rsize, num_allocs, gotdata, request, parsed,
                   todo, runs, clientVars>>

\* Handler and answer; one write is not mixed with another.  An answer that
\* write refuses is dropped, and the connection stays.
GiveResponse(w) ==
    /\ spc # "closed" /\ working[w] # <<>>
    /\ \/ \E cells \in Written(AnswerTo(working[w]), "full") : down' = down \o cells
       \/ NoRoom /\ UNCHANGED down
    /\ working' = [working EXCEPT ![w] = <<>>]
    /\ UNCHANGED <<setting, up, spc, rbuf, rsize, num_allocs, gotdata, request, parsed,
                   todo, runs, clientVars>>

-----------------------------------------------------------------------------
(* The client: test_query in a loop, or all queries first *)

\* send_request; the connection may be closed already.
SendRequest ==
    /\ cpc = "idle" /\ sent < Len(RequestLens)
    /\ received = sent \/ "pipeline" \in faults
    /\ sent' = sent + 1
    /\ \E cells \in Written(Request(sent + 1), "cutrequest") :
        up' = IF spc = "closed" THEN up ELSE up \o cells
    /\ UNCHANGED <<setting, down, serverVars, cpc, received, head, accepted>>

RecvResponse ==
    /\ cpc = "idle" /\ received < sent
    /\ cpc' = "head"
    /\ UNCHANGED <<setting, up, down, serverVars, sent, received, head, accepted>>

Return ==
    /\ cpc' = "idle"
    /\ received' = received + 1
    /\ head' = <<>>

\* What a read of the client returns: it blocks until a cell is there or the
\* server has closed, and may return fewer cells than asked for.
Arrivals(limit) ==
    {First(down, n) : n \in Reads(down, limit)}
        \union (IF down = <<>> /\ spc = "closed" THEN {<<>>} ELSE {})

LengthOfAnswer(cells) ==
    LET cell == cells[HeadLen]
    IN IF cell[2] # HeadLen THEN Misread
       ELSE IF Request(cell[1]) \notin Range(parsed) THEN 0
       ELSE AnswerLens[cell[1]]

\* Anything but a whole head with the right magic is a failure, whose cells
\* are gone; the head of an empty answer is all of it.
RecvHead ==
    /\ cpc = "head"
    /\ \E cells \in Arrivals(HeadLen) :
        /\ down' = Beyond(down, Len(cells))
        /\ \/ /\ ~ RightMagic(cells)
              /\ Return
              /\ UNCHANGED accepted
           \/ /\ RightMagic(cells) /\ LengthOfAnswer(cells) = 0
              /\ accepted' = [accepted EXCEPT ![received + 1] = cells]
              /\ Return
           \/ /\ RightMagic(cells) /\ LengthOfAnswer(cells) > 0
              /\ head' = cells
              /\ cpc' = "body"
              /\ UNCHANGED <<received, accepted>>
    /\ UNCHANGED <<setting, up, serverVars, sent>>

RecvBody ==
    /\ cpc = "body"
    /\ \E cells \in Arrivals(LengthOfAnswer(head)) :
        /\ down' = Beyond(down, Len(cells))
        /\ accepted' = IF Len(cells) = LengthOfAnswer(head)
                       THEN [accepted EXCEPT ![received + 1] = head \o cells]
                       ELSE accepted
    /\ Return
    /\ UNCHANGED <<setting, up, serverVars, sent>>

Quit ==
    /\ cpc = "idle" /\ received = Len(RequestLens)
    /\ cpc' = "gone"
    /\ UNCHANGED <<setting, up, down, serverVars, sent, received, head, accepted>>

-----------------------------------------------------------------------------
ServerStep ==
    Dispatch \/ Grow \/ ReadSome \/ ReadAgain \/ ReadEnd \/ Parse \/ Handle \/ Post

WorkerStep(w) == StartJob(w) \/ GiveResponse(w)

ClientStep == RecvResponse \/ RecvHead \/ RecvBody

Next ==
    ServerStep \/ (\E w \in Workers : WorkerStep(w)) \/ ClientStep \/ SendRequest \/ Quit

Spec == Init /\ [][Next]_vars

\* The event loop and the workers run, and so does a client that waits for an
\* answer.
FairSpec ==
    /\ Spec /\ WF_vars(ServerStep) /\ WF_vars(ClientStep)
    /\ \A w \in Workers : WF_vars(WorkerStep(w))

-----------------------------------------------------------------------------
(* What the framing promises *)

Answers == {Message(m, AnswerLens[m]) : m \in Queries}
LosesCells == faults \intersect {"cutrequest", "realloc"} # {}

\* Nothing makes the server give up a connection: cells and memory are there,
\* and where the event loop itself writes the answers, room for them.
KeepsGoing ==
    ~ LosesCells /\ "calloc" \notin faults /\ (threads = {} => "full" \notin faults)

Faultless == faults \subseteq {"segments", "pipeline"}

\* However the stream of requests arrives, rbuf is never filled beyond its size;
\* and while it can grow, the requests are cut out of the stream whole and in
\* order, and nothing of it is lost before the connection is closed.
ExactFraming ==
    /\ Len(rbuf) <= rsize
    /\ ~ LosesCells =>
        /\ \A m \in 1 .. Len(parsed) : parsed[m] = Request(m)
        /\ spc # "closed" =>
            FlattenSeq(parsed) \o rbuf \o up = FlattenSeq([m \in 1 .. sent |-> Request(m)])

\* The server closes only when the client has left, unless memory runs out or,
\* without threads, a client does not read its answers.  With threads it is kept
\* although answers are cut or dropped.
ClosesOnlyAtEnd == KeepsGoing /\ spc = "closed" => cpc = "gone"

\* Several workers may answer pipelined requests in another order.
Overtaking == "pipeline" \in faults /\ Cardinality(threads) > 1

\* The client never takes part of an answer, or parts of two, for one, nor the
\* same answer twice; and if answers arrive in one piece, what it takes answers
\* the query it waits for, unless several workers answered several queries.
\* With short reads that may be another query's answer.
OwnWholeAnswer ==
    Faultless => \A m \in Queries : accepted[m] # <<>> =>
        /\ accepted[m] \in Answers
        /\ \A q \in Queries \ {m} : accepted[q] # accepted[m]
        /\ "segments" \notin faults /\ ~ Overtaking => accepted[m] = Message(m, AnswerLens[m])

\* Every request is cut out of the stream, also one that is larger than what
\* one call of try_read_tcp can make room for, unless the client leaves (an end
\* of file in the same read event takes the requests before it along) or, as in
\* ClosesOnlyAtEnd, the server gives the connection up.
EveryRequestParsed ==
    \A m \in Queries : KeepsGoing /\ sent >= m ~> Len(parsed) >= m \/ cpc = "gone"

\* recv_response returns, short reads or not: after a failure the client
\* never blocks for cells it has already thrown away.
QueryReturns == Faultless /\ cpc \in {"head", "body"} ~> cpc = "idle"
=============================================================================
