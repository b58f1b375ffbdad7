------------------------------ MODULE UdpServer ------------------------------
(***************************************************************************)
(* One UDP server of libnetskeleton/src/netskeleton.c.  All clients share  *)
(* one conn object: its rbuf holds the last datagram, its request_addr the *)
(* sender of the last datagram, and give_response answers to request_addr. *)
(*                                                                         *)
(* The job queues are those of AbstractPool.  recvfrom fills request_addr  *)
(* without a lock while workers read it in sendto: between Recv and        *)
(* Received its content is any mixture of addresses.                       *)
(***************************************************************************)
EXTENDS Integers, Sequences, FiniteSets

CONSTANTS
    Clients,    \* the addresses datagrams come from
    Workers,    \* the threads a server may have
    MaxSend,    \* bound: requests a client sends
    MaxBatch,   \* bound: requests in one datagram
    MaxCopies,  \* bound: how often the network delivers a datagram
    Settings,   \* the servers and surroundings looked at, see Setting
    Bad,        \* bytes parse_request rejects
    None        \* no client, no request

\* gs->pworks (none means mt = 0) and what may go wrong.
FaultKinds == {"malformed", "memory", "handler", "sendto", "loss", "copies"}
Setting == [threads : SUBSET Workers, faults : SUBSET FaultKinds]

ASSUME UdpServerAssumption ==
    /\ MaxSend \in Nat /\ MaxBatch \in Nat /\ MaxCopies \in Nat \ {0}
    /\ None \notin Clients
    /\ {None, Bad} \intersect (Clients \X (1 .. MaxSend) \X (1 .. MaxCopies)) = {}
    /\ Settings \subseteq Setting

\* A client's request, and in which copy of its datagram it comes: nothing in
\* the code tells the copies from requests of their own.
Requests == Clients \X (1 .. MaxSend) \X (1 .. MaxCopies)

VARIABLES
    setting,    \* one of Settings; it never changes
    net,        \* the datagrams on their way, each [from, body]
    sent,       \* history: how many requests each client has sent
    got,        \* history: who received which answer, and how often
    addr,       \* curr_conn->request_addr; None while recvfrom writes it
    sender,     \* whose datagram recvfrom is returning
    rbuf,       \* what of the datagram is unparsed
    pc,         \* the event loop
    req,        \* the request it has parsed
    wpc, wreq,  \* each worker, and the request of its job
    todo, runs  \* gs->pworks

netVars == <<net, sent>>
connVars == <<addr, sender, rbuf>>
workerVars == <<wpc, wreq>>
poolVars == <<todo, runs>>
vars == <<setting, netVars, got, connVars, pc, req, workerVars, poolVars>>

Pool == INSTANCE AbstractPool WITH Args <- Requests

Init ==
    /\ setting \in Settings
    /\ net = {} /\ sent = [k \in Clients |-> 0]
    /\ got = [k \in Clients |-> [r \in Requests |-> 0]]
    /\ addr = None /\ sender = None /\ rbuf = <<>>
    /\ pc = "loop" /\ req = None
    /\ wpc = [w \in Workers |-> "idle"] /\ wreq = [w \in Workers |-> None]
    /\ Pool!Init

-----------------------------------------------------------------------------
(* Clients and network: datagrams arrive in any order, not at all, or twice *)

\* A datagram with k's next n requests, behind what is malformed.
Datagram(k, n, copy, bad) ==
    [from |-> k, body |-> bad \o [m \in 1 .. n |-> <<k, sent[k] + m, copy>>]]

Send(k, n) ==
    /\ sent[k] + n <= MaxSend
    /\ sent' = [sent EXCEPT ![k] = @ + n]
    /\ \E bad \in {<<>>} \union (IF "malformed" \in setting.faults THEN {<<Bad>>} ELSE {}),
          copies \in {1} \union (IF "copies" \in setting.faults THEN {MaxCopies} ELSE {}) :
        net' = net \union {Datagram(k, n, copy, bad) : copy \in 1 .. copies}
    /\ UNCHANGED <<setting, got, connVars, pc, req, workerVars, poolVars>>

Lose(d) ==
    /\ "loss" \in setting.faults
    /\ d \in net
    /\ net' = net \ {d}
    /\ UNCHANGED <<setting, sent, got, connVars, pc, req, workerVars, poolVars>>

-----------------------------------------------------------------------------
(* The event loop: basic_read_request *)

\* try_read_udp: rcurr and rbytes are reset, so what was left is forgotten.
Recv(d) ==
    /\ pc = "loop"
    /\ d \in net
    /\ net' = net \ {d}
    /\ addr' = None
    /\ sender' = d.from
    /\ rbuf' = d.body
    /\ pc' = "recv"
    /\ UNCHANGED <<setting, sent, got, req, workerVars, poolVars>>

Received ==
    /\ pc = "recv"
    /\ addr' = sender
    /\ sender' = None
    /\ pc' = "parse"
    /\ UNCHANGED <<setting, netVars, got, rbuf, req, workerVars, poolVars>>

\* parse_request returns a positive length.
Parsable == rbuf # <<>> /\ Head(rbuf) # Bad

\* Mutant of Parse: one request of a datagram is taken for all of it.
ParseFirst ==
    /\ pc = "parse"
    /\ \/ /\ Parsable
          /\ req' = Head(rbuf)
          /\ rbuf' = <<>>
          /\ pc' = "handle"
       \/ /\ ~ Parsable
          /\ pc' = "loop"
          /\ UNCHANGED <<rbuf, req>>
    /\ UNCHANGED <<setting, netVars, got, addr, sender, workerVars, poolVars>>

\* A request, or the end of the datagram, or an error: nothing is closed,
\* but the rest of the datagram is not parsed.
Parse ==
    /\ pc = "parse"
    /\ \/ /\ Parsable
          /\ req' = Head(rbuf)
          /\ rbuf' = Tail(rbuf)
          /\ pc' = "handle"
       \/ /\ ~ Parsable
          /\ pc' = "loop"
          /\ UNCHANGED <<rbuf, req>>
    /\ UNCHANGED <<setting, netVars, got, addr, sender, workerVars, poolVars>>

\* Mutant of GiveResponse: the answer is sent and sent again.
GiveTwice(r) ==
    \E k \in Clients :
        /\ addr \in {k, None}
        /\ got' = [got EXCEPT ![k][r] = @ + 2]

\* sendto the shared address; a mixture may be the address of anybody.
GiveResponse(r) ==
    \/ \E k \in Clients :
        /\ addr \in {k, None}
        /\ got' = [got EXCEPT ![k][r] = @ + 1]
    \/ addr = None /\ UNCHANGED got

\* Mutant of HandleInline: the answer waits until the next datagram is read.
HandleLate ==
    /\ pc = "handle" /\ setting.threads = {}
    /\ \E d \in net :
        /\ net' = net \ {d}
        /\ rbuf' = d.body
        /\ got' = [got EXCEPT ![d.from][req] = @ + 1]
        /\ addr' = d.from
    /\ pc' = "parse"
    /\ req' = None
    /\ UNCHANGED <<setting, sent, sender, workerVars, poolVars>>

\* The handler fails, or sendto does: nobody gets an answer.
AnswerFails == {"handler", "sendto"} \intersect setting.faults # {}

\* handle_one_request without threads; an error ends the datagram.
HandleInline ==
    /\ pc = "handle" /\ setting.threads = {}
    /\ \/ /\ GiveResponse(req)
          /\ pc' = "parse"
       \/ /\ AnswerFails
          /\ pc' = "loop"
          /\ UNCHANGED got
    /\ req' = None
    /\ UNCHANGED <<setting, netVars, connVars, workerVars, poolVars>>

\* handle_one_request with threads.  Without post_params the datagram ends;
\* without a job the request is dropped and the loop goes on.
Post ==
    /\ pc = "handle" /\ setting.threads # {}
    /\ \/ \E w \in setting.threads : Pool!Accept(w, req) /\ pc' = "parse"
       \/ "memory" \in setting.faults /\ pc' \in {"loop", "parse"} /\ UNCHANGED poolVars
    /\ req' = None
    /\ UNCHANGED <<setting, netVars, got, connVars, workerVars>>

-----------------------------------------------------------------------------
(* The workers: post_handle *)

StartJob(w) ==
    /\ wpc[w] = "idle"
    /\ todo[w] # <<>>
    /\ Pool!Run(w)
    /\ wreq' = [wreq EXCEPT ![w] = Head(todo[w])]
    /\ wpc' = [wpc EXCEPT ![w] = "handle"]
    /\ UNCHANGED <<setting, netVars, got, connVars, pc, req>>

\* handle_request and the answer; when either fails, the job ends all the same.
Handle(w) ==
    /\ wpc[w] = "handle"
    /\ \/ GiveResponse(wreq[w])
       \/ AnswerFails /\ UNCHANGED got
    /\ wpc' = [wpc EXCEPT ![w] = "idle"]
    /\ wreq' = [wreq EXCEPT ![w] = None]
    /\ UNCHANGED <<setting, netVars, connVars, pc, req, poolVars>>

-----------------------------------------------------------------------------
MainStep == Received \/ Parse \/ HandleInline \/ Post
WorkerStep(w) == StartJob(w) \/ Handle(w)

Next ==
    \/ \E k \in Clients, n \in 1 .. MaxBatch : Send(k, n)
    \/ \E d \in net : Lose(d) \/ Recv(d)
    \/ MainStep
    \/ \E w \in Workers : WorkerStep(w)

Spec == Init /\ [][Next]_vars

\* The loop serves the socket and the workers run; the network loses only
\* finitely often, since there are finitely many datagrams.
Fairness ==
    /\ WF_vars(MainStep \/ \E d \in net : Recv(d))
    /\ \A w \in Workers : WF_vars(WorkerStep(w))

FairSpec == Spec /\ Fairness

-----------------------------------------------------------------------------
(* What a UDP server promises *)

\* An answer reaches the client whose request it answers; request_addr is
\* "the client address" (netskeleton.c).
AnswerToAsker == \A k \in Clients, r \in Requests : got[k][r] > 0 => r[1] = k

\* Without threads it does: the loop answers before it reads again.
InlineAnswersAsker == setting.threads = {} => AnswerToAsker

\* However datagrams are reordered, a request is answered at most once in all
\* for each time the network delivers it, by whichever worker and to whomever.
AnsweredOnce ==
    \A r \in Requests : \A j, k \in Clients :
        got[j][r] + (IF j = k THEN 0 ELSE got[k][r]) <= 1

\* Without threads, what the server has taken off the socket it answers, the
\* requests behind a malformed one excepted, unless a handler or a sendto fails:
\* either error also drops the rest of its datagram.  With threads it need not:
\* the address may be one that recvfrom is writing.
ReceivedIsAnswered ==
    \A r \in Requests :
        setting.threads = {} /\ ~ AnswerFails
        /\ (\E m \in DOMAIN rbuf : rbuf[m] = r /\ \A o \in 1 .. m : rbuf[o] # Bad)
            ~> \E k \in Clients : got[k][r] > 0
=============================================================================
