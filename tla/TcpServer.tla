------------------------------ MODULE TcpServer ------------------------------
(***************************************************************************)
(* One TCP server of libnetskeleton/src/netskeleton.c: the event loop that *)
(* accepts, reads, parses and expires connections, the workers that run    *)
(* post_handle, the descriptor table of the process and the clients.       *)
(*                                                                         *)
(* The job queues are those of AbstractPool, which ThreadPool implements.  *)
(* Each client connects once, so a conn object carries its client's name.  *)
(* A step is a section between two points where another thread can act:    *)
(* mutexes held for one step need no variable; serverlock is kept by the   *)
(* expiry scan over many steps and is the pc of the loop being "scan".     *)
(***************************************************************************)
EXTENDS Integers, Sequences, FiniteSets, SequencesExt

CONSTANTS
    Clients,    \* the clients, and the conn objects made for them
    Workers,    \* the threads a server may have
    Fds,        \* the descriptors the process may have for connections
    MaxSend,    \* bound: requests a client may send
    RefDepth,   \* bound: how far below zero a refercount is followed
    Settings,   \* the servers and surroundings looked at, see Setting
    Bad,        \* bytes parse_request rejects
    None        \* no client, no connection, no descriptor (-1)

FaultKinds == {
    "conn",         \* add_conn cannot allocate
    "postparams",   \* handle_one_request cannot allocate
    "job",          \* create_job returns -1
    "handler",      \* handle_request returns non-zero
    "full",         \* a client does not read, and its socket takes no more
    "malformed",    \* a client sends Bad
    "impatient",    \* a client closes with an answer outstanding
    "expiry" }      \* max_live > 0: the timer runs and clients may be idle

\* gs->pworks (none means mt = 0), the descriptors that are free for
\* connections, the requests a client sends, and what may go wrong.
Setting == [threads : SUBSET Workers, fds : SUBSET Fds, sends : 0 .. MaxSend,
            faults : SUBSET FaultKinds]

ASSUME TcpServerAssumption ==
    /\ None \notin Fds /\ None \notin Clients
    /\ None \notin {"null gs", "list poison"}
    /\ Bad \notin Clients \X (1 .. MaxSend)
    /\ "main" \notin Workers
    /\ IsFiniteSet(Workers)
    /\ MaxSend \in Nat /\ RefDepth \in Nat
    /\ Settings \subseteq Setting

Requests == Clients \X (1 .. MaxSend)
Main == "main"
Threads == Workers \union {Main}

VARIABLES
    setting,    \* one of Settings; it never changes
    (* clients and kernel *)
    net,        \* "new", "pending" in the backlog, "open", "closed" by client
    hup,        \* the server closed this client's socket
    inbox,      \* bytes sent to the server and not read
    sent,       \* history: how many requests each client has sent
    got,        \* history: the answers that reached each client
    file,       \* descriptor -> client whose socket it is
    (* the conn objects *)
    fd, ref, err, ev, rbuf,
    stale,      \* active_time + max_live <= now
    conns,      \* gs->conn_head, in list order
    torn,       \* history: how often the object was torn down
    (* the threads *)
    pc, cur,    \* where each thread is and the conn it works on
    req,        \* the request in its hands
    loaded,     \* curr_conn->fd as give_response read it
    pos,        \* expire_conn_process: conns of the list still to visit
    crash,      \* why the process died, or None
    (* gs->pworks *)
    todo, runs

netVars == <<net, hup, inbox, sent, got>>
connVars == <<fd, ref, err, ev, rbuf, stale, conns, torn>>
threadVars == <<pc, cur, req, loaded, pos>>
poolVars == <<todo, runs>>
vars == <<setting, netVars, file, connVars, threadVars, crash, poolVars>>

Pool == INSTANCE AbstractPool WITH Args <- Requests

Init ==
    /\ setting \in Settings
    /\ net = [k \in Clients |-> "new"] /\ hup = [k \in Clients |-> FALSE]
    /\ inbox = [k \in Clients |-> <<>>] /\ sent = [k \in Clients |-> 0]
    /\ got = [k \in Clients |-> {}]
    /\ file = [f \in Fds |-> None]
    /\ fd = [k \in Clients |-> None] /\ ref = [k \in Clients |-> 0]
    /\ err = [k \in Clients |-> FALSE] /\ ev = [k \in Clients |-> FALSE]
    /\ rbuf = [k \in Clients |-> <<>>] /\ stale = [k \in Clients |-> FALSE]
    /\ conns = <<>> /\ torn = [k \in Clients |-> 0]
    /\ pc = [t \in Threads |-> IF t = Main THEN "loop" ELSE "idle"]
    /\ cur = [t \in Threads |-> None] /\ req = [t \in Threads |-> None]
    /\ loaded = [w \in Workers |-> None] /\ pos = <<>>
    /\ crash = None
    /\ Pool!Init

Goto(t, where) == pc' = [pc EXCEPT ![t] = where]

\* A fatal signal: no thread takes another step.
Die(why) == crash' = why /\ pc' = [t \in Threads |-> "dead"]

-----------------------------------------------------------------------------
(* Clients *)

\* The socket the server holds for k: what k sends and closes arrives there.
Eof(k) == net[k] = "closed"
Answered(k) == Cardinality(got[k]) = sent[k]

Connect(k) ==
    /\ net[k] = "new"
    /\ net' = [net EXCEPT ![k] = "pending"]
    /\ UNCHANGED <<setting, hup, inbox, sent, got, file, connVars, threadVars, crash, poolVars>>

Send(k) ==
    /\ net[k] \in {"pending", "open"} /\ ~ hup[k]
    /\ sent[k] < setting.sends
    /\ sent' = [sent EXCEPT ![k] = @ + 1]
    /\ inbox' = [inbox EXCEPT ![k] = Append(@, <<k, sent[k] + 1>>)]
    /\ UNCHANGED <<setting, net, hup, got, file, connVars, threadVars, crash, poolVars>>

\* Bytes that parse_request answers with a negative number, sent once at most.
SendMalformed(k) ==
    /\ "malformed" \in setting.faults
    /\ net[k] = "open" /\ ~ hup[k]
    /\ Bad \notin Range(inbox[k]) /\ Bad \notin Range(rbuf[k])
    /\ inbox' = [inbox EXCEPT ![k] = Append(@, Bad)]
    /\ UNCHANGED <<setting, net, hup, sent, got, file, connVars, threadVars, crash, poolVars>>

\* A patient client closes when it has all its answers or was hung up on.
Close(k) ==
    /\ net[k] = "open"
    /\ Answered(k) \/ hup[k] \/ "impatient" \in setting.faults
    /\ net' = [net EXCEPT ![k] = "closed"]
    /\ UNCHANGED <<setting, hup, inbox, sent, got, file, connVars, threadVars, crash, poolVars>>

\* max_live seconds without a read event.
TimePasses(k) ==
    /\ "expiry" \in setting.faults
    /\ k \in Range(conns) /\ ~ stale[k]
    /\ stale' = [stale EXCEPT ![k] = TRUE]
    /\ UNCHANGED <<setting, netVars, file, fd, ref, err, ev, rbuf, conns, torn, threadVars,
                   crash, poolVars>>

-----------------------------------------------------------------------------
(* The event loop: accepting *)

\* Mutant of Accept: the read event of the connection is never added.
AcceptDeaf(k) ==
    /\ pc[Main] = "loop"
    /\ net[k] = "pending"
    /\ net' = [net EXCEPT ![k] = "open"]
    /\ \E f \in setting.fds :
        /\ file[f] = None
        /\ file' = [file EXCEPT ![f] = k]
        /\ fd' = [fd EXCEPT ![k] = f]
    /\ ref' = [ref EXCEPT ![k] = 1]
    /\ conns' = Append(conns, k)
    /\ UNCHANGED <<setting, hup, inbox, sent, got, err, ev, rbuf, stale, torn, threadVars,
                   crash, poolVars>>

\* do_accept and add_conn; without memory the new descriptor is closed again.
Accept(k) ==
    /\ pc[Main] = "loop"
    /\ net[k] = "pending"
    /\ net' = [net EXCEPT ![k] = "open"]
    /\ \/ \E f \in setting.fds :
             /\ file[f] = None
             /\ file' = [file EXCEPT ![f] = k]
             /\ fd' = [fd EXCEPT ![k] = f]
             /\ ref' = [ref EXCEPT ![k] = 1]
             /\ ev' = [ev EXCEPT ![k] = TRUE]
             /\ conns' = Append(conns, k)
             /\ UNCHANGED hup
       \/ /\ "conn" \in setting.faults
          /\ \E f \in setting.fds : file[f] = None
          /\ hup' = [hup EXCEPT ![k] = TRUE]
          /\ UNCHANGED <<file, fd, ref, ev, conns>>
    /\ UNCHANGED <<setting, inbox, sent, got, err, rbuf, stale, torn, threadVars, crash, poolVars>>

-----------------------------------------------------------------------------
(* The event loop: basic_read_request *)

\* Mutant of Dispatch: a connection that failed once is not looked at again.
DispatchOnce(k) ==
    /\ pc[Main] = "loop"
    /\ ev[k] /\ ~ err[k] /\ (inbox[k] # <<>> \/ Eof(k))
    /\ cur' = [cur EXCEPT ![Main] = k]
    /\ Goto(Main, "read")
    /\ UNCHANGED <<setting, netVars, file, connVars, req, loaded, pos, crash, poolVars>>

\* The loop picks a registered connection whose socket has data or an end.
Dispatch(k) ==
    /\ pc[Main] = "loop"
    /\ ev[k] /\ (inbox[k] # <<>> \/ Eof(k))
    /\ ref[k] > -RefDepth
    /\ cur' = [cur EXCEPT ![Main] = k]
    /\ Goto(Main, "read")
    /\ UNCHANGED <<setting, netVars, file, connVars, req, loaded, pos, crash, poolVars>>

\* active_time is renewed and try_read_tcp drains the socket.  READ_ERROR --
\* end of file, even after data, or a descriptor a worker has closed since
\* the dispatch -- leaves what was read unparsed.
TryRead ==
    LET k == cur[Main]
        failed == Eof(k) \/ fd[k] = None
    IN
    /\ pc[Main] = "read"
    /\ stale' = [stale EXCEPT ![k] = FALSE]
    /\ rbuf' = [rbuf EXCEPT ![k] = @ \o inbox[k]]
    /\ inbox' = [inbox EXCEPT ![k] = <<>>]
    /\ Goto(Main, IF failed THEN "fail" ELSE "parse")
    /\ UNCHANGED <<setting, net, hup, sent, got, file, fd, ref, err, ev, conns, torn, cur, req,
                   loaded, pos, crash, poolVars>>

\* Mutant of Parse: that no complete request is left counts as an error.
ParseStrict ==
    LET k == cur[Main] IN
    /\ pc[Main] = "parse"
    /\ \/ /\ rbuf[k] # <<>> /\ Head(rbuf[k]) # Bad
          /\ req' = [req EXCEPT ![Main] = Head(rbuf[k])]
          /\ rbuf' = [rbuf EXCEPT ![k] = Tail(@)]
          /\ Goto(Main, IF setting.threads = {} THEN "inline" ELSE "postparams")
       \/ /\ rbuf[k] # <<>> => Head(rbuf[k]) = Bad
          /\ Goto(Main, "fail")
          /\ UNCHANGED <<rbuf, req>>
    /\ UNCHANGED <<setting, netVars, file, fd, ref, err, ev, stale, conns, torn, cur, loaded,
                   pos, crash, poolVars>>

\* parse_request on the unparsed bytes: nothing left, a request, or an error,
\* whose bytes stay in the buffer.
Parse ==
    LET k == cur[Main] IN
    /\ pc[Main] = "parse"
    /\ \/ /\ rbuf[k] = <<>>
          /\ Goto(Main, "loop")
          /\ cur' = [cur EXCEPT ![Main] = None]
          /\ UNCHANGED <<rbuf, req>>
       \/ /\ rbuf[k] # <<>> /\ Head(rbuf[k]) # Bad
          /\ req' = [req EXCEPT ![Main] = Head(rbuf[k])]
          /\ rbuf' = [rbuf EXCEPT ![k] = Tail(@)]
          /\ Goto(Main, IF setting.threads = {} THEN "inline" ELSE "postparams")
          /\ UNCHANGED cur
       \/ /\ rbuf[k] # <<>> /\ Head(rbuf[k]) = Bad
          /\ Goto(Main, "fail")
          /\ UNCHANGED <<rbuf, cur, req>>
    /\ UNCHANGED <<setting, netVars, file, fd, ref, err, ev, stale, conns, torn, loaded, pos,
                   crash, poolVars>>

\* write() on descriptor f: it reaches whoever f belongs to by then.  It fails
\* if nobody does, possibly if that peer is gone, and also in front of a peer
\* that does not read: the sockets do not block (EAGAIN).
Write(f, r, failed) ==
    LET k == IF f \in Fds THEN file[f] ELSE None IN
    \/ /\ k # None /\ net[k] = "open" /\ ~ failed
       /\ got' = [got EXCEPT ![k] = @ \union {r}]
    \/ /\ k # None /\ (net[k] # "open" \/ (failed /\ "full" \in setting.faults))
       /\ UNCHANGED got
    \/ /\ k = None /\ failed
       /\ UNCHANGED got

\* Mutant of HandleInline: the result of the handler is ignored.
HandleIgnored ==
    LET k == cur[Main] IN
    /\ pc[Main] = "inline"
    /\ \/ \E failed \in BOOLEAN : Write(fd[k], req[Main], failed)
       \/ "handler" \in setting.faults /\ UNCHANGED got
    /\ Goto(Main, "parse")
    /\ req' = [req EXCEPT ![Main] = None]
    /\ UNCHANGED <<setting, net, hup, inbox, sent, file, connVars, cur, loaded, pos, crash, poolVars>>

\* handle_one_request without threads: handler and answer, here and now.  A
\* failure of either ends the connection.
HandleInline ==
    LET k == cur[Main] IN
    /\ pc[Main] = "inline"
    /\ \/ \E failed \in BOOLEAN :
             /\ Write(fd[k], req[Main], failed)
             /\ Goto(Main, IF failed THEN "fail" ELSE "parse")
       \/ /\ "handler" \in setting.faults
          /\ Goto(Main, "fail")
          /\ UNCHANGED got
    /\ req' = [req EXCEPT ![Main] = None]
    /\ UNCHANGED <<setting, net, hup, inbox, sent, file, connVars, cur, loaded, pos, crash, poolVars>>

\* Mutant of PostParams: the job takes no reference.
PostUnreferenced ==
    /\ pc[Main] = "postparams"
    /\ Goto(Main, "post")
    /\ UNCHANGED <<setting, netVars, file, connVars, cur, req, loaded, pos, crash, poolVars>>

\* Mutant of PostParams: the reference is taken twice.
PostReferencedTwice ==
    /\ pc[Main] = "postparams"
    /\ ref' = [ref EXCEPT ![cur[Main]] = @ + 2]
    /\ Goto(Main, "post")
    /\ UNCHANGED <<setting, netVars, file, fd, err, ev, rbuf, stale, conns, torn, cur, req,
                   loaded, pos, crash, poolVars>>

\* handle_one_request with threads: the parameters, then conn_ref.
PostParams ==
    LET k == cur[Main] IN
    /\ pc[Main] = "postparams"
    /\ \/ /\ ref' = [ref EXCEPT ![k] = @ + 1]
          /\ Goto(Main, "post")
          /\ UNCHANGED req
       \/ /\ "postparams" \in setting.faults
          /\ Goto(Main, "fail")
          /\ req' = [req EXCEPT ![Main] = None]
          /\ UNCHANGED ref
    /\ UNCHANGED <<setting, netVars, file, fd, err, ev, rbuf, stale, conns, torn, cur, loaded,
                   pos, crash, poolVars>>

\* create_job, whose result is not looked at.
CreateJob ==
    /\ pc[Main] = "post"
    /\ \/ \E w \in setting.threads : Pool!Accept(w, req[Main])
       \/ "job" \in setting.faults /\ UNCHANGED poolVars
    /\ req' = [req EXCEPT ![Main] = None]
    /\ Goto(Main, "parse")
    /\ UNCHANGED <<setting, netVars, file, connVars, cur, loaded, pos, crash>>

\* CLOSE_CONNECTION or READ_ERROR: set_conn_error, then conn_free.
SetConnError ==
    /\ pc[Main] = "fail"
    /\ err' = [err EXCEPT ![cur[Main]] = TRUE]
    /\ Goto(Main, "drop")
    /\ UNCHANGED <<setting, netVars, file, fd, ref, ev, rbuf, stale, conns, torn, cur, req,
                   loaded, pos, crash, poolVars>>

-----------------------------------------------------------------------------
(* conn_free, in the event loop and in the workers *)

Leave(t) ==
    /\ Goto(t, IF t = Main THEN "loop" ELSE "idle")
    /\ cur' = [cur EXCEPT ![t] = None]

\* Mutant of DropRef: a count below zero tears down as well.
DropRefBelow(t) ==
    LET k == cur[t] IN
    /\ pc[t] = "drop"
    /\ ref' = [ref EXCEPT ![k] = @ - 1]
    /\ \/ ref[k] > 1 /\ Leave(t)
       \/ ref[k] <= 1 /\ Goto(t, "evdel") /\ UNCHANGED cur
    /\ UNCHANGED <<setting, netVars, file, fd, err, ev, rbuf, stale, conns, torn, req, loaded,
                   pos, crash, poolVars>>

\* The reference is given back under connlock; whoever sees 0 tears down.
DropRef(t) ==
    LET k == cur[t] IN
    /\ pc[t] = "drop"
    /\ ref' = [ref EXCEPT ![k] = @ - 1]
    /\ \/ ref[k] - 1 # 0 /\ Leave(t)
       \/ ref[k] - 1 = 0 /\ Goto(t, "evdel") /\ UNCHANGED cur
    /\ UNCHANGED <<setting, netVars, file, fd, err, ev, rbuf, stale, conns, torn, req, loaded,
                   pos, crash, poolVars>>

\* Mutant of EventDel: the event is left behind.
EventKept(t) ==
    /\ pc[t] = "evdel"
    /\ Goto(t, "close")
    /\ UNCHANGED <<setting, netVars, file, connVars, cur, req, loaded, pos, crash, poolVars>>

EventDel(t) ==
    /\ pc[t] = "evdel"
    /\ ev' = [ev EXCEPT ![cur[t]] = FALSE]
    /\ Goto(t, "close")
    /\ UNCHANGED <<setting, netVars, file, fd, ref, err, rbuf, stale, conns, torn, cur, req,
                   loaded, pos, crash, poolVars>>

\* close(fd) if fd is open here: the peer sees the connection end, what it
\* sent is lost, and the number is free for the next accept.
CloseFd(k) ==
    /\ IF fd[k] = None THEN UNCHANGED <<file, hup, inbox>>
       ELSE LET owner == file[fd[k]] IN
            /\ file' = [file EXCEPT ![fd[k]] = None]
            /\ hup' = [j \in Clients |-> hup[j] \/ j = owner]
            /\ inbox' = [j \in Clients |-> IF j = owner THEN <<>> ELSE inbox[j]]
    /\ fd' = [fd EXCEPT ![k] = None]

\* What another teardown of the same object does between close and fd = -1 is
\* not followed; see FailureLasts for when there is none.
CloseConn(t) ==
    /\ pc[t] = "close"
    /\ CloseFd(cur[t])
    /\ Goto(t, "unlist")
    /\ UNCHANGED <<setting, net, sent, got, ref, err, ev, rbuf, stale, conns, torn, cur, req,
                   loaded, pos, crash, poolVars>>

\* The conn object leaves the list; it is in it once.
Unlink(k) == \E i \in DOMAIN conns : conns[i] = k /\ conns' = RemoveAt(conns, i)

\* list_del under serverlock.  The links of an object that was unlisted before
\* are poisoned, and list_del follows them.
Unlist(t) ==
    /\ pc[t] = "unlist"
    /\ pc[Main] # "scan"
    /\ torn' = [torn EXCEPT ![cur[t]] = @ + 1]
    /\ \/ /\ Unlink(cur[t])
          /\ Leave(t)
          /\ UNCHANGED crash
       \/ /\ cur[t] \notin Range(conns)
          /\ Die("list poison")
          /\ UNCHANGED <<conns, cur>>
    /\ UNCHANGED <<setting, netVars, file, fd, ref, err, ev, rbuf, stale, req, loaded, pos,
                   poolVars>>

-----------------------------------------------------------------------------
(* The workers: post_handle *)

\* The job starts; on a failed connection gs is still NULL when its type is
\* looked at, and the process dies.
StartJob(w) ==
    /\ pc[w] = "idle"
    /\ todo[w] # <<>>
    /\ Pool!Run(w)
    /\ LET r == Head(todo[w]) IN
       /\ req' = [req EXCEPT ![w] = r]
       /\ cur' = [cur EXCEPT ![w] = r[1]]
       /\ \/ err[r[1]] /\ Die("null gs")
          \/ ~ err[r[1]] /\ Goto(w, "handle") /\ UNCHANGED crash
    /\ UNCHANGED <<setting, netVars, file, connVars, loaded, pos>>


\* handle_request; give_response evaluates curr_conn->fd before it calls
\* write().  Without success nothing is answered, and nothing is closed.
Handle(w) ==
    /\ pc[w] = "handle"
    /\ \/ /\ loaded' = [loaded EXCEPT ![w] = fd[cur[w]]]
          /\ Goto(w, "write")
       \/ /\ "handler" \in setting.faults
          /\ Goto(w, "drop")
          /\ UNCHANGED loaded
    /\ UNCHANGED <<setting, netVars, file, connVars, cur, req, pos, crash, poolVars>>

\* The connection stays whatever write says; the answer may be lost.
GiveResponse(w) ==
    /\ pc[w] = "write"
    /\ \E failed \in BOOLEAN : Write(loaded[w], req[w], failed)
    /\ loaded' = [loaded EXCEPT ![w] = None]
    /\ req' = [req EXCEPT ![w] = None]
    /\ Goto(w, "drop")
    /\ UNCHANGED <<setting, net, hup, inbox, sent, file, connVars, cur, pos, crash, poolVars>>

-----------------------------------------------------------------------------
(* The expiry timer, in the event loop *)

\* The tick takes serverlock unless a worker is inside list_del, which is
\* one step; the list is walked from its head.
ExpireStart ==
    /\ "expiry" \in setting.faults
    /\ pc[Main] = "loop"
    /\ pos' = conns
    /\ Goto(Main, "scan")
    /\ UNCHANGED <<setting, netVars, file, connVars, cur, req, loaded, crash, poolVars>>

\* Mutant of ExpireVisit: the reference goes without set_conn_error.
ExpireSilently ==
    /\ pc[Main] = "scan" /\ pos # <<>>
    /\ ref' = [ref EXCEPT ![Head(pos)] = IF stale[Head(pos)] /\ @ > 1 THEN @ - 1 ELSE @]
    /\ pos' = Tail(pos)
    /\ UNCHANGED <<setting, netVars, file, fd, err, ev, rbuf, stale, conns, torn, pc, cur, req,
                   loaded, crash, poolVars>>

\* A fresh connection is passed over.  A stale one loses a reference
\* (conn_free_internal), and is torn down when none is left: list_for_each
\* then follows the poisoned link of the unlinked node.
ExpireVisit ==
    /\ pc[Main] = "scan" /\ pos # <<>>
    /\ LET k == Head(pos) IN
       \/ /\ ~ stale[k]
          /\ pos' = Tail(pos)
          /\ UNCHANGED <<err, ref, ev, conns, torn, file, fd, hup, inbox, pc, crash>>
       \/ /\ stale[k] /\ ref[k] > 1
          /\ err' = [err EXCEPT ![k] = TRUE]
          /\ ref' = [ref EXCEPT ![k] = @ - 1]
          /\ pos' = Tail(pos)
          /\ UNCHANGED <<ev, conns, torn, file, fd, hup, inbox, pc, crash>>
       \/ /\ stale[k] /\ ref[k] <= 1
          /\ err' = [err EXCEPT ![k] = TRUE]
          /\ ref' = [ref EXCEPT ![k] = @ - 1]
          /\ ev' = [ev EXCEPT ![k] = FALSE]
          /\ CloseFd(k)
          /\ Unlink(k)
          /\ torn' = [torn EXCEPT ![k] = @ + 1]
          /\ Die("list poison")
          /\ UNCHANGED pos
    /\ UNCHANGED <<setting, net, sent, got, rbuf, stale, cur, req, loaded, poolVars>>

\* serverlock is released and the timer rearmed.
ExpireEnd ==
    /\ pc[Main] = "scan" /\ pos = <<>>
    /\ Goto(Main, "loop")
    /\ UNCHANGED <<setting, netVars, file, connVars, cur, req, loaded, pos, crash, poolVars>>

-----------------------------------------------------------------------------
Free(t) == DropRef(t) \/ EventDel(t) \/ CloseConn(t) \/ Unlist(t)

MainStep ==
    \/ TryRead \/ Parse \/ HandleInline \/ PostParams \/ CreateJob \/ SetConnError
    \/ Free(Main) \/ ExpireVisit \/ ExpireEnd

WorkerStep(w) == StartJob(w) \/ Handle(w) \/ GiveResponse(w) \/ Free(w)

ClientStep(k) ==
    Connect(k) \/ Send(k) \/ SendMalformed(k) \/ Close(k) \/ TimePasses(k)

Next ==
    \/ \E k \in Clients : ClientStep(k) \/ Accept(k) \/ Dispatch(k)
    \/ ExpireStart
    \/ MainStep
    \/ \E w \in Workers : WorkerStep(w)

Spec == Init /\ [][Next]_vars

\* Every thread runs, handlers return, and each pass of event_base_loop
\* serves all descriptors that are ready.  Clients need not do anything.
Fairness ==
    /\ WF_vars(MainStep)
    /\ \A w \in Workers : WF_vars(WorkerStep(w))
    /\ \A k \in Clients : SF_vars(Accept(k)) /\ SF_vars(Dispatch(k))

FairSpec == Spec /\ Fairness

-----------------------------------------------------------------------------
(* What a server promises *)

TypeOK ==
    /\ setting \in Settings
    /\ net \in [Clients -> {"new", "pending", "open", "closed"}]
    /\ hup \in [Clients -> BOOLEAN]
    /\ \A k \in Clients : Range(inbox[k]) \union Range(rbuf[k]) \subseteq Requests \union {Bad}
    /\ sent \in [Clients -> 0 .. MaxSend]
    /\ got \in [Clients -> SUBSET Requests]
    /\ file \in [Fds -> Clients \union {None}]
    /\ fd \in [Clients -> Fds \union {None}]
    /\ \A k \in Clients : ref[k] \in -RefDepth - Cardinality(Workers) - 1 .. MaxSend + 1
    /\ err \in [Clients -> BOOLEAN] /\ ev \in [Clients -> BOOLEAN]
    /\ stale \in [Clients -> BOOLEAN]
    /\ Range(conns) \subseteq Clients /\ Range(pos) \subseteq Clients
    /\ torn \in [Clients -> Nat]
    /\ pc \in [Threads -> {"loop", "read", "parse", "inline", "postparams", "post",
                           "fail", "scan", "idle", "handle", "write",
                           "drop", "evdel", "close", "unlist", "dead"}]
    /\ cur \in [Threads -> Clients \union {None}]
    /\ req \in [Threads -> Requests \union {None}]
    /\ loaded \in [Workers -> Fds \union {None}]
    /\ crash \in {None, "null gs", "list poison"}
    /\ \A w \in Workers : Range(todo[w]) \subseteq Requests
    /\ runs \in [Requests -> Nat]

\* A connection that failed can never be served again when there are no worker
\* threads, or when it only fails because its client closed it or sent
\* malformed bytes, which stay in its buffer.  The expiry timer and a lack of
\* memory fail a connection that goes on sending: the next request takes a
\* new reference, though a worker may have given the last one back meanwhile.
FailureLasts ==
    setting.threads = {} \/ setting.faults \intersect {"expiry", "postparams"} = {}

\* A registered event watches the socket of its own connection: event_del
\* always comes before close, so no event is left on a reused descriptor.
EventOnOwnSocket ==
    FailureLasts => \A k \in Clients : ev[k] => fd[k] # None /\ file[fd[k]] = k

\* The jobs of a connection: posted and not yet given back.
Outstanding(k) ==
    Cardinality({r \in Requests : \E w \in Workers : r \in Range(todo[w]) /\ r[1] = k})
    + Cardinality({w \in Workers : cur[w] = k})
    + (IF pc[Main] = "post" /\ cur[Main] = k THEN 1 ELSE 0)

\* Until a connection fails, its refercount is the event loop's reference
\* and one for each of its jobs, wherever conn_ref, conn_free and the expiry
\* timer interleave (create_job losing a job loses its reference too).
RefCountsHolders ==
    "job" \notin setting.faults /\ crash = None =>
        \A k \in Clients : fd[k] # None /\ ~ err[k] => ref[k] = 1 + Outstanding(k)

\* conn_free tears a connection down once, although the event loop takes
\* references from it again and again while its end of file stays readable.
TeardownOnce == FailureLasts => \A k \in Clients : torn[k] <= 1

\* Clients that wait for their answers.  The event loop can serve and post all
\* they ask for, and with threads may lose a job or the write of an answer.  A
\* handler that fails is not among it: without threads its connection is
\* closed, and that with threads it is not is no promise of netskeleton.h:42.
Undisturbed ==
    setting.faults \subseteq (IF setting.threads = {} THEN {} ELSE {"job", "full"})

\* An undisturbed server hangs up only on a client that has closed itself: no
\* reference is given up before its holder is done, and with threads an answer
\* that cannot be written costs nobody the connection.
HangsUpOnlyOnClosed ==
    Undisturbed => \A k \in Clients : hup[k] => net[k] = "closed"

\* An answer reaches the client whose request it answers.
AnswerToAsker == \A k \in Clients : \A r \in got[k] : r[1] = k

\* No client leaves before its answer, no request is malformed and post_params
\* are always allocated: nothing takes a reference that stands for a job.
KeepsReferences == setting.faults \subseteq {"conn", "job", "handler", "full"}

\* It does without worker threads, whatever goes wrong, and with them as long
\* as nothing takes a reference that stands for a job.
OwnAnswers == setting.threads = {} \/ KeepsReferences => AnswerToAsker

\* A process error costs the connection, not the process.
SurvivesProcessError == crash = None

\* It does without worker threads as long as connections do not expire, and
\* with them as long as nothing takes a reference that stands for a job: no job
\* finds its connection failed and no connection is unlinked twice, though it
\* fails while other requests of it are parsed, queued and served.
SurvivesClosing ==
    (setting.threads = {} /\ "expiry" \notin setting.faults) \/ KeepsReferences
        => SurvivesProcessError

\* Every request sent on an accepted connection is answered in the end, when
\* nothing fails; descriptors may be fewer than clients.
EveryRequestAnswered ==
    \A r \in Requests :
        setting.faults = {} /\ r[2] <= sent[r[1]] /\ net[r[1]] = "open" ~> r \in got[r[1]]


\* Without threads nobody waits for ever: a request is answered, or its
\* connection is closed by one side.
AnsweredOrClosed ==
    \A r \in Requests :
        setting.threads = {} /\ r[2] <= sent[r[1]] /\ net[r[1]] = "open" ~>
            r \in got[r[1]] \/ hup[r[1]] \/ net[r[1]] = "closed"

\* A client that closes gives its descriptor back to the server in the end,
\* also when references to its conn were lost, unless the process died.
DescriptorReleased ==
    \A k \in Clients :
        net[k] = "closed" ~> (\A f \in Fds : file[f] # k) \/ crash # None
=============================================================================
