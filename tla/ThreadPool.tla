----------------------------- MODULE ThreadPool -----------------------------
(***************************************************************************)
(* The job pools of libnetskeleton/src/work_threads.c.                     *)
(*                                                                         *)
(* Every server owns one pool of worker threads; its event loop is the     *)
(* only producer (create_job), each worker consumes the queue of its own   *)
(* index (process_jobs).  All pools of the process share one free list of  *)
(* job objects.  Any thread may call wait_for_threads on a pool.           *)
(*                                                                         *)
(* A mutex is held over several steps here, so what a critical section     *)
(* protects is visible; free_job_mutex only guards one-step sections and   *)
(* therefore needs no variable.                                            *)
(***************************************************************************)
EXTENDS Integers, Sequences, FiniteSets

CONSTANTS
    Loops,      \* the event loops, each with the pool of its server
    ThreadNum,  \* thread_num: the workers of a pool
    Objs,       \* the addresses calloc can return for a struct job
    Args,       \* the requests given to create_job, one call each
    MaxFree,    \* g_max_free_obj
    Waiters,    \* threads that call wait_for_threads, one call each
    NoObj,      \* the null job
    NoArg       \* job->arg of an object nobody filled yet

ASSUME ThreadPoolAssumption ==
    /\ ThreadNum \in Nat \ {0}
    /\ MaxFree \in Nat
    /\ NoObj \notin Objs
    /\ NoArg \notin Args

Indexes == 0 .. ThreadNum - 1
Workers == Loops \X Indexes

VARIABLES
    freeList,   \* free_job_list (its order is never observed: a set)
    freeObjs,   \* g_free_objs
    heap,       \* the addresses calloc has handed out
    leaked,     \* objects free_job gave to my_free, which keeps them
    arg,        \* job->arg of every object
    jobs,       \* pworks->jobs[index]: the queue of each worker
    pending,    \* pworks->pending[index]
    lock,       \* who holds pworks->mutex[index]
    wpc, ln,    \* process_jobs: where each worker is, and its ln
    lpc, obj, req, index,  \* create_job: where each loop is, its locals
    xpc, pool, i,          \* wait_for_threads: where each waiter is
    before,     \* history: jobs queued in the pool when the wait began
    taken,      \* history: requests create_job was called for
    runs        \* history: how many times the handler ran on a request

poolVars == <<freeList, freeObjs, heap, leaked>>
loopVars == <<lpc, obj, req, index, taken>>
waitVars == <<xpc, pool, i, before>>
vars == <<poolVars, arg, jobs, pending, lock, wpc, ln, loopVars, waitVars, runs>>

Queued(w) == {jobs[w][k] : k \in 1 .. Len(jobs[w])}
Target(l) == <<l, index[l]>>
Awaited(x) == <<pool[x], i[x]>>

Init ==
    /\ freeList = {} /\ freeObjs = 0 /\ heap = {} /\ leaked = {}
    /\ arg = [o \in Objs |-> NoArg]
    /\ jobs = [w \in Workers |-> <<>>]
    /\ pending = [w \in Workers |-> 0]
    /\ lock = [w \in Workers |-> "none"]
    /\ wpc = [w \in Workers |-> "start"]
    /\ ln = [w \in Workers |-> NoObj]
    /\ lpc = [l \in Loops |-> "idle"]
    /\ obj = [l \in Loops |-> NoObj]
    /\ req = [l \in Loops |-> NoArg]
    /\ index = [l \in Loops |-> 0]
    /\ xpc = [x \in Waiters |-> "idle"]
    /\ pool \in [Waiters -> Loops]
    /\ i = [x \in Waiters |-> 0]
    /\ before = [x \in Waiters |-> {}]
    /\ taken = {}
    /\ runs = [a \in Args |-> 0]

-----------------------------------------------------------------------------
(* create_job, run by the event loop l *)

\* new_job's first section: the head of the free list, if there is one.
NewJob(l, a) ==
    /\ lpc[l] = "idle"
    /\ a \notin taken
    /\ taken' = taken \union {a}
    /\ req' = [req EXCEPT ![l] = a]
    /\ \/ \E o \in freeList :
             /\ freeList' = freeList \ {o}
             /\ obj' = [obj EXCEPT ![l] = o]
             /\ lpc' = [lpc EXCEPT ![l] = "fill"]
       \/ /\ freeList = {}
          /\ lpc' = [lpc EXCEPT ![l] = "calloc"]
          /\ UNCHANGED <<freeList, obj>>
    /\ UNCHANGED <<freeObjs, heap, leaked, arg, jobs, pending, lock, wpc, ln,
                   index, waitVars, runs>>

\* calloc outside the mutex; NULL makes create_job return -1.
Calloc(l) ==
    /\ lpc[l] = "calloc"
    /\ \/ \E o \in Objs \ heap :
             /\ heap' = heap \union {o}
             /\ obj' = [obj EXCEPT ![l] = o]
             /\ lpc' = [lpc EXCEPT ![l] = "count"]
          /\ UNCHANGED req
       \/ /\ lpc' = [lpc EXCEPT ![l] = "idle"]
          /\ req' = [req EXCEPT ![l] = NoArg]
          /\ UNCHANGED <<heap, obj>>
    /\ UNCHANGED <<freeList, freeObjs, leaked, arg, jobs, pending, lock, wpc, ln,
                   index, taken, waitVars, runs>>

\* Mutant of Count: the new object is never counted.
CountForgotten(l) ==
    /\ lpc[l] = "count"
    /\ lpc' = [lpc EXCEPT ![l] = "fill"]
    /\ UNCHANGED <<poolVars, arg, jobs, pending, lock, wpc, ln, obj, req, index,
                   taken, waitVars, runs>>

\* new_job's second section: the new object is counted.
Count(l) ==
    /\ lpc[l] = "count"
    /\ freeObjs' = freeObjs + 1
    /\ lpc' = [lpc EXCEPT ![l] = "fill"]
    /\ UNCHANGED <<freeList, heap, leaked, arg, jobs, pending, lock, wpc, ln,
                   obj, req, index, taken, waitVars, runs>>

\* The job is filled and rand_r picks a worker of the pool.
Fill(l) ==
    /\ lpc[l] = "fill"
    /\ arg' = [arg EXCEPT ![obj[l]] = req[l]]
    /\ \E k \in Indexes : index' = [index EXCEPT ![l] = k]
    /\ lpc' = [lpc EXCEPT ![l] = "lock"]
    /\ UNCHANGED <<poolVars, jobs, pending, lock, wpc, ln, obj, req, taken,
                   waitVars, runs>>

LockQueue(l) ==
    /\ lpc[l] = "lock"
    /\ lock[Target(l)] = "none"
    /\ lock' = [lock EXCEPT ![Target(l)] = "loop"]
    /\ lpc' = [lpc EXCEPT ![l] = "add"]
    /\ UNCHANGED <<poolVars, arg, jobs, pending, wpc, ln, obj, req, index, taken,
                   waitVars, runs>>

\* Mutant of AddTail: the job becomes the head of the queue.
AddHead(l) ==
    /\ lpc[l] = "add"
    /\ jobs' = [jobs EXCEPT ![Target(l)] = <<obj[l]>> \o @]
    /\ obj' = [obj EXCEPT ![l] = NoObj]
    /\ lpc' = [lpc EXCEPT ![l] = "signal"]
    /\ UNCHANGED <<poolVars, arg, pending, lock, wpc, ln, req, index, taken,
                   waitVars, runs>>

\* Mutant of AddTail: the mutex is given up before the job is counted.
AddUnlock(l) ==
    /\ lpc[l] = "add"
    /\ jobs' = [jobs EXCEPT ![Target(l)] = Append(@, obj[l])]
    /\ lock' = [lock EXCEPT ![Target(l)] = "none"]
    /\ obj' = [obj EXCEPT ![l] = NoObj]
    /\ lpc' = [lpc EXCEPT ![l] = "signal"]
    /\ UNCHANGED <<poolVars, arg, pending, wpc, ln, req, index, taken,
                   waitVars, runs>>

AddTail(l) ==
    /\ lpc[l] = "add"
    /\ jobs' = [jobs EXCEPT ![Target(l)] = Append(@, obj[l])]
    /\ obj' = [obj EXCEPT ![l] = NoObj]
    /\ lpc' = [lpc EXCEPT ![l] = "signal"]
    /\ UNCHANGED <<poolVars, arg, pending, lock, wpc, ln, req, index, taken,
                   waitVars, runs>>

\* Mutant of Signal: the job is queued and not counted.
SignalUncounted(l) ==
    /\ lpc[l] = "signal"
    /\ wpc' = [wpc EXCEPT ![Target(l)] = IF @ = "wait" THEN "woken" ELSE @]
    /\ lock' = [lock EXCEPT ![Target(l)] = "none"]
    /\ lpc' = [lpc EXCEPT ![l] = "idle"]
    /\ req' = [req EXCEPT ![l] = NoArg]
    /\ index' = [index EXCEPT ![l] = 0]
    /\ UNCHANGED <<poolVars, arg, jobs, pending, ln, obj, taken, waitVars, runs>>

\* Mutant of Signal: the worker is woken only for a queue of two or more.
SignalLate(l) ==
    /\ lpc[l] = "signal"
    /\ pending' = [pending EXCEPT ![Target(l)] = @ + 1]
    /\ wpc' = [wpc EXCEPT ![Target(l)] =
                IF @ = "wait" /\ pending[Target(l)] > 0 THEN "woken" ELSE @]
    /\ lock' = [lock EXCEPT ![Target(l)] = "none"]
    /\ lpc' = [lpc EXCEPT ![l] = "idle"]
    /\ req' = [req EXCEPT ![l] = NoArg]
    /\ index' = [index EXCEPT ![l] = 0]
    /\ UNCHANGED <<poolVars, arg, jobs, ln, obj, taken, waitVars, runs>>

\* ++pending, wake the worker if it waits, unlock.  The number of pending
\* jobs is only logged against max_queue: the job is accepted at any length.
Signal(l) ==
    /\ lpc[l] = "signal"
    /\ pending' = [pending EXCEPT ![Target(l)] = @ + 1]
    /\ wpc' = [wpc EXCEPT ![Target(l)] = IF @ = "wait" THEN "woken" ELSE @]
    /\ lock' = [lock EXCEPT ![Target(l)] = "none"]
    /\ lpc' = [lpc EXCEPT ![l] = "idle"]
    /\ req' = [req EXCEPT ![l] = NoArg]
    /\ index' = [index EXCEPT ![l] = 0]
    /\ UNCHANGED <<poolVars, arg, jobs, ln, obj, taken, waitVars, runs>>

-----------------------------------------------------------------------------
(* process_jobs, run by worker w *)

\* The three places where the worker takes its mutex: on entry, inside
\* pthread_cond_wait once woken, and after the handler returned.
LockWorker(w) ==
    /\ wpc[w] \in {"start", "woken", "ran"}
    /\ lock[w] = "none"
    /\ lock' = [lock EXCEPT ![w] = "worker"]
    /\ wpc' = [wpc EXCEPT ![w] = IF @ = "ran" THEN "del" ELSE "loop"]
    /\ UNCHANGED <<poolVars, arg, jobs, pending, ln, loopVars, waitVars, runs>>

\* list_empty: pthread_cond_wait releases the mutex and blocks at once.
CondWait(w) ==
    /\ wpc[w] = "loop"
    /\ jobs[w] = <<>>
    /\ lock' = [lock EXCEPT ![w] = "none"]
    /\ wpc' = [wpc EXCEPT ![w] = "wait"]
    /\ UNCHANGED <<poolVars, arg, jobs, pending, ln, loopVars, waitVars, runs>>

\* The head is looked at, not removed, and the mutex is released.
Peek(w) ==
    /\ wpc[w] = "loop"
    /\ jobs[w] # <<>>
    /\ ln' = [ln EXCEPT ![w] = Head(jobs[w])]
    /\ lock' = [lock EXCEPT ![w] = "none"]
    /\ wpc' = [wpc EXCEPT ![w] = "run"]
    /\ UNCHANGED <<poolVars, arg, jobs, pending, loopVars, waitVars, runs>>

\* ln->bh(ln->arg), outside every mutex.
RunJob(w) ==
    /\ wpc[w] = "run"
    /\ runs' = [runs EXCEPT ![arg[ln[w]]] = @ + 1]
    /\ wpc' = [wpc EXCEPT ![w] = "ran"]
    /\ UNCHANGED <<poolVars, arg, jobs, pending, lock, ln, loopVars, waitVars>>

\* Mutant of FreeJob: an object given up still counts.
FreeJobUncounted(o) ==
    \/ /\ freeObjs >= MaxFree
       /\ leaked' = leaked \union {o}
       /\ UNCHANGED <<freeObjs, freeList, heap>>
    \/ /\ freeObjs < MaxFree
       /\ freeList' = freeList \union {o}
       /\ UNCHANGED <<freeObjs, leaked, heap>>

\* free_job: at the limit the object goes to my_free (comm.h), whose test is
\* inverted, so it is neither listed nor returned to the allocator.
FreeJob(o) ==
    \/ /\ freeObjs >= MaxFree
       /\ freeObjs' = freeObjs - 1
       /\ leaked' = leaked \union {o}
       /\ UNCHANGED <<freeList, heap>>
    \/ /\ freeObjs < MaxFree
       /\ freeList' = freeList \union {o}
       /\ UNCHANGED <<freeObjs, leaked, heap>>

\* Mutant of Delete: the job is freed and stays linked.
DeleteLinked(w) ==
    /\ wpc[w] = "del"
    /\ FreeJob(ln[w])
    /\ ln' = [ln EXCEPT ![w] = NoObj]
    /\ wpc' = [wpc EXCEPT ![w] = "dec"]
    /\ UNCHANGED <<arg, jobs, pending, lock, loopVars, waitVars, runs>>

\* list_del(ln) -- the head, see HeadIsRunning -- and free_job.
Delete(w) ==
    /\ wpc[w] = "del"
    /\ jobs' = [jobs EXCEPT ![w] = Tail(@)]
    /\ FreeJob(ln[w])
    /\ ln' = [ln EXCEPT ![w] = NoObj]
    /\ wpc' = [wpc EXCEPT ![w] = "dec"]
    /\ UNCHANGED <<arg, pending, lock, loopVars, waitVars, runs>>

\* pthread_cond_signal(condvar_empty): one waiter of this index, if any.
SignalEmpty(w) ==
    LET blocked == {x \in Waiters : xpc[x] = "wait" /\ Awaited(x) = w}
    IN  IF blocked = {} THEN xpc' = xpc
        ELSE \E x \in blocked : xpc' = [xpc EXCEPT ![x] = "lock"]

\* Mutant of Decrement: the test for the last job comes before the decrement.
DecrementLate(w) ==
    /\ wpc[w] = "dec"
    /\ pending' = [pending EXCEPT ![w] = @ - 1]
    /\ \/ pending[w] = 0 /\ SignalEmpty(w)
       \/ pending[w] # 0 /\ xpc' = xpc
    /\ wpc' = [wpc EXCEPT ![w] = "loop"]
    /\ UNCHANGED <<poolVars, arg, jobs, lock, ln, loopVars, pool, i, before, runs>>

Decrement(w) ==
    /\ wpc[w] = "dec"
    /\ pending' = [pending EXCEPT ![w] = @ - 1]
    /\ \/ pending[w] = 1 /\ SignalEmpty(w)
       \/ pending[w] # 1 /\ xpc' = xpc
    /\ wpc' = [wpc EXCEPT ![w] = "loop"]
    /\ UNCHANGED <<poolVars, arg, jobs, lock, ln, loopVars, pool, i, before, runs>>

\* pthread_cond_wait may return without a signal.
SpuriousWakeup(w) ==
    /\ wpc[w] = "wait"
    /\ wpc' = [wpc EXCEPT ![w] = "woken"]
    /\ UNCHANGED <<poolVars, arg, jobs, pending, lock, ln, loopVars, waitVars, runs>>

-----------------------------------------------------------------------------
(* wait_for_threads on the pool of a loop, run by waiter x *)

WaitBegin(x) ==
    /\ xpc[x] = "idle"
    /\ before' = [before EXCEPT ![x] =
                    {arg[o] : o \in UNION {Queued(w) : w \in {pool[x]} \X Indexes}}]
    /\ xpc' = [xpc EXCEPT ![x] = "lock"]
    /\ UNCHANGED <<poolVars, arg, jobs, pending, lock, wpc, ln, loopVars, pool, i, runs>>

LockWaiter(x) ==
    /\ xpc[x] = "lock"
    /\ lock[Awaited(x)] = "none"
    /\ lock' = [lock EXCEPT ![Awaited(x)] = "waiter"]
    /\ xpc' = [xpc EXCEPT ![x] = "check"]
    /\ UNCHANGED <<poolVars, arg, jobs, pending, wpc, ln, loopVars, pool, i, before, runs>>

\* Mutant of CheckPending: the loop ends one index too early.
CheckAllButLast(x) ==
    /\ xpc[x] = "check"
    /\ lock' = [lock EXCEPT ![Awaited(x)] = "none"]
    /\ \/ /\ pending[Awaited(x)] > 0
          /\ xpc' = [xpc EXCEPT ![x] = "wait"]
          /\ UNCHANGED i
       \/ /\ pending[Awaited(x)] = 0
          /\ i[x] + 2 \in Indexes
          /\ i' = [i EXCEPT ![x] = @ + 1]
          /\ xpc' = [xpc EXCEPT ![x] = "lock"]
       \/ /\ pending[Awaited(x)] = 0
          /\ i[x] + 2 \notin Indexes
          /\ xpc' = [xpc EXCEPT ![x] = "done"]
          /\ UNCHANGED i
    /\ UNCHANGED <<poolVars, arg, jobs, pending, wpc, ln, loopVars, pool, before, runs>>

\* wait_for_one_thread: leave when nothing is pending, else block; leaving
\* the last index ends wait_for_threads.
CheckPending(x) ==
    /\ xpc[x] = "check"
    /\ lock' = [lock EXCEPT ![Awaited(x)] = "none"]
    /\ \/ /\ pending[Awaited(x)] > 0
          /\ xpc' = [xpc EXCEPT ![x] = "wait"]
          /\ UNCHANGED i
       \/ /\ pending[Awaited(x)] = 0
          /\ i[x] + 1 \in Indexes
          /\ i' = [i EXCEPT ![x] = @ + 1]
          /\ xpc' = [xpc EXCEPT ![x] = "lock"]
       \/ /\ pending[Awaited(x)] = 0
          /\ i[x] + 1 \notin Indexes
          /\ xpc' = [xpc EXCEPT ![x] = "done"]
          /\ UNCHANGED i
    /\ UNCHANGED <<poolVars, arg, jobs, pending, wpc, ln, loopVars, pool, before, runs>>

SpuriousWakeupEmpty(x) ==
    /\ xpc[x] = "wait"
    /\ xpc' = [xpc EXCEPT ![x] = "lock"]
    /\ UNCHANGED <<poolVars, arg, jobs, pending, lock, wpc, ln, loopVars, pool, i,
                   before, runs>>

-----------------------------------------------------------------------------
CreateStep(l) ==
    \/ Calloc(l) \/ Count(l) \/ Fill(l)
    \/ LockQueue(l) \/ AddTail(l) \/ Signal(l)

WorkStep(w) ==
    \/ LockWorker(w) \/ CondWait(w) \/ Peek(w) \/ RunJob(w)
    \/ Delete(w) \/ Decrement(w)

WaitStep(x) == LockWaiter(x) \/ CheckPending(x)

Next ==
    \/ \E l \in Loops : CreateStep(l) \/ \E a \in Args : NewJob(l, a)
    \/ \E w \in Workers : WorkStep(w) \/ SpuriousWakeup(w)
    \/ \E x \in Waiters : WaitStep(x) \/ WaitBegin(x) \/ SpuriousWakeupEmpty(x)

\* The scheduler runs every thread that can run, handlers return, and spurious
\* wakeups stop some day; a free mutex is then contended for finitely often,
\* so weak fairness grants it.  New requests and waits need not happen.
Spurious ==
    \/ \E w \in Workers : SpuriousWakeup(w)
    \/ \E x \in Waiters : SpuriousWakeupEmpty(x)

Fairness ==
    /\ \A l \in Loops : WF_vars(CreateStep(l))
    /\ \A w \in Workers : WF_vars(WorkStep(w))
    /\ \A x \in Waiters : WF_vars(WaitStep(x))
    /\ <>[][~ Spurious]_vars

Spec == Init /\ [][Next]_vars
FairSpec == Spec /\ Fairness

-----------------------------------------------------------------------------
(* What the pool promises *)

Types ==
    /\ freeList \subseteq Objs /\ heap \subseteq Objs /\ leaked \subseteq Objs
    /\ freeObjs \in Int
    /\ arg \in [Objs -> Args \union {NoArg}]
    /\ jobs \in [Workers -> Seq(Objs)]
    /\ pending \in [Workers -> Int]
    /\ lock \in [Workers -> {"none", "loop", "worker", "waiter"}]
    /\ wpc \in [Workers -> {"start", "loop", "wait", "woken", "run", "ran", "del", "dec"}]
    /\ ln \in [Workers -> Objs \union {NoObj}]
    /\ lpc \in [Loops -> {"idle", "calloc", "count", "fill", "lock", "add", "signal"}]
    /\ obj \in [Loops -> Objs \union {NoObj}]
    /\ req \in [Loops -> Args \union {NoArg}]
    /\ index \in [Loops -> Indexes]
    /\ xpc \in [Waiters -> {"idle", "lock", "check", "wait", "done"}]
    /\ pool \in [Waiters -> Loops]
    /\ i \in [Waiters -> Indexes]
    /\ before \in [Waiters -> SUBSET (Args \union {NoArg})]
    /\ taken \subseteq Args
    /\ runs \in [Args -> Nat]

\* The type invariant; both counters are unsigned in the code, so that they
\* are naturals says that no decrement ever wraps around.
TypeOK ==
    /\ Types
    /\ freeObjs \in Nat
    /\ pending \in [Workers -> Nat]

\* The objects create_job has in hand, and those it has counted already.
Holding(l) == lpc[l] \in {"count", "fill", "lock", "add"}
Held == {obj[l] : l \in {k \in Loops : Holding(k)}}
Uncounted == {obj[l] : l \in {k \in Loops : lpc[k] = "count"}}

\* One struct list_head links an object into one list: an object that is
\* free, queued somewhere or in a loop's hands is in that one place, once.
\* The code relies on it in every list_add_tail and list_del (linux_list.h).
NoSharedObject ==
    /\ \A w \in Workers : \A m, n \in 1 .. Len(jobs[w]) :
            jobs[w][m] = jobs[w][n] => m = n
    /\ \A v, w \in Workers : v # w => Queued(v) \intersect Queued(w) = {}
    /\ \A k, l \in Loops : Holding(k) /\ Holding(l) /\ k # l => obj[k] # obj[l]
    /\ \A w \in Workers : Queued(w) \intersect (freeList \union Held \union leaked) = {}
    /\ freeList \intersect (Held \union leaked) = {}
    /\ Held \intersect leaked = {}

\* g_free_objs counts, without ever wrapping below zero, the job objects that
\* exist and are not given up, except those calloc returned to a loop that
\* has not taken the mutex a second time (new_job's two sections).
PoolAccounting == freeObjs = Cardinality((heap \ leaked) \ Uncounted)

\* The free list never holds more than g_max_free_obj objects, although the
\* counter free_job compares with the limit counts other objects as well.
FreeListBounded == Cardinality(freeList) <= MaxFree

\* The object process_jobs runs and deletes after unlocking is still the head
\* of its queue: nothing put before it or removed meanwhile.
HeadIsRunning ==
    \A w \in Workers :
        wpc[w] \in {"run", "ran", "del"} => jobs[w] # <<>> /\ ln[w] = Head(jobs[w])

\* pending[index] is the length of the queue whenever the mutex is free; a
\* job counts until its handler has returned.
PendingIsLength ==
    \A w \in Workers : lock[w] = "none" => pending[w] = Len(jobs[w])

\* A worker blocked on its condition variable has no job to run, unless the
\* loop that queued one is about to signal: no wakeup is lost.
NoLostWakeup ==
    \A w \in Workers :
        wpc[w] = "wait" /\ jobs[w] # <<>> => lpc[w[1]] = "signal" /\ Target(w[1]) = w

\* wait_for_threads returns only after every job that was queued in the pool
\* when it was called has been run, although it looks at one index after the
\* other while new jobs keep arriving.
WaitCoversEarlierJobs ==
    \A x \in Waiters : xpc[x] = "done" => \A a \in before[x] : runs[a] >= 1

\* The jobs the pool still owes: the queue, without the job whose handler has
\* returned but which is still linked.
Owed(w) ==
    IF wpc[w] \in {"ran", "del"} THEN Tail(jobs[w]) ELSE jobs[w]
todo == [w \in Workers |-> [k \in 1 .. Len(Owed(w)) |-> arg[Owed(w)[k]]]]

Abstract == INSTANCE AbstractPool

\* The pool implements per-worker queues that run every accepted request
\* once, in the order of acceptance.
ImplementsQueues == Abstract!Spec

\* create_job's caller has handed a request over for good: it is run.
AcceptedIsRun ==
    \A a \in Args :
        (\E w \in Workers : \E k \in DOMAIN todo[w] : todo[w][k] = a) ~> runs[a] = 1

\* Threads x and y are inside wait_for_threads of one pool.
Calling(x) == xpc[x] \notin {"idle", "done"}
Together(x, y) == pool[x] = pool[y] /\ Calling(x) /\ Calling(y)

\* A thread that calls wait_for_threads comes back from it if no other one is
\* in it for the same pool at the same time; of two that are, one comes back.
\* The other one may stay for ever: process_jobs signals condvar_empty once
\* per queue that runs empty, however many threads wait for it.
WaitReturns ==
    \A x \in Waiters :
        /\ [](\A y \in Waiters \ {x} : ~ Together(x, y)) =>
                (Calling(x) ~> xpc[x] = "done")
        /\ \A y \in Waiters \ {x} :
                Together(x, y) ~> xpc[x] = "done" \/ xpc[y] = "done"
=============================================================================
