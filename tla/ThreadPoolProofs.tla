-------------------------- MODULE ThreadPoolProofs --------------------------
(***************************************************************************)
(* Theorems about ThreadPool, for every number of loops, workers, waiters, *)
(* job objects, requests and every limit of the free list: first about the *)
(* objects, then about the requests they carry, which are run once, in the *)
(* order of their queue, and before a wait for them comes back.            *)
(***************************************************************************)
EXTENDS ThreadPool, TLAPS, FiniteSetTheorems, SequenceTheorems

USE DEF poolVars, loopVars, waitVars

-----------------------------------------------------------------------------
(* Sequences and functions *)

\* list_add_tail on a queue: one element longer, the old ones where they were.
LEMMA AppendFacts ==
    ASSUME NEW S, NEW s \in Seq(S), NEW e \in S
    PROVE  /\ Append(s, e) \in Seq(S)
           /\ Append(s, e) # <<>>
           /\ Len(Append(s, e)) = Len(s) + 1
           /\ \A k \in 1 .. Len(s) : Append(s, e)[k] = s[k]
           /\ Append(s, e)[Len(s) + 1] = e
           /\ s # <<>> => Head(Append(s, e)) = Head(s)
<1> DEFINE t == Append(s, e)
<1>1. t \in Seq(S) /\ Len(t) = Len(s) + 1
  OBVIOUS
<1>2. (\A k \in 1 .. Len(s) : t[k] = s[k]) /\ t[Len(s) + 1] = e
  OBVIOUS
<1>3. Len(s) \in Nat /\ t # <<>>
  BY <1>1
<1>4. s # <<>> => Head(t) = Head(s)
  <2> SUFFICES ASSUME s # <<>> PROVE Head(t) = Head(s)
    OBVIOUS
  <2>1. Len(s) >= 1
    OBVIOUS
  <2>2. t[1] = s[1]
    BY <1>2, <1>3, <2>1
  <2> QED
    BY <1>1, <1>3, <2>2
<1> QED
  BY <1>1, <1>2, <1>3, <1>4

\* list_del of the head of a queue.
LEMMA TailFacts ==
    ASSUME NEW S, NEW s \in Seq(S), s # <<>>
    PROVE  /\ Head(s) \in S
           /\ Head(s) = s[1]
           /\ Len(s) \in Nat \ {0}
           /\ Tail(s) \in Seq(S)
           /\ Len(Tail(s)) = Len(s) - 1
           /\ \A k \in 1 .. Len(s) - 1 : Tail(s)[k] = s[k + 1]
OBVIOUS

\* Counting up at one point keeps a function of naturals one.
LEMMA CountUp ==
    ASSUME NEW S, NEW f \in [S -> Nat], NEW b
    PROVE  [f EXCEPT ![b] = @ + 1] \in [S -> Nat]
<1>1. CASE b \in S
  BY <1>1
<1>2. CASE b \notin S
  <2>1. [f EXCEPT ![b] = @ + 1] = f
    BY <1>2
  <2> QED
    BY <2>1
<1> QED
  BY <1>1, <1>2

-----------------------------------------------------------------------------
(* What each thread knows about the object it works on *)

\* A worker is the pair of its loop and an index of that loop's pool.
LEMMA WorkerShape ==
    /\ \A w \in Workers : w[1] \in Loops /\ w[2] \in Indexes /\ w = <<w[1], w[2]>>
    /\ \A l \in Loops, k \in Indexes : <<l, k>> \in Workers
    /\ 0 \in Indexes
    /\ Indexes \subseteq Nat
BY ThreadPoolAssumption, SMT DEF Workers, Indexes

\* create_job works on an object from the moment it has one to the moment it
\* has queued it.
ObjInHand == \A l \in Loops : Holding(l) => obj[l] \in Objs

Basics == Types /\ ObjInHand /\ HeadIsRunning

\* The pool starts well typed, with every object a loop holds allocated and no
\* worker in the middle of a job.
LEMMA InitBasics == Init => Basics
BY WorkerShape, ThreadPoolAssumption
   DEF Init, Basics, Types, ObjInHand, HeadIsRunning, Holding

\* Types, what a loop has in hand and the head of a running worker's queue
\* survive every step of create_job, process_jobs and wait_for_threads.
LEMMA BasicsStep == Basics /\ [Next]_vars => Basics'
<1> SUFFICES ASSUME Basics, [Next]_vars PROVE Basics'
  OBVIOUS
<1> USE WorkerShape DEF Basics, Types, ObjInHand, HeadIsRunning, Holding, Target, Awaited
<1>1. ASSUME NEW l \in Loops, NEW a \in Args, NewJob(l, a) PROVE Basics'
  <2>1. CASE freeList = {}
    BY <1>1, <2>1 DEF NewJob
  <2>2. CASE freeList # {}
    <3>1. PICK o \in freeList :
            /\ freeList' = freeList \ {o}
            /\ obj' = [obj EXCEPT ![l] = o]
            /\ lpc' = [lpc EXCEPT ![l] = "fill"]
      BY <1>1, <2>2 DEF NewJob
    <3> QED
      BY <1>1, <3>1 DEF NewJob
  <2> QED
    BY <2>1, <2>2
<1>2. ASSUME NEW l \in Loops, Calloc(l) PROVE Basics'
  <2>1. CASE lpc' = [lpc EXCEPT ![l] = "idle"]
    BY <1>2, <2>1 DEF Calloc
  <2>2. CASE \E o \in Objs \ heap :
               /\ heap' = heap \union {o}
               /\ obj' = [obj EXCEPT ![l] = o]
               /\ lpc' = [lpc EXCEPT ![l] = "count"]
    <3>1. PICK o \in Objs :
            /\ heap' = heap \union {o}
            /\ obj' = [obj EXCEPT ![l] = o]
            /\ lpc' = [lpc EXCEPT ![l] = "count"]
      BY <2>2
    <3>2. Types'
      BY <1>2, <3>1 DEF Calloc
    <3>3. ObjInHand' /\ HeadIsRunning'
      BY <1>2, <3>1 DEF Calloc
    <3> QED
      BY <3>2, <3>3
  <2> QED
    BY <1>2, <2>1, <2>2 DEF Calloc
<1>3. ASSUME NEW l \in Loops, Count(l) PROVE Basics'
  BY <1>3 DEF Count
<1>4. ASSUME NEW l \in Loops, Fill(l) PROVE Basics'
  BY <1>4 DEF Fill
<1>5. ASSUME NEW l \in Loops, LockQueue(l) PROVE Basics'
  BY <1>5 DEF LockQueue
<1>6. ASSUME NEW l \in Loops, AddTail(l) PROVE Basics'
  <2> DEFINE w == <<l, index[l]>>
  <2>1. w \in Workers /\ obj[l] \in Objs /\ jobs[w] \in Seq(Objs)
    BY <1>6 DEF AddTail
  <2>2. /\ Append(jobs[w], obj[l]) \in Seq(Objs)
        /\ Append(jobs[w], obj[l]) # <<>>
        /\ jobs[w] # <<>> => Head(Append(jobs[w], obj[l])) = Head(jobs[w])
    <3> HIDE DEF w
    <3> QED
      BY <2>1, AppendFacts
  <2>3. jobs' = [jobs EXCEPT ![w] = Append(jobs[w], obj[l])]
    BY <1>6 DEF AddTail
  <2> HIDE DEF w
  <2>4. Types'
    <3>1. jobs' \in [Workers -> Seq(Objs)]
      BY <2>1, <2>2, <2>3
    <3> QED
      BY <1>6, <3>1 DEF AddTail
  <2>5. ObjInHand'
    BY <1>6 DEF AddTail
  <2>6. HeadIsRunning'
    BY <1>6, <2>1, <2>2, <2>3 DEF AddTail
  <2> QED
    BY <2>4, <2>5, <2>6
<1>7. ASSUME NEW l \in Loops, Signal(l) PROVE Basics'
  <2>1. Types'
    BY <1>7 DEF Signal
  <2>2. ObjInHand'
    BY <1>7 DEF Signal
  <2>3. HeadIsRunning'
    BY <1>7 DEF Signal
  <2> QED
    BY <2>1, <2>2, <2>3
<1>8. ASSUME NEW w \in Workers, LockWorker(w) PROVE Basics'
  BY <1>8 DEF LockWorker
<1>9. ASSUME NEW w \in Workers, CondWait(w) PROVE Basics'
  BY <1>9 DEF CondWait
<1>10. ASSUME NEW w \in Workers, Peek(w) PROVE Basics'
  BY <1>10 DEF Peek
<1>11. ASSUME NEW w \in Workers, RunJob(w) PROVE Basics'
  <2>1. runs' \in [Args -> Nat]
    <3>1. runs' = [runs EXCEPT ![arg[ln[w]]] = @ + 1]
      BY <1>11 DEF RunJob
    <3> QED
      BY <3>1, CountUp
  <2>2. Types'
    BY <1>11, <2>1 DEF RunJob
  <2>3. ObjInHand' /\ HeadIsRunning'
    BY <1>11 DEF RunJob
  <2> QED
    BY <2>2, <2>3
<1>12. ASSUME NEW w \in Workers, Delete(w) PROVE Basics'
  <2>1. jobs[w] \in Seq(Objs) /\ jobs[w] # <<>> /\ ln[w] = Head(jobs[w])
    BY <1>12 DEF Delete
  <2>2. Tail(jobs[w]) \in Seq(Objs) /\ ln[w] \in Objs
    BY <2>1, TailFacts
  <2>3. freeList' \subseteq Objs /\ leaked' \subseteq Objs /\ heap' = heap /\ freeObjs' \in Int
    BY <1>12, <2>2 DEF Delete, FreeJob
  <2>4. Types'
    BY <1>12, <2>2, <2>3 DEF Delete
  <2>5. ObjInHand' /\ HeadIsRunning'
    BY <1>12 DEF Delete
  <2> QED
    BY <2>4, <2>5
<1>13. ASSUME NEW w \in Workers, Decrement(w) PROVE Basics'
  <2>1. xpc' \in [Waiters -> {"idle", "lock", "check", "wait", "done"}]
    BY <1>13 DEF Decrement, SignalEmpty
  <2>2. Types'
    BY <1>13, <2>1 DEF Decrement
  <2>3. ObjInHand' /\ HeadIsRunning'
    BY <1>13 DEF Decrement
  <2> QED
    BY <2>2, <2>3
<1>14. ASSUME NEW w \in Workers, SpuriousWakeup(w) PROVE Basics'
  BY <1>14 DEF SpuriousWakeup
<1>15. ASSUME NEW x \in Waiters, WaitBegin(x) PROVE Basics'
  <2>1. \A w \in {pool[x]} \X Indexes : w \in Workers
    BY DEF Workers
  <2>2. \A w \in Workers : Queued(w) \subseteq Objs
    BY DEF Queued
  <2>3. {arg[o] : o \in UNION {Queued(w) : w \in {pool[x]} \X Indexes}}
           \subseteq Args \union {NoArg}
    BY <2>1, <2>2
  <2> QED
    BY <1>15, <2>3 DEF WaitBegin
<1>16. ASSUME NEW x \in Waiters, LockWaiter(x) PROVE Basics'
  BY <1>16 DEF LockWaiter
<1>17. ASSUME NEW x \in Waiters, CheckPending(x) PROVE Basics'
  BY <1>17 DEF CheckPending
<1>18. ASSUME NEW x \in Waiters, SpuriousWakeupEmpty(x) PROVE Basics'
  BY <1>18 DEF SpuriousWakeupEmpty
<1>19. CASE UNCHANGED vars
  BY <1>19 DEF vars
<1> QED
  BY <1>1, <1>2, <1>3, <1>4, <1>5, <1>6, <1>7, <1>8, <1>9, <1>10, <1>11, <1>12,
     <1>13, <1>14, <1>15, <1>16, <1>17, <1>18, <1>19
  DEF Next, CreateStep, WorkStep, WaitStep

-----------------------------------------------------------------------------
(* The mutexes *)

\* Who holds a queue's mutex is where its critical section is: the worker of
\* the queue, the loop of its pool, or the one waiter that checks it.
WorkerLocks ==
    \A w \in Workers : lock[w] = "worker" <=> wpc[w] \in {"loop", "del", "dec"}
LoopLocks ==
    \A w \in Workers :
        lock[w] = "loop" <=> lpc[w[1]] \in {"add", "signal"} /\ index[w[1]] = w[2]
WaiterLocks ==
    /\ \A x \in Waiters : xpc[x] = "check" => lock[Awaited(x)] = "waiter"
    /\ \A x, y \in Waiters :
            xpc[x] = "check" /\ xpc[y] = "check" /\ Awaited(x) = Awaited(y) => x = y

Locking == WorkerLocks /\ LoopLocks /\ WaiterLocks

\* Only the queue's own loop can choose it as its target.
LEMMA TargetShape ==
    ASSUME Types, NEW l \in Loops
    PROVE  /\ Target(l) \in Workers
           /\ Target(l)[1] = l /\ Target(l)[2] = index[l]
           /\ \A w \in Workers : w[1] = l /\ w[2] = index[l] <=> w = Target(l)
BY WorkerShape DEF Types, Target

\* wait_for_one_thread waits for a worker of the pool it was called on.
LEMMA AwaitedShape ==
    ASSUME Types, NEW x \in Waiters
    PROVE  Awaited(x) \in Workers
BY WorkerShape DEF Types, Awaited

\* No mutex is held at the start.
LEMMA InitLocking == Init => Locking
BY WorkerShape DEF Init, Locking, WorkerLocks, LoopLocks, WaiterLocks, Awaited

\* Every mutex[index] is held by the one thread whose program counter is in its
\* critical section, at every step: mutual exclusion of work_threads.c.
LEMMA LockingStep == Basics /\ Locking /\ [Next]_vars => Locking'
<1> SUFFICES ASSUME Basics, Locking, [Next]_vars PROVE Locking'
  OBVIOUS
<1> USE WorkerShape DEF Basics, Types, Locking, WorkerLocks, LoopLocks, WaiterLocks, Awaited
<1>1. ASSUME NEW l \in Loops, NEW a \in Args, NewJob(l, a) PROVE Locking'
  BY <1>1 DEF NewJob
<1>2. ASSUME NEW l \in Loops, Calloc(l) PROVE Locking'
  BY <1>2 DEF Calloc
<1>3. ASSUME NEW l \in Loops, Count(l) PROVE Locking'
  BY <1>3 DEF Count
<1>4. ASSUME NEW l \in Loops, Fill(l) PROVE Locking'
  BY <1>4 DEF Fill
<1>5. ASSUME NEW l \in Loops, LockQueue(l) PROVE Locking'
  <2>1. /\ Target(l) \in Workers /\ lock[Target(l)] = "none"
        /\ lock' = [lock EXCEPT ![Target(l)] = "loop"]
        /\ lpc' = [lpc EXCEPT ![l] = "add"] /\ UNCHANGED <<wpc, index, xpc, pool, i>>
    BY <1>5, TargetShape DEF LockQueue
  <2>2. WorkerLocks'
    BY <2>1
  <2>3. LoopLocks'
    BY <2>1, TargetShape
  <2>4. WaiterLocks'
    BY <2>1, AwaitedShape
  <2> QED
    BY <2>2, <2>3, <2>4
<1>6. ASSUME NEW l \in Loops, AddTail(l) PROVE Locking'
  BY <1>6 DEF AddTail
<1>7. ASSUME NEW l \in Loops, Signal(l) PROVE Locking'
  <2>1. /\ Target(l) \in Workers /\ lock[Target(l)] = "loop"
        /\ lock' = [lock EXCEPT ![Target(l)] = "none"]
        /\ wpc' = [wpc EXCEPT ![Target(l)] = IF @ = "wait" THEN "woken" ELSE @]
        /\ index' = [index EXCEPT ![l] = 0]
        /\ lpc' = [lpc EXCEPT ![l] = "idle"] /\ UNCHANGED <<xpc, pool, i>>
    <3>1. Target(l) \in Workers /\ Target(l)[1] = l /\ Target(l)[2] = index[l]
      BY TargetShape
    <3>2. lpc[l] = "signal"
      BY <1>7 DEF Signal
    <3>3. lock[Target(l)] = "loop"
      BY <3>1, <3>2
    <3> QED
      BY <1>7, <3>1, <3>3 DEF Signal
  <2>2. WorkerLocks'
    BY <2>1
  <2>3. LoopLocks'
    BY <2>1, TargetShape
  <2>4. WaiterLocks'
    BY <2>1, AwaitedShape
  <2> QED
    BY <2>2, <2>3, <2>4
<1>8. ASSUME NEW w \in Workers, LockWorker(w) PROVE Locking'
  BY <1>8 DEF LockWorker
<1>9. ASSUME NEW w \in Workers, CondWait(w) PROVE Locking'
  BY <1>9 DEF CondWait
<1>10. ASSUME NEW w \in Workers, Peek(w) PROVE Locking'
  BY <1>10 DEF Peek
<1>11. ASSUME NEW w \in Workers, RunJob(w) PROVE Locking'
  BY <1>11 DEF RunJob
<1>12. ASSUME NEW w \in Workers, Delete(w) PROVE Locking'
  BY <1>12 DEF Delete
<1>13. ASSUME NEW w \in Workers, Decrement(w) PROVE Locking'
  <2>1. \A x \in Waiters : xpc'[x] = "check" <=> xpc[x] = "check"
    BY <1>13 DEF Decrement, SignalEmpty
  <2>2. WorkerLocks' /\ LoopLocks'
    BY <1>13 DEF Decrement
  <2>3. WaiterLocks'
    BY <1>13, <2>1 DEF Decrement
  <2> QED
    BY <2>2, <2>3
<1>14. ASSUME NEW w \in Workers, SpuriousWakeup(w) PROVE Locking'
  BY <1>14 DEF SpuriousWakeup
<1>15. ASSUME NEW x \in Waiters, WaitBegin(x) PROVE Locking'
  BY <1>15 DEF WaitBegin
<1>16. ASSUME NEW x \in Waiters, LockWaiter(x) PROVE Locking'
  <2>1. /\ Awaited(x) \in Workers /\ lock[Awaited(x)] = "none"
        /\ lock' = [lock EXCEPT ![Awaited(x)] = "waiter"]
        /\ xpc' = [xpc EXCEPT ![x] = "check"] /\ UNCHANGED <<wpc, lpc, index, pool, i>>
    BY <1>16, AwaitedShape DEF LockWaiter
  <2>2. WorkerLocks' /\ LoopLocks'
    BY <2>1, ZenonT(60)
  <2>3. WaiterLocks'
    BY <2>1, AwaitedShape
  <2> QED
    BY <2>2, <2>3
<1>17. ASSUME NEW x \in Waiters, CheckPending(x) PROVE Locking'
  <2>1. /\ Awaited(x) \in Workers /\ lock[Awaited(x)] = "waiter"
        /\ lock' = [lock EXCEPT ![Awaited(x)] = "none"]
        /\ UNCHANGED <<wpc, lpc, index, pool>>
    BY <1>17, AwaitedShape DEF CheckPending
  <2>2. /\ xpc'[x] # "check"
        /\ \A y \in Waiters \ {x} : xpc'[y] = xpc[y] /\ i'[y] = i[y]
    BY <1>17 DEF CheckPending
  <2>3. WorkerLocks' /\ LoopLocks'
    BY <2>1, ZenonT(60)
  <2>4. ASSUME NEW y \in Waiters, xpc'[y] = "check"
        PROVE  /\ xpc[y] = "check" /\ Awaited(y)' = Awaited(y)
               /\ lock'[Awaited(y)] = "waiter"
    <3>1. y # x /\ xpc[y] = "check" /\ Awaited(y)' = Awaited(y)
      BY <2>1, <2>2, <2>4
    <3>2. xpc[x] = "check"
      BY <1>17 DEF CheckPending
    <3>3. Awaited(y) # Awaited(x) /\ lock[Awaited(y)] = "waiter"
      <4> HIDE DEF Awaited
      <4> QED
        BY <3>1, <3>2
    <3> HIDE DEF Awaited
    <3> QED
      BY <2>1, <3>1, <3>3, AwaitedShape
  <2>5. WaiterLocks'
    <3> HIDE DEF Awaited
    <3> QED
      BY <2>4
  <2> QED
    BY <2>3, <2>5
<1>18. ASSUME NEW x \in Waiters, SpuriousWakeupEmpty(x) PROVE Locking'
  BY <1>18 DEF SpuriousWakeupEmpty
<1>19. CASE UNCHANGED vars
  BY <1>19 DEF vars
<1> QED
  BY <1>1, <1>2, <1>3, <1>4, <1>5, <1>6, <1>7, <1>8, <1>9, <1>10, <1>11, <1>12,
     <1>13, <1>14, <1>15, <1>16, <1>17, <1>18, <1>19
  DEF Next, CreateStep, WorkStep, WaitStep

-----------------------------------------------------------------------------
(* The queues and their counters *)

\* The loop has linked a job it has not counted; the worker has unlinked one
\* it has not deducted.
Late(w) == IF lpc[w[1]] = "signal" /\ index[w[1]] = w[2] THEN 1 ELSE 0
Owing(w) == IF wpc[w] = "dec" THEN 1 ELSE 0

PendingCount == \A w \in Workers : pending[w] + Late(w) = Len(jobs[w]) + Owing(w)
SleepsWhenEmpty ==
    \A w \in Workers : wpc[w] = "wait" /\ jobs[w] # <<>> => Late(w) = 1
AddedIsThere == \A w \in Workers : Late(w) = 1 => jobs[w] # <<>>

Counting == PendingCount /\ SleepsWhenEmpty /\ AddedIsThere

\* The two corrections are 0 or 1.
LEMMA LateOwing == \A w \in Workers : Late(w) \in {0, 1} /\ Owing(w) \in {0, 1}
BY DEF Late, Owing

\* Facts about every queue that its type gives.
LEMMA QueueFacts ==
    ASSUME Types
    PROVE  \A w \in Workers : /\ jobs[w] \in Seq(Objs)
                              /\ Len(jobs[w]) \in Nat
                              /\ pending[w] \in Int
BY DEF Types

\* Empty queues and zero counters agree.
LEMMA InitCounting == Init => Counting
<1> SUFFICES ASSUME Init PROVE Counting
  OBVIOUS
<1>1. \A w \in Workers : jobs[w] = <<>> /\ Len(jobs[w]) = 0 /\ pending[w] = 0
  BY WorkerShape DEF Init
<1>2. \A w \in Workers : Late(w) = 0 /\ Owing(w) = 0
  BY WorkerShape DEF Init, Late, Owing
<1> QED
  BY <1>1, <1>2 DEF Counting, PendingCount, SleepsWhenEmpty, AddedIsThere

\* A step that touches no queue, no counter and neither correction, and puts
\* a worker to sleep only on an empty queue.
LEMMA QuietStep ==
    ASSUME Counting, UNCHANGED <<jobs, pending>>,
           \A w \in Workers : Late(w)' = Late(w) /\ Owing(w)' = Owing(w),
           \A w \in Workers : wpc'[w] = "wait" => wpc[w] = "wait" \/ jobs[w] = <<>>
    PROVE  Counting'
BY DEF Counting, PendingCount, SleepsWhenEmpty, AddedIsThere

\* pending[index] stays the length of the queue, corrected by a job queued and
\* not yet counted or unlinked and not yet discounted, and no worker sleeps on
\* a queue that nobody is about to signal.
LEMMA CountingStep == Basics /\ Locking /\ Counting /\ [Next]_vars => Counting'
<1> SUFFICES ASSUME Basics, Locking, Counting, [Next]_vars PROVE Counting'
  OBVIOUS
<1> USE WorkerShape, QueueFacts
    DEF Basics, Types, Counting, PendingCount, SleepsWhenEmpty, AddedIsThere, Late, Owing
<1>1. ASSUME NEW l \in Loops, NEW a \in Args, NewJob(l, a) PROVE Counting'
  <2>1. \A v \in Workers : Late(v)' = Late(v) /\ Owing(v)' = Owing(v)
    BY <1>1 DEF NewJob
  <2>2. /\ UNCHANGED <<jobs, pending>>
        /\ \A v \in Workers : wpc'[v] = "wait" => wpc[v] = "wait" \/ jobs[v] = <<>>
    BY <1>1 DEF NewJob
  <2> QED
    BY <2>1, <2>2, QuietStep
<1>2. ASSUME NEW l \in Loops, Calloc(l) PROVE Counting'
  <2>1. \A v \in Workers : Late(v)' = Late(v) /\ Owing(v)' = Owing(v)
    BY <1>2 DEF Calloc
  <2>2. /\ UNCHANGED <<jobs, pending>>
        /\ \A v \in Workers : wpc'[v] = "wait" => wpc[v] = "wait" \/ jobs[v] = <<>>
    BY <1>2 DEF Calloc
  <2> QED
    BY <2>1, <2>2, QuietStep
<1>3. ASSUME NEW l \in Loops, Count(l) PROVE Counting'
  <2>1. \A v \in Workers : Late(v)' = Late(v) /\ Owing(v)' = Owing(v)
    BY <1>3 DEF Count
  <2>2. /\ UNCHANGED <<jobs, pending>>
        /\ \A v \in Workers : wpc'[v] = "wait" => wpc[v] = "wait" \/ jobs[v] = <<>>
    BY <1>3 DEF Count
  <2> QED
    BY <2>1, <2>2, QuietStep
<1>4. ASSUME NEW l \in Loops, Fill(l) PROVE Counting'
  <2>1. \A v \in Workers : Late(v)' = Late(v) /\ Owing(v)' = Owing(v)
    BY <1>4 DEF Fill
  <2>2. /\ UNCHANGED <<jobs, pending>>
        /\ \A v \in Workers : wpc'[v] = "wait" => wpc[v] = "wait" \/ jobs[v] = <<>>
    BY <1>4 DEF Fill
  <2> QED
    BY <2>1, <2>2, QuietStep
<1>5. ASSUME NEW l \in Loops, LockQueue(l) PROVE Counting'
  <2>1. \A v \in Workers : Late(v)' = Late(v) /\ Owing(v)' = Owing(v)
    BY <1>5 DEF LockQueue
  <2>2. /\ UNCHANGED <<jobs, pending>>
        /\ \A v \in Workers : wpc'[v] = "wait" => wpc[v] = "wait" \/ jobs[v] = <<>>
    BY <1>5 DEF LockQueue
  <2> QED
    BY <2>1, <2>2, QuietStep
<1>6. ASSUME NEW l \in Loops, AddTail(l) PROVE Counting'
  <2>1. PICK t \in Workers :
          /\ t = Target(l) /\ t[1] = l /\ t[2] = index[l]
          /\ \A w \in Workers : w[1] = l /\ w[2] = index[l] <=> w = t
    BY TargetShape
  <2>2. /\ lpc[l] = "add" /\ obj[l] \in Objs
        /\ jobs' = [jobs EXCEPT ![t] = Append(jobs[t], obj[l])]
        /\ lpc' = [lpc EXCEPT ![l] = "signal"] /\ UNCHANGED <<pending, wpc, index>>
    BY <1>6, <2>1 DEF AddTail, ObjInHand, Holding
  <2>3. jobs[t] \in Seq(Objs)
    BY <2>1
  <2>4. jobs'[t] # <<>> /\ Len(jobs'[t]) = Len(jobs[t]) + 1
    BY <2>1, <2>2, <2>3, AppendFacts
  <2>5. \A w \in Workers : Owing(w)' = Owing(w)
    BY <2>2
  <2>6. Late(t) = 0 /\ Late(t)' = 1 /\ \A w \in Workers \ {t} : Late(w)' = Late(w)
    BY <2>1, <2>2
  <2>7. \A w \in Workers \ {t} : jobs'[w] = jobs[w]
    BY <2>1, <2>2
  <2> HIDE DEF Late, Owing
  <2>8. PendingCount'
    <3> SUFFICES ASSUME NEW v \in Workers
                 PROVE  pending'[v] + Late(v)' = Len(jobs'[v]) + Owing(v)'
      OBVIOUS
    <3>1. CASE v = t
      <4>1. /\ pending[t] + Late(t) = Len(jobs[t]) + Owing(t)
            /\ pending[t] \in Int /\ Len(jobs[t]) \in Nat /\ Owing(t) \in {0, 1}
        BY LateOwing
      <4>2. pending'[t] = pending[t] /\ Owing(t)' = Owing(t)
        BY <2>2, <2>5
      <4> QED
        BY <3>1, <4>1, <4>2, <2>4, <2>6
    <3>2. CASE v # t
      BY <3>2, <2>2, <2>5, <2>6, <2>7
    <3> QED
      BY <3>1, <3>2
  <2>9. SleepsWhenEmpty' /\ AddedIsThere'
    BY <2>1, <2>2, <2>4, <2>6, <2>7
  <2> QED
    BY <2>8, <2>9
<1>7. ASSUME NEW l \in Loops, Signal(l) PROVE Counting'
  <2>1. PICK t \in Workers :
          /\ t = Target(l) /\ t[1] = l /\ t[2] = index[l]
          /\ \A w \in Workers : w[1] = l /\ w[2] = index[l] <=> w = t
    BY TargetShape
  <2>2. /\ lpc[l] = "signal"
        /\ pending' = [pending EXCEPT ![t] = @ + 1]
        /\ wpc' = [wpc EXCEPT ![t] = IF @ = "wait" THEN "woken" ELSE @]
        /\ lpc' = [lpc EXCEPT ![l] = "idle"] /\ index' = [index EXCEPT ![l] = 0]
        /\ UNCHANGED jobs
    BY <1>7, <2>1 DEF Signal
  <2>3. Late(t) = 1 /\ Late(t)' = 0
    BY <2>1, <2>2
  <2>4. \A w \in Workers \ {t} : Late(w)' = Late(w)
    BY <2>1, <2>2
  <2>5. \A w \in Workers : Owing(w)' = Owing(w)
    BY <2>1, <2>2
  <2>6. wpc'[t] # "wait" /\ \A w \in Workers \ {t} : wpc'[w] = wpc[w]
    BY <2>1, <2>2
  <2> HIDE DEF Late, Owing
  <2>7. PendingCount'
    <3> SUFFICES ASSUME NEW v \in Workers
                 PROVE  pending'[v] + Late(v)' = Len(jobs'[v]) + Owing(v)'
      OBVIOUS
    <3>1. CASE v = t
      BY <3>1, <2>2, <2>3, <2>5, LateOwing
    <3>2. CASE v # t
      BY <3>2, <2>2, <2>4, <2>5
    <3> QED
      BY <3>1, <3>2
  <2>8. SleepsWhenEmpty' /\ AddedIsThere'
    BY <2>1, <2>2, <2>3, <2>4, <2>6
  <2> QED
    BY <2>7, <2>8
<1>8. ASSUME NEW w \in Workers, LockWorker(w) PROVE Counting'
  <2>1. \A v \in Workers : Late(v)' = Late(v) /\ Owing(v)' = Owing(v)
    BY <1>8 DEF LockWorker
  <2>2. /\ UNCHANGED <<jobs, pending>>
        /\ \A v \in Workers : wpc'[v] = "wait" => wpc[v] = "wait" \/ jobs[v] = <<>>
    BY <1>8 DEF LockWorker
  <2> QED
    BY <2>1, <2>2, QuietStep
<1>9. ASSUME NEW w \in Workers, CondWait(w) PROVE Counting'
  <2>1. \A v \in Workers : Late(v)' = Late(v) /\ Owing(v)' = Owing(v)
    BY <1>9 DEF CondWait
  <2>2. /\ UNCHANGED <<jobs, pending>>
        /\ \A v \in Workers : wpc'[v] = "wait" => wpc[v] = "wait" \/ jobs[v] = <<>>
    BY <1>9 DEF CondWait
  <2> QED
    BY <2>1, <2>2, QuietStep
<1>10. ASSUME NEW w \in Workers, Peek(w) PROVE Counting'
  <2>1. \A v \in Workers : Late(v)' = Late(v) /\ Owing(v)' = Owing(v)
    BY <1>10 DEF Peek
  <2>2. /\ UNCHANGED <<jobs, pending>>
        /\ \A v \in Workers : wpc'[v] = "wait" => wpc[v] = "wait" \/ jobs[v] = <<>>
    BY <1>10 DEF Peek
  <2> QED
    BY <2>1, <2>2, QuietStep
<1>11. ASSUME NEW w \in Workers, RunJob(w) PROVE Counting'
  <2>1. \A v \in Workers : Late(v)' = Late(v) /\ Owing(v)' = Owing(v)
    BY <1>11 DEF RunJob
  <2>2. /\ UNCHANGED <<jobs, pending>>
        /\ \A v \in Workers : wpc'[v] = "wait" => wpc[v] = "wait" \/ jobs[v] = <<>>
    BY <1>11 DEF RunJob
  <2> QED
    BY <2>1, <2>2, QuietStep
<1>12. ASSUME NEW w \in Workers, Delete(w) PROVE Counting'
  <2>1. /\ jobs[w] \in Seq(Objs) /\ jobs[w] # <<>> /\ wpc[w] = "del"
        /\ jobs' = [jobs EXCEPT ![w] = Tail(jobs[w])]
        /\ wpc' = [wpc EXCEPT ![w] = "dec"]
        /\ UNCHANGED <<pending, lpc, index>>
    BY <1>12 DEF Delete, HeadIsRunning
  <2>2. Len(jobs'[w]) = Len(jobs[w]) - 1
    BY <2>1, TailFacts
  <2>3. Owing(w) = 0 /\ Owing(w)' = 1 /\ \A v \in Workers \ {w} : Owing(v)' = Owing(v)
    BY <2>1
  <2>4. (\A v \in Workers : Late(v)' = Late(v)) /\ Late(w) = 0
    BY <2>1 DEF Locking, WorkerLocks, LoopLocks
  <2>5. \A v \in Workers \ {w} : jobs'[v] = jobs[v] /\ wpc'[v] = wpc[v]
    BY <2>1
  <2> HIDE DEF Late, Owing
  <2>6. PendingCount'
    BY <2>1, <2>2, <2>3, <2>4, <2>5, LateOwing
  <2>7. SleepsWhenEmpty' /\ AddedIsThere'
    BY <2>1, <2>4, <2>5
  <2> QED
    BY <2>6, <2>7
<1>13. ASSUME NEW w \in Workers, Decrement(w) PROVE Counting'
  <2>1. /\ wpc[w] = "dec" /\ wpc' = [wpc EXCEPT ![w] = "loop"]
        /\ pending' = [pending EXCEPT ![w] = @ - 1]
        /\ UNCHANGED <<jobs, lpc, index>>
    BY <1>13 DEF Decrement
  <2>2. Owing(w) = 1 /\ Owing(w)' = 0 /\ \A v \in Workers \ {w} : Owing(v)' = Owing(v)
    BY <2>1
  <2>3. \A v \in Workers : Late(v)' = Late(v)
    BY <2>1
  <2>4. \A v \in Workers : wpc'[v] = "wait" => wpc[v] = "wait"
    BY <2>1
  <2> HIDE DEF Late, Owing
  <2>5. PendingCount'
    <3> SUFFICES ASSUME NEW v \in Workers
                 PROVE  pending'[v] + Late(v)' = Len(jobs'[v]) + Owing(v)'
      OBVIOUS
    <3>1. CASE v = w
      <4>1. /\ pending[w] + Late(w) = Len(jobs[w]) + Owing(w)
            /\ pending[w] \in Int /\ Len(jobs[w]) \in Nat /\ Late(w) \in {0, 1}
        BY LateOwing
      <4>2. pending'[w] = pending[w] - 1 /\ jobs'[w] = jobs[w]
        BY <2>1
      <4> QED
        BY <3>1, <4>1, <4>2, <2>2, <2>3
    <3>2. CASE v # w
      BY <3>2, <2>1, <2>2, <2>3
    <3> QED
      BY <3>1, <3>2
  <2>6. SleepsWhenEmpty' /\ AddedIsThere'
    BY <2>1, <2>3, <2>4
  <2> QED
    BY <2>5, <2>6
<1>14. ASSUME NEW w \in Workers, SpuriousWakeup(w) PROVE Counting'
  <2>1. \A v \in Workers : Late(v)' = Late(v) /\ Owing(v)' = Owing(v)
    BY <1>14 DEF SpuriousWakeup
  <2>2. /\ UNCHANGED <<jobs, pending>>
        /\ \A v \in Workers : wpc'[v] = "wait" => wpc[v] = "wait" \/ jobs[v] = <<>>
    BY <1>14 DEF SpuriousWakeup
  <2> QED
    BY <2>1, <2>2, QuietStep
<1>15. ASSUME NEW x \in Waiters, WaitBegin(x) PROVE Counting'
  <2>1. \A v \in Workers : Late(v)' = Late(v) /\ Owing(v)' = Owing(v)
    BY <1>15 DEF WaitBegin
  <2>2. /\ UNCHANGED <<jobs, pending>>
        /\ \A v \in Workers : wpc'[v] = "wait" => wpc[v] = "wait" \/ jobs[v] = <<>>
    BY <1>15 DEF WaitBegin
  <2> QED
    BY <2>1, <2>2, QuietStep
<1>16. ASSUME NEW x \in Waiters, LockWaiter(x) PROVE Counting'
  <2>1. \A v \in Workers : Late(v)' = Late(v) /\ Owing(v)' = Owing(v)
    BY <1>16 DEF LockWaiter
  <2>2. /\ UNCHANGED <<jobs, pending>>
        /\ \A v \in Workers : wpc'[v] = "wait" => wpc[v] = "wait" \/ jobs[v] = <<>>
    BY <1>16 DEF LockWaiter
  <2> QED
    BY <2>1, <2>2, QuietStep
<1>17. ASSUME NEW x \in Waiters, CheckPending(x) PROVE Counting'
  <2>1. \A v \in Workers : Late(v)' = Late(v) /\ Owing(v)' = Owing(v)
    BY <1>17 DEF CheckPending
  <2>2. /\ UNCHANGED <<jobs, pending>>
        /\ \A v \in Workers : wpc'[v] = "wait" => wpc[v] = "wait" \/ jobs[v] = <<>>
    BY <1>17 DEF CheckPending
  <2> QED
    BY <2>1, <2>2, QuietStep
<1>18. ASSUME NEW x \in Waiters, SpuriousWakeupEmpty(x) PROVE Counting'
  <2>1. \A v \in Workers : Late(v)' = Late(v) /\ Owing(v)' = Owing(v)
    BY <1>18 DEF SpuriousWakeupEmpty
  <2>2. /\ UNCHANGED <<jobs, pending>>
        /\ \A v \in Workers : wpc'[v] = "wait" => wpc[v] = "wait" \/ jobs[v] = <<>>
    BY <1>18 DEF SpuriousWakeupEmpty
  <2> QED
    BY <2>1, <2>2, QuietStep
<1>19. CASE UNCHANGED vars
  BY <1>19, QuietStep DEF vars
<1> QED
  BY <1>1, <1>2, <1>3, <1>4, <1>5, <1>6, <1>7, <1>8, <1>9, <1>10, <1>11, <1>12,
     <1>13, <1>14, <1>15, <1>16, <1>17, <1>18, <1>19
  DEF Next, CreateStep, WorkStep, WaitStep

-----------------------------------------------------------------------------
(* Every job object is in one place *)

QueuesApart ==
    /\ \A w \in Workers : \A m, n \in 1 .. Len(jobs[w]) :
            jobs[w][m] = jobs[w][n] => m = n
    /\ \A v, w \in Workers : v # w => Queued(v) \intersect Queued(w) = {}
QueuedApart ==
    \A w \in Workers : \A o \in Queued(w) :
        /\ o \in heap /\ o \notin freeList /\ o \notin leaked
        /\ \A l \in Loops : Holding(l) => obj[l] # o
HeldApart ==
    /\ \A l \in Loops : Holding(l) =>
            obj[l] \in heap /\ obj[l] \notin freeList /\ obj[l] \notin leaked
    /\ \A k, l \in Loops : Holding(k) /\ Holding(l) /\ k # l => obj[k] # obj[l]
FreeApart == freeList \subseteq heap \ leaked /\ leaked \subseteq heap

Ownership == QueuesApart /\ QueuedApart /\ HeldApart /\ FreeApart

\* A step that moves no object.
LEMMA OwnershipFrame ==
    ASSUME Ownership, UNCHANGED <<freeList, heap, leaked, jobs, obj>>,
           \A l \in Loops : Holding(l)' <=> Holding(l)
    PROVE  Ownership'
<1>1. \A w \in Workers : Queued(w)' = Queued(w)
  BY DEF Queued
<1> QED
  BY <1>1 DEF Ownership, QueuesApart, QueuedApart, HeldApart, FreeApart

\* Nothing is allocated at the start, so nothing is in two places.
LEMMA InitOwnership == Init => Ownership
<1> SUFFICES ASSUME Init PROVE Ownership
  OBVIOUS
<1>1. \A w \in Workers : jobs[w] = <<>> /\ 1 .. Len(jobs[w]) = {} /\ Queued(w) = {}
  BY DEF Init, Queued
<1>2. \A l \in Loops : ~ Holding(l)
  BY DEF Init, Holding
<1> QED
  BY <1>1, <1>2
  DEF Init, Ownership, QueuesApart, QueuedApart, HeldApart, FreeApart

\* A job object moves between the free list, a loop, a queue and the objects
\* given up, and is never in two of them.
LEMMA OwnershipStep == Basics /\ Ownership /\ [Next]_vars => Ownership'
<1> SUFFICES ASSUME Basics, Ownership, [Next]_vars PROVE Ownership'
  OBVIOUS
<1> USE DEF Basics, Types, Ownership
<1>1. ASSUME NEW l \in Loops, NEW a \in Args, NewJob(l, a) PROVE Ownership'
  <2>1. CASE freeList = {}
    BY <1>1, <2>1, OwnershipFrame DEF NewJob, Holding
  <2>2. CASE freeList # {}
    <3>1. PICK o \in freeList :
            /\ lpc[l] = "idle" /\ UNCHANGED <<heap, leaked, jobs>>
            /\ freeList' = freeList \ {o}
            /\ obj' = [obj EXCEPT ![l] = o]
            /\ lpc' = [lpc EXCEPT ![l] = "fill"]
      BY <1>1, <2>2 DEF NewJob
    <3>2. /\ Holding(l)' /\ obj'[l] = o
          /\ \A k \in Loops \ {l} : (Holding(k)' <=> Holding(k)) /\ obj'[k] = obj[k]
      BY <3>1 DEF Holding
    <3>3. \A w \in Workers : Queued(w)' = Queued(w)
      BY <3>1 DEF Queued
    <3>4. QueuesApart'
      BY <3>1, <3>3 DEF QueuesApart
    <3>5. QueuedApart'
      BY <3>1, <3>2, <3>3 DEF QueuedApart
    <3>6. HeldApart'
      BY <3>1, <3>2 DEF HeldApart, QueuedApart, FreeApart
    <3>7. FreeApart'
      BY <3>1 DEF FreeApart
    <3> QED
      BY <3>4, <3>5, <3>6, <3>7
  <2> QED
    BY <2>1, <2>2
<1>2. ASSUME NEW l \in Loops, Calloc(l) PROVE Ownership'
  <2>1. CASE lpc' = [lpc EXCEPT ![l] = "idle"]
    BY <1>2, <2>1, OwnershipFrame DEF Calloc, Holding
  <2>2. CASE \E o \in Objs \ heap :
               /\ heap' = heap \union {o}
               /\ obj' = [obj EXCEPT ![l] = o]
               /\ lpc' = [lpc EXCEPT ![l] = "count"]
    <3>1. PICK o \in Objs \ heap :
            /\ lpc[l] = "calloc" /\ UNCHANGED <<freeList, leaked, jobs>>
            /\ heap' = heap \union {o}
            /\ obj' = [obj EXCEPT ![l] = o]
            /\ lpc' = [lpc EXCEPT ![l] = "count"]
      BY <1>2, <2>2 DEF Calloc
    <3>2. /\ Holding(l)' /\ obj'[l] = o
          /\ \A k \in Loops \ {l} : (Holding(k)' <=> Holding(k)) /\ obj'[k] = obj[k]
      BY <3>1 DEF Holding
    <3>3. \A w \in Workers : Queued(w)' = Queued(w)
      BY <3>1 DEF Queued
    <3>4. QueuesApart'
      BY <3>1, <3>3 DEF QueuesApart
    <3>5. QueuedApart'
      BY <3>1, <3>2, <3>3 DEF QueuedApart
    <3>6. HeldApart'
      BY <3>1, <3>2 DEF HeldApart, QueuedApart, FreeApart
    <3>7. FreeApart'
      BY <3>1 DEF FreeApart
    <3> QED
      BY <3>4, <3>5, <3>6, <3>7
  <2> QED
    BY <1>2, <2>1, <2>2 DEF Calloc
<1>3. ASSUME NEW l \in Loops, Count(l) PROVE Ownership'
  BY <1>3, OwnershipFrame DEF Count, Holding
<1>4. ASSUME NEW l \in Loops, Fill(l) PROVE Ownership'
  BY <1>4, OwnershipFrame DEF Fill, Holding
<1>5. ASSUME NEW l \in Loops, LockQueue(l) PROVE Ownership'
  BY <1>5, OwnershipFrame DEF LockQueue, Holding
<1>6. ASSUME NEW l \in Loops, AddTail(l) PROVE Ownership'
  <2>1. PICK t \in Workers : t = Target(l)
    BY TargetShape
  <2>2. /\ Holding(l) /\ obj[l] \in Objs /\ jobs[t] \in Seq(Objs)
        /\ jobs' = [jobs EXCEPT ![t] = Append(jobs[t], obj[l])]
        /\ UNCHANGED <<freeList, heap, leaked>>
    BY <1>6, <2>1 DEF AddTail, ObjInHand, Holding
  <2>3. /\ ~ Holding(l)'
        /\ \A k \in Loops \ {l} : (Holding(k)' <=> Holding(k)) /\ obj'[k] = obj[k]
    BY <1>6 DEF AddTail, Holding
  <2>4. /\ Len(jobs'[t]) = Len(jobs[t]) + 1
        /\ \A k \in 1 .. Len(jobs[t]) : jobs'[t][k] = jobs[t][k]
        /\ jobs'[t][Len(jobs[t]) + 1] = obj[l]
    BY <2>2, AppendFacts
  <2>5. Queued(t)' = Queued(t) \union {obj[l]}
    BY <2>2, <2>4 DEF Queued
  <2>6. \A w \in Workers \ {t} : jobs'[w] = jobs[w] /\ Queued(w)' = Queued(w)
    BY <2>2 DEF Queued
  <2>7. obj[l] \notin Queued(t)
    BY <2>2 DEF QueuedApart
  <2>8. QueuesApart'
    <3>1. \A m, n \in 1 .. Len(jobs'[t]) : jobs'[t][m] = jobs'[t][n] => m = n
      BY <2>2, <2>4, <2>7 DEF QueuesApart, Queued
    <3>2. \A v, w \in Workers : v # w => Queued(v)' \intersect Queued(w)' = {}
      <4>1. \A v \in Workers \ {t} : Queued(v) \intersect Queued(t)' = {}
        BY <2>2, <2>5 DEF QueuesApart, QueuedApart
      <4>2. \A v, w \in Workers \ {t} : v # w => Queued(v) \intersect Queued(w) = {}
        BY DEF QueuesApart
      <4> SUFFICES ASSUME NEW u \in Workers, NEW v \in Workers, u # v
                   PROVE  Queued(u)' \intersect Queued(v)' = {}
        OBVIOUS
      <4>3. CASE u = t
        BY <4>3, <4>1, <2>6
      <4>4. CASE v = t
        BY <4>4, <4>1, <2>6
      <4>5. CASE u # t /\ v # t
        BY <4>5, <4>2, <2>6
      <4> QED
        BY <4>3, <4>4, <4>5
    <3> QED
      BY <3>1, <3>2, <2>6 DEF QueuesApart
  <2>9. QueuedApart'
    <3> SUFFICES ASSUME NEW w \in Workers, NEW o \in Queued(w)'
                 PROVE  /\ o \in heap /\ o \notin freeList /\ o \notin leaked
                        /\ \A k \in Loops : Holding(k)' => obj'[k] # o
      BY <2>2 DEF QueuedApart
    <3>1. CASE o = obj[l]
      BY <3>1, <2>2, <2>3 DEF HeldApart
    <3>2. CASE o # obj[l]
      <4>1. o \in Queued(w)
        BY <3>2, <2>5, <2>6
      <4> QED
        BY <4>1, <2>2, <2>3 DEF QueuedApart
    <3> QED
      BY <3>1, <3>2
  <2>10. HeldApart' /\ FreeApart'
    BY <2>2, <2>3 DEF HeldApart, FreeApart
  <2> QED
    BY <2>8, <2>9, <2>10
<1>7. ASSUME NEW l \in Loops, Signal(l) PROVE Ownership'
  BY <1>7, OwnershipFrame DEF Signal, Holding
<1>8. ASSUME NEW w \in Workers, LockWorker(w) PROVE Ownership'
  BY <1>8, OwnershipFrame DEF LockWorker, Holding
<1>9. ASSUME NEW w \in Workers, CondWait(w) PROVE Ownership'
  BY <1>9, OwnershipFrame DEF CondWait, Holding
<1>10. ASSUME NEW w \in Workers, Peek(w) PROVE Ownership'
  BY <1>10, OwnershipFrame DEF Peek, Holding
<1>11. ASSUME NEW w \in Workers, RunJob(w) PROVE Ownership'
  BY <1>11, OwnershipFrame DEF RunJob, Holding
<1>12. ASSUME NEW w \in Workers, Delete(w) PROVE Ownership'
  <2>1. /\ jobs[w] \in Seq(Objs) /\ jobs[w] # <<>> /\ ln[w] = Head(jobs[w])
        /\ jobs' = [jobs EXCEPT ![w] = Tail(jobs[w])]
        /\ UNCHANGED <<heap, obj, lpc>>
    BY <1>12 DEF Delete, FreeJob, HeadIsRunning
  <2>2. \/ leaked' = leaked \union {ln[w]} /\ freeList' = freeList
        \/ freeList' = freeList \union {ln[w]} /\ leaked' = leaked
    BY <1>12 DEF Delete, FreeJob
  <2>3. /\ ln[w] = jobs[w][1] /\ Len(jobs[w]) \in Nat \ {0}
        /\ Len(jobs'[w]) = Len(jobs[w]) - 1
        /\ \A k \in 1 .. Len(jobs[w]) - 1 : jobs'[w][k] = jobs[w][k + 1]
    BY <2>1, TailFacts
  <2>4. /\ Queued(w)' \subseteq Queued(w) /\ ln[w] \in Queued(w) /\ ln[w] \notin Queued(w)'
    <3>1. ln[w] \in Queued(w)
      <4>1. 1 \in 1 .. Len(jobs[w])
        BY <2>3
      <4> QED
        BY <4>1, <2>3 DEF Queued
    <3>2. ASSUME NEW k \in 1 .. Len(jobs'[w])
          PROVE  jobs'[w][k] \in Queued(w) /\ jobs'[w][k] # ln[w]
      <4>1. /\ k \in 1 .. Len(jobs[w]) - 1 /\ k + 1 \in 1 .. Len(jobs[w]) /\ k + 1 # 1
            /\ 1 \in 1 .. Len(jobs[w])
        BY <2>3
      <4>2. jobs'[w][k] = jobs[w][k + 1]
        BY <4>1, <2>3
      <4> QED
        BY <4>1, <4>2, <2>3 DEF Queued, QueuesApart
    <3>3. Queued(w)' = {jobs'[w][k] : k \in 1 .. Len(jobs'[w])}
      BY DEF Queued
    <3> QED
      BY <3>1, <3>2, <3>3
  <2>5. \A v \in Workers \ {w} : jobs'[v] = jobs[v] /\ Queued(v)' = Queued(v)
    BY <2>1 DEF Queued
  <2>6. \A l \in Loops : Holding(l)' <=> Holding(l)
    BY <2>1 DEF Holding
  <2>7. QueuesApart'
    <3>1. \A m, n \in 1 .. Len(jobs'[w]) : jobs'[w][m] = jobs'[w][n] => m = n
      BY <2>3 DEF QueuesApart
    <3>2. \A u, v \in Workers : u # v => Queued(u)' \intersect Queued(v)' = {}
      <4>1. \A v \in Workers \ {w} : Queued(v) \intersect Queued(w)' = {}
        BY <2>4 DEF QueuesApart
      <4>2. \A u, v \in Workers \ {w} : u # v => Queued(u) \intersect Queued(v) = {}
        BY DEF QueuesApart
      <4> SUFFICES ASSUME NEW u \in Workers, NEW v \in Workers, u # v
                   PROVE  Queued(u)' \intersect Queued(v)' = {}
        OBVIOUS
      <4>3. CASE u = w
        BY <4>3, <4>1, <2>5
      <4>4. CASE v = w
        BY <4>4, <4>1, <2>5
      <4>5. CASE u # w /\ v # w
        BY <4>5, <4>2, <2>5
      <4> QED
        BY <4>3, <4>4, <4>5
    <3> QED
      BY <3>1, <3>2, <2>5 DEF QueuesApart
  <2>8. QueuedApart'
    <3> SUFFICES ASSUME NEW v \in Workers, NEW o \in Queued(v)'
                 PROVE  /\ o \in heap /\ o \notin freeList' /\ o \notin leaked'
                        /\ \A k \in Loops : Holding(k) => obj[k] # o
      BY <2>1, <2>6 DEF QueuedApart
    <3>1. o \in Queued(v) /\ o # ln[w]
      <4>1. CASE v = w
        BY <4>1, <2>4
      <4>2. CASE v # w
        BY <4>2, <2>4, <2>5 DEF QueuesApart
      <4> QED
        BY <4>1, <4>2
    <3> QED
      BY <3>1, <2>2 DEF QueuedApart
  <2>9. HeldApart'
    BY <2>1, <2>2, <2>4, <2>6 DEF HeldApart, QueuedApart
  <2>10. FreeApart'
    BY <2>1, <2>2, <2>4 DEF FreeApart, QueuedApart
  <2> QED
    BY <2>7, <2>8, <2>9, <2>10
<1>13. ASSUME NEW w \in Workers, Decrement(w) PROVE Ownership'
  BY <1>13, OwnershipFrame DEF Decrement, Holding
<1>14. ASSUME NEW w \in Workers, SpuriousWakeup(w) PROVE Ownership'
  BY <1>14, OwnershipFrame DEF SpuriousWakeup, Holding
<1>15. ASSUME NEW x \in Waiters, WaitBegin(x) PROVE Ownership'
  BY <1>15, OwnershipFrame DEF WaitBegin, Holding
<1>16. ASSUME NEW x \in Waiters, LockWaiter(x) PROVE Ownership'
  BY <1>16, OwnershipFrame DEF LockWaiter, Holding
<1>17. ASSUME NEW x \in Waiters, CheckPending(x) PROVE Ownership'
  BY <1>17, OwnershipFrame DEF CheckPending, Holding
<1>18. ASSUME NEW x \in Waiters, SpuriousWakeupEmpty(x) PROVE Ownership'
  BY <1>18, OwnershipFrame DEF SpuriousWakeupEmpty, Holding
<1>19. CASE UNCHANGED vars
  BY <1>19, OwnershipFrame DEF vars, Holding
<1> QED
  BY <1>1, <1>2, <1>3, <1>4, <1>5, <1>6, <1>7, <1>8, <1>9, <1>10, <1>11, <1>12,
     <1>13, <1>14, <1>15, <1>16, <1>17, <1>18, <1>19
  DEF Next, CreateStep, WorkStep, WaitStep

-----------------------------------------------------------------------------
(* g_free_objs and the length of the free list *)

Counted == (heap \ leaked) \ Uncounted

Accounting ==
    /\ IsFiniteSet(heap)
    /\ freeObjs = Cardinality(Counted)
    /\ FreeListBounded

\* A step that neither allocates, counts, lists nor gives up an object.
LEMMA AccountingFrame ==
    ASSUME Accounting, UNCHANGED <<freeList, freeObjs, heap, leaked>>,
           \A l \in Loops : lpc'[l] = "count" <=> lpc[l] = "count",
           \A l \in Loops : lpc[l] = "count" => obj'[l] = obj[l]
    PROVE  Accounting'
<1>1. Uncounted' = Uncounted
  BY DEF Uncounted
<1> QED
  BY <1>1 DEF Accounting, Counted, FreeListBounded

\* g_free_objs starts at zero with no object in existence.
LEMMA InitAccounting == Init => Accounting
<1> SUFFICES ASSUME Init PROVE Accounting
  OBVIOUS
<1>1. heap = {} /\ freeList = {} /\ freeObjs = 0 /\ Counted = {}
  BY DEF Init, Counted
<1> QED
  BY <1>1, FS_EmptySet, ThreadPoolAssumption DEF Accounting, FreeListBounded

\* What the counter counts is finite, and the free list is part of it.
LEMMA Bounded ==
    ASSUME Types, Ownership, Accounting
    PROVE  /\ IsFiniteSet(Counted)
           /\ Cardinality(Counted) \in Nat
           /\ freeList \subseteq Counted
           /\ \A S \in SUBSET freeList : Cardinality(S) <= MaxFree
<1>1. IsFiniteSet(Counted)
  BY FS_Subset DEF Accounting, Counted
<1>2. freeList \subseteq Counted
  BY DEF Ownership, FreeApart, HeldApart, Counted, Uncounted, Holding
<1>3. \A S \in SUBSET freeList : Cardinality(S) <= MaxFree
  <2> SUFFICES ASSUME NEW S \in SUBSET freeList PROVE Cardinality(S) <= MaxFree
    OBVIOUS
  <2>1. IsFiniteSet(freeList)
    BY <1>1, <1>2, FS_Subset
  <2>2. IsFiniteSet(S) /\ Cardinality(S) <= Cardinality(freeList)
    BY <2>1, FS_Subset
  <2>3. Cardinality(S) \in Nat /\ Cardinality(freeList) \in Nat
    BY <2>1, <2>2, FS_CardinalityType
  <2> QED
    BY <2>2, <2>3, ThreadPoolAssumption DEF Accounting, FreeListBounded
<1> QED
  BY <1>1, <1>2, <1>3, FS_CardinalityType

\* g_free_objs stays the number of counted objects over the two sections of
\* new_job and the one of free_job, and bounds the free list.
LEMMA AccountingStep ==
    Basics /\ Ownership /\ Accounting /\ [Next]_vars => Accounting'
<1> SUFFICES ASSUME Basics, Ownership, Accounting, [Next]_vars PROVE Accounting'
  OBVIOUS
<1> USE DEF Basics, Types, Ownership
<1>1. ASSUME NEW l \in Loops, NEW a \in Args, NewJob(l, a) PROVE Accounting'
  <2>1. /\ UNCHANGED <<freeObjs, heap, leaked>>
        /\ freeList' \subseteq freeList
    BY <1>1 DEF NewJob
  <2>2. Uncounted' = Uncounted
    <3>1. \A k \in Loops : /\ lpc'[k] = "count" <=> lpc[k] = "count"
                           /\ lpc[k] = "count" => obj'[k] = obj[k]
      BY <1>1 DEF NewJob
    <3> HIDE DEF Basics, Types, Ownership
    <3> QED
      BY <3>1 DEF Uncounted
  <2>3. Cardinality(freeList') <= MaxFree
    BY <2>1, Bounded, ThreadPoolAssumption
  <2> QED
    BY <2>1, <2>2, <2>3 DEF Accounting, Counted, FreeListBounded
<1>2. ASSUME NEW l \in Loops, Calloc(l) PROVE Accounting'
  <2>1. CASE lpc' = [lpc EXCEPT ![l] = "idle"]
    BY <1>2, <2>1, AccountingFrame DEF Calloc
  <2>2. CASE \E o \in Objs \ heap :
               /\ heap' = heap \union {o}
               /\ obj' = [obj EXCEPT ![l] = o]
               /\ lpc' = [lpc EXCEPT ![l] = "count"]
    <3>1. PICK o \in Objs \ heap :
            /\ lpc[l] = "calloc" /\ UNCHANGED <<freeList, freeObjs, leaked>>
            /\ heap' = heap \union {o}
            /\ obj' = [obj EXCEPT ![l] = o]
            /\ lpc' = [lpc EXCEPT ![l] = "count"]
      BY <1>2, <2>2 DEF Calloc
    <3>2. Uncounted' = Uncounted \union {o}
      <4>1. /\ lpc'[l] = "count" /\ obj'[l] = o /\ lpc[l] # "count"
            /\ \A k \in Loops \ {l} : lpc'[k] = lpc[k] /\ obj'[k] = obj[k]
        BY <3>1
      <4> HIDE DEF Basics, Types, Ownership
      <4>2. Uncounted' \subseteq Uncounted \union {o}
        BY <4>1 DEF Uncounted
      <4>3. o \in Uncounted' /\ Uncounted \subseteq Uncounted'
        BY <4>1 DEF Uncounted
      <4> QED
        BY <4>2, <4>3
    <3>3. o \notin leaked
      BY <3>1 DEF FreeApart
    <3>4. Counted' = Counted
      BY <3>1, <3>2, <3>3 DEF Counted
    <3>5. IsFiniteSet(heap')
      BY <3>1, FS_AddElement DEF Accounting
    <3> QED
      BY <3>1, <3>4, <3>5 DEF Accounting, FreeListBounded
  <2> QED
    BY <1>2, <2>1, <2>2 DEF Calloc
<1>3. ASSUME NEW l \in Loops, Count(l) PROVE Accounting'
  <2>1. /\ lpc[l] = "count" /\ lpc' = [lpc EXCEPT ![l] = "fill"]
        /\ freeObjs' = freeObjs + 1
        /\ UNCHANGED <<freeList, heap, leaked, obj>>
    BY <1>3 DEF Count
  <2>2. /\ obj[l] \in heap /\ obj[l] \notin leaked
        /\ \A k \in Loops : lpc[k] = "count" /\ k # l => obj[k] # obj[l]
    BY <2>1 DEF HeldApart, Holding
  <2>3. obj[l] \in Uncounted /\ Uncounted' = Uncounted \ {obj[l]}
    <3>1. \A k \in Loops : lpc'[k] = "count" <=> lpc[k] = "count" /\ k # l
      BY <2>1
    <3> QED
      BY <2>1, <2>2, <3>1 DEF Uncounted
  <2>4. Counted' = Counted \union {obj[l]} /\ obj[l] \notin Counted
    BY <2>1, <2>2, <2>3 DEF Counted
  <2>5. Cardinality(Counted') = Cardinality(Counted) + 1
    BY <2>4, Bounded, FS_AddElement
  <2> QED
    BY <2>1, <2>5 DEF Accounting, FreeListBounded
<1>4. ASSUME NEW l \in Loops, Fill(l) PROVE Accounting'
  BY <1>4, AccountingFrame DEF Fill
<1>5. ASSUME NEW l \in Loops, LockQueue(l) PROVE Accounting'
  BY <1>5, AccountingFrame DEF LockQueue
<1>6. ASSUME NEW l \in Loops, AddTail(l) PROVE Accounting'
  BY <1>6, AccountingFrame DEF AddTail
<1>7. ASSUME NEW l \in Loops, Signal(l) PROVE Accounting'
  BY <1>7, AccountingFrame DEF Signal
<1>8. ASSUME NEW w \in Workers, LockWorker(w) PROVE Accounting'
  BY <1>8, AccountingFrame DEF LockWorker
<1>9. ASSUME NEW w \in Workers, CondWait(w) PROVE Accounting'
  BY <1>9, AccountingFrame DEF CondWait
<1>10. ASSUME NEW w \in Workers, Peek(w) PROVE Accounting'
  BY <1>10, AccountingFrame DEF Peek
<1>11. ASSUME NEW w \in Workers, RunJob(w) PROVE Accounting'
  BY <1>11, AccountingFrame DEF RunJob
<1>12. ASSUME NEW w \in Workers, Delete(w) PROVE Accounting'
  <2>1. /\ ln[w] = Head(jobs[w]) /\ jobs[w] # <<>> /\ UNCHANGED <<heap, lpc, obj>>
        /\ jobs[w] \in Seq(Objs)
    BY <1>12 DEF Delete, FreeJob, HeadIsRunning
  <2>2. ln[w] \in Queued(w)
    <3>1. ln[w] = jobs[w][1] /\ 1 \in 1 .. Len(jobs[w])
      BY <2>1, TailFacts
    <3> QED
      BY <3>1 DEF Queued
  <2>3. ln[w] \in Counted /\ ln[w] \notin freeList
    BY <2>2 DEF QueuedApart, Counted, Uncounted, Holding
  <2>4. Uncounted' = Uncounted
    BY <2>1 DEF Uncounted
  <2>5. CASE freeObjs >= MaxFree
    <3>1. /\ freeObjs' = freeObjs - 1 /\ leaked' = leaked \union {ln[w]}
          /\ UNCHANGED freeList
      BY <1>12, <2>5, ThreadPoolAssumption DEF Delete, FreeJob
    <3>2. Counted' = Counted \ {ln[w]}
      BY <2>1, <2>4, <3>1 DEF Counted
    <3>3. Cardinality(Counted') = Cardinality(Counted) - 1
      BY <2>3, <3>2, Bounded, FS_RemoveElement
    <3> QED
      BY <2>1, <3>1, <3>3 DEF Accounting, FreeListBounded
  <2>6. CASE freeObjs < MaxFree
    <3>1. UNCHANGED <<freeObjs, leaked>> /\ freeList' = freeList \union {ln[w]}
      BY <1>12, <2>6, ThreadPoolAssumption DEF Delete, FreeJob
    <3>2. Counted' = Counted
      BY <2>1, <2>4, <3>1 DEF Counted
    <3>3. freeList' \subseteq Counted
      BY <3>1, <2>3, Bounded
    <3>4. Cardinality(freeList') <= Cardinality(Counted)
      BY <3>3, Bounded, FS_Subset
    <3>5. Cardinality(freeList') <= MaxFree
      <4>1. Cardinality(freeList') \in Nat
        BY <3>3, Bounded, FS_Subset, FS_CardinalityType
      <4> QED
        BY <4>1, <3>4, <2>6, Bounded, ThreadPoolAssumption DEF Accounting
    <3> QED
      BY <2>1, <3>1, <3>2, <3>5 DEF Accounting, FreeListBounded
  <2> QED
    BY <2>5, <2>6, ThreadPoolAssumption
<1>13. ASSUME NEW w \in Workers, Decrement(w) PROVE Accounting'
  BY <1>13, AccountingFrame DEF Decrement
<1>14. ASSUME NEW w \in Workers, SpuriousWakeup(w) PROVE Accounting'
  BY <1>14, AccountingFrame DEF SpuriousWakeup
<1>15. ASSUME NEW x \in Waiters, WaitBegin(x) PROVE Accounting'
  BY <1>15, AccountingFrame DEF WaitBegin
<1>16. ASSUME NEW x \in Waiters, LockWaiter(x) PROVE Accounting'
  BY <1>16, AccountingFrame DEF LockWaiter
<1>17. ASSUME NEW x \in Waiters, CheckPending(x) PROVE Accounting'
  BY <1>17, AccountingFrame DEF CheckPending
<1>18. ASSUME NEW x \in Waiters, SpuriousWakeupEmpty(x) PROVE Accounting'
  BY <1>18, AccountingFrame DEF SpuriousWakeupEmpty
<1>19. CASE UNCHANGED vars
  BY <1>19, AccountingFrame DEF vars
<1> QED
  BY <1>1, <1>2, <1>3, <1>4, <1>5, <1>6, <1>7, <1>8, <1>9, <1>10, <1>11, <1>12,
     <1>13, <1>14, <1>15, <1>16, <1>17, <1>18, <1>19
  DEF Next, CreateStep, WorkStep, WaitStep

-----------------------------------------------------------------------------
(* The theorems *)

\* The inductive invariant.
PoolInv == Basics /\ Locking /\ Counting /\ Ownership /\ Accounting

\* Every reachable state of the pool satisfies the inductive invariant.
THEOREM PoolInvariant == Spec => []PoolInv
<1>1. Init => PoolInv
  BY InitBasics, InitLocking, InitCounting, InitOwnership, InitAccounting DEF PoolInv
<1>2. PoolInv /\ [Next]_vars => PoolInv'
  BY BasicsStep, LockingStep, CountingStep, OwnershipStep, AccountingStep DEF PoolInv
<1> QED
  BY <1>1, <1>2, PTL DEF Spec

\* No unsigned counter of the pool wraps below zero: g_free_objs and every
\* pending[index] stay naturals, whatever the limit and the interleaving.
THEOREM PoolTypes == Spec => []TypeOK
<1>1. PoolInv => TypeOK
  <2> SUFFICES ASSUME PoolInv PROVE TypeOK
    OBVIOUS
  <2>1. Types
    BY DEF PoolInv, Basics
  <2>2. freeObjs \in Nat
    BY <2>1, Bounded DEF PoolInv, Accounting
  <2>3. ASSUME NEW w \in Workers PROVE pending[w] \in Nat
    <3>1. /\ pending[w] \in Int /\ Len(jobs[w]) \in Nat
          /\ Late(w) \in {0, 1} /\ Owing(w) \in {0, 1}
          /\ pending[w] + Late(w) = Len(jobs[w]) + Owing(w)
      BY <2>1, QueueFacts, LateOwing DEF PoolInv, Counting, PendingCount
    <3>2. Late(w) = 1 => Len(jobs[w]) >= 1
      <4> SUFFICES ASSUME Late(w) = 1 PROVE Len(jobs[w]) >= 1
        OBVIOUS
      <4>1. jobs[w] # <<>> /\ jobs[w] \in Seq(Objs)
        BY <2>1, QueueFacts DEF PoolInv, Counting, AddedIsThere
      <4> QED
        BY <4>1, TailFacts
    <3> QED
      BY <3>1, <3>2
  <2>4. pending \in [Workers -> Nat]
    BY <2>1, <2>3 DEF Types
  <2> QED
    BY <2>1, <2>2, <2>4 DEF TypeOK
<1> QED
  BY <1>1, PoolInvariant, PTL

\* A job object is linked into one list at most and never into two queues,
\* the free list and a loop's hands at once.
THEOREM PoolObjects == Spec => []NoSharedObject
<1>1. PoolInv => NoSharedObject
  BY DEF PoolInv, Ownership, QueuesApart, QueuedApart, HeldApart, FreeApart,
         NoSharedObject, Held
<1> QED
  BY <1>1, PoolInvariant, PTL

\* g_free_objs is the number of counted objects that are not given up.
THEOREM PoolCounts == Spec => []PoolAccounting
<1>1. PoolInv => PoolAccounting
  BY DEF PoolInv, Accounting, Counted, PoolAccounting
<1> QED
  BY <1>1, PoolInvariant, PTL

\* g_max_free_obj bounds the free list.
THEOREM PoolFreeList == Spec => []FreeListBounded
<1>1. PoolInv => FreeListBounded
  BY DEF PoolInv, Accounting
<1> QED
  BY <1>1, PoolInvariant, PTL

\* What process_jobs unlinks after the handler is what it peeked at.
THEOREM PoolHead == Spec => []HeadIsRunning
<1>1. PoolInv => HeadIsRunning
  BY DEF PoolInv, Basics
<1> QED
  BY <1>1, PoolInvariant, PTL

\* Outside the critical sections pending is the length of the queue.
THEOREM PoolPending == Spec => []PendingIsLength
<1>1. PoolInv => PendingIsLength
  <2> SUFFICES ASSUME PoolInv, NEW w \in Workers, lock[w] = "none"
               PROVE  pending[w] = Len(jobs[w])
    BY DEF PendingIsLength
  <2>1. Late(w) = 0 /\ Owing(w) = 0
    BY DEF PoolInv, Locking, WorkerLocks, LoopLocks, Late, Owing
  <2>2. pending[w] \in Int /\ Len(jobs[w]) \in Nat
    BY QueueFacts DEF PoolInv, Basics
  <2> QED
    BY <2>1, <2>2 DEF PoolInv, Counting, PendingCount
<1> QED
  BY <1>1, PoolInvariant, PTL

\* A sleeping worker has nothing to do, or a wakeup is on its way.
THEOREM PoolWakeups == Spec => []NoLostWakeup
<1>1. PoolInv => NoLostWakeup
  <2> SUFFICES ASSUME PoolInv, NEW w \in Workers, wpc[w] = "wait", jobs[w] # <<>>
               PROVE  lpc[w[1]] = "signal" /\ Target(w[1]) = w
    BY DEF NoLostWakeup
  <2>1. lpc[w[1]] = "signal" /\ index[w[1]] = w[2]
    BY DEF PoolInv, Counting, SleepsWhenEmpty, Late
  <2> QED
    BY <2>1, WorkerShape DEF Target
<1> QED
  BY <1>1, PoolInvariant, PTL

-----------------------------------------------------------------------------
(* Where a request is *)

\* create_job has been called with the request and has not queued it yet.
Carries(l) == lpc[l] \in {"calloc", "count", "fill", "lock", "add"}

\* A request in the hands of a loop was never run and is nowhere else.
CarriedApart ==
    /\ \A l \in Loops : Carries(l) => req[l] \in taken /\ runs[req[l]] = 0
    /\ \A k, l \in Loops : Carries(k) /\ Carries(l) /\ k # l => req[k] # req[l]
    /\ \A l \in Loops : lpc[l] \in {"lock", "add"} => arg[obj[l]] = req[l]

\* The request of a queued object is the loop's no more, and no other's.
QueuedRequests ==
    /\ \A w \in Workers : \A o \in Queued(w) :
            arg[o] \in taken /\ \A l \in Loops : Carries(l) => req[l] # arg[o]
    /\ \A v, w \in Workers : \A o \in Queued(v), p \in Queued(w) :
            arg[o] = arg[p] => o = p

\* The handler of a job returned: it stays linked until its worker has the
\* mutex again.
Served(w) == wpc[w] \in {"ran", "del"}

\* A queued request was run only if it is the one whose handler returned.
RunsOfQueued ==
    \A w \in Workers : \A o \in Queued(w) :
        runs[arg[o]] = IF Served(w) /\ o = ln[w] THEN 1 ELSE 0

NeverTaken == \A a \in Args \ taken : runs[a] = 0

Requests == CarriedApart /\ QueuedRequests /\ RunsOfQueued /\ NeverTaken

\* A request that was queued when the wait began has been run, or is still
\* queued at an index the waiter has not left.
Ahead(x, a) ==
    \E k \in Indexes : /\ k >= i[x]
                       /\ \E o \in Queued(<<pool[x], k>>) : arg[o] = a
Covered ==
    /\ \A x \in Waiters : before[x] \subseteq Args
    /\ \A x \in Waiters : xpc[x] = "idle" => i[x] = 0
    /\ \A x \in Waiters : xpc[x] # "idle" => \A a \in before[x] :
            runs[a] >= 1 \/ (xpc[x] # "done" /\ Ahead(x, a))

-----------------------------------------------------------------------------
(* How the queues change *)

\* list_add_tail adds the object in hand to the one queue it is aimed at.
LEMMA AddTailQueues ==
    ASSUME Basics, NEW l \in Loops, AddTail(l)
    PROVE  /\ Target(l) \in Workers
           /\ Queued(Target(l))' = Queued(Target(l)) \union {obj[l]}
           /\ \A w \in Workers \ {Target(l)} : jobs'[w] = jobs[w] /\ Queued(w)' = Queued(w)
<1>1. PICK t \in Workers : t = Target(l)
  BY TargetShape DEF Basics
<1>2. /\ obj[l] \in Objs /\ jobs[t] \in Seq(Objs) /\ jobs \in [Workers -> Seq(Objs)]
      /\ jobs' = [jobs EXCEPT ![t] = Append(jobs[t], obj[l])]
  BY <1>1 DEF AddTail, Basics, Types, ObjInHand, Holding
<1>3. /\ Len(jobs'[t]) = Len(jobs[t]) + 1
      /\ \A k \in 1 .. Len(jobs[t]) : jobs'[t][k] = jobs[t][k]
      /\ jobs'[t][Len(jobs[t]) + 1] = obj[l]
  BY <1>2, AppendFacts
<1>4. Queued(t)' = Queued(t) \union {obj[l]}
  BY <1>2, <1>3 DEF Queued
<1>5. \A w \in Workers \ {t} : jobs'[w] = jobs[w] /\ Queued(w)' = Queued(w)
  BY <1>2 DEF Queued
<1> QED
  <2>1. Queued(Target(l))' = Queued(t)'
    <3>1. Target(l)' = Target(l)
      BY <1>2 DEF AddTail, Target
    <3> QED
      BY <1>1, <3>1
  <2> QED
    BY <1>1, <1>4, <1>5, <2>1

\* The head of a queue is in it.
LEMMA HeadQueued ==
    ASSUME Basics, NEW w \in Workers, wpc[w] \in {"run", "ran", "del"}
    PROVE  ln[w] \in Queued(w) /\ ln[w] = Head(jobs[w]) /\ jobs[w] # <<>>
<1>1. jobs[w] \in Seq(Objs) /\ jobs[w] # <<>> /\ ln[w] = Head(jobs[w])
  BY DEF Basics, Types, HeadIsRunning
<1>2. ln[w] = jobs[w][1] /\ 1 \in 1 .. Len(jobs[w])
  BY <1>1, TailFacts
<1> QED
  BY <1>1, <1>2 DEF Queued

\* list_del takes the object the worker ran out of its queue, once and for all.
LEMMA DeleteQueues ==
    ASSUME Basics, Ownership, NEW w \in Workers, Delete(w)
    PROVE  /\ ln[w] \in Queued(w)
           /\ Queued(w)' = Queued(w) \ {ln[w]}
           /\ \A v \in Workers \ {w} : jobs'[v] = jobs[v] /\ Queued(v)' = Queued(v)
<1>1. /\ jobs[w] \in Seq(Objs) /\ jobs[w] # <<>> /\ ln[w] = Head(jobs[w])
      /\ jobs \in [Workers -> Seq(Objs)]
      /\ jobs' = [jobs EXCEPT ![w] = Tail(jobs[w])]
      /\ ln[w] \in Queued(w)
  BY HeadQueued DEF Delete, Basics, Types
<1>2. /\ ln[w] = jobs[w][1] /\ Len(jobs[w]) \in Nat \ {0}
      /\ Len(jobs'[w]) = Len(jobs[w]) - 1
      /\ \A k \in 1 .. Len(jobs[w]) - 1 : jobs'[w][k] = jobs[w][k + 1]
  BY <1>1, TailFacts
<1>3. \A m, n \in 1 .. Len(jobs[w]) : jobs[w][m] = jobs[w][n] => m = n
  BY DEF Ownership, QueuesApart
<1>4. ASSUME NEW o \in Queued(w)' PROVE o \in Queued(w) \ {ln[w]}
  <2>1. PICK k \in 1 .. Len(jobs[w]) - 1 : o = jobs[w][k + 1]
    BY <1>2, <1>4 DEF Queued
  <2>2. k + 1 \in 1 .. Len(jobs[w]) /\ k + 1 # 1 /\ 1 \in 1 .. Len(jobs[w])
    BY <1>2
  <2> QED
    BY <1>2, <1>3, <2>1, <2>2 DEF Queued
<1>5. ASSUME NEW o \in Queued(w) \ {ln[w]} PROVE o \in Queued(w)'
  <2>1. PICK k \in 1 .. Len(jobs[w]) : o = jobs[w][k] /\ k # 1
    BY <1>2, <1>5 DEF Queued
  <2>2. k - 1 \in 1 .. Len(jobs[w]) - 1 /\ (k - 1) + 1 = k
    BY <1>2, <2>1
  <2>3. k - 1 \in 1 .. Len(jobs'[w]) /\ jobs'[w][k - 1] = o
    BY <1>2, <2>1, <2>2
  <2> QED
    BY <2>3 DEF Queued
<1>6. \A v \in Workers \ {w} : jobs'[v] = jobs[v] /\ Queued(v)' = Queued(v)
  BY <1>1 DEF Queued
<1> QED
  BY <1>1, <1>4, <1>5, <1>6

-----------------------------------------------------------------------------
(* Requests is invariant *)

\* Nothing was requested at the start.
LEMMA InitRequests == Init => Requests
<1> SUFFICES ASSUME Init PROVE Requests
  OBVIOUS
<1>1. \A w \in Workers : Queued(w) = {}
  <2>1. \A w \in Workers : jobs[w] = <<>> /\ 1 .. Len(jobs[w]) = {}
    BY DEF Init
  <2> QED
    BY <2>1 DEF Queued
<1>2. \A l \in Loops : ~ Carries(l) /\ lpc[l] = "idle"
  BY DEF Init, Carries
<1>3. \A a \in Args : runs[a] = 0
  BY DEF Init
<1> QED
  BY <1>1, <1>2, <1>3
  DEF Requests, CarriedApart, QueuedRequests, RunsOfQueued, NeverTaken

\* A step that moves and runs no request: the worker may look at the next job,
\* a loop may give its request up.
LEMMA RequestsFrame ==
    ASSUME Requests, UNCHANGED <<arg, jobs, runs, taken>>,
           \A l \in Loops : Carries(l)' => Carries(l) /\ req'[l] = req[l],
           \A l \in Loops : lpc'[l] \in {"lock", "add"} =>
                lpc[l] \in {"lock", "add"} /\ obj'[l] = obj[l] /\ req'[l] = req[l],
           \A w \in Workers : Served(w)' <=> Served(w),
           \A w \in Workers : Served(w) => ln'[w] = ln[w]
    PROVE  Requests'
<1>1. \A w \in Workers : Queued(w)' = Queued(w)
  BY DEF Queued
<1>2. CarriedApart'
  BY DEF Requests, CarriedApart
<1>3. QueuedRequests'
  BY <1>1 DEF Requests, QueuedRequests
<1>4. RunsOfQueued'
  BY <1>1 DEF Requests, RunsOfQueued
<1>5. NeverTaken'
  BY DEF Requests, NeverTaken
<1> QED
  BY <1>2, <1>3, <1>4, <1>5 DEF Requests

\* A request goes from create_job's caller to the loop, to one queue, to the
\* handler and is forgotten; at no step is it in two of these places.
LEMMA RequestsStep == Basics /\ Ownership /\ Requests /\ [Next]_vars => Requests'
<1> SUFFICES ASSUME Basics, Ownership, Requests, [Next]_vars PROVE Requests'
  OBVIOUS
<1> USE DEF Basics, Types
<1>1. ASSUME NEW l \in Loops, NEW a \in Args, NewJob(l, a) PROVE Requests'
  <2>1. /\ lpc[l] = "idle" /\ a \notin taken /\ taken' = taken \union {a}
        /\ req' = [req EXCEPT ![l] = a] /\ UNCHANGED <<arg, jobs, runs, ln, wpc>>
    BY <1>1 DEF NewJob
  <2>2. /\ lpc'[l] \in {"fill", "calloc"} /\ req'[l] = a
        /\ \A k \in Loops \ {l} : lpc'[k] = lpc[k] /\ req'[k] = req[k] /\ obj'[k] = obj[k]
    BY <1>1 DEF NewJob
  <2>3. \A w \in Workers : Queued(w)' = Queued(w) /\ (Served(w)' <=> Served(w))
    BY <2>1 DEF Queued, Served
  <2>4. CarriedApart'
    BY <2>1, <2>2 DEF Requests, CarriedApart, NeverTaken, Carries
  <2>5. QueuedRequests'
    BY <2>1, <2>2, <2>3 DEF Requests, QueuedRequests, Carries
  <2>6. RunsOfQueued'
    BY <2>1, <2>3 DEF Requests, RunsOfQueued
  <2>7. NeverTaken'
    BY <2>1 DEF Requests, NeverTaken
  <2> QED
    BY <2>4, <2>5, <2>6, <2>7 DEF Requests
<1>2. ASSUME NEW l \in Loops, Calloc(l) PROVE Requests'
  <2>1. /\ lpc[l] = "calloc" /\ UNCHANGED <<arg, jobs, runs, taken, wpc, ln>>
        /\ lpc'[l] \in {"count", "idle"} /\ (lpc'[l] = "count" => req'[l] = req[l])
        /\ \A k \in Loops \ {l} : lpc'[k] = lpc[k] /\ req'[k] = req[k] /\ obj'[k] = obj[k]
    BY <1>2 DEF Calloc
  <2> QED
    BY <2>1, RequestsFrame DEF Carries, Served
<1>3. ASSUME NEW l \in Loops, Count(l) PROVE Requests'
  BY <1>3, RequestsFrame DEF Count, Carries, Served
<1>4. ASSUME NEW l \in Loops, Fill(l) PROVE Requests'
  <2>1. /\ lpc[l] = "fill" /\ obj[l] \in Objs /\ arg' = [arg EXCEPT ![obj[l]] = req[l]]
        /\ lpc' = [lpc EXCEPT ![l] = "lock"]
        /\ UNCHANGED <<jobs, runs, taken, req, obj, wpc, ln>>
    BY <1>4 DEF Fill, ObjInHand, Holding
  <2>2. \A w \in Workers : /\ Queued(w)' = Queued(w) /\ (Served(w)' <=> Served(w))
                           /\ \A o \in Queued(w) : arg'[o] = arg[o]
    <3>1. \A w \in Workers : Queued(w)' = Queued(w) /\ (Served(w)' <=> Served(w))
      BY <2>1 DEF Queued, Served
    <3>2. \A w \in Workers : \A o \in Queued(w) : o # obj[l]
      BY <2>1 DEF Ownership, QueuedApart, Holding
    <3>3. \A w \in Workers : Queued(w) \subseteq Objs
      BY DEF Queued
    <3> QED
      BY <2>1, <3>1, <3>2, <3>3
  <2>3. \A k \in Loops : Carries(k)' <=> Carries(k)
    BY <2>1 DEF Carries
  <2>4. CarriedApart'
    <3>1. \A k \in Loops \ {l} : lpc[k] \in {"lock", "add"} => arg'[obj[k]] = arg[obj[k]]
      BY <2>1 DEF Ownership, HeldApart, Holding
    <3>2. arg'[obj[l]] = req[l]
      BY <2>1
    <3> QED
      BY <2>1, <2>3, <3>1, <3>2 DEF Requests, CarriedApart
  <2>5. QueuedRequests'
    BY <2>1, <2>2, <2>3 DEF Requests, QueuedRequests
  <2>6. RunsOfQueued'
    BY <2>1, <2>2 DEF Requests, RunsOfQueued
  <2>7. NeverTaken'
    BY <2>1 DEF Requests, NeverTaken
  <2> QED
    BY <2>4, <2>5, <2>6, <2>7 DEF Requests
<1>5. ASSUME NEW l \in Loops, LockQueue(l) PROVE Requests'
  BY <1>5, RequestsFrame DEF LockQueue, Carries, Served
<1>6. ASSUME NEW l \in Loops, AddTail(l) PROVE Requests'
  <2>1. /\ lpc[l] = "add" /\ obj[l] \in Objs /\ lpc' = [lpc EXCEPT ![l] = "signal"]
        /\ obj' = [obj EXCEPT ![l] = NoObj]
        /\ UNCHANGED <<arg, runs, taken, req, wpc, ln, index>>
    BY <1>6 DEF AddTail, ObjInHand, Holding
  <2>2. PICK t \in Workers :
          /\ Queued(t)' = Queued(t) \union {obj[l]}
          /\ \A w \in Workers \ {t} : Queued(w)' = Queued(w)
    <3>1. Target(l)' = Target(l)
      BY <2>1 DEF Target
    <3> QED
      BY <1>6, <3>1, AddTailQueues
  <2>3. /\ Carries(l) /\ ~ Carries(l)'
        /\ \A k \in Loops \ {l} : (Carries(k)' <=> Carries(k)) /\ lpc'[k] = lpc[k]
                                  /\ obj'[k] = obj[k]
    BY <2>1 DEF Carries
  <2>4. /\ arg[obj[l]] = req[l] /\ req[l] \in taken /\ runs[req[l]] = 0
        /\ \A k \in Loops \ {l} : Carries(k) => req[k] # req[l]
        /\ \A w \in Workers : \A o \in Queued(w) : arg[o] # req[l]
    BY <2>1, <2>3 DEF Requests, CarriedApart, QueuedRequests
  <2>5. CarriedApart'
    <3>1. lpc'[l] \notin {"lock", "add"}
      BY <2>1, <2>3 DEF Carries
    <3>2. \A k \in Loops : Carries(k)' => Carries(k)
      BY <2>3
    <3>3. \A k \in Loops : lpc'[k] \in {"lock", "add"} => arg'[obj'[k]] = req'[k]
      BY <2>1, <2>3, <3>1 DEF Requests, CarriedApart
    <3>4. /\ \A k \in Loops : Carries(k)' => req'[k] \in taken' /\ runs'[req'[k]] = 0
          /\ \A j, k \in Loops : Carries(j)' /\ Carries(k)' /\ j # k => req'[j] # req'[k]
      BY <2>1, <3>2 DEF Requests, CarriedApart
    <3> QED
      BY <3>3, <3>4 DEF CarriedApart
  <2>6. QueuedRequests'
    <3>1. \A w \in Workers : \A o \in Queued(w)' :
            arg[o] \in taken /\ \A k \in Loops : Carries(k)' => req[k] # arg[o]
      <4> SUFFICES ASSUME NEW w \in Workers, NEW o \in Queued(w)'
                   PROVE  arg[o] \in taken /\ \A k \in Loops : Carries(k)' => req[k] # arg[o]
        OBVIOUS
      <4>1. o \in Queued(w) \/ o = obj[l]
        BY <2>2
      <4> QED
        BY <4>1, <2>3, <2>4 DEF Requests, QueuedRequests
    <3>2. \A v, w \in Workers : \A o \in Queued(v)', p \in Queued(w)' :
            arg[o] = arg[p] => o = p
      <4> SUFFICES ASSUME NEW v \in Workers, NEW w \in Workers,
                          NEW o \in Queued(v)', NEW p \in Queued(w)', arg[o] = arg[p]
                   PROVE  o = p
        OBVIOUS
      <4>1. (o \in Queued(v) \/ o = obj[l]) /\ (p \in Queued(w) \/ p = obj[l])
        BY <2>2
      <4> QED
        BY <4>1, <2>4 DEF Requests, QueuedRequests
    <3> QED
      BY <2>1, <3>1, <3>2 DEF QueuedRequests
  <2>7. RunsOfQueued'
    <3> SUFFICES ASSUME NEW w \in Workers, NEW o \in Queued(w)'
                 PROVE  runs[arg[o]] = IF Served(w) /\ o = ln[w] THEN 1 ELSE 0
      BY <2>1 DEF RunsOfQueued, Served
    <3>1. CASE o \in Queued(w)
      BY <3>1 DEF Requests, RunsOfQueued
    <3>2. CASE o \notin Queued(w)
      <4>1. o = obj[l] /\ runs[arg[o]] = 0
        BY <3>2, <2>2, <2>4
      <4>2. Served(w) => o # ln[w]
        BY <3>2, HeadQueued DEF Served
      <4> QED
        BY <4>1, <4>2
    <3> QED
      BY <3>1, <3>2
  <2>8. NeverTaken'
    BY <2>1 DEF Requests, NeverTaken
  <2> QED
    BY <2>5, <2>6, <2>7, <2>8 DEF Requests
<1>7. ASSUME NEW l \in Loops, Signal(l) PROVE Requests'
  <2>1. /\ lpc[l] = "signal" /\ UNCHANGED <<arg, jobs, runs, taken, ln>>
        /\ lpc'[l] = "idle"
        /\ \A k \in Loops \ {l} : lpc'[k] = lpc[k] /\ req'[k] = req[k] /\ obj'[k] = obj[k]
        /\ \A w \in Workers : Served(w)' <=> Served(w)
    BY <1>7 DEF Signal, Served
  <2> QED
    BY <2>1, RequestsFrame DEF Carries
<1>8. ASSUME NEW w \in Workers, LockWorker(w) PROVE Requests'
  BY <1>8, RequestsFrame DEF LockWorker, Carries, Served
<1>9. ASSUME NEW w \in Workers, CondWait(w) PROVE Requests'
  BY <1>9, RequestsFrame DEF CondWait, Carries, Served
<1>10. ASSUME NEW w \in Workers, Peek(w) PROVE Requests'
  BY <1>10, RequestsFrame DEF Peek, Carries, Served
<1>11. ASSUME NEW w \in Workers, RunJob(w) PROVE Requests'
  <2>1. /\ wpc[w] = "run" /\ runs' = [runs EXCEPT ![arg[ln[w]]] = @ + 1]
        /\ wpc' = [wpc EXCEPT ![w] = "ran"]
        /\ UNCHANGED <<arg, jobs, taken, ln, lpc, req, obj>>
    BY <1>11 DEF RunJob
  <2>2. ln[w] \in Queued(w) /\ ~ Served(w) /\ Served(w)'
    BY <2>1, HeadQueued DEF Served
  <2>3. \A v \in Workers \ {w} : Served(v)' <=> Served(v)
    BY <2>1 DEF Served
  <2>4. arg[ln[w]] \in taken /\ arg[ln[w]] \in Args /\ runs[arg[ln[w]]] = 0
    BY <2>2 DEF Requests, QueuedRequests, RunsOfQueued
  <2>5. runs'[arg[ln[w]]] = 1 /\ \A a \in Args \ {arg[ln[w]]} : runs'[a] = runs[a]
    BY <2>1, <2>4
  <2>6. \A v \in Workers : Queued(v)' = Queued(v)
    BY <2>1 DEF Queued
  <2>7. CarriedApart'
    <3>1. \A l \in Loops : Carries(l) => req[l] # arg[ln[w]] /\ req[l] \in Args
      BY <2>2 DEF Requests, QueuedRequests, CarriedApart
    <3>2. \A l \in Loops : Carries(l)' <=> Carries(l)
      BY <2>1 DEF Carries
    <3> QED
      BY <2>1, <2>5, <3>1, <3>2 DEF Requests, CarriedApart
  <2>8. QueuedRequests'
    BY <2>1, <2>6 DEF Requests, QueuedRequests, Carries
  <2>9. RunsOfQueued'
    <3> SUFFICES ASSUME NEW v \in Workers, NEW o \in Queued(v)
                 PROVE  runs'[arg[o]] = IF Served(v)' /\ o = ln[v] THEN 1 ELSE 0
      BY <2>1, <2>6 DEF RunsOfQueued
    <3>1. CASE o = ln[w]
      <4>1. v = w
        BY <3>1, <2>2 DEF Ownership, QueuesApart
      <4> QED
        BY <3>1, <4>1, <2>2, <2>5
    <3>2. CASE o # ln[w]
      <4>1. arg[o] # arg[ln[w]] /\ arg[o] \in Args
        BY <3>2, <2>2 DEF Requests, QueuedRequests
      <4>2. runs'[arg[o]] = IF Served(v) /\ o = ln[v] THEN 1 ELSE 0
        BY <4>1, <2>5 DEF Requests, RunsOfQueued
      <4> QED
        BY <3>2, <4>2, <2>2, <2>3
    <3> QED
      BY <3>1, <3>2
  <2>10. NeverTaken'
    BY <2>1, <2>4, <2>5 DEF Requests, NeverTaken
  <2> QED
    BY <2>7, <2>8, <2>9, <2>10 DEF Requests
<1>12. ASSUME NEW w \in Workers, Delete(w) PROVE Requests'
  <2>1. /\ wpc[w] = "del" /\ wpc' = [wpc EXCEPT ![w] = "dec"]
        /\ ln' = [ln EXCEPT ![w] = NoObj]
        /\ UNCHANGED <<arg, runs, taken, lpc, req, obj>>
    BY <1>12 DEF Delete
  <2>2. /\ Queued(w)' = Queued(w) \ {ln[w]}
        /\ \A v \in Workers \ {w} : Queued(v)' = Queued(v)
    BY <1>12, DeleteQueues
  <2>3. \A l \in Loops : Carries(l)' <=> Carries(l)
    BY <2>1 DEF Carries
  <2>4. CarriedApart'
    BY <2>1, <2>3 DEF Requests, CarriedApart
  <2>5. QueuedRequests'
    <3>1. \A v \in Workers : Queued(v)' \subseteq Queued(v)
      BY <2>2
    <3> HIDE DEF Basics, Types
    <3> QED
      BY <2>1, <2>3, <3>1 DEF Requests, QueuedRequests
  <2>6. RunsOfQueued'
    BY <2>1, <2>2 DEF Requests, RunsOfQueued, Served
  <2>7. NeverTaken'
    BY <2>1 DEF Requests, NeverTaken
  <2> QED
    BY <2>4, <2>5, <2>6, <2>7 DEF Requests
<1>13. ASSUME NEW w \in Workers, Decrement(w) PROVE Requests'
  BY <1>13, RequestsFrame DEF Decrement, Carries, Served
<1>14. ASSUME NEW w \in Workers, SpuriousWakeup(w) PROVE Requests'
  BY <1>14, RequestsFrame DEF SpuriousWakeup, Carries, Served
<1>15. ASSUME NEW x \in Waiters, WaitBegin(x) PROVE Requests'
  BY <1>15, RequestsFrame DEF WaitBegin, Carries, Served
<1>16. ASSUME NEW x \in Waiters, LockWaiter(x) PROVE Requests'
  BY <1>16, RequestsFrame DEF LockWaiter, Carries, Served
<1>17. ASSUME NEW x \in Waiters, CheckPending(x) PROVE Requests'
  BY <1>17, RequestsFrame DEF CheckPending, Carries, Served
<1>18. ASSUME NEW x \in Waiters, SpuriousWakeupEmpty(x) PROVE Requests'
  BY <1>18, RequestsFrame DEF SpuriousWakeupEmpty, Carries, Served
<1>19. CASE UNCHANGED vars
  BY <1>19, RequestsFrame DEF vars, Carries, Served
<1> QED
  BY <1>1, <1>2, <1>3, <1>4, <1>5, <1>6, <1>7, <1>8, <1>9, <1>10, <1>11, <1>12,
     <1>13, <1>14, <1>15, <1>16, <1>17, <1>18, <1>19
  DEF Next, CreateStep, WorkStep, WaitStep

-----------------------------------------------------------------------------
(* Covered is invariant *)

\* Nobody waits at the start.
LEMMA InitCovered == Init => Covered
BY DEF Init, Covered

\* A step that begins no wait and leaves no index, and takes a request out of
\* its queue only after it was run.
LEMMA CoveredFrame ==
    ASSUME Basics, Basics', Covered, UNCHANGED <<pool, i, before>>,
           \A x \in Waiters : xpc'[x] = "idle" <=> xpc[x] = "idle",
           \A x \in Waiters : xpc'[x] = "done" => xpc[x] = "done",
           \A a \in Args : runs'[a] >= runs[a],
           \A w \in Workers : \A o \in Queued(w) :
                arg'[o] = arg[o] /\ (o \in Queued(w)' \/ runs[arg[o]] >= 1)
    PROVE  Covered'
<1> SUFFICES ASSUME NEW x \in Waiters, xpc[x] # "idle", NEW a \in before[x]
             PROVE  runs'[a] >= 1 \/ (xpc'[x] # "done" /\ Ahead(x, a)')
  BY DEF Covered
<1>1. a \in Args /\ runs[a] \in Nat /\ runs'[a] \in Nat /\ runs'[a] >= runs[a]
  BY DEF Covered, Basics, Types
<1>2. CASE runs[a] >= 1
  BY <1>1, <1>2
<1>3. CASE ~ (runs[a] >= 1)
  <2>1. xpc[x] # "done" /\ Ahead(x, a)
    BY <1>3 DEF Covered
  <2>2. PICK k \in Indexes : k >= i[x] /\ \E o \in Queued(<<pool[x], k>>) : arg[o] = a
    BY <2>1 DEF Ahead
  <2>3. PICK o \in Queued(<<pool[x], k>>) : arg[o] = a
    BY <2>2
  <2>4. <<pool[x], k>> \in Workers
    BY WorkerShape DEF Basics, Types
  <2>5. o \in Queued(<<pool[x], k>>)' /\ arg'[o] = a
    BY <1>3, <2>3, <2>4
  <2>6. Ahead(x, a)'
    BY <2>2, <2>5 DEF Ahead
  <2> QED
    BY <2>1, <2>6
<1> QED
  BY <1>2, <1>3

\* When a waiter finds nothing pending under the mutex, the queue is empty.
LEMMA NothingPending ==
    ASSUME Basics, Locking, Counting, NEW x \in Waiters,
           xpc[x] = "check", pending[Awaited(x)] = 0
    PROVE  Queued(Awaited(x)) = {}
<1>1. PICK w \in Workers : w = Awaited(x) /\ lock[w] = "waiter"
  BY AwaitedShape DEF Basics, Locking, WaiterLocks
<1>2. Late(w) = 0 /\ Owing(w) = 0
  BY <1>1 DEF Locking, WorkerLocks, LoopLocks, Late, Owing
<1>3. Len(jobs[w]) = 0
  <2>1. Len(jobs[w]) \in Nat /\ pending[w] + Late(w) = Len(jobs[w]) + Owing(w)
    BY QueueFacts DEF Basics, Counting, PendingCount
  <2> QED
    BY <1>1, <1>2, <2>1
<1> QED
  BY <1>1, <1>3 DEF Queued

\* A waiter passes an index only when its queue is empty, and a request leaves
\* a queue only when it was run.
LEMMA CoveredStep ==
    PoolInv /\ Requests /\ Covered /\ [Next]_vars => Covered'
<1> SUFFICES ASSUME PoolInv, Requests, Covered, [Next]_vars PROVE Covered'
  OBVIOUS
<1> USE DEF PoolInv
<1>0. Basics'
  BY BasicsStep
<1>a. \A a \in Args : runs[a] \in Nat /\ runs[a] >= runs[a]
  BY DEF Basics, Types
<1> DEFINE Waits == /\ UNCHANGED <<pool, i, before>>
                    /\ \A x \in Waiters : xpc'[x] = "idle" <=> xpc[x] = "idle"
                    /\ \A x \in Waiters : xpc'[x] = "done" => xpc[x] = "done"
           Keeps == /\ \A a \in Args : runs'[a] >= runs[a]
                    /\ \A w \in Workers : \A o \in Queued(w) :
                            arg'[o] = arg[o] /\ (o \in Queued(w)' \/ runs[arg[o]] >= 1)
<1>b. Waits /\ Keeps => Covered'
  BY <1>0, CoveredFrame
<1>c. UNCHANGED <<arg, jobs, runs>> => Keeps
  BY <1>a DEF Queued
<1>d. UNCHANGED waitVars => Waits
  OBVIOUS
<1> HIDE DEF Waits, Keeps
<1>1. ASSUME NEW l \in Loops, NEW a \in Args, NewJob(l, a) PROVE Covered'
  BY <1>1, <1>b, <1>c, <1>d DEF NewJob
<1>2. ASSUME NEW l \in Loops, Calloc(l) PROVE Covered'
  BY <1>2, <1>b, <1>c, <1>d DEF Calloc
<1>3. ASSUME NEW l \in Loops, Count(l) PROVE Covered'
  BY <1>3, <1>b, <1>c, <1>d DEF Count
<1>4. ASSUME NEW l \in Loops, Fill(l) PROVE Covered'
  <2>1. /\ lpc[l] = "fill" /\ arg' = [arg EXCEPT ![obj[l]] = req[l]]
        /\ UNCHANGED <<jobs, runs, waitVars>>
    BY <1>4 DEF Fill
  <2>2. \A w \in Workers : \A o \in Queued(w) : o # obj[l] /\ o \in Objs
    BY <2>1 DEF Ownership, QueuedApart, Holding, Basics, Types, Queued
  <2>3. \A w \in Workers : Queued(w)' = Queued(w)
    BY <2>1 DEF Queued
  <2>4. Keeps
    BY <1>a, <2>1, <2>2, <2>3 DEF Keeps, Basics, Types
  <2> QED
    BY <2>1, <2>4, <1>b, <1>d
<1>5. ASSUME NEW l \in Loops, LockQueue(l) PROVE Covered'
  BY <1>5, <1>b, <1>c, <1>d DEF LockQueue
<1>6. ASSUME NEW l \in Loops, AddTail(l) PROVE Covered'
  <2>1. UNCHANGED <<arg, runs, waitVars, index>>
    BY <1>6 DEF AddTail
  <2>2. \A w \in Workers : Queued(w) \subseteq Queued(w)'
    <3>1. Target(l)' = Target(l)
      BY <2>1 DEF Target
    <3> QED
      BY <1>6, <3>1, AddTailQueues
  <2>3. Keeps
    BY <1>a, <2>1, <2>2 DEF Keeps
  <2> QED
    BY <2>1, <2>3, <1>b, <1>d
<1>7. ASSUME NEW l \in Loops, Signal(l) PROVE Covered'
  BY <1>7, <1>b, <1>c, <1>d DEF Signal
<1>8. ASSUME NEW w \in Workers, LockWorker(w) PROVE Covered'
  BY <1>8, <1>b, <1>c, <1>d DEF LockWorker
<1>9. ASSUME NEW w \in Workers, CondWait(w) PROVE Covered'
  BY <1>9, <1>b, <1>c, <1>d DEF CondWait
<1>10. ASSUME NEW w \in Workers, Peek(w) PROVE Covered'
  BY <1>10, <1>b, <1>c, <1>d DEF Peek
<1>11. ASSUME NEW w \in Workers, RunJob(w) PROVE Covered'
  <2>1. /\ runs' = [runs EXCEPT ![arg[ln[w]]] = @ + 1]
        /\ UNCHANGED <<arg, jobs, waitVars>>
    BY <1>11 DEF RunJob
  <2>2. \A a \in Args : runs'[a] >= runs[a]
    BY <2>1 DEF Basics, Types
  <2>3. \A v \in Workers : Queued(v)' = Queued(v)
    BY <2>1 DEF Queued
  <2>4. Keeps
    BY <2>1, <2>2, <2>3 DEF Keeps
  <2> QED
    BY <2>1, <2>4, <1>b, <1>d
<1>12. ASSUME NEW w \in Workers, Delete(w) PROVE Covered'
  <2>1. UNCHANGED <<arg, runs, waitVars>> /\ wpc[w] = "del"
    BY <1>12 DEF Delete
  <2>2. /\ ln[w] \in Queued(w) /\ Queued(w)' = Queued(w) \ {ln[w]}
        /\ \A v \in Workers \ {w} : Queued(v)' = Queued(v)
    BY <1>12, DeleteQueues
  <2>3. runs[arg[ln[w]]] = 1
    BY <2>1, <2>2 DEF Requests, RunsOfQueued, Served
  <2>4. Keeps
    BY <1>a, <2>1, <2>2, <2>3 DEF Keeps
  <2> QED
    BY <2>1, <2>4, <1>b, <1>d
<1>13. ASSUME NEW w \in Workers, Decrement(w) PROVE Covered'
  <2>1. Waits
    BY <1>13 DEF Decrement, SignalEmpty, Waits, Basics, Types
  <2> QED
    BY <1>13, <2>1, <1>b, <1>c DEF Decrement
<1>14. ASSUME NEW w \in Workers, SpuriousWakeup(w) PROVE Covered'
  BY <1>14, <1>b, <1>c, <1>d DEF SpuriousWakeup
<1>15. ASSUME NEW x \in Waiters, WaitBegin(x) PROVE Covered'
  <2> DEFINE Here == {arg[o] : o \in UNION {Queued(w) : w \in {pool[x]} \X Indexes}}
  <2>1. /\ xpc[x] = "idle" /\ xpc' = [xpc EXCEPT ![x] = "lock"]
        /\ before' = [before EXCEPT ![x] = Here]
        /\ UNCHANGED <<arg, jobs, runs, pool, i>>
    BY <1>15 DEF WaitBegin
  <2>2. i[x] = 0
    BY <2>1 DEF Covered
  <2>3. \A w \in Workers : Queued(w)' = Queued(w)
    BY <2>1 DEF Queued
  <2>4. ASSUME NEW a \in Here PROVE a \in Args /\ Ahead(x, a)
    <3>1. PICK w \in {pool[x]} \X Indexes : \E o \in Queued(w) : arg[o] = a
      OBVIOUS
    <3>2. w = <<pool[x], w[2]>> /\ w[2] \in Indexes /\ w \in Workers /\ w[2] >= 0
      BY <3>1, WorkerShape DEF Basics, Types
    <3>3. Ahead(x, a)
      BY <3>1, <3>2, <2>2 DEF Ahead
    <3>4. a \in Args
      BY <3>1, <3>2 DEF Requests, QueuedRequests, Basics, Types
    <3> QED
      BY <3>3, <3>4
  <2> HIDE DEF Here
  <2>5. before'[x] = Here /\ \A y \in Waiters \ {x} : before'[y] = before[y]
    BY <2>1 DEF Basics, Types
  <2>6. \A y \in Waiters : \A a : Ahead(y, a)' <=> Ahead(y, a)
    BY <2>1 DEF Ahead, Queued
  <2> QED
    BY <2>1, <2>2, <2>4, <2>5, <2>6 DEF Covered, Basics, Types
<1>16. ASSUME NEW x \in Waiters, LockWaiter(x) PROVE Covered'
  <2>1. Waits
    BY <1>16 DEF LockWaiter, Waits, Basics, Types
  <2> QED
    BY <1>16, <2>1, <1>b, <1>c DEF LockWaiter
<1>17. ASSUME NEW x \in Waiters, CheckPending(x) PROVE Covered'
  <2>1. xpc[x] = "check" /\ UNCHANGED <<arg, jobs, runs, pool, before>>
    BY <1>17 DEF CheckPending
  <2>2. CASE pending[Awaited(x)] > 0
    <3>1. Waits
      BY <1>17, <2>2 DEF CheckPending, Waits, Basics, Types
    <3> QED
      BY <2>1, <3>1, <1>b, <1>c
  <2>3. CASE pending[Awaited(x)] = 0
    <3>1. Queued(<<pool[x], i[x]>>) = {}
      BY <2>1, <2>3, NothingPending DEF Awaited
    <3>2. i[x] \in Indexes /\ Indexes = 0 .. ThreadNum - 1
      BY DEF Basics, Types, Indexes
    <3>3. ASSUME NEW a, Ahead(x, a)
          PROVE  i[x] + 1 \in Indexes /\ \E k \in Indexes :
                    k >= i[x] + 1 /\ \E o \in Queued(<<pool[x], k>>) : arg[o] = a
      <4>1. PICK k \in Indexes : k >= i[x] /\ \E o \in Queued(<<pool[x], k>>) : arg[o] = a
        BY <3>3 DEF Ahead
      <4>2. k # i[x]
        BY <3>1, <4>1
      <4>3. k >= i[x] + 1 /\ i[x] + 1 \in Indexes
        BY <3>2, <4>1, <4>2, ThreadPoolAssumption
      <4> QED
        BY <4>1, <4>3
    <3>4. \A y \in Waiters \ {x} : xpc'[y] = xpc[y] /\ i'[y] = i[y]
      BY <1>17 DEF CheckPending, Basics, Types
    <3>q. \A v : Queued(v)' = Queued(v)
      BY <2>1 DEF Queued
    <3>5. \A y \in Waiters \ {x} : \A a : Ahead(y, a)' <=> Ahead(y, a)
      BY <2>1, <3>4, <3>q DEF Ahead
    <3>6. xpc'[x] # "idle" /\ \A a \in before[x] :
             runs[a] >= 1 \/ (xpc'[x] # "done" /\ Ahead(x, a)')
      <4>1. CASE i[x] + 1 \in Indexes
        <5>1. xpc'[x] = "lock" /\ i'[x] = i[x] + 1
          BY <1>17, <2>3, <4>1 DEF CheckPending, Basics, Types
        <5>2. \A a : Ahead(x, a) => Ahead(x, a)'
          BY <2>1, <3>3, <3>q, <5>1 DEF Ahead
        <5> QED
          BY <2>1, <5>1, <5>2 DEF Covered
      <4>2. CASE i[x] + 1 \notin Indexes
        <5>1. xpc'[x] = "done"
          BY <1>17, <2>3, <4>2 DEF CheckPending, Basics, Types
        <5> QED
          BY <2>1, <3>3, <4>2, <5>1 DEF Covered
      <4> QED
        BY <4>1, <4>2
    <3> QED
      BY <2>1, <3>4, <3>5, <3>6 DEF Covered
  <2> QED
    BY <1>17, <2>2, <2>3 DEF CheckPending
<1>18. ASSUME NEW x \in Waiters, SpuriousWakeupEmpty(x) PROVE Covered'
  <2>1. Waits
    BY <1>18 DEF SpuriousWakeupEmpty, Waits, Basics, Types
  <2> QED
    BY <1>18, <2>1, <1>b, <1>c DEF SpuriousWakeupEmpty
<1>19. CASE UNCHANGED vars
  BY <1>19, <1>b, <1>c, <1>d DEF vars
<1> QED
  BY <1>1, <1>2, <1>3, <1>4, <1>5, <1>6, <1>7, <1>8, <1>9, <1>10, <1>11, <1>12,
     <1>13, <1>14, <1>15, <1>16, <1>17, <1>18, <1>19
  DEF Next, CreateStep, WorkStep, WaitStep

-----------------------------------------------------------------------------
(* The pool implements AbstractPool *)

\* A queue is the list of its elements.
LEMMA ListOfElements ==
    ASSUME NEW S, NEW s \in Seq(S)
    PROVE  s = [k \in 1 .. Len(s) |-> s[k]]
OBVIOUS

\* Reading the requests off a queue goes along with adding at its tail.
LEMMA MapAppend ==
    ASSUME NEW S, NEW T, NEW f \in [S -> T], NEW s \in Seq(S), NEW e \in S
    PROVE  [k \in 1 .. Len(Append(s, e)) |-> f[Append(s, e)[k]]]
              = Append([k \in 1 .. Len(s) |-> f[s[k]]], f[e])
<1> DEFINE t == Append(s, e)
           m == [k \in 1 .. Len(s) |-> f[s[k]]]
<1>1. /\ t \in Seq(S) /\ Len(t) = Len(s) + 1 /\ Len(s) \in Nat
      /\ \A k \in 1 .. Len(s) : t[k] = s[k]
      /\ t[Len(s) + 1] = e
  BY AppendFacts
<1>2. m \in Seq(T) /\ Len(m) = Len(s) /\ f[e] \in T
  <2>1. \A k \in 1 .. Len(s) : s[k] \in S
    OBVIOUS
  <2> QED
    BY <1>1, <2>1
<1>3. /\ Append(m, f[e]) \in Seq(T) /\ Len(Append(m, f[e])) = Len(m) + 1
      /\ \A k \in 1 .. Len(m) : Append(m, f[e])[k] = m[k]
      /\ Append(m, f[e])[Len(m) + 1] = f[e]
  <2> HIDE DEF m
  <2> QED
    BY <1>2, AppendFacts
<1>4. \A k \in 1 .. Len(t) : Append(m, f[e])[k] = f[t[k]]
  <2> SUFFICES ASSUME NEW k \in 1 .. Len(t) PROVE Append(m, f[e])[k] = f[t[k]]
    OBVIOUS
  <2>1. CASE k \in 1 .. Len(s)
    <3>1. Append(m, f[e])[k] = m[k] /\ m[k] = f[s[k]]
      BY <1>2, <1>3, <2>1
    <3> QED
      BY <1>1, <2>1, <3>1
  <2>2. CASE k = Len(s) + 1
    BY <1>1, <1>2, <1>3, <2>2
  <2> QED
    BY <1>1, <2>1, <2>2
<1> HIDE DEF t, m
<1>5. Append(m, f[e]) = [k \in 1 .. Len(t) |-> f[t[k]]]
  <2>1. Append(m, f[e]) = [k \in 1 .. Len(Append(m, f[e])) |-> Append(m, f[e])[k]]
    BY <1>3, ListOfElements
  <2> QED
    BY <1>1, <1>2, <1>3, <1>4, <2>1
<1> QED
  BY <1>5 DEF t, m

\* The same for taking the head off.
LEMMA MapTail ==
    ASSUME NEW S, NEW T, NEW f \in [S -> T], NEW s \in Seq(S), s # <<>>
    PROVE  /\ [k \in 1 .. Len(s) |-> f[s[k]]] # <<>>
           /\ Head([k \in 1 .. Len(s) |-> f[s[k]]]) = f[Head(s)]
           /\ [k \in 1 .. Len(Tail(s)) |-> f[Tail(s)[k]]]
                 = Tail([k \in 1 .. Len(s) |-> f[s[k]]])
<1> DEFINE m == [k \in 1 .. Len(s) |-> f[s[k]]]
           t == Tail(s)
<1>1. /\ Head(s) = s[1] /\ Len(s) \in Nat \ {0} /\ t \in Seq(S) /\ Len(t) = Len(s) - 1
      /\ \A k \in 1 .. Len(s) - 1 : t[k] = s[k + 1]
  BY TailFacts
<1>2. m \in Seq(T) /\ Len(m) = Len(s) /\ m # <<>> /\ m[1] = f[s[1]]
      /\ \A k \in 1 .. Len(s) : m[k] = f[s[k]]
  <2>1. \A k \in 1 .. Len(s) : s[k] \in S
    OBVIOUS
  <2> QED
    BY <1>1, <2>1
<1> HIDE DEF m
<1>3. /\ Head(m) = m[1] /\ Tail(m) \in Seq(T) /\ Len(Tail(m)) = Len(m) - 1
      /\ \A k \in 1 .. Len(m) - 1 : Tail(m)[k] = m[k + 1]
  BY <1>2, TailFacts
<1> HIDE DEF t
<1>4. ASSUME NEW k \in 1 .. Len(t) PROVE Tail(m)[k] = f[t[k]]
  <2>1. k \in 1 .. Len(s) - 1 /\ k + 1 \in 1 .. Len(s) /\ k \in 1 .. Len(m) - 1
    BY <1>1, <1>2
  <2> QED
    BY <1>1, <1>2, <1>3, <2>1
<1>5. Tail(m) = [k \in 1 .. Len(t) |-> f[t[k]]]
  <2>1. Tail(m) = [k \in 1 .. Len(Tail(m)) |-> Tail(m)[k]]
    BY <1>3, ListOfElements
  <2> QED
    BY <1>1, <1>2, <1>3, <1>4, <2>1
<1> QED
  BY <1>1, <1>2, <1>3, <1>5 DEF m, t

\* Adding at the tail of a queue and leaving out its head commute.
LEMMA TailOfAppend ==
    ASSUME NEW S, NEW s \in Seq(S), NEW e \in S, s # <<>>
    PROVE  Tail(Append(s, e)) = Append(Tail(s), e)
<1>1. Len(s) \in Nat \ {0} /\ Tail(s) \in Seq(S) /\ Append(s, e) \in Seq(S)
      /\ Append(s, e) # <<>>
  BY TailFacts, AppendFacts
<1>2. Tail(Append(s, e)) \in Seq(S) /\ Append(Tail(s), e) \in Seq(S)
  BY <1>1, TailFacts, AppendFacts
<1>3. Len(Tail(Append(s, e))) = Len(s) /\ Len(Append(Tail(s), e)) = Len(s)
  BY <1>1, TailFacts, AppendFacts
<1>4. ASSUME NEW k \in 1 .. Len(s)
      PROVE  Tail(Append(s, e))[k] = Append(Tail(s), e)[k]
  <2>1. Tail(Append(s, e))[k] = Append(s, e)[k + 1]
    BY <1>1, <1>3
  <2>2. CASE k = Len(s)
    BY <1>1, <2>1, <2>2
  <2>3. CASE k \in 1 .. Len(s) - 1
    <3>1. k + 1 \in 1 .. Len(s) /\ k \in 1 .. Len(Tail(s)) /\ Tail(s)[k] = s[k + 1]
      BY <1>1, <2>3, TailFacts
    <3>2. Append(s, e)[k + 1] = s[k + 1]
      BY <3>1, AppendFacts
    <3>3. Append(Tail(s), e)[k] = Tail(s)[k]
      BY <1>1, <3>1, AppendFacts
    <3> QED
      BY <2>1, <3>1, <3>2, <3>3
  <2> QED
    BY <1>1, <2>2, <2>3
<1> QED
  BY <1>2, <1>3, <1>4, SeqEqual

\* The jobs a worker owes are objects of its queue.
LEMMA OwedFacts ==
    ASSUME Basics, NEW w \in Workers
    PROVE  /\ Owed(w) \in Seq(Objs)
           /\ \A k \in 1 .. Len(Owed(w)) : Owed(w)[k] \in Queued(w)
<1>1. jobs[w] \in Seq(Objs) /\ (Served(w) => jobs[w] # <<>>)
  BY DEF Basics, Types, HeadIsRunning, Served
<1>2. CASE Served(w)
  <2>1. /\ Tail(jobs[w]) \in Seq(Objs) /\ Len(jobs[w]) \in Nat \ {0}
        /\ Len(Tail(jobs[w])) = Len(jobs[w]) - 1
        /\ \A k \in 1 .. Len(jobs[w]) - 1 : Tail(jobs[w])[k] = jobs[w][k + 1]
    BY <1>1, <1>2, TailFacts
  <2>2. Owed(w) = Tail(jobs[w])
    BY <1>2 DEF Owed, Served
  <2>3. ASSUME NEW k \in 1 .. Len(Owed(w)) PROVE Owed(w)[k] \in Queued(w)
    <3>1. k + 1 \in 1 .. Len(jobs[w]) /\ Owed(w)[k] = jobs[w][k + 1]
      BY <2>1, <2>2
    <3> QED
      BY <3>1 DEF Queued
  <2> QED
    BY <2>1, <2>2, <2>3
<1>3. CASE ~ Served(w)
  BY <1>1, <1>3 DEF Owed, Served, Queued
<1> QED
  BY <1>2, <1>3

\* A step that leaves the jobs every worker owes and their requests alone is
\* not seen in the abstract pool.
LEMMA TodoFrame ==
    ASSUME Basics, NEW w \in Workers, Owed(w)' = Owed(w),
           \A o \in Queued(w) : arg'[o] = arg[o]
    PROVE  todo'[w] = todo[w]
<1>1. \A k \in 1 .. Len(Owed(w)) : arg'[Owed(w)[k]] = arg[Owed(w)[k]]
  BY OwedFacts
<1>2. /\ todo[w] = [k \in 1 .. Len(Owed(w)) |-> arg[Owed(w)[k]]]
      /\ todo'[w] = [k \in 1 .. Len(Owed(w)') |-> arg'[Owed(w)'[k]]]
  BY DEF todo
<1> QED
  BY <1>1, <1>2

\* The same for all workers.
LEMMA TodoUnchanged ==
    ASSUME Basics,
           \A w \in Workers : /\ Owed(w)' = Owed(w)
                              /\ \A o \in Queued(w) : arg'[o] = arg[o]
    PROVE  todo' = todo
<1>1. \A w \in Workers : todo'[w] = todo[w]
  BY TodoFrame
<1>2. todo = [w \in Workers |-> todo[w]]
  BY DEF todo
<1>3. todo' = [w \in Workers |-> todo'[w]]
  BY DEF todo
<1> QED
  BY <1>1, <1>2, <1>3

\* Nothing is owed at the start.
LEMMA InitAbstract == Init => Abstract!Init
<1> SUFFICES ASSUME Init PROVE Abstract!Init
  OBVIOUS
<1>1. \A w \in Workers : Owed(w) = <<>>
  BY DEF Init, Owed
<1>2. todo = [w \in Workers |-> <<>>]
  BY <1>1 DEF todo
<1> QED
  BY <1>2 DEF Init, Abstract!Init

\* create_job accepts a request when it links the job, process_jobs serves it
\* when the handler returns; nothing else is a step of the abstract pool.
LEMMA AbstractStep ==
    PoolInv /\ Requests /\ [Next]_vars => [Abstract!Next]_(Abstract!avars)
<1> SUFFICES ASSUME PoolInv, Requests, [Next]_vars
             PROVE  Abstract!Next \/ (todo' = todo /\ runs' = runs)
  BY DEF Abstract!avars
<1> USE DEF PoolInv
<1>a. ASSUME UNCHANGED <<arg, jobs, runs>>,
             \A w \in Workers : Served(w)' <=> Served(w)
      PROVE  todo' = todo /\ runs' = runs
  <2>1. \A w \in Workers : Owed(w)' = Owed(w)
    BY <1>a DEF Owed, Served
  <2> QED
    BY <1>a, <2>1, TodoUnchanged
<1>b. todo = [w \in Workers |-> todo[w]] /\ todo' = [w \in Workers |-> todo'[w]]
  BY DEF todo
<1>c. \A w \in Workers : todo[w] = [k \in 1 .. Len(Owed(w)) |-> arg[Owed(w)[k]]]
  BY DEF todo
<1>1. ASSUME NEW l \in Loops, NEW a \in Args, NewJob(l, a)
      PROVE  todo' = todo /\ runs' = runs
  BY <1>1, <1>a DEF NewJob, Served
<1>2. ASSUME NEW l \in Loops, Calloc(l) PROVE todo' = todo /\ runs' = runs
  BY <1>2, <1>a DEF Calloc, Served
<1>3. ASSUME NEW l \in Loops, Count(l) PROVE todo' = todo /\ runs' = runs
  BY <1>3, <1>a DEF Count, Served
<1>4. ASSUME NEW l \in Loops, Fill(l) PROVE todo' = todo /\ runs' = runs
  <2>1. /\ lpc[l] = "fill" /\ arg' = [arg EXCEPT ![obj[l]] = req[l]]
        /\ UNCHANGED <<jobs, runs, wpc>>
    BY <1>4 DEF Fill
  <2>2. \A w \in Workers : \A o \in Queued(w) : o # obj[l] /\ o \in Objs
    BY <2>1 DEF Ownership, QueuedApart, Holding, Basics, Types, Queued
  <2>3. \A w \in Workers : Owed(w)' = Owed(w) /\ \A o \in Queued(w) : arg'[o] = arg[o]
    BY <2>1, <2>2 DEF Owed, Basics, Types
  <2> QED
    BY <2>1, <2>3, TodoUnchanged
<1>5. ASSUME NEW l \in Loops, LockQueue(l) PROVE todo' = todo /\ runs' = runs
  BY <1>5, <1>a DEF LockQueue, Served
<1>6. ASSUME NEW l \in Loops, AddTail(l) PROVE Abstract!Next
  <2>1. /\ lpc[l] = "add" /\ obj[l] \in Objs /\ UNCHANGED <<arg, runs, wpc>>
        /\ jobs' = [jobs EXCEPT ![Target(l)] = Append(@, obj[l])]
    BY <1>6 DEF AddTail, Basics, ObjInHand, Holding
  <2>2. PICK t \in Workers : t = Target(l)
    BY TargetShape DEF Basics
  <2>3. /\ jobs[t] \in Seq(Objs) /\ (Served(t) => jobs[t] # <<>>)
        /\ jobs'[t] = Append(jobs[t], obj[l])
        /\ \A w \in Workers \ {t} : jobs'[w] = jobs[w]
    BY <2>1, <2>2 DEF Basics, Types, HeadIsRunning, Served
  <2>4. Owed(t)' = Append(Owed(t), obj[l])
    <3>1. CASE Served(t)
      <4>1. Owed(t)' = Tail(jobs'[t]) /\ Owed(t) = Tail(jobs[t])
        BY <2>1, <3>1 DEF Owed, Served
      <4> QED
        BY <2>1, <2>3, <3>1, <4>1, TailOfAppend
    <3>2. CASE ~ Served(t)
      BY <2>1, <2>3, <3>2 DEF Owed, Served
    <3> QED
      BY <3>1, <3>2
  <2>5. todo'[t] = Append(todo[t], arg[obj[l]])
    <3>1. arg \in [Objs -> Args \union {NoArg}] /\ Owed(t) \in Seq(Objs)
      BY OwedFacts DEF Basics, Types
    <3>2. todo'[t] = [k \in 1 .. Len(Owed(t)') |-> arg[Owed(t)'[k]]]
      BY <2>1 DEF todo
    <3>3. [k \in 1 .. Len(Append(Owed(t), obj[l])) |-> arg[Append(Owed(t), obj[l])[k]]]
             = Append([k \in 1 .. Len(Owed(t)) |-> arg[Owed(t)[k]]], arg[obj[l]])
      BY <2>1, <3>1, MapAppend
    <3>4. todo[t] = [k \in 1 .. Len(Owed(t)) |-> arg[Owed(t)[k]]]
      BY <1>c
    <3> QED
      BY <2>4, <3>2, <3>3, <3>4
  <2>6. \A w \in Workers \ {t} : todo'[w] = todo[w]
    BY <2>1, <2>3, TodoFrame DEF Owed
  <2>7. /\ arg[obj[l]] = req[l] /\ req[l] \in Args /\ runs[req[l]] = 0
        /\ \A w \in Workers : \A o \in Queued(w) : arg[o] # req[l]
    BY <2>1 DEF Requests, CarriedApart, QueuedRequests, Carries, Basics, Types
  <2>8. ~ Abstract!Waiting(req[l])
    <3> SUFFICES ASSUME NEW w \in Workers, NEW k \in DOMAIN todo[w]
                 PROVE  todo[w][k] # req[l]
      BY DEF Abstract!Waiting
    <3>1. todo[w] = [j \in 1 .. Len(Owed(w)) |-> arg[Owed(w)[j]]]
      BY <1>c
    <3>2. k \in 1 .. Len(Owed(w))
      BY <3>1
    <3>3. todo[w][k] = arg[Owed(w)[k]]
      BY <3>1, <3>2
    <3> QED
      BY <2>7, <3>2, <3>3, OwedFacts
  <2>9. todo' = [todo EXCEPT ![t] = Append(@, req[l])]
    BY <2>5, <2>6, <2>7, <1>b
  <2> QED
    BY <2>1, <2>7, <2>8, <2>9 DEF Abstract!Next, Abstract!Accept
<1>7. ASSUME NEW l \in Loops, Signal(l) PROVE todo' = todo /\ runs' = runs
  <2>1. UNCHANGED <<arg, jobs, runs>> /\ \A w \in Workers : Served(w)' <=> Served(w)
    BY <1>7 DEF Signal, Served, Basics, Types
  <2> QED
    BY <2>1, <1>a
<1>8. ASSUME NEW w \in Workers, LockWorker(w) PROVE todo' = todo /\ runs' = runs
  <2>1. UNCHANGED <<arg, jobs, runs>> /\ \A v \in Workers : Served(v)' <=> Served(v)
    BY <1>8 DEF LockWorker, Served, Basics, Types
  <2> QED
    BY <2>1, <1>a
<1>9. ASSUME NEW w \in Workers, CondWait(w) PROVE todo' = todo /\ runs' = runs
  BY <1>9, <1>a DEF CondWait, Served, Basics, Types
<1>10. ASSUME NEW w \in Workers, Peek(w) PROVE todo' = todo /\ runs' = runs
  BY <1>10, <1>a DEF Peek, Served, Basics, Types
<1>11. ASSUME NEW w \in Workers, RunJob(w) PROVE Abstract!Next
  <2>1. /\ wpc[w] = "run" /\ runs' = [runs EXCEPT ![arg[ln[w]]] = @ + 1]
        /\ wpc' = [wpc EXCEPT ![w] = "ran"] /\ UNCHANGED <<arg, jobs>>
    BY <1>11 DEF RunJob
  <2>2. jobs[w] \in Seq(Objs) /\ jobs[w] # <<>> /\ ln[w] = Head(jobs[w])
    BY <2>1 DEF Basics, Types, HeadIsRunning
  <2>3. Owed(w) = jobs[w] /\ Owed(w)' = Tail(jobs[w])
    BY <2>1 DEF Owed, Basics, Types
  <2>4. /\ todo[w] # <<>> /\ Head(todo[w]) = arg[ln[w]]
        /\ todo'[w] = Tail(todo[w])
    <3>1. arg \in [Objs -> Args \union {NoArg}]
      BY DEF Basics, Types
    <3>2. /\ todo[w] = [k \in 1 .. Len(jobs[w]) |-> arg[jobs[w][k]]]
          /\ todo'[w] = [k \in 1 .. Len(Tail(jobs[w])) |-> arg[Tail(jobs[w])[k]]]
      BY <2>1, <2>3 DEF todo
    <3>3. /\ [k \in 1 .. Len(jobs[w]) |-> arg[jobs[w][k]]] # <<>>
          /\ Head([k \in 1 .. Len(jobs[w]) |-> arg[jobs[w][k]]]) = arg[ln[w]]
          /\ [k \in 1 .. Len(Tail(jobs[w])) |-> arg[Tail(jobs[w])[k]]]
                = Tail([k \in 1 .. Len(jobs[w]) |-> arg[jobs[w][k]]])
      BY <2>2, <3>1, MapTail
    <3> QED
      BY <3>2, <3>3
  <2>5. \A v \in Workers \ {w} : todo'[v] = todo[v]
    BY <2>1, TodoFrame DEF Owed, Basics, Types
  <2>6. todo' = [todo EXCEPT ![w] = Tail(@)]
    BY <2>4, <2>5, <1>b
  <2> QED
    BY <2>1, <2>4, <2>6 DEF Abstract!Next, Abstract!Run
<1>12. ASSUME NEW w \in Workers, Delete(w) PROVE todo' = todo /\ runs' = runs
  <2>1. /\ wpc[w] = "del" /\ wpc' = [wpc EXCEPT ![w] = "dec"]
        /\ jobs' = [jobs EXCEPT ![w] = Tail(@)] /\ UNCHANGED <<arg, runs>>
    BY <1>12 DEF Delete
  <2>2. \A v \in Workers : Owed(v)' = Owed(v)
    BY <2>1 DEF Owed, Basics, Types
  <2> QED
    BY <2>1, <2>2, TodoUnchanged
<1>13. ASSUME NEW w \in Workers, Decrement(w) PROVE todo' = todo /\ runs' = runs
  BY <1>13, <1>a DEF Decrement, Served, Basics, Types
<1>14. ASSUME NEW w \in Workers, SpuriousWakeup(w) PROVE todo' = todo /\ runs' = runs
  BY <1>14, <1>a DEF SpuriousWakeup, Served, Basics, Types
<1>15. ASSUME NEW x \in Waiters, WaitBegin(x) PROVE todo' = todo /\ runs' = runs
  BY <1>15, <1>a DEF WaitBegin, Served
<1>16. ASSUME NEW x \in Waiters, LockWaiter(x) PROVE todo' = todo /\ runs' = runs
  BY <1>16, <1>a DEF LockWaiter, Served
<1>17. ASSUME NEW x \in Waiters, CheckPending(x) PROVE todo' = todo /\ runs' = runs
  BY <1>17, <1>a DEF CheckPending, Served
<1>18. ASSUME NEW x \in Waiters, SpuriousWakeupEmpty(x) PROVE todo' = todo /\ runs' = runs
  BY <1>18, <1>a DEF SpuriousWakeupEmpty, Served
<1>19. CASE UNCHANGED vars
  BY <1>19, <1>a DEF vars, Served
<1> QED
  BY <1>1, <1>2, <1>3, <1>4, <1>5, <1>6, <1>7, <1>8, <1>9, <1>10, <1>11, <1>12,
     <1>13, <1>14, <1>15, <1>16, <1>17, <1>18, <1>19
  DEF Next, CreateStep, WorkStep, WaitStep

-----------------------------------------------------------------------------
(* The theorems *)

\* Every reachable state of the pool also satisfies what is known of requests.
THEOREM PoolRequests == Spec => [](PoolInv /\ Requests /\ Covered)
<1>1. Init => Requests /\ Covered
  BY InitRequests, InitCovered
<1>2. PoolInv /\ Requests /\ Covered /\ [Next]_vars => Requests' /\ Covered'
  BY RequestsStep, CoveredStep DEF PoolInv
<1> QED
  BY <1>1, <1>2, PoolInvariant, PTL DEF Spec

\* wait_for_threads comes back only when every job queued before the call has
\* been run, whatever is queued meanwhile and however many workers there are.
THEOREM PoolWaits == Spec => []WaitCoversEarlierJobs
<1>1. Covered => WaitCoversEarlierJobs
  BY DEF Covered, WaitCoversEarlierJobs
<1> QED
  BY <1>1, PoolRequests, PTL

\* The pools of work_threads.c implement per-worker queues that run every
\* accepted request once, in the order of acceptance.
THEOREM PoolImplementsQueues == Spec => ImplementsQueues
<1>1. PoolInv /\ Requests /\ [Next]_vars => [Abstract!Next]_(Abstract!avars)
  BY AbstractStep
<1> QED
  BY InitAbstract, <1>1, PoolRequests, PTL DEF Spec, ImplementsQueues, Abstract!Spec
=============================================================================
