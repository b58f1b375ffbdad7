---------------------------- MODULE AbstractPool ----------------------------
(***************************************************************************)
(* What work_threads.h offers a server: hand a request over to one of the  *)
(* pool's workers, which will run it once and in the order of its queue.   *)
(***************************************************************************)
EXTENDS Integers, Sequences

CONSTANTS Workers, Args

VARIABLES
    todo,   \* the requests each worker has accepted and not run yet
    runs    \* how many times each request was run

avars == <<todo, runs>>

Waiting(a) == \E w \in Workers : \E k \in DOMAIN todo[w] : todo[w][k] = a

Init ==
    /\ todo = [w \in Workers |-> <<>>]
    /\ runs = [a \in Args |-> 0]

\* create_job returned 0.
Accept(w, a) ==
    /\ ~ Waiting(a)
    /\ runs[a] = 0
    /\ todo' = [todo EXCEPT ![w] = Append(@, a)]
    /\ UNCHANGED runs

\* The handler of the oldest request of w.
Run(w) ==
    /\ todo[w] # <<>>
    /\ runs' = [runs EXCEPT ![Head(todo[w])] = @ + 1]
    /\ todo' = [todo EXCEPT ![w] = Tail(@)]

Next == \E w \in Workers : Run(w) \/ \E a \in Args : Accept(w, a)

Spec == Init /\ [][Next]_avars
=============================================================================
