------------------------------- MODULE Timers -------------------------------
(***************************************************************************)
(* The timer jobs of libnetskeleton/src/netskeleton.c: add_timer_job,      *)
(* default_timer_job and register_timer_job over libevent's timers.  The   *)
(* one event loop runs the callbacks that are due, in any order.  Servers  *)
(* adds the rest of the servers_array the timers belong to.                *)
(***************************************************************************)
EXTENDS Integers

CONSTANTS
    Jobs,       \* the timers the application may add
    Repeating,  \* those with param->repeat # 0
    Interval,   \* bound: the longest time_interval
    MaxTime,    \* bound: the last second of the clock
    Never       \* no deadline

ASSUME TimersAssumption ==
    /\ Repeating \subseteq Jobs
    /\ Interval \in Nat /\ MaxTime \in Nat
    /\ Never \notin Nat

VARIABLES
    now,
    interval,   \* timerobj->time_interval
    deadline,   \* when libevent will activate timerobj->event, or Never
    callback,   \* the event's callback
    fired       \* history: how many times timeout_func ran

timerVars == <<now, interval, deadline, callback, fired>>

TimersInit ==
    /\ now = 0
    /\ interval \in [Jobs -> 1 .. Interval]
    /\ deadline = [j \in Jobs |-> Never]
    /\ callback = [j \in Jobs |-> "none"]
    /\ fired = [j \in Jobs |-> 0]

Added(j) == callback[j] # "none"
Due(j) == deadline[j] # Never /\ deadline[j] <= now

Tick ==
    /\ now < MaxTime
    /\ now' = now + 1
    /\ UNCHANGED <<interval, deadline, callback, fired>>

\* evtimer_set, event_base_set and evtimer_add.
SetTimer(j, what) ==
    /\ callback' = [callback EXCEPT ![j] = what]
    /\ deadline' = [deadline EXCEPT ![j] = now + interval[j]]

\* add_timer_job, once per timer_param.
AddTimer(j) ==
    /\ ~ Added(j)
    /\ SetTimer(j, "default_timer_job")
    /\ UNCHANGED <<now, interval, fired>>

\* default_timer_job: timeout_func runs, and register_timer_job gives the
\* event of a repeating timer timeout_func itself as its callback.
FireDefault(j) ==
    /\ Due(j) /\ callback[j] = "default_timer_job"
    /\ fired' = [fired EXCEPT ![j] = @ + 1]
    /\ \/ /\ j \in Repeating
          /\ SetTimer(j, "timeout_func")
       \/ /\ j \notin Repeating
          /\ deadline' = [deadline EXCEPT ![j] = Never]
          /\ UNCHANGED callback
    /\ UNCHANGED <<now, interval>>

\* Mutant of FireDirect: the event stays due.
FireAgain(j) ==
    /\ Due(j) /\ callback[j] = "timeout_func"
    /\ fired[j] < 3
    /\ fired' = [fired EXCEPT ![j] = @ + 1]
    /\ UNCHANGED <<now, interval, deadline, callback>>

\* timeout_func as the callback: nothing registers the event again.
FireDirect(j) ==
    /\ Due(j) /\ callback[j] = "timeout_func"
    /\ fired' = [fired EXCEPT ![j] = @ + 1]
    /\ deadline' = [deadline EXCEPT ![j] = Never]
    /\ UNCHANGED <<now, interval, callback>>

Fire(j) == FireDefault(j) \/ FireDirect(j)
=============================================================================
