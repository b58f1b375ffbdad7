------------------------------ MODULE Servers ------------------------------
(***************************************************************************)
(* The life of clustered_server's main thread around its servers_array:    *)
(* init_server (server.cpp) turns the configuration (Config) into          *)
(* server_params, add_generic_server_param (netskeleton.c) starts the      *)
(* worker threads of a server, binds and registers it, or gives up on it,  *)
(* start_servers_array_loop runs as long as there is an event or until     *)
(* libevent gives up, and destroy_servers follows.  Timer jobs (Timers)    *)
(* share the event base.                                                   *)
(*                                                                         *)
(* One thread does all this, so adding a server is one step; what varies   *)
(* is which call in it fails.  Requests are the matter of TcpServer and    *)
(* UdpServer, jobs of ThreadPool.  max_live is -1 throughout: no expiry    *)
(* timer is started.                                                       *)
(***************************************************************************)
EXTENDS Timers, Config

CONSTANTS
    ConfFiles,  \* the configuration files looked at, as sequences of lines
    GarbagePorts,   \* what a short nobody initialised may hold
    GarbageThreads, \* what an int nobody initialised may hold
    Taken,      \* the ports other processes listen on, as names
    LowestFds,  \* the lowest descriptor that is free: 0 without stdin
    MaxFailures,\* bound: servers whose set-up fails
    DefaultThreads  \* the workers of a server that asks for a negative number

MaxShort == 32767

ASSUME ServersAssumption ==
    /\ \A lines \in ConfFiles : WellFormed(Pairs(lines, "="))
    /\ GarbagePorts \subseteq -(MaxShort + 1) .. MaxShort /\ GarbageThreads \subseteq Int
    /\ LowestFds \subseteq Nat /\ MaxFailures \in Nat
    /\ DefaultThreads \in Nat \ {0}

VARIABLES
    config,     \* g_config
    lowest,     \* the lowest descriptor main finds free
    phase,      \* where main is
    thread_num, \* of every server_param
    left,       \* the server_params not added yet
    servers,    \* servers->server_head
    server_num, \* servers->server_num
    pools,      \* every work_threads there was: how many threads wait in it
    fds,        \* the open descriptors of sockets
    reach,      \* which socket a client reaches under a port or path
    watched,    \* the descriptors with a persistent read event
    failures    \* history: how many servers could not be added

serverVars == <<left, servers, server_num, pools, fds, reach, watched, failures>>
mainVars == <<config, lowest, phase, thread_num, serverVars>>
vars == <<mainVars, timerVars>>

Init ==
    /\ \E lines \in ConfFiles : config = ParseConf(lines)
    /\ lowest \in LowestFds
    /\ phase = "start" /\ thread_num = 0 /\ left = <<>>
    /\ servers = <<>> /\ server_num = 0 /\ pools = <<>>
    /\ fds = {} /\ reach = {} /\ watched = {} /\ failures = 0
    /\ TimersInit

-----------------------------------------------------------------------------
(* init_server *)

\* string2short and string2int32: a number beyond a short becomes the last
\* one, and from an empty string nothing is extracted.
Shorts(text) ==
    IF text = <<>> THEN GarbagePorts
    ELSE {Cut(Extracted(text), MaxShort)}
Ints(text) == IF text = <<>> THEN GarbageThreads ELSE {Extracted(text)}

Param(type, at) == [type |-> type, at |-> at]

\* The params in the order they are added.
Params(tcp_port, udp_port) ==
    (IF tcp_port > 0 THEN <<Param("TCP_PORT", tcp_port)>> ELSE <<>>)
    \o (IF udp_port > 0 THEN <<Param("UDP_PORT", udp_port)>> ELSE <<>>)
    \o (IF config["tcp_path"] # <<>> THEN <<Param("TCP_PATH", config["tcp_path"])>> ELSE <<>>)
    \o (IF config["udp_path"] # <<>> THEN <<Param("UDP_PATH", config["udp_path"])>> ELSE <<>>)

\* Without any address, or when get_servers fails, there is no servers_array
\* to destroy; negative ports only leave nothing to add.  Before, main loads
\* the indexes (Service), with the same end when that fails.
InitServer ==
    /\ phase = "start"
    /\ \E tcp_port \in Shorts(config["tcp_port"]), udp_port \in Shorts(config["udp_port"]) :
        \/ phase' = "stopped" /\ UNCHANGED <<thread_num, left>>
        \/ /\ \/ tcp_port # 0 \/ udp_port # 0
              \/ config["tcp_path"] # <<>> \/ config["udp_path"] # <<>>
           /\ phase' = "adding" /\ left' = Params(tcp_port, udp_port)
           /\ thread_num' \in Ints(config["work_threads"])
    /\ UNCHANGED <<config, lowest, servers, server_num, pools, fds, reach, watched, failures,
                   timerVars>>

-----------------------------------------------------------------------------
(* init_work_threads *)

\* gs->thread_num; a server without threads has no pool.
ThreadNum == IF thread_num < 0 THEN DefaultThreads ELSE thread_num

\* A thread that was created waits on its queue in the pool, whatever happens
\* to the pool's other threads: calloc or pthread_create fails for one of
\* them, and free_work_threads follows.  It stops no thread, and its my_free,
\* which frees only what is NULL, leaves the pool where it is.
PoolFails == \E k \in 0 .. ThreadNum - 1 : pools' = Append(pools, k)

PoolStarts == pools' = IF ThreadNum = 0 THEN pools ELSE Append(pools, ThreadNum)

\* gs->pworks, by its place in pools.
NewPool == IF ThreadNum = 0 THEN 0 ELSE Len(pools) + 1

-----------------------------------------------------------------------------
(* add_generic_server_param *)

OnPath(param) == param.type \in {"TCP_PATH", "UDP_PATH"}

\* Paths are one name space, the ports of each protocol another.
Name(param) == IF OnPath(param) THEN <<"path", param.at>> ELSE <<param.type, param.at>>

\* The descriptor socket returns.
NewFd == Min({f \in lowest .. lowest + Cardinality(fds) : f \notin fds})

\* bind_tcp_path and bind_udp_path unlink the path first, whoever uses it.
Unlinked(param) == IF OnPath(param) THEN {r \in reach : r.name # Name(param)} ELSE reach

\* Mutant of Discarded: the socket of a server that failed stays open.
DiscardedNever == fds \union {NewFd}

\* An error path closes a descriptor greater than 0.
Discarded == IF NewFd > 0 THEN fds ELSE fds \union {NewFd}

\* calloc or a thread fails, and nothing else was done yet; or socket does.
CreateFails ==
    /\ UNCHANGED pools \/ PoolFails \/ PoolStarts
    /\ UNCHANGED <<fds, reach>>

\* bind_generic fails in bind; the path is gone all the same.
BindFails(param) == PoolStarts /\ fds' = Discarded /\ reach' = Unlinked(param)

\* listen fails, whose error path closes any descriptor, or add_listen_conn
\* or add_conn cannot allocate.
RegisterFails(param) ==
    /\ \/ param.type \in {"TCP_PORT", "TCP_PATH"} /\ fds' = fds
       \/ fds' = Discarded
    /\ PoolStarts /\ reach' = Unlinked(param)

Server(param) ==
    [id |-> server_num, lfd |-> NewFd, name |-> Name(param), pworks |-> NewPool]

\* Mutant of GiveUp: the server is in the list before it is set up, and stays.
GiveUpListed(param) ==
    /\ failures < MaxFailures \/ Name(param) \in Taken
    /\ CreateFails \/ BindFails(param) \/ RegisterFails(param)
    /\ failures' = failures + 1
    /\ servers' = Append(servers, Server(param))
    /\ UNCHANGED <<server_num, watched>>

GiveUp(param) ==
    /\ failures < MaxFailures \/ Name(param) \in Taken
    /\ CreateFails \/ BindFails(param) \/ RegisterFails(param)
    /\ failures' = failures + 1
    /\ UNCHANGED <<servers, server_num, watched>>

\* The server is bound, its listening conn (its only conn for UDP) gets its
\* event, and the server its number and its place in the list.
Register(param) ==
    /\ Name(param) \notin Taken
    /\ fds' = fds \union {NewFd}
    /\ reach' = Unlinked(param) \union {[name |-> Name(param), fd |-> NewFd]}
    /\ watched' = watched \union {NewFd}
    /\ PoolStarts /\ servers' = Append(servers, Server(param))
    /\ server_num' = server_num + 1
    /\ UNCHANGED failures

\* init_server does not look at the result.
AddServer ==
    /\ phase = "adding" /\ left # <<>>
    /\ left' = Tail(left)
    /\ LET param == Head(left) IN GiveUp(param) \/ Register(param)
    /\ UNCHANGED <<config, lowest, phase, thread_num, timerVars>>

-----------------------------------------------------------------------------
(* The loop and the end *)

StartLoop ==
    /\ phase = "adding" /\ left = <<>>
    /\ phase' = "loop"
    /\ UNCHANGED <<config, lowest, thread_num, serverVars, timerVars>>

\* event_base_dispatch returns when no event is left.
NoEventLeft == watched = {} /\ \A j \in Jobs : deadline[j] = Never

\* It also returns when the application stops it or the kernel's poll fails;
\* start_servers_array_loop does not look at the result.
LoopEnds ==
    /\ phase = "loop"
    /\ phase' = "ended"
    /\ UNCHANGED <<config, lowest, thread_num, serverVars, timerVars>>

\* destroy_servers: every server has a conn in its list, and the first one is
\* unlinked inside list_for_each, which follows its poisoned link.
DestroyServers ==
    /\ phase = "ended"
    /\ phase' = IF servers = <<>> THEN "stopped" ELSE "crashed"
    /\ UNCHANGED <<config, lowest, thread_num, serverVars, timerVars>>

-----------------------------------------------------------------------------
MainStep == InitServer \/ AddServer \/ StartLoop \/ LoopEnds \/ DestroyServers

\* Timers are looked at once the servers are there; main could have added
\* them in between, but neither uses what the other does.
TimerStep ==
    /\ phase = "loop" \/ (phase = "adding" /\ left = <<>>)
    /\ \/ Tick
       \/ \E j \in Jobs : AddTimer(j)
       \/ \E j \in Jobs : phase = "loop" /\ Fire(j)

Next == MainStep \/ (TimerStep /\ UNCHANGED mainVars)

Spec == Init /\ [][Next]_vars

\* main goes on, time too, and the loop runs the callbacks that are due.  It
\* must end when no event is left, and else it need not.
Fairness ==
    /\ WF_vars(InitServer \/ AddServer \/ StartLoop \/ DestroyServers)
    /\ WF_vars(NoEventLeft /\ LoopEnds)
    /\ WF_vars(phase = "loop" /\ Tick /\ UNCHANGED mainVars)
    /\ \A j \in Jobs :
        WF_vars(phase = "loop" /\ Fire(j) /\ UNCHANGED mainVars)

FairSpec == Spec /\ Fairness

-----------------------------------------------------------------------------
(* What main and netskeleton.h promise *)

\* Ports as string2short can represent them, and no path for two servers.
SoundPort(text) == text # <<>> /\ Extracted(text) \in 0 .. MaxShort
SoundConfig ==
    /\ SoundPort(config["tcp_port"]) /\ SoundPort(config["udp_port"])
    /\ config["tcp_path"] = config["udp_path"] => config["tcp_path"] = <<>>

Configured ==
    {<<"TCP_PORT", Extracted(config["tcp_port"])>>, <<"UDP_PORT", Extracted(config["udp_port"])>>,
     <<"path", config["tcp_path"]>>, <<"path", config["udp_path"]>>}

\* With a sound configuration every server of the list is reached under an
\* address the configuration names, each under its own, wherever the set-up
\* of other servers failed: error paths undo no more than their own work.
\* Its pool is one of its own, with all its threads.
ServersReachable ==
    SoundConfig =>
        /\ \A n \in DOMAIN servers :
            /\ servers[n].name \in Configured
            /\ [name |-> servers[n].name, fd |-> servers[n].lfd] \in reach
            /\ servers[n].lfd \in watched
            /\ servers[n].pworks # 0 =>
                /\ pools[servers[n].pworks] = ThreadNum
                /\ \A m \in DOMAIN servers : servers[m].pworks = servers[n].pworks => m = n
        /\ \A r, q \in reach : r.name = q.name => r = q
        /\ \A r, q \in reach : r.fd = q.fd => r = q

\* A server that could not be added leaves no descriptor behind, unless
\* socket returned 0, which no error path but listen's closes.
DescriptorsAccounted ==
    lowest > 0 => fds = {servers[n].lfd : n \in DOMAIN servers}

\* As long as the loop runs, a timer that was added runs when its interval is
\* over, if the clock gets there, once more each time it is armed.
EveryTimerFires ==
    \A j \in Jobs, n \in 0 .. MaxTime :
        deadline[j] # Never /\ deadline[j] <= MaxTime /\ fired[j] = n
            ~> fired[j] > n \/ phase \notin {"adding", "loop"}
=============================================================================
