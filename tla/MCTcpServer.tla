---------------------------- MODULE MCTcpServer ----------------------------
(***************************************************************************)
(* Instances of TcpServer for TLC: the settings the runs look at.          *)
(***************************************************************************)
EXTENDS TcpServer, TLC, FiniteSetsExt

\* Servers of n threads and m descriptors, closed under Symmetry.
Servers(n, m, sends, faults) ==
    [threads : kSubset(n, Workers), fds : kSubset(m, Fds), sends : {sends}, faults : {faults}]

SafetySettings ==
    UNION {
        \* well-behaved clients that pipeline, on two workers
        Servers(2, 2, 2, {"full"}), Servers(2, 2, 1, {"job", "full"}),
        \* the same where connections and jobs get lost
        Servers(2, 2, 1, {"conn", "job", "handler", "full"}),
        \* two workers, everything goes wrong
        Servers(2, 2, 1, {"conn", "postparams", "handler", "malformed", "impatient"}),
        \* the expiry timer against one worker
        Servers(1, 2, 1, {"expiry"}),
        \* the same where a client goes on after its connection expired
        Servers(1, 1, 2, {"expiry", "malformed"}),
        \* no threads: clients that pipeline, everything goes wrong, without
        \* and with the expiry timer
        Servers(0, 2, 2, {}),
        Servers(0, 2, 2, {"conn", "handler", "full", "malformed", "impatient"}),
        Servers(0, 2, 1, {"conn", "handler", "full", "malformed", "impatient", "expiry"}) }

\* Fewer descriptors than clients throughout: a client may have to wait for
\* another one's teardown.
LiveSettings ==
    UNION {
        Servers(1, 1, 1, {}),
        Servers(1, 1, 2, {"handler", "full"}),
        Servers(1, 1, 1, {"job", "impatient"}),
        Servers(0, 1, 1, {"conn", "handler", "full", "malformed", "impatient"}) }

\* The smallest settings of the two counterexamples.
MalformedSettings == Servers(1, 1, 1, {"malformed"})
ReuseSettings == Servers(1, 1, 1, {"impatient"})

\* Clients are interchangeable, and so are descriptors and workers.
Symmetry ==
    Permutations(Clients) \union Permutations(Fds) \union Permutations(Workers)
=============================================================================
