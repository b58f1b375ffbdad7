---------------------------- MODULE MCUdpServer ----------------------------
(***************************************************************************)
(* Instances of UdpServer for TLC: the settings the runs look at.          *)
(***************************************************************************)
EXTENDS UdpServer, TLC

\* With and without worker threads, and with each fault somewhere; copies of
\* datagrams without them, since to the pool a copy is a job like any other.
AllSettings ==
    [threads : {{}, Workers}, faults : {{"malformed", "loss"}, {"memory", "handler"}}]
    \union [threads : {{}}, faults : {{"copies", "sendto"}}]

\* The smallest setting of the counterexample.
AddressSettings == [threads : {Workers}, faults : {{}}]
=============================================================================
