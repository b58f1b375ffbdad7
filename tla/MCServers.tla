----------------------------- MODULE MCServers -----------------------------
(***************************************************************************)
(* Instances of Servers for TLC.                                           *)
(***************************************************************************)
EXTENDS Servers

Line(key, value) == <<key, " ", "=", " ">> \o value

Ports(tcp, udp) == << Line("tcp_port", tcp), Line("udp_port", udp) >>
Paths(tcp, udp) == << Line("tcp_path", tcp), Line("udp_path", udp) >>
Threads(number) == << <<"#", " ">> \o Line("work_threads", number), Line("work_threads", number),
                      <<"work_threads", "=", "3">> >>

P12345 == <<"1", "2", "3", "4", "5">>
P12346 == <<"1", "2", "3", "4", "6">>

\* The sample configuration; one whose UDP port another process holds, with no
\* number of threads; one whose ports do not fit or are missing, with a
\* negative number of threads; one with a path for two servers; and one with
\* nothing.
MCConfFiles ==
    { Ports(P12345, P12346) \o Paths(<<"/tmp/1111">>, <<"/tmp/2222">>) \o Threads(<<"1">>),
      Ports(P12345, P12345) \o << Line("udp_path", <<"/tmp/2222">>) >>,
      << Line("tcp_port", <<"4", "0", "0", "0", "0">>) >> \o Threads(<<"-", "1">>),
      Paths(<<"/tmp/1111">>, <<"/tmp/1111">>) \o Ports(<<"0">>, <<"0">>) \o Threads(<<"0">>),
      Ports(<<"0">>, <<"-", "7">>) \o Threads(<<"0">>),
      Ports(<<"0">>, <<"0">>) \o Threads(<<"0">>) }

MCGarbagePorts == {-1, 4242}
MCGarbageThreads == {0, 1}
MCTaken == {<<"UDP_PORT", 12345>>}
=============================================================================
