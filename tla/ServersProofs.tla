---------------------------- MODULE ServersProofs ----------------------------
(***************************************************************************)
(* What main's servers_array is like whichever step of setting up a server *)
(* failed: every server in it is reached under its address and watched,    *)
(* and nothing of a server that failed stays open.                         *)
(***************************************************************************)
EXTENDS Servers, FiniteSetTheorems, SequenceTheorems, WellFoundedInduction, TLAPS

USE DEF serverVars, mainVars

-----------------------------------------------------------------------------
(* Descriptors *)

\* A set of naturals that is not empty has a first member.
LEMMA First ==
    ASSUME NEW S, S \subseteq Nat, S # {}
    PROVE  Min(S) \in S /\ \A y \in S : Min(S) <= y
<1>1. \E x \in S : \A y \in S : ~(<<y, x>> \in OpToRel(<, Nat))
  BY NatLessThanWellFounded, WFMin
<1>2. PICK x \in S : \A y \in S : ~(<<y, x>> \in OpToRel(<, Nat))
  BY <1>1
<1>3. \A y \in S : x <= y
  <2> SUFFICES ASSUME NEW y \in S PROVE x <= y
    OBVIOUS
  <2>1. <<y, x>> \in Nat \X Nat => ~(y < x)
    BY <1>2 DEF OpToRel
  <2> QED
    BY <2>1
<1> QED
  BY <1>3 DEF Min

\* socket returns a descriptor that is not open, and none below the lowest.
LEMMA FreeFd ==
    ASSUME NEW low \in Nat, NEW S \in SUBSET Nat, IsFiniteSet(S)
    PROVE  LET new == Min({f \in low .. low + Cardinality(S) : f \notin S})
           IN  new \in Nat /\ new >= low /\ new \notin S
<1> DEFINE candidates == low .. low + Cardinality(S)
           free == {f \in candidates : f \notin S}
<1>1. Cardinality(S) \in Nat
  BY FS_CardinalityType
<1>2. Cardinality(candidates) = Cardinality(S) + 1
  <2>1. \A a, b \in Int : Cardinality(a .. b) = IF a > b THEN 0 ELSE b - a + 1
    BY FS_Interval
  <2>2. PICK last \in Int : last = low + Cardinality(S)
    BY <1>1
  <2>3. Cardinality(low .. last) = IF low > last THEN 0 ELSE last - low + 1
    BY <2>1
  <2> QED
    BY <1>1, <2>2, <2>3
<1>3. free # {}
  <2> SUFFICES ASSUME free = {} PROVE FALSE
    OBVIOUS
  <2>1. candidates \in SUBSET S
    OBVIOUS
  <2>2. Cardinality(candidates) <= Cardinality(S)
    BY <2>1, FS_Subset
  <2> QED
    BY <1>1, <1>2, <2>2
<1>4. free \subseteq Nat /\ \A f \in free : f >= low
  BY <1>1
<1>5. Min(free) \in free
  BY <1>3, <1>4, First
<1> QED
  BY <1>4, <1>5

-----------------------------------------------------------------------------
(* The inductive invariant *)

\* The params a configuration can ask for.
Wanted ==
    {Param("TCP_PORT", port) : port \in Shorts(config["tcp_port"])}
    \union {Param("UDP_PORT", port) : port \in Shorts(config["udp_port"])}
    \union {Param(type, config["tcp_path"]) : type \in {"TCP_PATH"}}
    \union {Param(type, config["udp_path"]) : type \in {"UDP_PATH"}}

\* The threads that may wait in a pool: some of those asked for, or all.
Sizes == {ThreadNum} \union 0 .. ThreadNum - 1

Entries == [id : Nat, lfd : Nat, name : {Name(param) : param \in Wanted}, pworks : Nat]

\* What the variables may hold; nothing is there before main has read the
\* configuration.
Types ==
    /\ lowest \in Nat
    /\ phase \in {"start", "adding", "loop", "ended", "stopped", "crashed"}
    /\ left \in Seq(Wanted)
    /\ servers \in Seq(Entries)
    /\ server_num \in Nat
    /\ pools \in Seq(Sizes)
    /\ fds \in SUBSET Nat /\ IsFiniteSet(fds)
    /\ phase = "start" => left = <<>> /\ servers = <<>> /\ pools = <<>>

\* Every server of the list listens on a descriptor of its own, and has a pool
\* of its own; a path may have been taken from it.
Listed ==
    /\ watched = {servers[n].lfd : n \in DOMAIN servers}
    /\ watched \subseteq fds
    /\ \A n, o \in DOMAIN servers : servers[n].lfd = servers[o].lfd => n = o
    /\ reach \subseteq {[name |-> servers[n].name, fd |-> servers[n].lfd] : n \in DOMAIN servers}
    /\ \A n \in DOMAIN servers : servers[n].pworks # 0 =>
            /\ servers[n].pworks <= Len(pools)
            /\ pools[servers[n].pworks] = ThreadNum
            /\ \A o \in DOMAIN servers : servers[o].pworks = servers[n].pworks => o = n

\* The descriptors that are open are those of the list.
Accounted == lowest > 0 => fds = watched

\* No two servers are for one name, so none takes another's path.
Named ==
    SoundConfig =>
        /\ \A i \in DOMAIN left : Name(left[i]) \in Configured
        /\ \A i, k \in DOMAIN left : Name(left[i]) = Name(left[k]) => i = k
        /\ \A n \in DOMAIN servers : servers[n].name \in Configured
        /\ \A n, o \in DOMAIN servers : servers[n].name = servers[o].name => n = o
        /\ \A i \in DOMAIN left, n \in DOMAIN servers : Name(left[i]) # servers[n].name
        /\ \A n \in DOMAIN servers :
                [name |-> servers[n].name, fd |-> servers[n].lfd] \in reach

ServersInv == Types /\ Listed /\ Accounted /\ Named

-----------------------------------------------------------------------------
(* The params *)

\* Two sequences without repetitions that share nothing, one after the other.
LEMMA Joined ==
    ASSUME NEW S, NEW T, NEW s \in Seq(S), NEW t \in Seq(T), S \intersect T = {},
           \A i, k \in DOMAIN s : s[i] = s[k] => i = k,
           \A i, k \in DOMAIN t : t[i] = t[k] => i = k
    PROVE  /\ s \o t \in Seq(S \union T)
           /\ \A i, k \in DOMAIN (s \o t) : (s \o t)[i] = (s \o t)[k] => i = k
<1>1. s \in Seq(S \union T) /\ t \in Seq(S \union T)
  OBVIOUS
<1>2. s \o t \in Seq(S \union T)
  BY <1>1
<1>3. DOMAIN s = 1 .. Len(s) /\ DOMAIN t = 1 .. Len(t) /\ Len(s) \in Nat /\ Len(t) \in Nat
  OBVIOUS
<1>4. DOMAIN (s \o t) = 1 .. Len(s) + Len(t)
  BY <1>1, <1>3
<1>5. \A i \in 1 .. Len(s) + Len(t) :
        (s \o t)[i] = IF i <= Len(s) THEN s[i] ELSE t[i - Len(s)]
  BY <1>1, <1>3
<1>6. /\ \A i \in 1 .. Len(s) : s[i] \in S
      /\ \A i \in 1 .. Len(t) : t[i] \in T
  BY <1>3
<1> SUFFICES ASSUME NEW i \in 1 .. Len(s) + Len(t), NEW k \in 1 .. Len(s) + Len(t),
                    (s \o t)[i] = (s \o t)[k]
             PROVE  i = k
  BY <1>2, <1>4
<1>7. CASE i <= Len(s) /\ k <= Len(s)
  BY <1>3, <1>5, <1>7
<1>8. CASE ~(i <= Len(s)) /\ ~(k <= Len(s))
  <2>1. t[i - Len(s)] = t[k - Len(s)]
    BY <1>5, <1>8
  <2>2. i - Len(s) \in 1 .. Len(t) /\ k - Len(s) \in 1 .. Len(t)
    BY <1>3, <1>8
  <2> QED
    BY <1>3, <2>1, <2>2, SMTT(30)
<1>9. CASE i <= Len(s) /\ ~(k <= Len(s))
  BY <1>3, <1>5, <1>6, <1>9
<1>10. CASE ~(i <= Len(s)) /\ k <= Len(s)
  BY <1>3, <1>5, <1>6, <1>10
<1> QED
  BY <1>7, <1>8, <1>9, <1>10

\* The params init_server adds are asked for by the configuration, and no two
\* of them are the same.
LEMMA ParamsWanted ==
    ASSUME NEW tcp \in Shorts(config["tcp_port"]), NEW udp \in Shorts(config["udp_port"])
    PROVE  /\ Params(tcp, udp) \in Seq(Wanted)
           /\ \A i, k \in DOMAIN Params(tcp, udp) : Params(tcp, udp)[i] = Params(tcp, udp)[k] => i = k
           /\ \A i \in DOMAIN Params(tcp, udp) :
                LET param == Params(tcp, udp)[i] IN
                \/ param = Param("TCP_PORT", tcp) \/ param = Param("UDP_PORT", udp)
                \/ param = Param("TCP_PATH", config["tcp_path"]) /\ config["tcp_path"] # <<>>
                \/ param = Param("UDP_PATH", config["udp_path"]) /\ config["udp_path"] # <<>>
<1> DEFINE P1 == {Param("TCP_PORT", tcp)}
           P2 == {Param("UDP_PORT", udp)}
           P3 == {p \in {Param("TCP_PATH", config["tcp_path"])} : config["tcp_path"] # <<>>}
           P4 == {p \in {Param("UDP_PATH", config["udp_path"])} : config["udp_path"] # <<>>}
           s1 == IF tcp > 0 THEN <<Param("TCP_PORT", tcp)>> ELSE <<>>
           s2 == IF udp > 0 THEN <<Param("UDP_PORT", udp)>> ELSE <<>>
           s3 == IF config["tcp_path"] # <<>> THEN <<Param("TCP_PATH", config["tcp_path"])>> ELSE <<>>
           s4 == IF config["udp_path"] # <<>> THEN <<Param("UDP_PATH", config["udp_path"])>> ELSE <<>>
           Distinct(s) == \A i, k \in DOMAIN s : s[i] = s[k] => i = k
<1>1. s1 \in Seq(P1) /\ s2 \in Seq(P2) /\ s3 \in Seq(P3) /\ s4 \in Seq(P4)
  <2>1. (\A x, S : x \in S => <<x>> \in Seq(S)) /\ \A S : <<>> \in Seq(S)
    OBVIOUS
  <2>2. s1 \in Seq(P1) /\ s2 \in Seq(P2)
    BY <2>1
  <2>3. s3 \in Seq(P3)
    <3>1. CASE config["tcp_path"] # <<>>
      <4>1. Param("TCP_PATH", config["tcp_path"]) \in P3
        BY <3>1
      <4> QED
        BY <2>1, <3>1, <4>1
    <3> QED
      BY <2>1, <3>1
  <2>4. s4 \in Seq(P4)
    <3>1. CASE config["udp_path"] # <<>>
      <4>1. Param("UDP_PATH", config["udp_path"]) \in P4
        BY <3>1
      <4> QED
        BY <2>1, <3>1, <4>1
    <3> QED
      BY <2>1, <3>1
  <2> QED
    BY <2>2, <2>3, <2>4
<1>2. Distinct(s1) /\ Distinct(s2) /\ Distinct(s3) /\ Distinct(s4)
  OBVIOUS
<1>3. /\ P1 \intersect P2 = {} /\ (P1 \union P2) \intersect P3 = {}
      /\ (P1 \union P2 \union P3) \intersect P4 = {}
  BY DEF Param
<1>4. Params(tcp, udp) = ((s1 \o s2) \o s3) \o s4
  BY DEF Params
<1> HIDE DEF s1, s2, s3, s4, P1, P2, P3, P4
<1>5. s1 \o s2 \in Seq(P1 \union P2) /\ Distinct(s1 \o s2)
  BY <1>1, <1>2, <1>3, Joined
<1>6. (s1 \o s2) \o s3 \in Seq(P1 \union P2 \union P3) /\ Distinct((s1 \o s2) \o s3)
  BY <1>1, <1>2, <1>3, <1>5, Joined, SMTT(30)
<1>7. /\ ((s1 \o s2) \o s3) \o s4 \in Seq(P1 \union P2 \union P3 \union P4)
      /\ Distinct(((s1 \o s2) \o s3) \o s4)
  <2> DEFINE P == P1 \union P2 \union P3
             s == (s1 \o s2) \o s3
  <2>1. s \in Seq(P) /\ Distinct(s) /\ s4 \in Seq(P4) /\ Distinct(s4) /\ P \intersect P4 = {}
    BY <1>1, <1>2, <1>3, <1>6
  <2> HIDE DEF P, s
  <2>2. s \o s4 \in Seq(P \union P4) /\ Distinct(s \o s4)
    BY <2>1, Joined
  <2> QED
    BY <2>2 DEF P, s
<1>8. P1 \union P2 \union P3 \union P4 \subseteq Wanted
  BY DEF P1, P2, P3, P4, Wanted
<1>9. \A i \in DOMAIN Params(tcp, udp) : Params(tcp, udp)[i] \in P1 \union P2 \union P3 \union P4
  BY <1>4, <1>7, SMTT(30)
<1>10. Params(tcp, udp) \in Seq(Wanted) /\ Distinct(Params(tcp, udp))
  BY <1>4, <1>7, <1>8, SMTT(30)
<1> QED
  BY <1>9, <1>10 DEF P1, P2, P3, P4

\* A port that fits is read as it is written.
LEMMA ReadPort ==
    ASSUME NEW text, SoundPort(text)
    PROVE  Shorts(text) = {Extracted(text)}
<1>1. text # <<>> /\ Extracted(text) \in Nat /\ Extracted(text) <= MaxShort
  <2>1. \A n \in 0 .. MaxShort : n \in Nat /\ n <= MaxShort
    <3>1. MaxShort \in Nat
      BY DEF MaxShort
    <3> QED
      BY <3>1
  <2>2. text # <<>> /\ Extracted(text) \in 0 .. MaxShort
    BY DEF SoundPort
  <2> QED
    BY <2>1, <2>2
<1>2. \A n \in Nat : n <= MaxShort => Cut(n, MaxShort) = n
  <2> SUFFICES ASSUME NEW n \in Nat, n <= MaxShort PROVE Cut(n, MaxShort) = n
    OBVIOUS
  <2>1. MaxShort \in Nat /\ -(MaxShort + 1) \in Int /\ -(MaxShort + 1) <= n
    BY DEF MaxShort
  <2>2. \A a, b \in Int : a <= b => Min({a, b}) = a /\ Max({a, b}) = b
    BY DEF Min, Max
  <2>3. Min({n, MaxShort}) = n
    BY <2>1, <2>2
  <2>4. PICK least \in Int : least = -(MaxShort + 1)
    BY <2>1
  <2>5. Max({least, n}) = n
    BY <2>1, <2>2, <2>4
  <2> QED
    BY <2>3, <2>4, <2>5 DEF Cut
<1> QED
  BY <1>1, <1>2 DEF Shorts

\* What init_server adds under a sound configuration has the names the
\* configuration gives, each of its own.
LEMMA ParamsNamed ==
    ASSUME SoundConfig,
           NEW tcp \in Shorts(config["tcp_port"]), NEW udp \in Shorts(config["udp_port"])
    PROVE  /\ \A i \in DOMAIN Params(tcp, udp) : Name(Params(tcp, udp)[i]) \in Configured
           /\ \A i, k \in DOMAIN Params(tcp, udp) :
                Name(Params(tcp, udp)[i]) = Name(Params(tcp, udp)[k]) => i = k
<1>1. tcp = Extracted(config["tcp_port"]) /\ udp = Extracted(config["udp_port"])
  BY ReadPort DEF SoundConfig
<1>2. config["tcp_path"] = config["udp_path"] => config["tcp_path"] = <<>>
  BY DEF SoundConfig
<1> DEFINE Possible(param) ==
        \/ param = Param("TCP_PORT", tcp) \/ param = Param("UDP_PORT", udp)
        \/ param = Param("TCP_PATH", config["tcp_path"]) /\ config["tcp_path"] # <<>>
        \/ param = Param("UDP_PATH", config["udp_path"]) /\ config["udp_path"] # <<>>
<1>3. \A param : Possible(param) => Name(param) \in Configured
  BY <1>1 DEF Param, Name, OnPath, Configured
<1>4. \A param, other : Possible(param) /\ Possible(other) /\ Name(param) = Name(other)
                            => param = other
  <2> SUFFICES ASSUME NEW param, NEW other, Possible(param), Possible(other),
                      Name(param) = Name(other)
               PROVE  param = other
    OBVIOUS
  <2>1. /\ Name(Param("TCP_PORT", tcp)) = <<"TCP_PORT", tcp>>
        /\ Name(Param("UDP_PORT", udp)) = <<"UDP_PORT", udp>>
        /\ Name(Param("TCP_PATH", config["tcp_path"])) = <<"path", config["tcp_path"]>>
        /\ Name(Param("UDP_PATH", config["udp_path"])) = <<"path", config["udp_path"]>>
    BY DEF Param, Name, OnPath
  <2> QED
    BY <1>2, <2>1
<1>5. \A i \in DOMAIN Params(tcp, udp) : Possible(Params(tcp, udp)[i])
  BY ParamsWanted
<1>6. \A i, k \in DOMAIN Params(tcp, udp) : Params(tcp, udp)[i] = Params(tcp, udp)[k] => i = k
  BY ParamsWanted
<1> HIDE DEF Possible
<1> QED
  BY <1>3, <1>4, <1>5, <1>6

-----------------------------------------------------------------------------
(* The steps *)

\* main starts with an empty array.
LEMMA InitServers == Init => ServersInv
<1> SUFFICES ASSUME Init PROVE ServersInv
  OBVIOUS
<1>1. Types
  <2>1. lowest \in Nat
    BY ServersAssumption DEF Init
  <2>2. IsFiniteSet({}) /\ 0 \in Nat
    BY FS_EmptySet
  <2>3. \A S : <<>> \in Seq(S)
    OBVIOUS
  <2> QED
    BY <2>1, <2>2, <2>3 DEF Init, Types
<1>2. Listed /\ Accounted /\ Named
  BY DEF Init, Listed, Accounted, Named
<1> QED
  BY <1>1, <1>2 DEF ServersInv

\* Steps that leave the array alone: the loop starts and ends, timers.
LEMMA QuietStep ==
    ASSUME ServersInv, UNCHANGED <<config, lowest, thread_num, serverVars>>,
           phase' \in {"loop", "ended", "stopped", "crashed", phase}
    PROVE  ServersInv'
<1>1. Types /\ Listed /\ Accounted /\ Named
  BY DEF ServersInv
<1>2. Wanted' = Wanted /\ Sizes' = Sizes /\ ThreadNum' = ThreadNum
  BY DEF Wanted, Sizes, ThreadNum
<1>3. Types'
  BY <1>1, <1>2 DEF Types, Entries
<1>4. Listed' /\ Accounted'
  BY <1>1, <1>2 DEF Listed, Accounted
<1>5. Named'
  BY <1>1 DEF Named, SoundConfig, SoundPort, Configured
<1> QED
  BY <1>3, <1>4, <1>5 DEF ServersInv

\* init_server knows what to add, and nothing is there yet.
LEMMA InitServerStep == ServersInv /\ InitServer => ServersInv'
<1> SUFFICES ASSUME ServersInv, InitServer PROVE ServersInv'
  OBVIOUS
<1>1. Types /\ Listed /\ Accounted /\ Named
  BY DEF ServersInv
<1>2. PICK tcp \in Shorts(config["tcp_port"]), udp \in Shorts(config["udp_port"]) :
        \/ phase' = "stopped" /\ UNCHANGED <<thread_num, left>>
        \/ phase' = "adding" /\ left' = Params(tcp, udp)
  BY DEF InitServer
<1>3. /\ UNCHANGED <<config, lowest, servers, server_num, pools, fds, reach, watched>>
      /\ servers = <<>> /\ pools = <<>> /\ left = <<>>
  BY <1>1 DEF InitServer, Types
<1>4. Wanted' = Wanted
  BY <1>3 DEF Wanted
<1>5. left' \in Seq(Wanted) /\ phase' \in {"stopped", "adding"}
  <2>1. \A S : <<>> \in Seq(S)
    OBVIOUS
  <2>2. Params(tcp, udp) \in Seq(Wanted)
    BY ParamsWanted
  <2> QED
    BY <1>2, <1>3, <2>1, <2>2
<1>6. servers' \in Seq(Entries') /\ pools' \in Seq(Sizes')
  <2>1. \A S : <<>> \in Seq(S)
    OBVIOUS
  <2> QED
    BY <1>3, <2>1
<1>7. Types'
  BY <1>1, <1>3, <1>4, <1>5, <1>6 DEF Types
<1>8. Listed' /\ Accounted'
  BY <1>1, <1>3 DEF Listed, Accounted
<1>9. Named'
  <2>1. SoundConfig' = SoundConfig /\ Configured' = Configured
    BY <1>3 DEF SoundConfig, SoundPort, Configured
  <2>2. SoundConfig => /\ \A i \in DOMAIN left' : Name(left'[i]) \in Configured
                       /\ \A i, k \in DOMAIN left' : Name(left'[i]) = Name(left'[k]) => i = k
    BY <1>2, <1>3, ParamsNamed
  <2> QED
    BY <1>3, <2>1, <2>2 DEF Named
<1> QED
  BY <1>7, <1>8, <1>9 DEF ServersInv

\* What a sequence with one more member at its end is.
LEMMA Appended ==
    ASSUME NEW S, NEW s \in Seq(S), NEW x \in S
    PROVE  /\ Len(s) \in Nat
           /\ Append(s, x) \in Seq(S) /\ Len(Append(s, x)) = Len(s) + 1
           /\ DOMAIN s = 1 .. Len(s) /\ DOMAIN Append(s, x) = DOMAIN s \union {Len(s) + 1}
           /\ \A p \in 1 .. Len(s) : p # Len(s) + 1 /\ Append(s, x)[p] = s[p]
           /\ Append(s, x)[Len(s) + 1] = x
<1>1. /\ Append(s, x) \in Seq(S) /\ Len(Append(s, x)) = Len(s) + 1
      /\ \A p \in 1 .. Len(s) : Append(s, x)[p] = s[p]
      /\ Append(s, x)[Len(s) + 1] = x
  BY AppendProperties
<1>2. Len(s) \in Nat /\ DOMAIN s = 1 .. Len(s)
  OBVIOUS
<1>3. DOMAIN Append(s, x) = 1 .. Len(s) + 1
  BY <1>1
<1>4. 1 .. Len(s) + 1 = 1 .. Len(s) \union {Len(s) + 1}
  BY <1>2
<1>5. \A p \in 1 .. Len(s) : p # Len(s) + 1
  BY <1>2
<1> QED
  BY <1>1, <1>2, <1>3, <1>4, <1>5

\* init_work_threads never takes a pool away, nor a thread from it; a pool that
\* starts has all its threads.
LEMMA PoolsGrow ==
    ASSUME Types, UNCHANGED pools \/ PoolFails \/ PoolStarts
    PROVE  /\ pools' \in Seq(Sizes)
           /\ Len(pools) <= Len(pools')
           /\ \A p \in 1 .. Len(pools) : pools'[p] = pools[p]
           /\ PoolStarts => /\ NewPool \in Nat /\ Len(pools) \in Nat
                            /\ NewPool # 0 => /\ NewPool = Len(pools) + 1
                                              /\ NewPool = Len(pools')
                                              /\ pools'[NewPool] = ThreadNum
<1> DEFINE Pool == Sizes
<1>1. pools \in Seq(Pool)
  BY DEF Types
<1> HIDE DEF Pool
<1>2. Len(pools) \in Nat
  BY <1>1
<1>3. \A x \in Pool : /\ Append(pools, x) \in Seq(Pool)
                      /\ Len(Append(pools, x)) = Len(pools) + 1
                      /\ \A p \in 1 .. Len(pools) : Append(pools, x)[p] = pools[p]
                      /\ Append(pools, x)[Len(pools) + 1] = x
  BY <1>1, Appended
<1>4. CASE UNCHANGED pools /\ ~PoolStarts
  BY <1>1, <1>2, <1>4 DEF Pool
<1>5. CASE PoolFails /\ ~PoolStarts
  <2>1. PICK k \in 0 .. ThreadNum - 1 : pools' = Append(pools, k)
    BY <1>5 DEF PoolFails
  <2>2. k \in Pool
    BY <2>1 DEF Sizes, Pool
  <2> QED
    <3>1. /\ pools' \in Seq(Pool) /\ Len(pools') = Len(pools) + 1
          /\ \A p \in 1 .. Len(pools) : pools'[p] = pools[p]
      BY <1>3, <2>1, <2>2
    <3> QED
      BY <1>2, <1>5, <3>1 DEF Pool
<1>6. CASE PoolStarts
  <2>1. CASE ThreadNum = 0
    BY <1>1, <1>2, <1>6, <2>1 DEF PoolStarts, NewPool, Pool
  <2>2. CASE ThreadNum # 0
    <3>1. pools' = Append(pools, ThreadNum)
      BY <1>6, <2>2 DEF PoolStarts
    <3>2. ThreadNum \in Pool
      BY DEF Sizes, Pool
    <3>3. NewPool = Len(pools) + 1
      BY <2>2 DEF NewPool
    <3>4. /\ pools' \in Seq(Pool) /\ Len(pools') = Len(pools) + 1
          /\ \A p \in 1 .. Len(pools) : pools'[p] = pools[p]
          /\ pools'[Len(pools) + 1] = ThreadNum
      BY <1>3, <3>1, <3>2
    <3> QED
      BY <1>2, <3>3, <3>4 DEF Pool
  <2> QED
    BY <2>1, <2>2
<1> QED
  BY <1>4, <1>5, <1>6

\* The part of adding a server that is the same whether it succeeds or not.
Adding ==
    /\ phase = "adding" /\ left # <<>> /\ left' = Tail(left)
    /\ UNCHANGED <<config, lowest, phase, thread_num>>

\* What is left to add were members of what was.
LEMMA TailOfLeft ==
    ASSUME Types, Adding
    PROVE  /\ Head(left) \in Wanted /\ left' \in Seq(Wanted)
           /\ 1 \in DOMAIN left /\ Head(left) = left[1]
           /\ \A i \in DOMAIN left' : i + 1 \in DOMAIN left /\ i + 1 # 1 /\ left'[i] = left[i + 1]
<1>1. left \in Seq(Wanted) /\ left # <<>> /\ left' = Tail(left)
  BY DEF Types, Adding
<1>2. Len(left) \in Nat \ {0} /\ DOMAIN left = 1 .. Len(left)
  BY <1>1
<1>3. Tail(left) \in Seq(Wanted) /\ Len(Tail(left)) = Len(left) - 1
  BY <1>1
<1>4. \A i \in 1 .. Len(left) - 1 : Tail(left)[i] = left[i + 1]
  BY <1>1
<1>5. Head(left) = left[1] /\ left[1] \in Wanted
  BY <1>1, <1>2
<1>6. DOMAIN Tail(left) = 1 .. Len(left) - 1
  BY <1>3
<1> QED
  BY <1>1, <1>2, <1>3, <1>4, <1>5, <1>6

\* The names of what is left are still distinct, and the next one is none of
\* them.
LEMMA TailNamed ==
    ASSUME Types, Named, Adding, SoundConfig
    PROVE  /\ Name(Head(left)) \in Configured
           /\ \A n \in DOMAIN servers : Name(Head(left)) # servers[n].name
           /\ \A i \in DOMAIN left' : /\ Name(left'[i]) \in Configured
                                     /\ Name(left'[i]) # Name(Head(left))
                                     /\ \A n \in DOMAIN servers : Name(left'[i]) # servers[n].name
           /\ \A i, k \in DOMAIN left' : Name(left'[i]) = Name(left'[k]) => i = k
<1>1. /\ \A i \in DOMAIN left : Name(left[i]) \in Configured
      /\ \A i, k \in DOMAIN left : Name(left[i]) = Name(left[k]) => i = k
      /\ \A i \in DOMAIN left, n \in DOMAIN servers : Name(left[i]) # servers[n].name
  BY DEF Named
<1>2. \A i \in DOMAIN left' : i \in Nat
  <2>1. left' \in Seq(Wanted)
    BY TailOfLeft
  <2> QED
    BY <2>1
<1>3. /\ 1 \in DOMAIN left /\ Head(left) = left[1]
      /\ \A i \in DOMAIN left' : i + 1 \in DOMAIN left /\ i + 1 # 1 /\ left'[i] = left[i + 1]
  BY TailOfLeft
<1>4. \A i, k \in DOMAIN left' : Name(left'[i]) = Name(left'[k]) => i = k
  <2> SUFFICES ASSUME NEW i \in DOMAIN left', NEW k \in DOMAIN left',
                      Name(left'[i]) = Name(left'[k])
               PROVE  i = k
    OBVIOUS
  <2>1. i + 1 = k + 1
    BY <1>1, <1>3
  <2> QED
    BY <1>2, <2>1
<1> QED
  BY <1>1, <1>3, <1>4

\* A server that could not be added leaves the list, and what the list's
\* servers need, alone.
LEMMA GiveUpStep ==
    ASSUME ServersInv, Adding, GiveUp(Head(left))
    PROVE  ServersInv'
<1>1. Types /\ Listed /\ Accounted /\ Named
  BY DEF ServersInv
<1>2. UNCHANGED <<config, lowest, phase, thread_num, servers, server_num, watched>>
  BY DEF Adding, GiveUp
<1>3. Wanted' = Wanted /\ Sizes' = Sizes /\ ThreadNum' = ThreadNum
  BY <1>2 DEF Wanted, Sizes, ThreadNum
<1>4. NewFd \in Nat /\ NewFd >= lowest /\ NewFd \notin fds
  BY <1>1, FreeFd DEF Types, NewFd
<1>5. UNCHANGED pools \/ PoolFails \/ PoolStarts
  BY DEF GiveUp, CreateFails, BindFails, RegisterFails
<1>6. /\ pools' \in Seq(Sizes)
      /\ Len(pools) <= Len(pools')
      /\ \A p \in 1 .. Len(pools) : pools'[p] = pools[p]
  BY <1>1, <1>5, PoolsGrow
<1>7. fds' \in {fds, Discarded}
  BY DEF GiveUp, CreateFails, BindFails, RegisterFails
<1>8. /\ fds' \in SUBSET Nat /\ IsFiniteSet(fds') /\ fds \subseteq fds'
      /\ lowest > 0 => fds' = fds
  <2>1. IsFiniteSet(fds \union {NewFd})
    BY <1>1, FS_AddElement DEF Types
  <2>2. fds \in SUBSET Nat /\ IsFiniteSet(fds) /\ lowest \in Nat
    BY <1>1 DEF Types
  <2>3. Discarded \in {fds, fds \union {NewFd}} /\ (lowest > 0 => Discarded = fds)
    BY <1>4, <2>2 DEF Discarded
  <2> QED
    BY <1>4, <1>7, <2>1, <2>2, <2>3
<1>9. reach' \in {reach, Unlinked(Head(left))}
  BY DEF GiveUp, CreateFails, BindFails, RegisterFails
<1>10. Types'
  <2>1. left' \in Seq(Wanted) /\ phase = "adding"
    BY <1>1, TailOfLeft DEF Adding
  <2> QED
    BY <1>1, <1>2, <1>3, <1>6, <1>8, <2>1 DEF Types, Entries
<1>11. Listed'
  <2>1. reach' \subseteq reach
    BY <1>9 DEF Unlinked
  <2>2. \A n \in DOMAIN servers : servers[n].pworks # 0 /\ servers[n].pworks <= Len(pools) =>
            servers[n].pworks \in 1 .. Len(pools) /\ servers[n].pworks <= Len(pools')
    <3> SUFFICES ASSUME NEW n \in DOMAIN servers, servers[n].pworks # 0,
                        servers[n].pworks <= Len(pools)
                 PROVE  servers[n].pworks \in 1 .. Len(pools) /\ servers[n].pworks <= Len(pools')
      OBVIOUS
    <3>1. servers[n] \in Entries
      BY <1>1 DEF Types
    <3>2. servers[n].pworks \in Nat
      BY <3>1 DEF Entries
    <3>3. Len(pools) \in Nat /\ Len(pools') \in Nat
      BY <1>1, <1>6 DEF Types
    <3> QED
      BY <1>6, <3>2, <3>3
  <2> QED
    <3>1. \A n \in DOMAIN servers : servers[n].pworks # 0 =>
            /\ servers[n].pworks <= Len(pools)
            /\ pools[servers[n].pworks] = ThreadNum
            /\ \A o \in DOMAIN servers : servers[o].pworks = servers[n].pworks => o = n
      BY <1>1 DEF Listed
    <3>2. \A n \in DOMAIN servers' : servers'[n].pworks # 0 =>
            /\ servers'[n].pworks <= Len(pools')
            /\ pools'[servers'[n].pworks] = ThreadNum'
            /\ \A o \in DOMAIN servers' : servers'[o].pworks = servers'[n].pworks => o = n
      BY <1>2, <1>3, <1>6, <2>2, <3>1
    <3>3. /\ watched' = {servers'[n].lfd : n \in DOMAIN servers'}
          /\ watched' \subseteq fds'
          /\ \A n, o \in DOMAIN servers' : servers'[n].lfd = servers'[o].lfd => n = o
      BY <1>1, <1>2, <1>8, ZenonT(60) DEF Listed
    <3>4. reach' \subseteq
            {[name |-> servers'[n].name, fd |-> servers'[n].lfd] : n \in DOMAIN servers'}
      <4>1. reach \subseteq
                {[name |-> servers[n].name, fd |-> servers[n].lfd] : n \in DOMAIN servers}
        BY <1>1 DEF Listed
      <4>2. servers' = servers
        BY <1>2
      <4> QED
        BY <2>1, <4>1, <4>2
    <3> QED
      BY <3>2, <3>3, <3>4 DEF Listed
<1>12. Accounted'
  BY <1>1, <1>2, <1>8 DEF Accounted
<1>13. Named'
  <2> SUFFICES ASSUME SoundConfig' PROVE Named'
    BY DEF Named
  <2>1. SoundConfig /\ Configured' = Configured
    BY <1>2 DEF SoundConfig, SoundPort, Configured
  <2>2. /\ \A n \in DOMAIN servers : servers[n].name \in Configured
        /\ \A n, o \in DOMAIN servers : servers[n].name = servers[o].name => n = o
        /\ \A n \in DOMAIN servers :
                [name |-> servers[n].name, fd |-> servers[n].lfd] \in reach
    BY <1>1, <2>1 DEF Named
  <2>3. \A n \in DOMAIN servers : Name(Head(left)) # servers[n].name
    BY <1>1, <2>1, TailNamed
  <2>4. \A n \in DOMAIN servers :
            [name |-> servers[n].name, fd |-> servers[n].lfd] \in reach'
    BY <1>9, <2>2, <2>3 DEF Unlinked
  <2>5. /\ \A i \in DOMAIN left' : Name(left'[i]) \in Configured
        /\ \A i \in DOMAIN left', n \in DOMAIN servers : Name(left'[i]) # servers[n].name
        /\ \A i, k \in DOMAIN left' : Name(left'[i]) = Name(left'[k]) => i = k
    BY <1>1, <2>1, TailNamed
  <2> QED
    BY <1>2, <2>1, <2>2, <2>4, <2>5 DEF Named
<1> QED
  BY <1>10, <1>11, <1>12, <1>13 DEF ServersInv

\* A server that is added has a descriptor nobody else has, a pool of its own,
\* and a name that takes no other server's path.
LEMMA RegisterStep ==
    ASSUME ServersInv, Adding, Register(Head(left))
    PROVE  ServersInv'
<1> DEFINE param == Head(left)
           new == Len(servers) + 1
<1>1. Types /\ Listed /\ Accounted /\ Named
  BY DEF ServersInv
<1>2. /\ UNCHANGED <<config, lowest, phase, thread_num>> /\ phase = "adding"
      /\ fds' = fds \union {NewFd} /\ watched' = watched \union {NewFd}
      /\ reach' = Unlinked(param) \union {[name |-> Name(param), fd |-> NewFd]}
      /\ PoolStarts /\ servers' = Append(servers, Server(param))
      /\ server_num' = server_num + 1
  BY DEF Adding, Register
<1>3. Wanted' = Wanted /\ Sizes' = Sizes /\ ThreadNum' = ThreadNum /\ Entries' = Entries
  BY <1>2 DEF Wanted, Sizes, ThreadNum, Entries
<1>4. NewFd \in Nat /\ NewFd >= lowest /\ NewFd \notin fds
  BY <1>1, FreeFd DEF Types, NewFd
<1>5. /\ pools' \in Seq(Sizes)
      /\ Len(pools) <= Len(pools') /\ Len(pools) \in Nat
      /\ \A p \in 1 .. Len(pools) : pools'[p] = pools[p]
      /\ NewPool \in Nat
      /\ NewPool # 0 => /\ NewPool = Len(pools) + 1 /\ NewPool = Len(pools')
                        /\ pools'[NewPool] = ThreadNum
  BY <1>1, <1>2, PoolsGrow
<1>6. /\ Server(param) \in Entries /\ Server(param).lfd = NewFd
      /\ Server(param).name = Name(param) /\ Server(param).pworks = NewPool
  BY <1>1, <1>4, <1>5, TailOfLeft DEF Server, Entries, Types
<1>7. servers \in Seq(Entries)
  BY <1>1 DEF Types
<1>8. /\ servers' \in Seq(Entries)
      /\ DOMAIN servers' = DOMAIN servers \union {new}
      /\ \A n \in DOMAIN servers : n # new /\ servers'[n] = servers[n]
      /\ servers'[new] = Server(param)
  BY <1>2, <1>6, <1>7, Appended
<1> HIDE DEF new, param
<1>9. Types'
  <2>1. left' \in Seq(Wanted)
    BY <1>1, TailOfLeft
  <2>2. fds' \in SUBSET Nat /\ IsFiniteSet(fds')
    BY <1>1, <1>2, <1>4, FS_AddElement DEF Types
  <2>3. lowest' \in Nat /\ server_num' \in Nat
    BY <1>1, <1>2 DEF Types
  <2> QED
    BY <1>2, <1>3, <1>5, <1>8, <2>1, <2>2, <2>3 DEF Types
<1>10. \A n \in DOMAIN servers :
        /\ servers[n].lfd \in fds
        /\ servers[n].pworks # 0 => servers[n].pworks \in 1 .. Len(pools)
  <2> SUFFICES ASSUME NEW n \in DOMAIN servers
               PROVE  /\ servers[n].lfd \in fds
                      /\ servers[n].pworks # 0 => servers[n].pworks \in 1 .. Len(pools)
    OBVIOUS
  <2>1. servers[n] \in Entries
    BY <1>7
  <2>2. servers[n].pworks \in Nat
    BY <2>1 DEF Entries
  <2> QED
    BY <1>1, <1>5, <2>2 DEF Listed
<1>11. Listed'
  <2>1. /\ watched = {servers[n].lfd : n \in DOMAIN servers} /\ watched \subseteq fds
        /\ \A n, o \in DOMAIN servers : servers[n].lfd = servers[o].lfd => n = o
        /\ reach \subseteq {[name |-> servers[n].name, fd |-> servers[n].lfd] : n \in DOMAIN servers}
    BY <1>1 DEF Listed
  <2>2. \A n \in DOMAIN servers : servers[n].pworks # 0 =>
            /\ pools[servers[n].pworks] = ThreadNum
            /\ \A o \in DOMAIN servers : servers[o].pworks = servers[n].pworks => o = n
    BY <1>1 DEF Listed
  <2>3. watched' = {servers'[n].lfd : n \in DOMAIN servers'} /\ watched' \subseteq fds'
    BY <1>2, <1>6, <1>8, <2>1
  <2>4. \A n, o \in DOMAIN servers' : servers'[n].lfd = servers'[o].lfd => n = o
    BY <1>4, <1>6, <1>8, <1>10, <2>1
  <2>5. reach' \subseteq
            {[name |-> servers'[n].name, fd |-> servers'[n].lfd] : n \in DOMAIN servers'}
    <3> SUFFICES ASSUME NEW r \in reach'
                 PROVE  \E n \in DOMAIN servers' :
                            r = [name |-> servers'[n].name, fd |-> servers'[n].lfd]
      OBVIOUS
    <3>1. CASE r = [name |-> Name(param), fd |-> NewFd]
      BY <1>6, <1>8, <3>1
    <3>2. CASE r \in reach
      <4>1. PICK n \in DOMAIN servers : r = [name |-> servers[n].name, fd |-> servers[n].lfd]
        BY <2>1, <3>2
      <4> QED
        BY <1>8, <4>1
    <3> QED
      BY <1>2, <3>1, <3>2 DEF Unlinked
  <2>6. \A n \in DOMAIN servers' : servers'[n].pworks # 0 =>
            /\ servers'[n].pworks <= Len(pools')
            /\ pools'[servers'[n].pworks] = ThreadNum'
            /\ \A o \in DOMAIN servers' : servers'[o].pworks = servers'[n].pworks => o = n
    <3>1. Len(pools) \in Nat /\ Len(pools') \in Nat /\ Len(pools) + 1 \notin 1 .. Len(pools)
      BY <1>5
    <3>2. ASSUME NEW n \in DOMAIN servers, servers[n].pworks # 0
          PROVE  /\ servers'[n].pworks <= Len(pools')
                 /\ pools'[servers'[n].pworks] = ThreadNum'
                 /\ \A o \in DOMAIN servers' : servers'[o].pworks = servers'[n].pworks => o = n
      <4>1. servers'[n].pworks = servers[n].pworks /\ servers[n].pworks \in 1 .. Len(pools)
        BY <1>8, <1>10, <3>2
      <4>2. servers'[n].pworks <= Len(pools')
        BY <1>5, <3>1, <4>1
      <4>3. pools'[servers'[n].pworks] = ThreadNum'
        BY <1>3, <1>5, <2>2, <3>2, <4>1
      <4>4. servers'[new].pworks # servers[n].pworks
        BY <1>5, <1>6, <1>8, <3>1, <3>2, <4>1
      <4> QED
        BY <1>8, <2>2, <3>2, <4>1, <4>2, <4>3, <4>4
    <3>3. ASSUME servers'[new].pworks # 0
          PROVE  /\ servers'[new].pworks <= Len(pools')
                 /\ pools'[servers'[new].pworks] = ThreadNum'
                 /\ \A o \in DOMAIN servers' : servers'[o].pworks = servers'[new].pworks => o = new
      <4>1. servers'[new].pworks = Len(pools) + 1 /\ Len(pools) + 1 = Len(pools')
        BY <1>5, <1>6, <1>8, <3>3
      <4>2. pools'[servers'[new].pworks] = ThreadNum'
        BY <1>3, <1>5, <1>6, <1>8, <3>3
      <4>3. \A o \in DOMAIN servers : servers'[o].pworks # servers'[new].pworks
        BY <1>8, <1>10, <3>1, <3>3, <4>1
      <4> QED
        BY <1>8, <3>1, <4>1, <4>2, <4>3
    <3> QED
      BY <1>8, <3>2, <3>3
  <2> QED
    BY <2>3, <2>4, <2>5, <2>6 DEF Listed
<1>12. Accounted'
  BY <1>1, <1>2 DEF Accounted
<1>13. Named'
  <2> SUFFICES ASSUME SoundConfig' PROVE Named'
    BY DEF Named
  <2>1. SoundConfig /\ Configured' = Configured
    BY <1>2 DEF SoundConfig, SoundPort, Configured
  <2>2. /\ \A n \in DOMAIN servers : servers[n].name \in Configured
        /\ \A n, o \in DOMAIN servers : servers[n].name = servers[o].name => n = o
        /\ \A n \in DOMAIN servers :
                [name |-> servers[n].name, fd |-> servers[n].lfd] \in reach
    BY <1>1, <2>1 DEF Named
  <2>3. /\ Name(param) \in Configured
        /\ \A n \in DOMAIN servers : Name(param) # servers[n].name
        /\ \A i \in DOMAIN left' : /\ Name(left'[i]) \in Configured
                                   /\ Name(left'[i]) # Name(param)
                                   /\ \A n \in DOMAIN servers : Name(left'[i]) # servers[n].name
        /\ \A i, k \in DOMAIN left' : Name(left'[i]) = Name(left'[k]) => i = k
    BY <1>1, <2>1, TailNamed DEF param
  <2>4. /\ \A n \in DOMAIN servers' : servers'[n].name \in Configured
        /\ \A n, o \in DOMAIN servers' : servers'[n].name = servers'[o].name => n = o
    BY <1>6, <1>8, <2>2, <2>3
  <2>5. \A i \in DOMAIN left', n \in DOMAIN servers' : Name(left'[i]) # servers'[n].name
    BY <1>6, <1>8, <2>3
  <2>6. \A n \in DOMAIN servers' :
            [name |-> servers'[n].name, fd |-> servers'[n].lfd] \in reach'
    <3>1. [name |-> servers'[new].name, fd |-> servers'[new].lfd] \in reach'
      BY <1>2, <1>6, <1>8
    <3>2. ASSUME NEW n \in DOMAIN servers
          PROVE  [name |-> servers[n].name, fd |-> servers[n].lfd] \in reach'
      BY <1>2, <2>2, <2>3 DEF Unlinked
    <3> QED
      BY <1>8, <3>1, <3>2
  <2> QED
    BY <2>1, <2>3, <2>4, <2>5, <2>6 DEF Named
<1> QED
  BY <1>9, <1>11, <1>12, <1>13 DEF ServersInv

\* Every step of main, of a timer and of the clock keeps the invariant.
LEMMA ServersStep == ServersInv /\ [Next]_vars => ServersInv'
<1> SUFFICES ASSUME ServersInv, [Next]_vars PROVE ServersInv'
  OBVIOUS
<1>1. CASE InitServer
  BY <1>1, InitServerStep
<1>2. CASE AddServer
  <2>1. Adding
    BY <1>2 DEF AddServer, Adding
  <2> QED
    BY <1>2, <2>1, GiveUpStep, RegisterStep DEF AddServer
<1>3. CASE StartLoop \/ LoopEnds \/ DestroyServers
  BY <1>3, QuietStep DEF StartLoop, LoopEnds, DestroyServers
<1>4. CASE UNCHANGED mainVars
  BY <1>4, QuietStep
<1> QED
  BY <1>1, <1>2, <1>3, <1>4 DEF Next, MainStep, vars

-----------------------------------------------------------------------------
(* Theorems *)

\* Whatever the configuration, the ports taken, the number of set-ups that
\* fail and the timers: the state of main is sound.
THEOREM ServersInvariant == Spec => []ServersInv
<1> QED
  BY InitServers, ServersStep, PTL DEF Spec

\* The error paths of add_generic_server_param undo no more than their own
\* work: every server init_server managed to add is reached under its address
\* and watched by the loop, and has all the threads of a pool of its own.
THEOREM AddedServersReachable == Spec => []ServersReachable
<1>1. ServersInv => ServersReachable
  <2> SUFFICES ASSUME Listed, Named, SoundConfig
               PROVE  /\ \A n \in DOMAIN servers :
                          /\ servers[n].name \in Configured
                          /\ [name |-> servers[n].name, fd |-> servers[n].lfd] \in reach
                          /\ servers[n].lfd \in watched
                          /\ servers[n].pworks # 0 =>
                                /\ pools[servers[n].pworks] = ThreadNum
                                /\ \A o \in DOMAIN servers :
                                        servers[o].pworks = servers[n].pworks => o = n
                      /\ \A r, q \in reach : r.name = q.name => r = q
                      /\ \A r, q \in reach : r.fd = q.fd => r = q
    BY DEF ServersInv, ServersReachable
  <2>1. \A r \in reach : \E n \in DOMAIN servers :
            r = [name |-> servers[n].name, fd |-> servers[n].lfd]
    BY DEF Listed
  <2>2. /\ \A r, q \in reach : r.name = q.name => r = q
        /\ \A r, q \in reach : r.fd = q.fd => r = q
    <3> SUFFICES ASSUME NEW r \in reach, NEW q \in reach
                 PROVE  (r.name = q.name => r = q) /\ (r.fd = q.fd => r = q)
      OBVIOUS
    <3>1. PICK n \in DOMAIN servers : r = [name |-> servers[n].name, fd |-> servers[n].lfd]
      BY <2>1
    <3>2. PICK o \in DOMAIN servers : q = [name |-> servers[o].name, fd |-> servers[o].lfd]
      BY <2>1
    <3>3. /\ servers[n].name = servers[o].name => n = o
          /\ servers[n].lfd = servers[o].lfd => n = o
      BY DEF Listed, Named
    <3> QED
      BY <3>1, <3>2, <3>3
  <2> QED
    BY <2>2 DEF Listed, Named
<1> QED
  BY <1>1, ServersInvariant, PTL

\* However many set-ups fail and wherever, the open descriptors are those of the
\* servers in the list, if 0 is not free.
THEOREM NoDescriptorLost == Spec => []DescriptorsAccounted
<1>1. ServersInv => DescriptorsAccounted
  BY DEF ServersInv, Listed, Accounted, DescriptorsAccounted
<1> QED
  BY <1>1, ServersInvariant, PTL
=============================================================================
