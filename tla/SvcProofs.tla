----------------------------- MODULE SvcProofs ------------------------------
(***************************************************************************)
(* The switch's calls have their types and their DLCIs are accounted for,  *)
(* for every set of ports, every range of DLCIs, every configuration and   *)
(* every sequence of messages, commands and timeouts.                      *)
(*                                                                         *)
(* First what a call needs before it goes anywhere, the two halves of      *)
(* svc_routing_common.c.  Where it is sent, for every configuration of     *)
(* numbers and routes: the scan of the route table ends with a best route, *)
(* and a number of a subscriber leads to the subscriber's port after it    *)
(* has been replaced by the last number of that port.  And its DLCI: what  *)
(* the allocator does to the list of free ones.  Then what every message,  *)
(* command and timeout does to the legs of calls.                          *)
(***************************************************************************)
EXTENDS SvcSwitch, SequenceTheorems, FiniteSetTheorems, TLAPS

\* The steps of the folds of Directory.
ExtendStep(env, done, c) == done \o Written(c)
KeepStep(env, best, r) ==
    IF r \in env[1] /\ IsPrefix(r.prefix, env[2]) /\ (best = <<>> \/ BetterRoute(best[1], r))
    THEN <<r>> ELSE best
SubscriberStep(env, d, s) == AddSubscriber(d, s)
RouteStep(env, d, r) == AddRoute(d, r)

Digit == INSTANCE FoldProofs WITH Step <- ExtendStep
Scan == INSTANCE FoldProofs WITH Step <- KeepStep
Addrs == INSTANCE FoldProofs WITH Step <- SubscriberStep
Routes == INSTANCE FoldProofs WITH Step <- RouteStep

LEMMA ExpandIsFold == \A raw : Expand(raw) = Digit!Fold(0, <<>>, raw)
  BY Zenon DEF Expand, ExtendStep, FoldLeft, MapThenFoldSet, Max,
           Digit!Fold, Digit!FoldLeft, Digit!MapThenFoldSet, Digit!Max

LEMMA ScanIsFold ==
    \A routes, env : ScanRoutes(routes, env[1], env[2]) = Scan!Fold(env, <<>>, routes)
  BY Zenon DEF ScanRoutes, KeepStep, FoldLeft, MapThenFoldSet, Max,
           Scan!Fold, Scan!FoldLeft, Scan!MapThenFoldSet, Scan!Max

LEMMA ConfigureIsFold ==
    \A config : Configure(config) =
        Routes!Fold(0, Addrs!Fold(0, EmptyDirectory, config.addrs), config.routes)
  BY Zenon DEF Configure, SubscriberStep, RouteStep, FoldLeft, MapThenFoldSet, Max,
           Addrs!Fold, Addrs!FoldLeft, Addrs!MapThenFoldSet, Addrs!Max,
           Routes!Fold, Routes!FoldLeft, Routes!MapThenFoldSet, Routes!Max

-----------------------------------------------------------------------------
(***************************************************************************)
(* The scan of the route table.                                            *)
(***************************************************************************)
Comparable(S) == \A r \in S : Len(r.prefix) \in Nat /\ r.metric \in Nat

Matching(routes, usable, number) == {r \in Range(routes) : r \in usable /\ IsPrefix(r.prefix, number)}

\* best is what the scan has found after these routes.
Best(best, matching) ==
    \/ best = <<>> /\ matching = {}
    \/ \E r \in matching : best = <<r>> /\ \A o \in matching : ~BetterRoute(r, o)

LEMMA KeepsBest ==
    ASSUME NEW S, Comparable(S), NEW matching \in SUBSET S, NEW best, Best(best, matching), NEW x \in S
    PROVE  /\ best = <<>> \/ BetterRoute(best[1], x) => Best(<<x>>, matching \cup {x})
           /\ ~(best = <<>> \/ BetterRoute(best[1], x)) => Best(best, matching \cup {x})
  <1>0. ~BetterRoute(x, x)
    BY DEF BetterRoute, Comparable
  <1>1. CASE best = <<>> /\ matching = {}
    BY <1>0, <1>1 DEF Best
  <1>2. ASSUME NEW r \in matching, best = <<r>>, \A o \in matching : ~BetterRoute(r, o)
        PROVE  /\ BetterRoute(r, x) => Best(<<x>>, matching \cup {x})
               /\ ~BetterRoute(r, x) => Best(best, matching \cup {x})
    <2>1. ASSUME BetterRoute(r, x), NEW o \in matching PROVE ~BetterRoute(x, o)
      <3>1. ~BetterRoute(r, o) /\ r \in S /\ o \in S
        BY <1>2
      <3> QED  BY <2>1, <3>1 DEF BetterRoute, Comparable
    <2>2. CASE BetterRoute(r, x)
      <3>1. \A o \in matching \cup {x} : ~BetterRoute(x, o)
        BY <1>0, <2>1, <2>2
      <3> QED  BY <2>2, <3>1 DEF Best
    <2>3. CASE ~BetterRoute(r, x)
      <3>1. \A o \in matching \cup {x} : ~BetterRoute(r, o)
        BY <1>2, <2>3
      <3> QED  BY <1>2, <2>3, <3>1 DEF Best
    <2> QED  BY <2>2, <2>3
  <1>3. ASSUME NEW r, best = <<r>> PROVE best # <<>> /\ best[1] = r
    BY <1>3
  <1> QED
    <2>1. CASE best = <<>> /\ matching = {}
      BY <1>1, <2>1
    <2>2. CASE \E r \in matching : best = <<r>> /\ \A o \in matching : ~BetterRoute(r, o)
      BY <1>2, <1>3, <2>2, Zenon
    <2> QED  BY <2>1, <2>2 DEF Best

LEMMA RangeOfAppend ==
    ASSUME NEW S, NEW rest \in Seq(S), NEW x \in S
    PROVE  Range(Append(rest, x)) = Range(rest) \cup {x} /\ Range(rest) \subseteq S
  <1> DEFINE q == Append(rest, x)
             n == Len(rest)
  <1>1. /\ DOMAIN q = 1 .. n + 1 /\ DOMAIN rest = 1 .. n /\ n \in Nat
        /\ q[n + 1] = x /\ \A i \in 1 .. n : q[i] = rest[i] /\ rest[i] \in S
    OBVIOUS
  <1> HIDE DEF q, n
  <1>2. n + 1 \in 1 .. n + 1 /\ 1 .. n \subseteq 1 .. n + 1 /\ \A i \in 1 .. n + 1 : i = n + 1 \/ i \in 1 .. n
    BY <1>1
  <1>3. Range(q) = Range(rest) \cup {x} /\ Range(rest) \subseteq S
    BY <1>1, <1>2, Zenon DEF Range
  <1>4. QED
    BY <1>3 DEF q

\* The scan returns a usable route that matches, if there is one, and no such
\* route is better.
LEMMA ScanFindsBest ==
    ASSUME NEW S, Comparable(S), NEW routes \in Seq(S), NEW usable, NEW number
    PROVE  Best(ScanRoutes(routes, usable, number), Matching(routes, usable, number))
  <1> DEFINE Found(q) == Best(ScanRoutes(q, usable, number), Matching(q, usable, number))
             T == {q \in Seq(S) : Found(q)}
             env == <<usable, number>>
  <1>e. env[1] = usable /\ env[2] = number
    OBVIOUS
  <1> HIDE DEF env
  <1>f. \A q : ScanRoutes(q, usable, number) = Scan!Fold(env, <<>>, q)
    BY <1>e, ScanIsFold
  <1>1. <<>> \in T
    <2>1. ScanRoutes(<<>>, usable, number) = <<>>
      BY <1>f, Scan!FoldEmpty
    <2>2. Matching(<<>>, usable, number) = {}
      BY DEF Matching, Range
    <2> QED  BY <2>1, <2>2 DEF Best
  <1>2. ASSUME NEW rest \in Seq(S), NEW x \in S, rest \in T PROVE Append(rest, x) \in T
    <2> DEFINE best == ScanRoutes(rest, usable, number)
               matching == Matching(rest, usable, number)
               q == Append(rest, x)
    <2>1. Best(best, matching)
      BY <1>2
    <2>2. ScanRoutes(q, usable, number) = KeepStep(env, best, x)
      BY <1>f, Scan!FoldAppend
    <2>3. Range(q) = Range(rest) \cup {x} /\ Range(rest) \subseteq S
      BY RangeOfAppend
    <2>0. q \in Seq(S)
      OBVIOUS
    <2>4. matching \in SUBSET S
      BY <2>3 DEF Matching
    <2>5. CASE ~(x \in usable /\ IsPrefix(x.prefix, number))
      <3>1. Matching(q, usable, number) = matching
        BY <2>3, <2>5 DEF Matching
      <3>2. KeepStep(env, best, x) = best
        BY <1>e, <2>5, Zenon DEF KeepStep
      <3> QED  BY <2>0, <2>1, <2>2, <3>1, <3>2
    <2>6. CASE x \in usable /\ IsPrefix(x.prefix, number)
      <3>1. Matching(q, usable, number) = matching \cup {x}
        BY <2>3, <2>6 DEF Matching
      <3>2. KeepStep(env, best, x) = IF best = <<>> \/ BetterRoute(best[1], x) THEN <<x>> ELSE best
        BY <1>e, <2>6, Zenon DEF KeepStep
      <3> HIDE DEF best, matching
      <3>3. Best(KeepStep(env, best, x), matching \cup {x})
        BY <2>1, <2>4, <3>2, KeepsBest, Zenon
      <3>4. Found(q)
        BY <2>2, <3>1, <3>3, Zenon
      <3> QED  BY <2>0, <3>4
    <2> QED  BY <2>5, <2>6
  <1>3. Seq(S) \subseteq T
    <2> HIDE DEF T
    <2> QED  BY <1>1, <1>2, Scan!SequenceInduction
  <1>4. QED
    BY <1>3

-----------------------------------------------------------------------------
(***************************************************************************)
(* Numbers.                                                                *)
(***************************************************************************)
LEMMA WrittenType ==
    ASSUME NEW T, NEW c \in T
    PROVE  Written(c) \in Seq(T \cup Digits)
  <1>1. Dnic \in Seq(Digits) /\ Sgc \in Seq(Digits) /\ Sic \in Seq(Digits)
    BY DirectoryAssumption
  <1>2. Seq(Digits) \subseteq Seq(T \cup Digits)
    OBVIOUS
  <1>3. <<>> \in Seq(T \cup Digits) /\ <<c>> \in Seq(T \cup Digits)
    OBVIOUS
  <1>4. QED
    BY <1>1, <1>2, <1>3, Zenon DEF Written

\* What a number is written out to is a sequence of digits, and of what else
\* the number has in it.
LEMMA ExpandType ==
    ASSUME NEW T, NEW raw \in Seq(T)
    PROVE  Expand(raw) \in Seq(T \cup Digits)
  <1>1. <<>> \in Seq(T \cup Digits)
    OBVIOUS
  <1>2. \A done \in Seq(T \cup Digits), c \in T : ExtendStep(0, done, c) \in Seq(T \cup Digits)
    BY WrittenType DEF ExtendStep
  <1>3. Digit!Fold(0, <<>>, raw) \in Seq(T \cup Digits)
    BY <1>1, <1>2, Digit!FoldInvariant
  <1>4. QED
    BY <1>3, ExpandIsFold

\* A number that is digits already stays as it is.
LEMMA ExpandDigits ==
    ASSUME NEW S, S \subseteq Digits, NEW number \in Seq(S)
    PROVE  Expand(number) = number
  <1> DEFINE T == {q \in Seq(S) : Expand(q) = q}
  <1>1. <<>> \in T
    BY ExpandIsFold, Digit!FoldEmpty
  <1>2. ASSUME NEW rest \in Seq(S), NEW c \in S, rest \in T PROVE Append(rest, c) \in T
    <2>1. Expand(Append(rest, c)) = Expand(rest) \o Written(c)
      <3>1. Digit!Fold(0, <<>>, Append(rest, c)) = ExtendStep(0, Digit!Fold(0, <<>>, rest), c)
        BY Digit!FoldAppend
      <3> QED  BY <3>1, ExpandIsFold, Zenon DEF ExtendStep
    <2>2. Written(c) = <<c>>
      <3>1. c # "dnic" /\ c # "sgc" /\ c # "sic" /\ c # ","
        BY DirectoryAssumption
      <3> QED  BY <3>1 DEF Written
    <2>3. rest \o <<c>> = Append(rest, c)
      OBVIOUS
    <2> QED  BY <1>2, <2>1, <2>2, <2>3
  <1>3. Seq(S) \subseteq T
    <2> HIDE DEF T
    <2> QED  BY <1>1, <1>2, Digit!SequenceInduction
  <1>4. QED
    BY <1>3

-----------------------------------------------------------------------------
(***************************************************************************)
(* The subscriber table.                                                   *)
(***************************************************************************)
LEMMA SmallestOf ==
    ASSUME NEW I \in SUBSET Nat, I # {}
    PROVE  Min(I) \in I /\ \A k \in I : Min(I) <= k
  <1>1. PICK m \in I : \A k \in I : m <= k
    BY Digit!LeastNatural
  <1>2. QED
    BY <1>1 DEF Min

LEMMA FindsPort ==
    ASSUME NEW d, Len(d.subs) \in Nat, NEW number
    PROVE  FindSubscriber(d, number) \in Ports \cup {NoPort}
  <1> DEFINE I == {i \in 1 .. Len(d.subs) : d.subs[i].number = Expand(number) /\ d.subs[i].port \in Ports}
  <1>1. I # {} => Min(I) \in I
    <2>1. I \in SUBSET Nat
      OBVIOUS
    <2> HIDE DEF I
    <2> QED  BY <2>1, SmallestOf
  <1>2. FindSubscriber(d, number) =
            IF number = NoNumber \/ (IF I # {} THEN Min(I) ELSE 0) = 0 THEN NoPort
            ELSE d.subs[IF I # {} THEN Min(I) ELSE 0].port
    BY Zenon DEF FindSubscriber, SelectInSeq
  <1>3. CASE I = {}
    <2> HIDE DEF I
    <2> QED  BY <1>2, <1>3
  <1>4. CASE I # {}
    <2>1. Min(I) \in I
      BY <1>1, <1>4
    <2>2. d.subs[Min(I)].port \in Ports
      BY <2>1
    <2> HIDE DEF I
    <2>3. FindSubscriber(d, number) = NoPort \/ FindSubscriber(d, number) = d.subs[Min(I)].port
      BY <1>2, <1>4
    <2> QED  BY <2>2, <2>3
  <1>5. QED
    BY <1>3, <1>4

\* The first entry that has the number is the one that is found.
LEMMA FindsFirst ==
    ASSUME NEW d, Len(d.subs) \in Nat, NEW number, number # NoNumber, Expand(number) = number,
           NEW i \in 1 .. Len(d.subs), d.subs[i].number = number, d.subs[i].port \in Ports,
           \A j \in 1 .. i - 1 : d.subs[j].number # number
    PROVE  FindSubscriber(d, number) = d.subs[i].port
  <1> DEFINE I == {k \in 1 .. Len(d.subs) : d.subs[k].number = Expand(number) /\ d.subs[k].port \in Ports}
  <1>1. i \in I /\ \A k \in I : i <= k
    <2>1. ASSUME NEW k \in I, k < i PROVE FALSE
      <3>1. k \in 1 .. i - 1
        BY <2>1
      <3> QED  BY <3>1
    <2> QED  BY <2>1
  <1>2. Min(I) = i
    <2>1. I \in SUBSET Nat
      OBVIOUS
    <2> DEFINE m == Min(I)
    <2>2. m \in I /\ \A k \in I : m <= k
      <3> HIDE DEF I
      <3> QED  BY <1>1, <2>1, SmallestOf
    <2> HIDE DEF m, I
    <2>3. m <= i /\ i <= m /\ m \in Nat /\ i \in Nat
      BY <1>1, <2>1, <2>2
    <2>4. m = i
      BY <2>3
    <2> QED  BY <2>4 DEF m
  <1>3. FindSubscriber(d, number) =
            IF number = NoNumber \/ (IF I # {} THEN Min(I) ELSE 0) = 0 THEN NoPort
            ELSE d.subs[IF I # {} THEN Min(I) ELSE 0].port
    BY Zenon DEF FindSubscriber, SelectInSeq
  <1>4. i # 0 /\ I # {}
    BY <1>1
  <1> HIDE DEF I
  <1>5. QED
    BY <1>2, <1>3, <1>4, Zenon

\* The number of a port, if it has one, is that of an entry of the table for
\* this port, and of no entry before that one.
PrimaryFirst(d, p) ==
    \E i \in 1 .. Len(d.subs) :
        /\ d.subs[i].number = d.primary[p] /\ d.subs[i].port = p
        /\ \A j \in 1 .. i - 1 : d.subs[j].number # d.primary[p]

\* Directories with entries of A and routes of B.
Directories(A, B) ==
    {d \in [subs : Seq(A), routes : Seq(B), primary : [Ports -> Seq(Digits)]] :
        \A p \in Ports : d.primary[p] = NoNumber \/ PrimaryFirst(d, p)}

LEMMA SubscriberKeeps ==
    ASSUME NEW T, Digits \cup {"dnic", "sgc", "sic"} \subseteq T, NEW Names, NEW A, NEW B,
           A = [number : Seq(T), port : Names], NEW d \in Directories(A, B), NEW s,
           s.number \in Seq(T), s.alias \in Seq(T), s.port \in Names
    PROVE  AddSubscriber(d, s) \in Directories(A, B)
  <1> DEFINE number == Expand(IF s.auto THEN <<"dnic", "sgc", "sic">> \o s.number ELSE s.number)
             alias == IF s.alias # NoNumber /\ Len(d.subs) + 1 < MaxSubscribers
                      THEN <<[number |-> Expand(s.alias), port |-> s.port]>> ELSE <<>>
             entry == [number |-> number, port |-> s.port]
             e == [d EXCEPT !.subs = @ \o <<entry>> \o alias, !.primary[s.port] = number]
             n == Len(d.subs)
  <1>1. \A raw \in Seq(T) : Expand(raw) \in Seq(T)
    <2>1. T \cup Digits = T
      OBVIOUS
    <2> QED  BY <2>1, ExpandType
  <1>2. number \in Seq(T)
    <2>1. <<"dnic", "sgc", "sic">> \o s.number \in Seq(T)
      OBVIOUS
    <2> QED  BY <1>1, <2>1
  <1>3. entry \in A /\ alias \in Seq(A)
    <2> DEFINE other == [number |-> Expand(s.alias), port |-> s.port]
    <2>1. Expand(s.alias) \in Seq(T)
      BY <1>1
    <2> HIDE DEF number
    <2>2. entry \in A /\ other \in A
      BY <1>2, <2>1
    <2>3. \A x \in A : <<x>> \in Seq(A) /\ <<>> \in Seq(A)
      OBVIOUS
    <2>4. alias = <<other>> \/ alias = <<>>
      OBVIOUS
    <2> HIDE DEF entry, other, alias
    <2> QED  BY <2>2, <2>3, <2>4, Zenon
  <1>4. ASSUME Range(number) \subseteq Digits, \A i \in DOMAIN d.subs : d.subs[i].number # number
        PROVE  e \in Directories(A, B)
    <2> HIDE DEF alias, number
    <2>1. /\ d \in [subs : Seq(A), routes : Seq(B), primary : [Ports -> Seq(Digits)]]
          /\ \A p \in Ports : d.primary[p] = NoNumber \/ PrimaryFirst(d, p)
      BY DEF Directories
    <2> DEFINE subs == d.subs \o <<entry>> \o alias
               primary == [d.primary EXCEPT ![s.port] = number]
    <2>2. e = [subs |-> subs, routes |-> d.routes, primary |-> primary]
      <3> HIDE DEF entry
      <3>1. d = [subs |-> d.subs, routes |-> d.routes, primary |-> d.primary]
        BY <2>1
      <3>2. e = [d EXCEPT !.subs = subs, !.primary[s.port] = number]
        BY Zenon
      <3> HIDE DEF subs, e
      <3> QED  BY <3>1, <3>2
    <2>3. /\ subs \in Seq(A) /\ n \in Nat /\ Len(subs) \in Nat /\ n + 1 <= Len(subs)
          /\ \A i \in 1 .. n : subs[i] = d.subs[i]
          /\ subs[n + 1] = entry
      <3> HIDE DEF entry
      <3>1. d.subs \in Seq(A)
        BY <2>1
      <3> QED  BY <1>3, <3>1
    <2>4. number \in Seq(Digits)
      <3>1. \A i \in 1 .. Len(number) : number[i] \in Digits
        BY <1>2, <1>4 DEF Range
      <3> QED  BY <1>2, <3>1
    <2>5. primary \in [Ports -> Seq(Digits)]
      BY <2>1, <2>4
    <2>6. entry.number = number /\ entry.port = s.port
      OBVIOUS
    <2>7. d.subs \in Seq(A)
      BY <2>1
    <2> HIDE DEF e, subs, entry
    <2>8. ASSUME NEW p \in Ports PROVE e.primary[p] = NoNumber \/ PrimaryFirst(e, p)
      <3>1. CASE p = s.port
        <4>1. e.primary[p] = number /\ e.subs = subs
          BY <2>1, <2>2, <3>1
        <4>2. subs[n + 1].number = number /\ subs[n + 1].port = p
          BY <2>3, <2>6, <3>1
        <4>3. \A j \in 1 .. (n + 1) - 1 : subs[j].number # number
          <5>1. \A j \in 1 .. n : d.subs[j].number # number
            BY <1>4, <2>7
          <5>2. (n + 1) - 1 = n
            BY <2>3
          <5> HIDE DEF n
          <5> QED  BY <2>3, <5>1, <5>2, Zenon
        <4>4. n + 1 \in 1 .. Len(subs)
          BY <2>3
        <4> HIDE DEF n
        <4> QED  BY <4>1, <4>2, <4>3, <4>4, Zenon DEF PrimaryFirst
      <3>2. CASE p # s.port /\ d.primary[p] # NoNumber
        <4>1. e.primary[p] = d.primary[p] /\ e.subs = subs
          BY <2>1, <2>2, <3>2
        <4>2. PICK i \in 1 .. n : /\ d.subs[i].number = d.primary[p] /\ d.subs[i].port = p
                                  /\ \A j \in 1 .. i - 1 : d.subs[j].number # d.primary[p]
          BY <2>1, <3>2 DEF PrimaryFirst
        <4>3. i \in 1 .. Len(subs) /\ 1 .. i - 1 \subseteq 1 .. n
          BY <2>3
        <4>4. /\ subs[i].number = d.primary[p] /\ subs[i].port = p
              /\ \A j \in 1 .. i - 1 : subs[j].number # d.primary[p]
          BY <2>3, <4>2, <4>3
        <4> QED  BY <4>1, <4>3, <4>4, Zenon DEF PrimaryFirst
      <3>3. CASE p # s.port /\ d.primary[p] = NoNumber
        BY <2>1, <2>2, <3>3
      <3> QED  BY <3>1, <3>2, <3>3
    <2> QED  BY <2>1, <2>2, <2>3, <2>5, <2>8 DEF Directories
  <1>5. AddSubscriber(d, s) = d \/
        /\ Range(number) \subseteq Digits /\ (\A i \in DOMAIN d.subs : d.subs[i].number # number)
        /\ AddSubscriber(d, s) = e
    BY Zenon DEF AddSubscriber
  <1>6. QED
    <2> HIDE DEF number, e
    <2> QED  BY <1>4, <1>5

LEMMA RouteKeeps ==
    ASSUME NEW T, Digits \subseteq T, NEW RoutePorts, NEW Nets, NEW A, NEW B,
           B = [prefix : Seq(T), port : RoutePorts, net : Nets, metric : Nat], NEW d \in Directories(A, B), NEW r,
           r.prefix \in Seq(T), r.port \in RoutePorts, r.net \in Nets, r.metric \in Nat
    PROVE  AddRoute(d, r) \in Directories(A, B)
  <1> DEFINE route == [prefix |-> Expand(r.prefix), port |-> r.port, net |-> r.net,
                       metric |-> IF r.metric > 0 THEN r.metric ELSE 10]
             e == [d EXCEPT !.routes = Append(@, route)]
  <1>1. AddRoute(d, r) = d \/ AddRoute(d, r) = e
    BY Zenon DEF AddRoute
  <1>2. route \in B
    <2>1. Expand(r.prefix) \in Seq(T)
      <3>1. T \cup Digits = T
        OBVIOUS
      <3> QED  BY <3>1, ExpandType
    <2> QED  BY <2>1
  <1> HIDE DEF route
  <1>3. /\ d \in [subs : Seq(A), routes : Seq(B), primary : [Ports -> Seq(Digits)]]
        /\ \A p \in Ports : d.primary[p] = NoNumber \/ PrimaryFirst(d, p)
    BY DEF Directories
  <1>4. e \in [subs : Seq(A), routes : Seq(B), primary : [Ports -> Seq(Digits)]]
    <2>1. d = [subs |-> d.subs, routes |-> d.routes, primary |-> d.primary] /\ Append(d.routes, route) \in Seq(B)
      BY <1>2, <1>3
    <2>2. e = [subs |-> d.subs, routes |-> Append(d.routes, route), primary |-> d.primary]
      <3> DEFINE routes == Append(d.routes, route)
      <3>1. e = [d EXCEPT !.routes = routes]
        BY Zenon
      <3> HIDE DEF routes, e
      <3>2. e = [subs |-> d.subs, routes |-> routes, primary |-> d.primary]
        BY <2>1, <3>1
      <3> QED  BY <3>2 DEF routes
    <2> HIDE DEF e
    <2> QED  BY <1>3, <2>1, <2>2
  <1>5. e.subs = d.subs /\ e.primary = d.primary
    BY <1>3
  <1>6. e \in Directories(A, B)
    <2> HIDE DEF e
    <2> QED  BY <1>3, <1>4, <1>5 DEF Directories, PrimaryFirst
  <1>7. QED
    BY <1>1, <1>6, Zenon

\* What a configuration leaves in the directory.
LEMMA ConfigureType ==
    ASSUME NEW config \in Configs
    PROVE  \E A, B : Comparable(B) /\ Configure(config) \in Directories(A, B)
  <1> DEFINE S == Range(config.addrs)
             R == Range(config.routes)
             Symbols == {Range(s.number) : s \in S} \cup {Range(s.alias) : s \in S} \cup {Range(r.prefix) : r \in R}
             T == Digits \cup {"dnic", "sgc", "sic"} \cup UNION Symbols
             A == [number : Seq(T), port : {s.port : s \in S}]
             B == [prefix : Seq(T), port : {r.port : r \in R}, net : {r.net : r \in R}, metric : Nat]
  <1>1. /\ config.addrs \in Seq(S) /\ \A s \in S : s.number \in Seq(Range(s.number)) /\ s.alias \in Seq(Range(s.alias))
        /\ config.routes \in Seq(R) /\ \A r \in R : r.prefix \in Seq(Range(r.prefix)) /\ r.metric \in Nat
    BY ConfigAssumption, Zenon DEF Finite
  <1>2. ASSUME NEW q, NEW U \in Symbols, q \in Seq(U) PROVE q \in Seq(T)
    <2>1. U \subseteq T
      <3> HIDE DEF Symbols
      <3> QED  BY Zenon
    <2> HIDE DEF T, Symbols
    <2> QED  BY <1>2, <2>1
  <1>3. \A s \in S : s.number \in Seq(T) /\ s.alias \in Seq(T)
    <2>1. \A s \in S : Range(s.number) \in Symbols /\ Range(s.alias) \in Symbols
      BY Zenon
    <2> HIDE DEF T, S, Symbols
    <2> QED  BY <1>1, <1>2, <2>1
  <1>4. \A r \in R : r.prefix \in Seq(T)
    <2>1. \A r \in R : Range(r.prefix) \in Symbols
      BY Zenon
    <2> HIDE DEF T, R, Symbols
    <2> QED  BY <1>1, <1>2, <2>1
  <1>5. Digits \subseteq T /\ Digits \cup {"dnic", "sgc", "sic"} \subseteq T
    BY Zenon
  <1>6. Comparable(B)
    BY DEF Comparable
  <1>7. EmptyDirectory \in Directories(A, B)
    <2>1. <<>> \in Seq(Digits) /\ <<>> \in Seq(A) /\ <<>> \in Seq(B)
      OBVIOUS
    <2> HIDE DEF A, B
    <2>2. EmptyDirectory.primary = [p \in Ports |-> NoNumber]
      BY DEF EmptyDirectory
    <2>3. EmptyDirectory \in [subs : Seq(A), routes : Seq(B), primary : [Ports -> Seq(Digits)]]
      BY <2>1 DEF EmptyDirectory, NoNumber
    <2> QED  BY <2>2, <2>3 DEF Directories
  <1> DEFINE Names == {s.port : s \in S}
             RoutePorts == {r.port : r \in R}
             Nets == {r.net : r \in R}
  <1>8. A = [number : Seq(T), port : Names] /\ B = [prefix : Seq(T), port : RoutePorts, net : Nets, metric : Nat]
    OBVIOUS
  <1>9. (\A s \in S : s.port \in Names) /\ \A r \in R : r.port \in RoutePorts /\ r.net \in Nets
    OBVIOUS
  <1> HIDE DEF A, B, T, S, R, Names, RoutePorts, Nets
  <1>10. \A d \in Directories(A, B), s \in S : SubscriberStep(0, d, s) \in Directories(A, B)
    BY <1>3, <1>5, <1>8, <1>9, SubscriberKeeps DEF SubscriberStep
  <1>11. \A d \in Directories(A, B), r \in R : RouteStep(0, d, r) \in Directories(A, B)
    BY <1>1, <1>4, <1>5, <1>8, <1>9, RouteKeeps DEF RouteStep
  <1>12. Addrs!Fold(0, EmptyDirectory, config.addrs) \in Directories(A, B)
    BY <1>1, <1>7, <1>10, Addrs!FoldInvariant
  <1>13. Routes!Fold(0, Addrs!Fold(0, EmptyDirectory, config.addrs), config.routes) \in Directories(A, B)
    BY <1>1, <1>11, <1>12, Routes!FoldInvariant
  <1>14. QED
    BY <1>6, <1>13, ConfigureIsFold

-----------------------------------------------------------------------------
(***************************************************************************)
(* The directory is the one the configuration made, in every state.        *)
(***************************************************************************)
Configured == dir \in {Configure(config) : config \in Configs}

LEMMA StaysConfigured == Spec => []Configured
  <1>1. Init => Configured
    BY DEF Init, Configured
  <1>2. Configured /\ [Next]_vars => Configured'
    <2> SUFFICES ASSUME Configured, [Next]_vars PROVE Configured'
      OBVIOUS
    <2>1. dir' = dir
      <3>1. CASE UNCHANGED vars
        BY <3>1 DEF vars
      <3>2. CASE Next
        <4>1. CASE Setup \/ Establish \/ CallProceeding \/ Connect \/ ConnectAck \/ Disconnect \/ Release \/ ReleaseComplete
          BY <4>1, Zenon DEF Setup, Establish, CallProceeding, Connect, ConnectAck, Disconnect, Release, ReleaseComplete, Arrives
        <4>2. CASE Status \/ Restart \/ RestartAck \/ OperatorRestart \/ OperatorClear
          BY <4>2, Zenon DEF Status, Restart, RestartAck, OperatorRestart, OperatorClear, Arrives
        <4>3. CASE TimerRunsOut
          BY <4>3, Zenon DEF TimerRunsOut, Expire, ExpireRestart
        <4>4. CASE \E i \in DOMAIN Spvcs : Poll(i)
          BY <4>4, Zenon DEF Poll, Arrives
        <4> QED  BY <3>2, <4>1, <4>2, <4>3, <4>4, Zenon DEF Next
      <3> QED  BY <3>1, <3>2
    <2> QED  BY <2>1 DEF Configured
  <1>3. QED
    BY <1>1, <1>2, PTL DEF Spec

-----------------------------------------------------------------------------
LEMMA RoutePortIsBest ==
    ASSUME NEW S, Comparable(S), NEW routes \in Seq(S), NEW usable \in SUBSET Range(routes), NEW number
    PROVE  LET at == RoutePort(ScanRoutes(routes, usable, number))
               best == BestPorts(usable, number)
           IN \/ at \in best \cap Ports
              \/ at = NoPort /\ (best = {} \/ best \ Ports # {})
  <1> DEFINE scan == ScanRoutes(routes, usable, number)
             matching == Matching(routes, usable, number)
             at == RoutePort(scan)
             best == BestPorts(usable, number)
  <1>1. Best(scan, matching)
    BY ScanFindsBest
  <1>2. matching = {r \in usable : IsPrefix(r.prefix, number)}
    BY DEF Matching
  <1>3. best = {r.port : r \in {m \in matching : \A o \in matching : ~BetterRoute(m, o)}}
    BY <1>2, Zenon DEF BestPorts
  <1>4. NoPort \notin Ports
    BY DirectoryAssumption
  <1> HIDE DEF scan, matching, best
  <1>5. CASE scan = <<>> /\ matching = {}
    <2>1. at = NoPort
      BY <1>5, Zenon DEF RoutePort
    <2>2. best = {}
      BY <1>3, <1>5
    <2> QED  BY <2>1, <2>2 DEF scan, best
  <1>6. ASSUME NEW r \in matching, scan = <<r>>, \A o \in matching : ~BetterRoute(r, o)
        PROVE  \/ at \in best \cap Ports
               \/ at = NoPort /\ best \ Ports # {}
    <2>1. r.port \in best
      BY <1>3, <1>6
    <2>2. scan # <<>> /\ scan[1] = r
      BY <1>6
    <2>3. at = IF r.port \in Ports THEN r.port ELSE NoPort
      BY <2>2, Zenon DEF RoutePort
    <2> QED  BY <2>1, <2>3
  <1>7. QED
    BY <1>1, <1>5, <1>6, Zenon DEF Best, scan, best

\* Which port a call takes: every call that dials no subscriber of the switch,
\* or selects a transit network, takes a best route.  The scans of
\* svc_route_lookup_ex are right for every table, with ties and in any order.
THEOREM RoutesBest == Spec => []RouteIsBest
  <1>1. Configured => RouteIsBest
    <2> SUFFICES ASSUME Configured PROVE RouteIsBest
      OBVIOUS
    <2>1. PICK A, B : Comparable(B) /\ dir \in Directories(A, B)
      BY ConfigureType DEF Configured
    <2>2. dir.routes \in Seq(B)
      BY <2>1 DEF Directories
    <2> SUFFICES ASSUME NEW m \in Setups, m.called # NoNumber,
                        m.tns # NoNet \/ FindSubscriber(dir, Expand(m.called)) = NoPort
                 PROVE  LET at == RouteLookup(dir, m.called, m.tns, m.tni)
                            all == Range(dir.routes)
                            viaTns == BestPorts({r \in all : r.net = m.tns /\ m.tns # NoNet}, Expand(m.called))
                            noLoop == BestPorts({r \in all : r.net = NoNet \/ r.net \notin m.tni}, Expand(m.called))
                        IN \/ at \in viaTns \cap Ports
                           \/ at \in noLoop \cap Ports
                           \/ at = NoPort /\ (noLoop = {} \/ noLoop \ Ports # {})
      BY Zenon DEF RouteIsBest
    <2> DEFINE number == Expand(m.called)
               via == {r \in Range(dir.routes) : r.net = m.tns /\ m.tns # NoNet}
               free == {r \in Range(dir.routes) : r.net = NoNet \/ r.net \notin m.tni}
               atVia == RoutePort(ScanRoutes(dir.routes, via, number))
               atFree == RoutePort(ScanRoutes(dir.routes, free, number))
               at == RouteLookup(dir, m.called, m.tns, m.tni)
    <2>3. via \in SUBSET Range(dir.routes) /\ free \in SUBSET Range(dir.routes)
      OBVIOUS
    <2>4. {r \in Range(dir.routes) : r.net # NoNet /\ r.net = m.tns} = via
      OBVIOUS
    <2>5. at = atFree \/ (at = atVia /\ atVia # NoPort)
      <3>1. CASE m.tns = NoNet
        BY <3>1, Zenon DEF RouteLookup
      <3>2. CASE m.tns # NoNet
        <4>1. at = IF RoutePort(ScanRoutes(dir.routes, {r \in Range(dir.routes) : r.net # NoNet /\ r.net = m.tns}, number)) # NoPort
                   THEN RoutePort(ScanRoutes(dir.routes, {r \in Range(dir.routes) : r.net # NoNet /\ r.net = m.tns}, number))
                   ELSE atFree
          BY <3>2, Zenon DEF RouteLookup
        <4> QED  BY <2>4, <4>1, Zenon
      <3> QED  BY <3>1, <3>2
    <2>6. \/ atVia \in BestPorts(via, number) \cap Ports
          \/ atVia = NoPort
      <3> HIDE DEF via, number
      <3> QED  BY <2>1, <2>2, <2>3, RoutePortIsBest
    <2>7. \/ atFree \in BestPorts(free, number) \cap Ports
          \/ atFree = NoPort /\ (BestPorts(free, number) = {} \/ BestPorts(free, number) \ Ports # {})
      <3> HIDE DEF free, number
      <3> QED  BY <2>1, <2>2, <2>3, RoutePortIsBest
    <2> QED  BY <2>5, <2>6, <2>7, Zenon
  <1>2. QED
    BY <1>1, StaysConfigured, PTL

\* A call to a number that has a subscriber is sent to that subscriber's port
\* after svc_get_primary_number has replaced the number: duplicates are
\* refused, so the port's last number leads to no other port.
THEOREM DialledIsReached == Spec => []DialledReaches
  <1>1. Configured => DialledReaches
    <2> SUFFICES ASSUME Configured, NEW m \in Setups,
                        FindSubscriber(dir, Expand(m.called)) # NoPort
                 PROVE  RouteLookup(dir, PrimaryNumber(dir, m.called), NoNet, {})
                            = FindSubscriber(dir, Expand(m.called))
      BY Zenon DEF DialledReaches
    <2> DEFINE p == FindSubscriber(dir, Expand(m.called))
               dialled == PrimaryNumber(dir, m.called)
    <2>1. PICK A, B : dir \in Directories(A, B)
      BY ConfigureType DEF Configured
    <2>2. /\ dir.subs \in Seq(A) /\ Len(dir.subs) \in Nat
          /\ \A q \in Ports : dir.primary[q] \in Seq(Digits) /\ (dir.primary[q] = NoNumber \/ PrimaryFirst(dir, q))
      BY <2>1 DEF Directories
    <2>3. p \in Ports
      BY <2>2, FindsPort
    <2>4. \A number : number # NoNumber /\ FindSubscriber(dir, Expand(number)) = p
                          => RouteLookup(dir, number, NoNet, {}) = p
      BY Zenon DEF RouteLookup
    <2>5. CASE dir.primary[p] = NoNumber
      <3>1. dialled = m.called
        BY <2>5, Zenon DEF PrimaryNumber
      <3>2. m.called # NoNumber
        <4>1. Expand(NoNumber) = NoNumber
          BY ExpandIsFold, Digit!FoldEmpty DEF NoNumber
        <4>2. FindSubscriber(dir, NoNumber) = NoPort
          BY Zenon DEF FindSubscriber
        <4> QED  BY <4>1, <4>2
      <3> QED  BY <2>4, <3>1, <3>2
    <2>6. CASE dir.primary[p] # NoNumber
      <3> DEFINE number == dir.primary[p]
      <3>1. dialled = number
        BY <2>6, Zenon DEF PrimaryNumber
      <3>2. Expand(number) = number
        BY <2>2, <2>3, ExpandDigits
      <3>3. PICK i \in 1 .. Len(dir.subs) :
                /\ dir.subs[i].number = number /\ dir.subs[i].port = p
                /\ \A j \in 1 .. i - 1 : dir.subs[j].number # number
        BY <2>2, <2>3, <2>6 DEF PrimaryFirst
      <3>4. FindSubscriber(dir, number) = p
        <4> HIDE DEF p, number
        <4>1. number # NoNumber
          BY <2>6 DEF number
        <4> QED  BY <2>2, <2>3, <3>2, <3>3, <4>1, FindsFirst
      <3> QED  BY <2>4, <2>6, <3>1, <3>2, <3>4
    <2> QED  BY <2>5, <2>6
  <1>2. QED
    BY <1>1, StaysConfigured, PTL

-----------------------------------------------------------------------------
(***************************************************************************)
(* The allocator of DLCIs: what it does to its list of free ones, for      *)
(* every range and every list that is sorted and joined.                   *)
(***************************************************************************)
JoinStep(env, done, r) ==
    IF done # <<>> /\ Last(done).end + 1 >= r.start
    THEN Append(Front(done), [start |-> Last(done).start, end |-> IF r.end > Last(done).end THEN r.end ELSE Last(done).end])
    ELSE Append(done, r)

Join == INSTANCE FoldProofs WITH Step <- JoinStep

Interval == [start : Nat, end : Nat]
DlcisOf(r) == r.start .. r.end

\* Sorted, and no two intervals share a DLCI.
Ascending(q) ==
    /\ \A i \in 1 .. Len(q) : q[i].start <= q[i].end
    /\ \A i \in 1 .. Len(q) - 1 : q[i].end < q[i + 1].start

LEMMA JoinedIsFold == \A q : Joined(q) = Join!Fold(0, <<>>, q)
  BY Zenon DEF Joined, JoinStep, FoldLeft, MapThenFoldSet, Max,
           Join!Fold, Join!FoldLeft, Join!MapThenFoldSet, Join!Max

LEMMA LastOfAppend ==
    ASSUME NEW S, NEW q \in Seq(S), NEW r \in S
    PROVE  Append(q, r) # <<>> /\ Last(Append(q, r)) = r
  <1>1. Len(Append(q, r)) = Len(q) + 1 /\ Len(q) \in Nat /\ Append(q, r)[Len(q) + 1] = r
    OBVIOUS
  <1>2. QED
    BY <1>1 DEF Last

LEMMA FrontAndLast ==
    ASSUME NEW S, NEW q \in Seq(S), q # <<>>
    PROVE  /\ Front(q) \in Seq(S) /\ Len(Front(q)) = Len(q) - 1 /\ Last(q) \in S
           /\ \A i \in 1 .. Len(q) - 1 : Front(q)[i] = q[i]
           /\ q = Append(Front(q), Last(q))
  <1> DEFINE n == Len(q)
  <1>1. n \in Nat /\ n - 1 \in Nat /\ n \in 1 .. n
    OBVIOUS
  <1>2. Front(q) = [i \in 1 .. n - 1 |-> q[i]]
    BY <1>1 DEF Front
  <1>3. Front(q) \in Seq(S) /\ Len(Front(q)) = n - 1 /\ \A i \in 1 .. n - 1 : Front(q)[i] = q[i]
    BY <1>1, <1>2
  <1>4. Last(q) = q[n] /\ q[n] \in S
    BY <1>1 DEF Last
  <1> DEFINE front == Front(q)
             last == q[n]
             aq == Append(front, last)
  <1>5. aq = q
    <2>1. front \in Seq(S) /\ last \in S /\ Len(front) = n - 1 /\ \A i \in 1 .. n - 1 : front[i] = q[i]
      BY <1>3, <1>4
    <2> HIDE DEF front
    <2>2. aq \in Seq(S) /\ Len(aq) = n /\ aq[n] = last /\ \A i \in 1 .. n - 1 : aq[i] = q[i]
      BY <1>1, <2>1
    <2> HIDE DEF aq
    <2>3. \A i \in 1 .. n : aq[i] = q[i]
      BY <1>1, <2>2
    <2> QED  BY <2>2, <2>3, SeqEqual
  <1>6. QED
    BY <1>3, <1>4, <1>5

\* The ends of the intervals of a list are naturals.
LEMMA Ends ==
    ASSUME NEW q \in Seq(Interval)
    PROVE  /\ Len(q) \in Nat
           /\ \A k \in 1 .. Len(q) : q[k] \in Interval /\ q[k].start \in Nat /\ q[k].end \in Nat
  <1>1. Len(q) \in Nat /\ \A k \in 1 .. Len(q) : q[k] \in Interval
    OBVIOUS
  <1>2. \A r \in Interval : r.start \in Nat /\ r.end \in Nat
    BY DEF Interval
  <1>3. QED
    BY <1>1, <1>2

LEMMA FreeOfEmpty == FreeDlcis(<<>>) = {}
  BY DEF FreeDlcis, Range

LEMMA FreeIs ==
    ASSUME NEW S, NEW q \in Seq(S), NEW x
    PROVE  x \in FreeDlcis(q) <=> \E i \in 1 .. Len(q) : x \in DlcisOf(q[i])
  <1>1. DOMAIN q = 1 .. Len(q)
    OBVIOUS
  <1>2. QED
    BY <1>1, Zenon DEF FreeDlcis, Range, DlcisOf

LEMMA FreeOfAppend ==
    ASSUME NEW S, NEW q \in Seq(S), NEW r \in S
    PROVE  FreeDlcis(Append(q, r)) = FreeDlcis(q) \cup DlcisOf(r)
  <1> DEFINE n == Len(q)
             aq == Append(q, r)
  <1>1. aq \in Seq(S) /\ Len(aq) = n + 1 /\ n \in Nat /\ aq[n + 1] = r /\ \A i \in 1 .. n : aq[i] = q[i]
    OBVIOUS
  <1>2. \A i : i \in 1 .. n + 1 <=> i \in 1 .. n \/ i = n + 1
    BY <1>1
  <1> HIDE DEF n, aq
  <1>3. \A x : x \in FreeDlcis(aq) <=> \E i \in 1 .. n + 1 : x \in DlcisOf(aq[i])
    BY <1>1, FreeIs
  <1>4. \A x : x \in FreeDlcis(q) <=> \E i \in 1 .. n : x \in DlcisOf(q[i])
    BY FreeIs DEF n
  <1>5. \A x : x \in FreeDlcis(aq) <=> x \in FreeDlcis(q) \/ x \in DlcisOf(r)
    BY <1>1, <1>2, <1>3, <1>4, Zenon
  <1>6. QED
    BY <1>5 DEF aq

\* Joining an ascending list keeps its DLCIs and leaves a gap between two
\* intervals.
JoinedWell(q, done) ==
    /\ done \in Seq(Interval) /\ WellFormedPool(done) /\ FreeDlcis(done) = FreeDlcis(q)
    /\ q # <<>> => done # <<>> /\ Last(done).end = Last(q).end
    /\ q = <<>> => done = <<>>

LEMMA JoinOne ==
    ASSUME NEW q \in Seq(Interval), NEW done, JoinedWell(q, done), NEW r \in Interval,
           r.start <= r.end, q # <<>> => Last(q).end < r.start
    PROVE  JoinedWell(Append(q, r), JoinStep(0, done, r))
  <1> DEFINE aq == Append(q, r)
             n == Len(done)
  <1>1. aq # <<>> /\ Last(aq) = r /\ FreeDlcis(aq) = FreeDlcis(q) \cup DlcisOf(r)
    <2>1. Last(aq) = r /\ aq # <<>>
      BY LastOfAppend
    <2> QED  BY <2>1, FreeOfAppend
  <1>2. done \in Seq(Interval) /\ n \in Nat /\ WellFormedPool(done) /\ FreeDlcis(done) = FreeDlcis(q)
    BY DEF JoinedWell
  <1>3. CASE done = <<>>
    <2>1. JoinStep(0, done, r) = <<r>>
      BY <1>3 DEF JoinStep
    <2>2. WellFormedPool(<<r>>) /\ Last(<<r>>).end = r.end /\ <<r>> \in Seq(Interval)
      BY DEF WellFormedPool, Last
    <2>3. FreeDlcis(<<r>>) = FreeDlcis(done) \cup DlcisOf(r)
      <3>1. <<r>> = Append(done, r)
        BY <1>3
      <3> QED  BY <1>2, <3>1, FreeOfAppend
    <2>4. FreeDlcis(<<r>>) = FreeDlcis(aq) /\ <<r>> # <<>>
      BY <1>1, <1>2, <2>3
    <2> HIDE DEF aq
    <2>5. JoinedWell(aq, <<r>>)
      BY <1>1, <2>2, <2>4, Zenon DEF JoinedWell
    <2> QED  BY <2>1, <2>5 DEF aq
  <1>4. CASE done # <<>>
    <2> DEFINE last == done[n]
               front == Front(done)
    <2>1. n > 0 /\ last \in Interval /\ Last(done) = last
      BY <1>2, <1>4 DEF Last
    <2>2. last.end < r.start
      <3>1. q # <<>>
        BY <1>4 DEF JoinedWell
      <3> QED  BY <2>1, <3>1 DEF JoinedWell
    <2>3. /\ front \in Seq(Interval) /\ Len(front) = n - 1 /\ \A i \in 1 .. n - 1 : front[i] = done[i]
          /\ done = Append(front, last)
      <3>1. /\ Front(done) \in Seq(Interval) /\ Len(Front(done)) = Len(done) - 1
            /\ \A i \in 1 .. Len(done) - 1 : Front(done)[i] = done[i]
            /\ done = Append(Front(done), Last(done))
        BY <1>2, <1>4, FrontAndLast
      <3> QED  BY <2>1, <3>1
    <2>4. FreeDlcis(done) = FreeDlcis(front) \cup DlcisOf(last)
      <3> HIDE DEF front, last
      <3>1. FreeDlcis(Append(front, last)) = FreeDlcis(front) \cup DlcisOf(last)
        BY <2>1, <2>3, FreeOfAppend
      <3> QED  BY <2>3, <3>1
    <2>n. last.start \in Nat /\ last.end \in Nat /\ r.start \in Nat /\ r.end \in Nat
      BY <2>1 DEF Interval
    <2>w. /\ \A i \in 1 .. n : done[i].start <= done[i].end
          /\ \A i \in 1 .. n - 1 : done[i].end + 1 < done[i + 1].start
      BY <1>2 DEF WellFormedPool
    <2>5. CASE last.end + 1 >= r.start
      <3> DEFINE m == [start |-> last.start, end |-> r.end]
                 res == Append(front, m)
      <3>1. JoinStep(0, done, r) = res
        <4>1. r.end > last.end
          BY <2>2, <2>n
        <4> QED  BY <1>4, <2>1, <2>5, <4>1 DEF JoinStep
      <3>2. m \in Interval /\ m.start = last.start /\ m.end = r.end
        BY <2>n DEF Interval
      <3>3. DlcisOf(m) = DlcisOf(last) \cup DlcisOf(r)
        BY <2>1, <2>2, <2>5, <2>w DEF DlcisOf, Interval
      <3> HIDE DEF m, last, front
      <3>4. FreeDlcis(res) = FreeDlcis(front) \cup DlcisOf(m)
        BY <2>3, <3>2, FreeOfAppend
      <3>5. res \in Seq(Interval) /\ Len(res) = n /\ res[n] = m /\ \A i \in 1 .. n - 1 : res[i] = done[i]
        BY <2>1, <2>3, <3>2
      <3>6. Last(res) = m /\ res # <<>>
        BY <3>5, <2>1 DEF Last
      <3> HIDE DEF res
      <3>7. WellFormedPool(res)
        <4>1. \A i \in 1 .. n : res[i].start <= res[i].end
          <5>1. m.start <= m.end
            BY <3>2, <2>1, <2>2, <2>w DEF last, Interval
          <5> QED  BY <2>w, <3>5, <5>1
        <4>2. \A i \in 1 .. n - 1 : res[i].end + 1 < res[i + 1].start
          <5> SUFFICES ASSUME NEW i \in 1 .. n - 1 PROVE res[i].end + 1 < res[i + 1].start
            OBVIOUS
          <5>1. res[i] = done[i] /\ done[i].end + 1 < done[i + 1].start
            BY <2>w, <3>5
          <5>2. res[i + 1].start = done[i + 1].start
            BY <1>2, <3>5, <3>2 DEF last
          <5> QED  BY <5>1, <5>2
        <4> QED  BY <1>2, <3>5, <4>1, <4>2 DEF WellFormedPool
      <3> HIDE DEF aq
      <3>8. FreeDlcis(res) = FreeDlcis(aq)
        BY <1>1, <1>2, <2>4, <3>3, <3>4
      <3> QED  BY <1>1, <3>1, <3>2, <3>5, <3>6, <3>7, <3>8 DEF JoinedWell, aq
    <2>6. CASE ~(last.end + 1 >= r.start)
      <3> DEFINE res == Append(done, r)
      <3>1. JoinStep(0, done, r) = res
        BY <2>1, <2>6 DEF JoinStep
      <3>2. FreeDlcis(res) = FreeDlcis(done) \cup DlcisOf(r)
        BY <1>2, FreeOfAppend
      <3>3. res \in Seq(Interval) /\ Len(res) = n + 1 /\ res[n + 1] = r /\ \A i \in 1 .. n : res[i] = done[i]
        BY <1>2
      <3> HIDE DEF res
      <3>4. WellFormedPool(res)
        <4>1. \A i \in 1 .. n + 1 : res[i].start <= res[i].end
          BY <1>2, <2>w, <3>3
        <4>2. \A i \in 1 .. n : res[i].end + 1 < res[i + 1].start
          <5> SUFFICES ASSUME NEW i \in 1 .. n PROVE res[i].end + 1 < res[i + 1].start
            OBVIOUS
          <5>1. CASE i = n
            BY <2>1, <2>6, <3>3, <5>1 DEF Interval
          <5>2. CASE i # n
            BY <1>2, <2>w, <3>3, <5>2
          <5> QED  BY <5>1, <5>2
        <4> QED  BY <1>2, <3>3, <4>1, <4>2 DEF WellFormedPool
      <3>5. Last(res) = r /\ res # <<>>
        BY <1>2, <3>3 DEF Last
      <3> HIDE DEF aq
      <3> QED  BY <1>1, <1>2, <3>1, <3>2, <3>3, <3>4, <3>5 DEF JoinedWell, aq
    <2> QED  BY <2>5, <2>6
  <1>5. QED
    BY <1>3, <1>4

LEMMA JoinedIs ==
    ASSUME NEW q \in Seq(Interval), Ascending(q)
    PROVE  /\ Joined(q) \in Seq(Interval) /\ WellFormedPool(Joined(q))
           /\ FreeDlcis(Joined(q)) = FreeDlcis(q)
  <1> DEFINE T == {s \in Seq(Interval) : Ascending(s) => JoinedWell(s, Joined(s))}
  <1>1. <<>> \in T
    <2>1. Joined(<<>>) = <<>>
      BY JoinedIsFold, Join!FoldEmpty
    <2>2. <<>> \in Seq(Interval) /\ WellFormedPool(<<>>)
      BY DEF WellFormedPool
    <2> QED  BY <2>1, <2>2 DEF JoinedWell
  <1>2. ASSUME NEW rest \in Seq(Interval), NEW r \in Interval, rest \in T PROVE Append(rest, r) \in T
    <2> SUFFICES ASSUME Ascending(Append(rest, r)) PROVE JoinedWell(Append(rest, r), Joined(Append(rest, r)))
      OBVIOUS
    <2> DEFINE aq == Append(rest, r)
               n == Len(rest)
    <2>1. n \in Nat /\ Len(aq) = n + 1 /\ aq[n + 1] = r /\ \A i \in 1 .. n : aq[i] = rest[i]
      OBVIOUS
    <2>2. /\ \A i \in 1 .. n + 1 : aq[i].start <= aq[i].end
          /\ \A i \in 1 .. n : aq[i].end < aq[i + 1].start
      BY <2>1 DEF Ascending
    <2>3. Ascending(rest)
      BY <2>1, <2>2 DEF Ascending
    <2>4. r.start <= r.end /\ (rest # <<>> => Last(rest).end < r.start)
      <3>1. rest # <<>> => n \in 1 .. n
        OBVIOUS
      <3> QED  BY <2>1, <2>2, <3>1 DEF Last
    <2>5. JoinedWell(rest, Joined(rest))
      BY <1>2, <2>3
    <2>6. Joined(Append(rest, r)) = JoinStep(0, Joined(rest), r)
      BY JoinedIsFold, Join!FoldAppend
    <2> QED  BY <2>4, <2>5, <2>6, JoinOne
  <1>3. Seq(Interval) \subseteq T
    <2> HIDE DEF T
    <2> QED  BY <1>1, <1>2, Join!SequenceInduction
  <1>4. QED
    BY <1>3 DEF JoinedWell

-----------------------------------------------------------------------------
\* Every earlier interval ends before a later one begins, with a gap.
LEMMA Apart ==
    ASSUME NEW pool \in Seq(Interval), WellFormedPool(pool), NEW j \in 1 .. Len(pool), NEW i \in 1 .. j - 1
    PROVE  pool[i].end + 1 < pool[j].start
  <1> DEFINE T == {k \in Nat : k \in 1 .. Len(pool) => \A l \in 1 .. k - 1 : pool[l].end + 1 < pool[k].start}
  <1>0. Len(pool) \in Nat /\ \A k \in 1 .. Len(pool) : pool[k].start \in Nat /\ pool[k].end \in Nat
    BY Ends
  <1>1. 0 \in T
    OBVIOUS
  <1>2. ASSUME NEW k \in Nat, k \in T PROVE k + 1 \in T
    <2> SUFFICES ASSUME k + 1 \in 1 .. Len(pool), NEW l \in 1 .. k PROVE pool[l].end + 1 < pool[k + 1].start
      OBVIOUS
    <2>1. k \in 1 .. Len(pool) /\ pool[k].start <= pool[k].end /\ pool[k].end + 1 < pool[k + 1].start
      BY <1>0 DEF WellFormedPool
    <2>2. CASE l = k
      BY <2>1, <2>2
    <2>3. CASE l # k
      <3>1. pool[l].end + 1 < pool[k].start
        BY <1>2, <2>1, <2>3
      <3> QED  BY <1>0, <2>1, <3>1
    <2> QED  BY <2>2, <2>3
  <1>3. Nat \subseteq T
    <2> HIDE DEF T
    <2> QED  BY <1>1, <1>2, Join!SetInduction
  <1>4. QED
    BY <1>3

\* An interval takes at least two numbers of the range, its first and the gap
\* that follows: how long a list can get.
LEMMA FewRanges ==
    ASSUME NEW pool \in Seq(Interval), WellFormedPool(pool), FreeDlcis(pool) \subseteq OwnRange
    PROVE  2 * Len(pool) <= (RangeHigh - RangeLow) + 2
  <1> DEFINE n == Len(pool)
             T == {k \in Nat : k \in 1 .. n => RangeLow + 2 * (k - 1) <= pool[k].start}
  <1>0. /\ n \in Nat /\ \A k \in 1 .. n : pool[k].start \in Nat /\ pool[k].end \in Nat
        /\ RangeLow \in Nat /\ RangeHigh \in Nat /\ RangeLow <= RangeHigh
    BY Ends, DlciPoolAssumption
  <1>1. \A k \in 1 .. n : pool[k].start <= pool[k].end /\ pool[k].start \in OwnRange /\ pool[k].end \in OwnRange
    <2> SUFFICES ASSUME NEW k \in 1 .. n
                 PROVE  pool[k].start <= pool[k].end /\ pool[k].start \in OwnRange /\ pool[k].end \in OwnRange
      OBVIOUS
    <2>1. pool[k].start <= pool[k].end
      BY DEF WellFormedPool
    <2>2. pool[k].start \in DlcisOf(pool[k]) /\ pool[k].end \in DlcisOf(pool[k])
      BY <1>0, <2>1 DEF DlcisOf
    <2>3. pool[k].start \in FreeDlcis(pool) /\ pool[k].end \in FreeDlcis(pool)
      BY <2>2, FreeIs
    <2> QED  BY <2>1, <2>3
  <1>2. 0 \in T
    OBVIOUS
  <1>3. ASSUME NEW k \in Nat, k \in T PROVE k + 1 \in T
    <2> SUFFICES ASSUME k + 1 \in 1 .. n PROVE RangeLow + 2 * ((k + 1) - 1) <= pool[k + 1].start
      OBVIOUS
    <2>1. CASE k = 0
      BY <1>0, <1>1, <2>1 DEF OwnRange
    <2>2. CASE k # 0
      <3>1. k \in 1 .. n /\ RangeLow + 2 * (k - 1) <= pool[k].start
        BY <1>3, <2>2
      <3>2. pool[k].end + 1 < pool[k + 1].start /\ pool[k].start <= pool[k].end
        BY <1>0, <3>1 DEF WellFormedPool
      <3>3. pool[k].start \in Nat /\ pool[k].end \in Nat /\ pool[k + 1].start \in Nat
        BY <1>0, <3>1
      <3> DEFINE a == pool[k].start
                 b == pool[k].end
                 c == pool[k + 1].start
      <3>4. /\ a \in Nat /\ b \in Nat /\ c \in Nat /\ k \in Nat /\ RangeLow \in Nat
            /\ b + 1 < c /\ a <= b /\ RangeLow + 2 * (k - 1) <= a
        BY <1>0, <3>1, <3>2, <3>3
      <3> HIDE DEF a, b, c
      <3>5. RangeLow + 2 * ((k + 1) - 1) <= c
        BY <3>4
      <3> QED  BY <3>5 DEF c
    <2> QED  BY <2>1, <2>2
  <1>4. Nat \subseteq T
    <2> HIDE DEF T
    <2> QED  BY <1>2, <1>3, Join!SetInduction
  <1>5. CASE n = 0
    BY <1>0, <1>5
  <1>6. CASE n # 0
    <2>1. n \in 1 .. n /\ RangeLow + 2 * (n - 1) <= pool[n].start
      BY <1>0, <1>4, <1>6
    <2>2. pool[n].start <= RangeHigh
      BY <1>1, <2>1, <1>0 DEF OwnRange
    <2> QED  BY <1>0, <2>1, <2>2
  <1>7. QED
    BY <1>5, <1>6

\* A gap between two numbers stays when they move apart.
LEMMA Squeezed ==
    ASSUME NEW a \in Nat, NEW b \in Nat, NEW c \in Nat, NEW d \in Nat,
           a + 1 < b, c <= a, b <= d
    PROVE  c + 1 < d
  OBVIOUS

-----------------------------------------------------------------------------
\* A DLCI that is handed out was free, and is the only one taken away.
LEMMA AllocWorks ==
    ASSUME NEW pool \in Seq(Interval), WellFormedPool(pool)
    PROVE  LET got == DlciAlloc(pool)
           IN /\ got.pool \in Seq(Interval) /\ WellFormedPool(got.pool)
              /\ pool = <<>> => got.dlci = 0 /\ got.pool = pool
              /\ pool # <<>> => got.dlci \in FreeDlcis(pool) /\ FreeDlcis(got.pool) = FreeDlcis(pool) \ {got.dlci}
  <1> DEFINE n == Len(pool)
             k == IF Descending THEN n ELSE 1
             r == pool[k]
             rest == IF r.start = r.end THEN RemoveAt(pool, k)
                     ELSE IF Descending THEN [pool EXCEPT ![k].end = @ - 1] ELSE [pool EXCEPT ![k].start = @ + 1]
             dlci == IF Descending THEN r.end ELSE r.start
  <1>1. DlciAlloc(pool) = IF pool = <<>> THEN [dlci |-> 0, pool |-> pool] ELSE [dlci |-> dlci, pool |-> rest]
    BY Zenon DEF DlciAlloc
  <1>2. CASE pool = <<>>
    BY <1>1, <1>2
  <1>3. CASE pool # <<>>
    <2>1. n \in Nat /\ n > 0 /\ k \in 1 .. n /\ (k = 1 \/ k = n) /\ (Descending => k = n) /\ (~Descending => k = 1)
      BY <1>3
    <2>2. \A i \in 1 .. n : pool[i] \in Interval /\ pool[i].start \in Nat /\ pool[i].end \in Nat /\ pool[i].start <= pool[i].end
      BY Ends DEF WellFormedPool
    <2>3. \A i \in 1 .. n - 1 : pool[i].end + 1 < pool[i + 1].start
      BY DEF WellFormedPool
    <2>4. dlci \in DlcisOf(r)
      BY <2>1, <2>2 DEF DlcisOf
    <2>5. \A i \in 1 .. n : i # k => dlci \notin DlcisOf(pool[i])
      <3> SUFFICES ASSUME NEW i \in 1 .. n, i # k PROVE dlci \notin DlcisOf(pool[i])
        OBVIOUS
      <3>1. dlci \in Nat /\ r.start <= dlci /\ dlci <= r.end
        BY <2>1, <2>2
      <3>2. CASE i < k
        <4>1. pool[i].end + 1 < r.start
          BY <2>1, <3>2, Apart
        <4> QED  BY <2>1, <2>2, <3>1, <4>1 DEF DlcisOf
      <3>3. CASE k < i
        <4>1. r.end + 1 < pool[i].start
          BY <2>1, <3>3, Apart
        <4> QED  BY <2>1, <2>2, <3>1, <4>1 DEF DlcisOf
      <3> QED  BY <2>1, <3>2, <3>3
    <2>6. \A x : x \in FreeDlcis(pool) <=> \E i \in 1 .. n : x \in DlcisOf(pool[i])
      BY FreeIs
    <2>7. dlci \in FreeDlcis(pool)
      BY <2>1, <2>4, <2>6
    <2>8. /\ rest \in Seq(Interval) /\ WellFormedPool(rest)
          /\ FreeDlcis(rest) = FreeDlcis(pool) \ {dlci}
      <3>1. CASE r.start = r.end
        <4> DEFINE off == IF k = 1 THEN 1 ELSE 0
        <4>1. rest = RemoveAt(pool, k)
          BY <3>1
        <4>2. rest = [i \in 1 .. n - 1 |-> pool[i + off]]
          <5>1. RemoveAt(pool, 1) = [i \in 1 .. n - 1 |-> pool[i + 1]]
            BY <2>1 DEF RemoveAt
          <5>2. RemoveAt(pool, n) = [i \in 1 .. n - 1 |-> pool[i + 0]]
            BY <2>1 DEF RemoveAt
          <5>3. CASE k = 1
            <6>1. off = 1
              BY <5>3
            <6> HIDE DEF off, rest
            <6> QED  BY <4>1, <5>1, <5>3, <6>1
          <5>4. CASE k # 1
            <6>1. off = 0 /\ k = n
              BY <5>4, <2>1
            <6> HIDE DEF off, rest, k
            <6> QED  BY <4>1, <5>2, <6>1
          <5> QED  BY <5>3, <5>4
        <4>3. off \in {0, 1} /\ (off = 1 => k = 1) /\ (off = 0 => k = n)
          BY <2>1
        <4>4. \A x : x \in DlcisOf(r) <=> x = dlci
          BY <2>1, <2>2, <3>1 DEF DlcisOf
        <4> HIDE DEF rest, off, r, dlci, k
        <4>5. rest \in Seq(Interval) /\ Len(rest) = n - 1 /\ \A i \in 1 .. n - 1 : rest[i] = pool[i + off]
          BY <2>1, <2>2, <4>2, <4>3
        <4>6. WellFormedPool(rest)
          <5>1. \A i \in 1 .. n - 1 : rest[i].start <= rest[i].end
            BY <2>1, <2>2, <4>3, <4>5
          <5>2. \A i \in 1 .. (n - 1) - 1 : rest[i].end + 1 < rest[i + 1].start
            <6> SUFFICES ASSUME NEW i \in 1 .. (n - 1) - 1 PROVE rest[i].end + 1 < rest[i + 1].start
              OBVIOUS
            <6>1. rest[i] = pool[i + off] /\ rest[i + 1] = pool[(i + off) + 1] /\ i + off \in 1 .. n - 1
              BY <2>1, <4>3, <4>5
            <6> QED  BY <2>3, <6>1
          <5> QED  BY <4>5, <5>1, <5>2 DEF WellFormedPool
        <4>7. \A x : x \in FreeDlcis(rest) <=> \E i \in 1 .. n - 1 : x \in DlcisOf(pool[i + off])
          <5>1. \A x : x \in FreeDlcis(rest) <=> \E i \in 1 .. n - 1 : x \in DlcisOf(rest[i])
            BY <4>5, FreeIs
          <5> QED  BY <4>5, <5>1
        <4>8. \A j : (\E i \in 1 .. n - 1 : j = i + off) <=> j \in 1 .. n /\ j # k
          <5>1. CASE off = 1
            <6>1. ASSUME NEW j \in 1 .. n, j # k PROVE j - 1 \in 1 .. n - 1 /\ j = (j - 1) + off
              BY <2>1, <4>3, <5>1, <6>1
            <6>2. ASSUME NEW i \in 1 .. n - 1 PROVE i + off \in 1 .. n /\ i + off # k
              BY <2>1, <4>3, <5>1
            <6> QED  BY <6>1, <6>2
          <5>2. CASE off = 0
            <6>1. ASSUME NEW j \in 1 .. n, j # k PROVE j \in 1 .. n - 1 /\ j = j + off
              BY <2>1, <4>3, <5>2, <6>1
            <6>2. ASSUME NEW i \in 1 .. n - 1 PROVE i + off \in 1 .. n /\ i + off # k
              BY <2>1, <4>3, <5>2
            <6> QED  BY <6>1, <6>2
          <5> QED  BY <4>3, <5>1, <5>2
        <4>9. \A x : x \in FreeDlcis(rest) <=> \E j \in 1 .. n : j # k /\ x \in DlcisOf(pool[j])
          BY <4>7, <4>8
        <4>10. \A x : x \in FreeDlcis(rest) <=> x \in FreeDlcis(pool) /\ x # dlci
          BY <2>1, <2>5, <2>6, <4>4, <4>9 DEF r
        <4> QED  BY <4>5, <4>6, <4>10
      <3>2. CASE r.start # r.end
        <4> DEFINE m == IF Descending THEN [start |-> r.start, end |-> r.end - 1] ELSE [start |-> r.start + 1, end |-> r.end]
        <4>1. rest = [pool EXCEPT ![k] = m]
          <5>1. r = [start |-> r.start, end |-> r.end]
            BY <2>1, <2>2 DEF Interval
          <5>2. CASE Descending
            <6>1. rest = [pool EXCEPT ![k] = [r EXCEPT !.end = @ - 1]]
              BY <3>2, <5>2, Zenon
            <6>2. [r EXCEPT !.end = @ - 1] = m
              <7> HIDE DEF r
              <7> QED  BY <5>1, <5>2
            <6> QED  BY <6>1, <6>2
          <5>3. CASE ~Descending
            <6>1. rest = [pool EXCEPT ![k] = [r EXCEPT !.start = @ + 1]]
              BY <3>2, <5>3, Zenon
            <6>2. [r EXCEPT !.start = @ + 1] = m
              <7> HIDE DEF r
              <7> QED  BY <5>1, <5>3
            <6> QED  BY <6>1, <6>2
          <5> QED  BY <5>2, <5>3
        <4>2. /\ m \in Interval /\ m.start \in Nat /\ m.end \in Nat /\ m.start <= m.end /\ r.start <= m.start /\ m.end <= r.end
              /\ \A x : x \in DlcisOf(m) <=> x \in DlcisOf(r) /\ x # dlci
          <5>1. r.start \in Nat /\ r.end \in Nat /\ r.start < r.end
            BY <2>1, <2>2, <3>2
          <5>2. CASE Descending
            <6>1. m = [start |-> r.start, end |-> r.end - 1] /\ dlci = r.end
              BY <5>2
            <6> HIDE DEF m, r, dlci
            <6> QED  BY <5>1, <6>1 DEF Interval, DlcisOf
          <5>3. CASE ~Descending
            <6>1. m = [start |-> r.start + 1, end |-> r.end] /\ dlci = r.start
              BY <5>3
            <6> HIDE DEF m, r, dlci
            <6> QED  BY <5>1, <6>1 DEF Interval, DlcisOf
          <5> QED  BY <5>2, <5>3
        <4> HIDE DEF m, rest, dlci, k
        <4>3. rest \in Seq(Interval) /\ Len(rest) = n /\ rest[k] = m /\ \A i \in 1 .. n : i # k => rest[i] = pool[i]
          BY <2>1, <2>2, <4>1, <4>2
        <4>4. WellFormedPool(rest)
          <5>1. \A i \in 1 .. n : rest[i].start <= rest[i].end
            BY <2>2, <4>2, <4>3
          <5>2. ASSUME NEW i \in 1 .. n - 1 PROVE rest[i].end + 1 < rest[i + 1].start
            <6>1. pool[i].end + 1 < pool[i + 1].start /\ i \in 1 .. n /\ i + 1 \in 1 .. n
              BY <2>1, <2>3
            <6>2. rest[i].end <= pool[i].end /\ rest[i].end \in Nat
              BY <2>2, <4>2, <4>3, <6>1
            <6>3. pool[i + 1].start <= rest[i + 1].start /\ rest[i + 1].start \in Nat
              BY <2>2, <4>2, <4>3, <6>1
            <6>4. pool[i].end \in Nat /\ pool[i + 1].start \in Nat
              BY <2>2, <6>1
            <6> QED  BY <6>1, <6>2, <6>3, <6>4, Squeezed
          <5> QED  BY <4>3, <5>1, <5>2 DEF WellFormedPool
        <4>5. \A x : x \in FreeDlcis(rest) <=> \E i \in 1 .. n : x \in DlcisOf(rest[i])
          BY <4>3, FreeIs
        <4>6. \A x : x \in FreeDlcis(rest) <=> x \in FreeDlcis(pool) /\ x # dlci
          BY <2>1, <2>5, <2>6, <4>2, <4>3, <4>5, Zenon
        <4> QED  BY <4>3, <4>4, <4>6
      <3> QED  BY <3>1, <3>2
    <2> HIDE DEF rest, dlci
    <2> QED  BY <1>1, <1>3, <2>7, <2>8
  <1>4. QED
    BY <1>2, <1>3

\* A DLCI that is given back is put where the list stays sorted.
FirstFrom(pool, dlci) == SelectInSeq(pool, LAMBDA r : r.start >= dlci)

LEMMA FoundAt ==
    ASSUME NEW pool \in Seq(Interval), NEW dlci \in Nat
    PROVE  LET i == FirstFrom(pool, dlci)
           IN /\ i \in 0 .. Len(pool)
              /\ i = 0 => \A k \in 1 .. Len(pool) : pool[k].start < dlci
              /\ i # 0 => pool[i].start >= dlci /\ \A k \in 1 .. i - 1 : pool[k].start < dlci
  <1> DEFINE n == Len(pool)
             I == {k \in 1 .. n : pool[k].start >= dlci}
             i == FirstFrom(pool, dlci)
  <1>1. i = IF I # {} THEN Min(I) ELSE 0
    BY Zenon DEF FirstFrom, SelectInSeq
  <1>2. n \in Nat /\ \A k \in 1 .. n : pool[k].start \in Nat
    BY Ends
  <1>3. CASE I = {}
    BY <1>1, <1>2, <1>3
  <1>4. CASE I # {}
    <2>1. I \in SUBSET Nat
      BY <1>2
    <2>2. \E m \in I : \A k \in I : m <= k
      <3> HIDE DEF I
      <3> QED  BY <1>4, <2>1, Join!LeastNatural
    <2>3. Min(I) \in I /\ \A k \in I : Min(I) <= k
      <3> HIDE DEF I
      <3> QED  BY <2>2, Zenon DEF Min
    <2>4. i \in I /\ \A k \in I : i <= k
      BY <1>1, <1>4, <2>3
    <2> HIDE DEF i
    <2>5. i \in 1 .. n /\ pool[i].start >= dlci
      BY <2>4
    <2>6. \A k \in 1 .. i - 1 : pool[k].start < dlci
      BY <1>2, <2>4, <2>5
    <2> QED  BY <1>2, <2>5, <2>6 DEF i
  <1>5. QED
    BY <1>3, <1>4

LEMMA JoinedAt ==
    ASSUME NEW S, NEW c \in Seq(S), NEW b \in Seq(S), NEW p \in Nat, NEW m \in Nat, Len(c) = p, Len(b) = m
    PROVE  /\ c \o b \in Seq(S) /\ Len(c \o b) = p + m
           /\ \A k \in 1 .. p : (c \o b)[k] = c[k]
           /\ \A k \in 1 .. m : (c \o b)[p + k] = b[k]
  <1> DEFINE s == c \o b
  <1>1. s \in Seq(S) /\ Len(s) = p + m /\ \A k \in 1 .. p + m : s[k] = IF k <= p THEN c[k] ELSE b[k - p]
    OBVIOUS
  <1> HIDE DEF s
  <1>2. ASSUME NEW k \in 1 .. p PROVE s[k] = c[k]
    BY <1>1
  <1>3. ASSUME NEW k \in 1 .. m PROVE s[p + k] = b[k]
    <2>1. p + k \in 1 .. p + m /\ ~(p + k <= p) /\ (p + k) - p = k
      OBVIOUS
    <2> QED  BY <1>1, <2>1
  <1>4. QED
    BY <1>1, <1>2, <1>3 DEF s

LEMMA InsertedAt ==
    ASSUME NEW S, NEW q \in Seq(S), NEW r \in S, NEW p \in 1 .. Len(q)
    PROVE  /\ InsertAt(q, p, r) \in Seq(S) /\ Len(InsertAt(q, p, r)) = Len(q) + 1
           /\ InsertAt(q, p, r)[p] = r
           /\ \A k \in 1 .. p - 1 : InsertAt(q, p, r)[k] = q[k]
           /\ \A k \in p + 1 .. Len(q) + 1 : InsertAt(q, p, r)[k] = q[k - 1]
  <1> DEFINE n == Len(q)
             a == SubSeq(q, 1, p - 1)
             b == SubSeq(q, p, n)
             c == a \o <<r>>
  <1>1. n \in Nat /\ p \in 1 .. n
    OBVIOUS
  <1>2. a \in Seq(S) /\ Len(a) = p - 1 /\ \A k \in 1 .. p - 1 : a[k] = q[k]
    BY <1>1
  <1>3. b \in Seq(S) /\ Len(b) = (n - p) + 1 /\ \A k \in 1 .. (n - p) + 1 : b[k] = q[(p + k) - 1]
    BY <1>1
  <1> HIDE DEF a, b
  <1>4. c \in Seq(S) /\ Len(c) = p /\ c[p] = r /\ \A k \in 1 .. p - 1 : c[k] = a[k]
    BY <1>1, <1>2
  <1> HIDE DEF c
  <1> DEFINE s == c \o b
  <1>5. /\ s \in Seq(S) /\ Len(s) = n + 1 /\ \A k \in 1 .. p : s[k] = c[k]
        /\ \A k \in 1 .. (n - p) + 1 : s[p + k] = b[k]
    <2> DEFINE m == (n - p) + 1
    <2>1. p \in Nat /\ m \in Nat
      BY <1>1
    <2>2. p + m = n + 1
      BY <1>1
    <2> HIDE DEF m
    <2>3. Len(b) = m
      BY <1>3 DEF m
    <2>4. /\ c \o b \in Seq(S) /\ Len(c \o b) = p + m
          /\ \A k \in 1 .. p : (c \o b)[k] = c[k]
          /\ \A k \in 1 .. m : (c \o b)[p + k] = b[k]
      <3>1. c \o b \in Seq(S) /\ Len(c \o b) = p + m /\ \A k \in 1 .. p : (c \o b)[k] = c[k]
        BY <1>3, <1>4, <2>1, <2>3, JoinedAt
      <3>2. ASSUME NEW k \in 1 .. m PROVE (c \o b)[p + k] = b[k]
        <4>1. b \in Seq(S) /\ c \in Seq(S) /\ Len(c) = p
          BY <1>3, <1>4
        <4>2. p + k \in 1 .. p + m /\ ~(p + k <= p) /\ (p + k) - p = k
          BY <2>1
        <4> QED  BY <2>1, <2>3, <4>1, <4>2
      <3> QED  BY <3>1, <3>2
    <2> QED  BY <2>2, <2>4, Zenon DEF m
  <1>6. InsertAt(q, p, r) = s
    BY DEF InsertAt, a, b, c
  <1> HIDE DEF s
  <1>7. \A k \in p + 1 .. n + 1 : s[k] = q[k - 1]
    <2> SUFFICES ASSUME NEW k \in p + 1 .. n + 1 PROVE s[k] = q[k - 1]
      OBVIOUS
    <2>1. k - p \in 1 .. (n - p) + 1 /\ (p + (k - p)) - 1 = k - 1 /\ p + (k - p) = k
      BY <1>1
    <2>2. s[p + (k - p)] = b[k - p] /\ b[k - p] = q[(p + (k - p)) - 1]
      BY <1>3, <1>5, <2>1
    <2> QED  BY <2>1, <2>2
  <1>8. \A k \in 1 .. p - 1 : s[k] = q[k]
    BY <1>1, <1>2, <1>4, <1>5
  <1>9. s[p] = r
    BY <1>1, <1>4, <1>5
  <1>10. QED
    BY <1>5, <1>6, <1>7, <1>8, <1>9

LEMMA PutInOrder ==
    ASSUME NEW pool \in Seq(Interval), WellFormedPool(pool), NEW dlci \in Nat, dlci \notin FreeDlcis(pool),
           NEW at, at = [start |-> dlci, end |-> dlci], NEW ins, NEW p \in 1 .. Len(pool) + 1,
           ins \in Seq(Interval), Len(ins) = Len(pool) + 1, ins[p] = at,
           \A k \in 1 .. p - 1 : ins[k] = pool[k] /\ pool[k].start < dlci,
           \A k \in p + 1 .. Len(pool) + 1 : ins[k] = pool[k - 1],
           p <= Len(pool) => pool[p].start >= dlci
    PROVE  Ascending(ins) /\ FreeDlcis(ins) = FreeDlcis(pool) \cup {dlci}
  <1> DEFINE n == Len(pool)
  <1>1. /\ n \in Nat /\ at.start = dlci /\ at.end = dlci
        /\ \A k \in 1 .. n : pool[k].start \in Nat /\ pool[k].end \in Nat /\ pool[k].start <= pool[k].end
    BY Ends DEF WellFormedPool
  <1>2. \A k \in 1 .. n - 1 : pool[k].end + 1 < pool[k + 1].start
    BY DEF WellFormedPool
  <1>3. \A k \in 1 .. n : ~(pool[k].start <= dlci /\ dlci <= pool[k].end)
    <2>1. \A k \in 1 .. n : dlci \notin DlcisOf(pool[k])
      BY FreeIs
    <2> QED  BY <1>1, <2>1 DEF DlcisOf
  <1>4. \A k \in 1 .. p - 1 : pool[k].end < dlci
    BY <1>1, <1>3
  <1>5. p <= n => dlci < pool[p].start
    BY <1>1, <1>3
  <1>6. Ascending(ins)
    <2>1. \A k \in 1 .. n + 1 : ins[k].start <= ins[k].end
      <3> SUFFICES ASSUME NEW k \in 1 .. n + 1 PROVE ins[k].start <= ins[k].end
        OBVIOUS
      <3>1. CASE k < p
        BY <1>1, <3>1
      <3>2. CASE k = p
        BY <1>1, <3>2
      <3>3. CASE k > p
        <4>1. ins[k] = pool[k - 1] /\ k - 1 \in 1 .. n
          BY <1>1, <3>3
        <4> QED  BY <1>1, <4>1
      <3> QED  BY <3>1, <3>2, <3>3, <1>1
    <2>2. \A k \in 1 .. n : ins[k].end < ins[k + 1].start
      <3> SUFFICES ASSUME NEW k \in 1 .. n PROVE ins[k].end < ins[k + 1].start
        OBVIOUS
      <3>1. CASE k + 1 < p
        <4>1. ins[k] = pool[k] /\ ins[k + 1] = pool[k + 1] /\ k \in 1 .. n - 1 /\ k + 1 \in 1 .. n
          BY <1>1, <3>1
        <4>2. pool[k].end \in Nat /\ pool[k + 1].start \in Nat /\ pool[k].end + 1 < pool[k + 1].start
          BY <1>1, <1>2, <4>1
        <4> QED  BY <4>1, <4>2
      <3>2. CASE k + 1 = p
        <4>1. ins[k] = pool[k] /\ ins[k + 1] = at /\ pool[k].end < dlci
          BY <1>1, <1>4, <3>2
        <4> QED  BY <1>1, <4>1
      <3>3. CASE k = p
        <4>1. ins[k + 1] = pool[k] /\ ins[k] = at
          BY <1>1, <3>3
        <4> QED  BY <1>1, <1>5, <3>3, <4>1
      <3>4. CASE k > p
        <4>1. ins[k] = pool[k - 1] /\ ins[k + 1] = pool[k] /\ k - 1 \in 1 .. n - 1 /\ (k - 1) + 1 = k
          BY <1>1, <3>4
        <4>2. pool[k - 1].end \in Nat /\ pool[k].start \in Nat /\ pool[k - 1].end + 1 < pool[k].start
          BY <1>1, <1>2, <4>1
        <4> QED  BY <4>1, <4>2
      <3> QED  BY <1>1, <3>1, <3>2, <3>3, <3>4
    <2> QED  BY <1>1, <2>1, <2>2 DEF Ascending
  <1>7. \A x : x \in FreeDlcis(ins) <=> x \in FreeDlcis(pool) \/ x = dlci
    <2>1. \A x : x \in FreeDlcis(ins) <=> \E k \in 1 .. n + 1 : x \in DlcisOf(ins[k])
      BY FreeIs
    <2>2. \A x : x \in FreeDlcis(pool) <=> \E k \in 1 .. n : x \in DlcisOf(pool[k])
      BY FreeIs
    <2>3. \A x : x \in DlcisOf(at) <=> x = dlci
      BY <1>1 DEF DlcisOf
    <2>4. \A k \in 1 .. n + 1 : k = p \/ \E j \in 1 .. n : ins[k] = pool[j]
      <3> SUFFICES ASSUME NEW k \in 1 .. n + 1, k # p PROVE \E j \in 1 .. n : ins[k] = pool[j]
        OBVIOUS
      <3>1. CASE k < p
        <4>1. k \in 1 .. n /\ ins[k] = pool[k]
          BY <1>1, <3>1
        <4> QED  BY <4>1
      <3>2. CASE k > p
        <4>1. k - 1 \in 1 .. n /\ ins[k] = pool[k - 1]
          BY <1>1, <3>2
        <4> QED  BY <4>1
      <3> QED  BY <1>1, <3>1, <3>2
    <2>5. \A j \in 1 .. n : \E k \in 1 .. n + 1 : ins[k] = pool[j]
      <3> SUFFICES ASSUME NEW j \in 1 .. n PROVE \E k \in 1 .. n + 1 : ins[k] = pool[j]
        OBVIOUS
      <3>1. CASE j < p
        <4>1. j \in 1 .. n + 1 /\ ins[j] = pool[j]
          BY <1>1, <3>1
        <4> QED  BY <4>1
      <3>2. CASE j >= p
        <4>1. j + 1 \in p + 1 .. n + 1 /\ (j + 1) - 1 = j /\ j + 1 \in 1 .. n + 1
          BY <1>1, <3>2
        <4>2. ins[j + 1] = pool[(j + 1) - 1]
          BY <4>1
        <4> QED  BY <4>1, <4>2
      <3> QED  BY <1>1, <3>1, <3>2
    <2>6. p \in 1 .. n + 1 /\ ins[p] = at
      OBVIOUS
    <2> HIDE DEF n
    <2> SUFFICES ASSUME NEW x PROVE x \in FreeDlcis(ins) <=> x \in FreeDlcis(pool) \/ x = dlci
      OBVIOUS
    <2>7. ASSUME x \in FreeDlcis(ins) PROVE x \in FreeDlcis(pool) \/ x = dlci
      <3>1. PICK k \in 1 .. n + 1 : x \in DlcisOf(ins[k])
        BY <2>1, <2>7
      <3>2. CASE k = p
        BY <2>3, <2>6, <3>1, <3>2
      <3>3. CASE \E j \in 1 .. n : ins[k] = pool[j]
        <4>1. \E j \in 1 .. n : x \in DlcisOf(pool[j])
          BY <3>1, <3>3
        <4> QED  BY <2>2, <4>1
      <3> QED  BY <2>4, <3>2, <3>3
    <2>8. ASSUME x \in FreeDlcis(pool) PROVE x \in FreeDlcis(ins)
      <3>1. PICK j \in 1 .. n : x \in DlcisOf(pool[j])
        BY <2>2, <2>8
      <3>2. \E k \in 1 .. n + 1 : x \in DlcisOf(ins[k])
        BY <2>5, <3>1
      <3> QED  BY <2>1, <3>2
    <2>9. ASSUME x = dlci PROVE x \in FreeDlcis(ins)
      <3>1. \E k \in 1 .. n + 1 : x \in DlcisOf(ins[k])
        BY <2>3, <2>6, <2>9
      <3> QED  BY <2>1, <3>1
    <2> QED  BY <2>7, <2>8, <2>9
  <1>8. QED
    BY <1>6, <1>7

\* A DLCI that is given back becomes free, unless it was free already or the
\* list of intervals has no room; nothing else changes hands.
THEOREM FreeWorks ==
    ASSUME NEW pool \in Seq(Interval), WellFormedPool(pool), NEW dlci
    PROVE  /\ DlciFree(pool, dlci) \in Seq(Interval) /\ WellFormedPool(DlciFree(pool, dlci))
           /\ FreeDlcis(DlciFree(pool, dlci)) =
                  IF dlci \in OwnRange /\ (dlci \in FreeDlcis(pool) \/ Len(pool) < MaxFreeRanges)
                  THEN FreeDlcis(pool) \cup {dlci} ELSE FreeDlcis(pool)
  <1> DEFINE n == Len(pool)
             i == FirstFrom(pool, dlci)
             at == [start |-> dlci, end |-> dlci]
             ins == IF i = 0 THEN Append(pool, at) ELSE InsertAt(pool, i, at)
             stays == dlci \notin OwnRange \/ dlci \in FreeDlcis(pool) \/ Len(pool) >= MaxFreeRanges
  <1>1. DlciFree(pool, dlci) = IF stays THEN pool ELSE Joined(ins)
    BY Zenon DEF DlciFree, FirstFrom
  <1>2. n \in Nat /\ MaxFreeRanges \in Nat
    BY DlciPoolAssumption
  <1>3. CASE stays
    <2>1. DlciFree(pool, dlci) = pool
      BY <1>1, <1>3
    <2> QED  BY <1>2, <1>3, <2>1
  <1>4. CASE ~stays
    <2>1. dlci \in Nat /\ dlci \in OwnRange /\ dlci \notin FreeDlcis(pool) /\ n < MaxFreeRanges
      BY <1>2, <1>4, DlciPoolAssumption DEF OwnRange
    <2>2. at \in Interval
      BY <2>1 DEF Interval
    <2>3. /\ i \in 0 .. n /\ (i = 0 => \A k \in 1 .. n : pool[k].start < dlci)
          /\ i # 0 => pool[i].start >= dlci /\ \A k \in 1 .. i - 1 : pool[k].start < dlci
      BY <2>1, FoundAt
    <2> DEFINE p == IF i = 0 THEN n + 1 ELSE i
    <2> HIDE DEF i
    <2>4. /\ p \in 1 .. n + 1 /\ ins \in Seq(Interval) /\ Len(ins) = n + 1 /\ ins[p] = at
          /\ \A k \in 1 .. p - 1 : ins[k] = pool[k] /\ pool[k].start < dlci
          /\ \A k \in p + 1 .. n + 1 : ins[k] = pool[k - 1]
          /\ p <= n => pool[p].start >= dlci
      <3>1. CASE i = 0
        <4>1. ins = Append(pool, at) /\ p = n + 1
          BY <3>1
        <4> HIDE DEF ins, at, p
        <4> QED  BY <1>2, <2>2, <2>3, <3>1, <4>1
      <3>2. CASE i # 0
        <4>1. ins = InsertAt(pool, i, at) /\ p = i /\ i \in 1 .. n
          BY <1>2, <2>3, <3>2
        <4> HIDE DEF ins, at, p
        <4>2. /\ ins \in Seq(Interval) /\ Len(ins) = n + 1 /\ ins[i] = at
              /\ \A k \in 1 .. i - 1 : ins[k] = pool[k]
              /\ \A k \in i + 1 .. n + 1 : ins[k] = pool[k - 1]
          BY <2>2, <4>1, InsertedAt
        <4> QED  BY <1>2, <2>3, <3>2, <4>1, <4>2
      <3> QED  BY <3>1, <3>2
    <2> HIDE DEF ins, p
    <2>5. Ascending(ins) /\ FreeDlcis(ins) = FreeDlcis(pool) \cup {dlci}
      BY <2>1, <2>4, PutInOrder
    <2>6. /\ Joined(ins) \in Seq(Interval) /\ WellFormedPool(Joined(ins))
          /\ FreeDlcis(Joined(ins)) = FreeDlcis(ins)
      BY <2>4, <2>5, JoinedIs
    <2>7. DlciFree(pool, dlci) = Joined(ins)
      BY <1>1, <1>4
    <2> QED  BY <2>1, <2>5, <2>6, <2>7
  <1>5. QED
    BY <1>3, <1>4

\* The whole range is free to begin with.
LEMMA InitWorks ==
    /\ AllocInit \in Seq(Interval) /\ WellFormedPool(AllocInit) /\ FreeDlcis(AllocInit) = OwnRange
  <1> DEFINE r == [start |-> RangeLow, end |-> RangeHigh]
  <1>1. r \in Interval /\ r.start <= r.end /\ DlcisOf(r) = OwnRange
    BY DlciPoolAssumption DEF Interval, DlcisOf, OwnRange
  <1> HIDE DEF r
  <1>2. <<r>> \in Seq(Interval) /\ Len(<<r>>) = 1 /\ <<r>>[1] = r /\ <<r>> = Append(<<>>, r) /\ <<>> \in Seq(Interval)
    BY <1>1
  <1>3. FreeDlcis(<<r>>) = FreeDlcis(<<>>) \cup DlcisOf(r)
    BY <1>1, <1>2, FreeOfAppend
  <1>4. WellFormedPool(<<r>>)
    BY <1>1 DEF WellFormedPool
  <1>5. QED
    BY <1>1, <1>2, <1>3, <1>4, FreeOfEmpty DEF AllocInit, r


-----------------------------------------------------------------------------
(* The calls of the switch. *)

LegStates == {"N0", "N1", "N3", "N6", "N9", "N10", "N11", "N12", "N19"}
Timers == {"T303", "T305", "T308", "T310"}
LegIds == Ports \X Crvs \X {0, 1}

IsLeg(c) ==
    /\ DOMAIN c = {"state", "peer", "in", "out", "outPort", "timers", "n303", "n308", "path"}
    /\ c.state \in LegStates /\ c.peer \in LegIds \cup {NoPeer} /\ c.timers \in SUBSET Timers
    /\ c.n303 \in {0, 1} /\ c.n308 \in {0, 1} /\ c.path \in BOOLEAN

IsSpvc(s) ==
    /\ DOMAIN s = {"state", "crv", "port"}
    /\ s.state \in {"idle", "setup", "connected", "retry"}

\* The parts of the inductive invariant.  A leg is never its own peer, so that
\* it is still there when its peer has been cleared first.
LegsTyped(w) ==
    /\ DOMAIN w.calls \subseteq LegIds
    /\ \A x \in DOMAIN w.calls : IsLeg(w.calls[x]) /\ w.calls[x].peer # x

\* With no more legs than call references, a fresh reference can be found.
Limited(w) == \A p \in Ports : Cardinality(LegsAt(w, p)) <= MaxCalls

PortsTyped(w) ==
    /\ DOMAIN w.pool = Ports /\ DOMAIN w.restart = Ports
    /\ w.lapf \subseteq Ports
    /\ \A p \in Ports : w.restart[p] \in 0 .. 3

SpvcsTyped(w) ==
    /\ DOMAIN w.spvc = DOMAIN Spvcs
    /\ \A i \in DOMAIN Spvcs : IsSpvc(w.spvc[i])

\* The list of free ranges can hold every set of free DLCIs of the range.
Roomy == (RangeHigh - RangeLow) + 2 < 2 * MaxFreeRanges

\* The DLCIs of the range that no neighbour has proposed on port p.
Proper(w, p) == {d \in OwnRange : <<p, d>> \notin w.shared}

Accounted(w) ==
    \A p \in Ports :
        /\ w.pool[p] \in Seq(Interval) /\ WellFormedPool(w.pool[p]) /\ FreeDlcis(w.pool[p]) \subseteq OwnRange
        /\ \A x, y \in LegsAt(w, p) : w.calls[x].in \in Proper(w, p) /\ w.calls[x].in = w.calls[y].in => x = y
        /\ \A x \in LegsAt(w, p) : w.calls[x].in \in Proper(w, p) => w.calls[x].in \notin FreeDlcis(w.pool[p])
        /\ Roomy => OwnRange \subseteq FreeDlcis(w.pool[p]) \cup {w.calls[x].in : x \in LegsAt(w, p)}

Good(w) ==
    /\ DOMAIN w = {"calls", "pool", "tab", "spvc", "restart", "lapf", "shared"}
    /\ LegsTyped(w) /\ Limited(w) /\ PortsTyped(w) /\ SpvcsTyped(w) /\ Accounted(w)

\* v is w without some of the legs X; the others hold the DLCIs they held.
Sheds(w, v, X) ==
    /\ Good(v)
    /\ DOMAIN v.calls \subseteq DOMAIN w.calls /\ DOMAIN w.calls \ X \subseteq DOMAIN v.calls
    /\ \A x \in DOMAIN v.calls : v.calls[x].in = w.calls[x].in

\* v is w but for what leg x says of itself.
ButFor(w, v, x) ==
    /\ DOMAIN v = DOMAIN w
    /\ v.pool = w.pool /\ v.spvc = w.spvc /\ v.restart = w.restart /\ v.lapf = w.lapf /\ v.shared = w.shared
    /\ DOMAIN v.calls = DOMAIN w.calls
    /\ \A y \in DOMAIN w.calls : y # x => v.calls[y] = w.calls[y]

-----------------------------------------------------------------------------
(***************************************************************************)
(* Steps that leave the DLCIs where they are.                              *)
(***************************************************************************)
LEMMA Alike ==
    ASSUME NEW w, Good(w), NEW v, DOMAIN v = DOMAIN w, v.pool = w.pool, v.shared = w.shared,
           DOMAIN v.calls = DOMAIN w.calls,
           \A x \in DOMAIN w.calls : IsLeg(v.calls[x]) /\ v.calls[x].peer # x /\ v.calls[x].in = w.calls[x].in,
           SpvcsTyped(v), PortsTyped(v)
    PROVE  Sheds(w, v, {})
  <1>1. \A p \in Ports : LegsAt(v, p) = LegsAt(w, p)
    BY DEF LegsAt
  <1>2. \A p \in Ports : \A x \in LegsAt(w, p) : v.calls[x].in = w.calls[x].in
    BY DEF LegsAt
  <1>3. LegsTyped(v) /\ Limited(v)
    BY <1>1 DEF Good, LegsTyped, Limited
  <1>4. Accounted(v)
    <2> SUFFICES ASSUME NEW p \in Ports
                 PROVE  /\ v.pool[p] \in Seq(Interval) /\ WellFormedPool(v.pool[p]) /\ FreeDlcis(v.pool[p]) \subseteq OwnRange
                        /\ \A x, y \in LegsAt(v, p) : v.calls[x].in \in Proper(v, p) /\ v.calls[x].in = v.calls[y].in => x = y
                        /\ \A x \in LegsAt(v, p) : v.calls[x].in \in Proper(v, p) => v.calls[x].in \notin FreeDlcis(v.pool[p])
                        /\ Roomy => OwnRange \subseteq FreeDlcis(v.pool[p]) \cup {v.calls[x].in : x \in LegsAt(v, p)}
      BY Zenon DEF Accounted
    <2> DEFINE L == LegsAt(w, p)
    <2>1. LegsAt(v, p) = L /\ \A x \in L : v.calls[x].in = w.calls[x].in
      BY <1>1, <1>2
    <2>2. /\ w.pool[p] \in Seq(Interval) /\ WellFormedPool(w.pool[p]) /\ FreeDlcis(w.pool[p]) \subseteq OwnRange
          /\ \A x, y \in L : w.calls[x].in \in Proper(w, p) /\ w.calls[x].in = w.calls[y].in => x = y
          /\ \A x \in L : w.calls[x].in \in Proper(w, p) => w.calls[x].in \notin FreeDlcis(w.pool[p])
          /\ Roomy => OwnRange \subseteq FreeDlcis(w.pool[p]) \cup {w.calls[x].in : x \in L}
      BY Zenon DEF Good, Accounted
    <2> HIDE DEF L
    <2>3. {v.calls[x].in : x \in L} = {w.calls[x].in : x \in L}
      BY <2>1
    <2>4. Proper(v, p) = Proper(w, p)
      BY DEF Proper
    <2> QED  BY <2>1, <2>2, <2>3, <2>4
  <1>5. QED
    BY <1>3, <1>4 DEF Good, Sheds

LEMMA Edit ==
    ASSUME NEW w, Good(w), NEW x \in DOMAIN w.calls, NEW v, ButFor(w, v, x),
           IsLeg(v.calls[x]), v.calls[x].peer = w.calls[x].peer, v.calls[x].in = w.calls[x].in
    PROVE  Sheds(w, v, {})
  <1>1. DOMAIN v = DOMAIN w /\ v.pool = w.pool /\ v.shared = w.shared /\ DOMAIN v.calls = DOMAIN w.calls
    BY DEF ButFor
  <1>2. \A y \in DOMAIN w.calls : IsLeg(v.calls[y]) /\ v.calls[y].peer # y /\ v.calls[y].in = w.calls[y].in
    BY DEF ButFor, Good, LegsTyped
  <1>3. SpvcsTyped(v) /\ PortsTyped(v)
    BY DEF ButFor, Good, SpvcsTyped, PortsTyped
  <1>4. QED
    BY <1>1, <1>2, <1>3, Alike

LEMMA Retabled ==
    ASSUME NEW w, Good(w), NEW t
    PROVE  Sheds(w, [w EXCEPT !.tab = t], {})
  <1> DEFINE v == [w EXCEPT !.tab = t]
  <1>1. DOMAIN v = DOMAIN w /\ v.pool = w.pool /\ v.calls = w.calls /\ v.spvc = w.spvc /\ v.restart = w.restart /\ v.lapf = w.lapf /\ v.shared = w.shared
    BY DEF Good
  <1> HIDE DEF v
  <1>2. \A y \in DOMAIN w.calls : IsLeg(v.calls[y]) /\ v.calls[y].peer # y /\ v.calls[y].in = w.calls[y].in
    BY <1>1 DEF Good, LegsTyped
  <1>3. SpvcsTyped(v) /\ PortsTyped(v)
    BY <1>1 DEF Good, SpvcsTyped, PortsTyped
  <1>4. Sheds(w, v, {})
    BY <1>1, <1>2, <1>3, Alike
  <1>5. QED
    BY <1>4 DEF v

LEMMA Restarting ==
    ASSUME NEW w, Good(w), NEW p \in Ports, NEW n \in 0 .. 3
    PROVE  Sheds(w, [w EXCEPT !.restart[p] = n], {})
  <1> DEFINE v == [w EXCEPT !.restart[p] = n]
  <1>1. /\ DOMAIN v = DOMAIN w /\ v.pool = w.pool /\ v.calls = w.calls /\ v.spvc = w.spvc
        /\ v.lapf = w.lapf /\ v.shared = w.shared
    BY DEF Good
  <1>2. PortsTyped(v)
    <2>1. v.restart = [w.restart EXCEPT ![p] = n]
      BY DEF Good
    <2> HIDE DEF v
    <2> QED  BY <1>1, <2>1 DEF Good, PortsTyped
  <1> HIDE DEF v
  <1>3. \A y \in DOMAIN w.calls : IsLeg(v.calls[y]) /\ v.calls[y].peer # y /\ v.calls[y].in = w.calls[y].in
    BY <1>1 DEF Good, LegsTyped
  <1>4. SpvcsTyped(v)
    BY <1>1 DEF Good, SpvcsTyped
  <1>5. Sheds(w, v, {})
    BY <1>1, <1>2, <1>3, <1>4, Alike
  <1>6. QED
    BY <1>5 DEF v

LEMMA PathSet ==
    ASSUME NEW w, Good(w), NEW x, NEW there \in BOOLEAN
    PROVE  Sheds(w, SetPath(w, x, there), {})
  <1> DEFINE v == SetPath(w, x, there)
             c == [y \in DOMAIN w.calls |-> IF y \in {x, w.calls[x].peer} THEN [w.calls[y] EXCEPT !.path = there] ELSE w.calls[y]]
  <1>1. v = [w EXCEPT !.calls = c]
    BY DEF SetPath
  <1>2. DOMAIN v = DOMAIN w /\ v.pool = w.pool /\ v.calls = c /\ v.spvc = w.spvc /\ v.restart = w.restart /\ v.lapf = w.lapf /\ v.shared = w.shared
    <2> HIDE DEF v, c
    <2> QED  BY <1>1 DEF Good
  <1>3. DOMAIN c = DOMAIN w.calls
    OBVIOUS
  <1>4. ASSUME NEW y \in DOMAIN w.calls PROVE IsLeg(c[y]) /\ c[y].peer # y /\ c[y].in = w.calls[y].in
    <2>1. IsLeg(w.calls[y]) /\ w.calls[y].peer # y
      BY DEF Good, LegsTyped
    <2>2. c[y] = [w.calls[y] EXCEPT !.path = there] \/ c[y] = w.calls[y]
      OBVIOUS
    <2> HIDE DEF c
    <2> QED  BY <2>1, <2>2 DEF IsLeg
  <1> HIDE DEF c, v
  <1>5. SpvcsTyped(v) /\ PortsTyped(v)
    BY <1>2 DEF Good, SpvcsTyped, PortsTyped
  <1>6. Sheds(w, v, {})
    BY <1>2, <1>3, <1>4, <1>5, Alike
  <1>7. QED
    BY <1>6 DEF v

LEMMA PathCreated ==
    ASSUME NEW w, Good(w), NEW x
    PROVE  Sheds(w, CreateDataPvcs(w, x), {})
  <1> DEFINE t == AddEntry(AddEntry(w.tab, NearEnd(w, x), FarEnd(w, x)), FarEnd(w, x), NearEnd(w, x))
             v == [w EXCEPT !.tab = t]
  <1>1. CreateDataPvcs(w, x) = w \/ CreateDataPvcs(w, x) = SetPath(v, x, TRUE)
    BY Zenon DEF CreateDataPvcs
  <1> HIDE DEF t
  <1>2. Sheds(w, v, {})
    BY Retabled
  <1> HIDE DEF v
  <1>3. Sheds(v, SetPath(v, x, TRUE), {})
    BY <1>2, PathSet DEF Sheds
  <1>4. QED
    BY <1>1, <1>2, <1>3 DEF Sheds

LEMMA PathDestroyed ==
    ASSUME NEW w, Good(w), NEW x
    PROVE  Sheds(w, DestroyDataPvcs(w, x), {})
  <1> DEFINE t == DelEntries(w.tab, {NearEnd(w, x), FarEnd(w, x)})
             v == [w EXCEPT !.tab = t]
  <1>1. DestroyDataPvcs(w, x) = w \/ DestroyDataPvcs(w, x) = SetPath(v, x, FALSE)
    BY Zenon DEF DestroyDataPvcs
  <1> HIDE DEF t
  <1>2. Sheds(w, v, {})
    BY Retabled
  <1> HIDE DEF v
  <1>3. Sheds(v, SetPath(v, x, FALSE), {})
    BY <1>2, PathSet DEF Sheds
  <1>4. QED
    BY <1>1, <1>2, <1>3 DEF Sheds

LEMMA Awaits ==
    ASSUME NEW w, Good(w), NEW x \in DOMAIN w.calls, NEW state \in LegStates, NEW timers \in SUBSET Timers
    PROVE  Sheds(w, Await(w, x, state, timers), {})
  <1> DEFINE v == Await(w, x, state, timers)
  <1>1. ButFor(w, v, x)
    BY DEF ButFor, Good, Await
  <1>2. IsLeg(v.calls[x]) /\ v.calls[x].peer = w.calls[x].peer /\ v.calls[x].in = w.calls[x].in
    BY DEF Good, LegsTyped, Await, IsLeg
  <1> HIDE DEF v
  <1>3. Sheds(w, v, {})
    BY <1>1, <1>2, Edit
  <1>4. QED
    BY <1>3 DEF v

LEMMA ImageOf ==
    ASSUME NEW f, IsFiniteSet(DOMAIN f)
    PROVE  /\ IsFiniteSet({f[y] : y \in DOMAIN f})
           /\ Cardinality({f[y] : y \in DOMAIN f}) <= Cardinality(DOMAIN f)
  <1> DEFINE S == DOMAIN f
             T == {f[y] : y \in S}
             g == [y \in S |-> f[y]]
  <1>1. g \in Surjection(S, T)
    BY DEF Surjection
  <1>2. IsFiniteSet(S)
    OBVIOUS
  <1> HIDE DEF g, S, T
  <1>3. IsFiniteSet(T) /\ Cardinality(T) <= Cardinality(S)
    BY <1>1, <1>2, FS_Surjection
  <1>4. QED
    BY <1>3 DEF S, T

LEMMA LegsFinite ==
    ASSUME NEW w, Good(w)
    PROVE  IsFiniteSet(DOMAIN w.calls) /\ \A p : IsFiniteSet(LegsAt(w, p))
  <1>1. IsFiniteSet(Ports \X Crvs) /\ IsFiniteSet({0, 1})
    <2>1. IsFiniteSet(Ports) /\ IsFiniteSet(Crvs)
      BY SvcCallsAssumption
    <2>2. IsFiniteSet({0, 1})
      <3>1. IsFiniteSet({0} \cup {1})
        BY FS_Singleton, FS_AddElement
      <3>2. {0} \cup {1} = {0, 1}
        OBVIOUS
      <3> QED  BY <3>1, <3>2
    <2> QED  BY <2>1, <2>2, FS_Product
  <1>2. IsFiniteSet((Ports \X Crvs) \X {0, 1})
    BY <1>1, FS_Product
  <1> DEFINE Pair(x) == <<<<x[1], x[2]>>, x[3]>>
             f == [y \in (Ports \X Crvs) \X {0, 1} |-> <<y[1][1], y[1][2], y[2]>>]
             Image == {f[y] : y \in (Ports \X Crvs) \X {0, 1}}
  <1>3. IsFiniteSet(Image)
    <2>1. Image = {f[y] : y \in DOMAIN f} /\ IsFiniteSet(DOMAIN f)
      BY <1>2
    <2> HIDE DEF f, Image
    <2> QED  BY <2>1, ImageOf
  <1>4. LegIds \subseteq Image
    <2> SUFFICES ASSUME NEW x \in LegIds PROVE x \in Image
      OBVIOUS
    <2>1. Pair(x) \in (Ports \X Crvs) \X {0, 1} /\ x = <<x[1], x[2], x[3]>>
      BY DEF LegIds
    <2>2. f[Pair(x)] = x
      BY <2>1
    <2> HIDE DEF f
    <2> QED  BY <2>1, <2>2
  <1>5. DOMAIN w.calls \subseteq LegIds
    BY DEF Good, LegsTyped
  <1>6. IsFiniteSet(DOMAIN w.calls)
    <2> HIDE DEF Image
    <2> QED  BY <1>3, <1>4, <1>5, FS_Subset
  <1>7. \A p : LegsAt(w, p) \subseteq DOMAIN w.calls
    BY DEF LegsAt
  <1>8. QED
    BY <1>6, <1>7, FS_Subset

-----------------------------------------------------------------------------
(***************************************************************************)
(* Steps that give a DLCI back.                                            *)
(***************************************************************************)
\* The leg's DLCI is free and the leg has none.
Given(w, x) ==
    [w EXCEPT !.pool[x[1]] = IF w.calls[x].in > 0 THEN DlciFree(@, w.calls[x].in) ELSE @, !.calls[x].in = 0]

LEMMA Gives ==
    ASSUME NEW w, Good(w), NEW x \in DOMAIN w.calls
    PROVE  /\ Good(Given(w, x)) /\ DOMAIN Given(w, x).calls = DOMAIN w.calls /\ Given(w, x).calls[x].in = 0
           /\ \A y \in DOMAIN w.calls : y # x => Given(w, x).calls[y].in = w.calls[y].in
  <1> DEFINE p == x[1]
             v == Given(w, x)
             d == w.calls[x].in
             rest == IF d > 0 THEN DlciFree(w.pool[p], d) ELSE w.pool[p]
  <1>1. p \in Ports
    BY DEF Good, LegsTyped, LegIds
  <1>2. /\ DOMAIN v = DOMAIN w /\ v.spvc = w.spvc /\ v.restart = w.restart /\ v.lapf = w.lapf /\ v.shared = w.shared /\ DOMAIN v.calls = DOMAIN w.calls
        /\ DOMAIN v.pool = Ports
        /\ \A y \in DOMAIN w.calls : y # x => v.calls[y] = w.calls[y]
    BY DEF Good, PortsTyped, Given
  <1>3. v.pool[p] = rest /\ \A q \in Ports : q # p => v.pool[q] = w.pool[q]
    <2>1. v.pool = [w.pool EXCEPT ![p] = rest]
      BY DEF Good, Given
    <2> HIDE DEF rest, p, v
    <2> QED  BY <1>1, <2>1 DEF Good, PortsTyped
  <1>4. IsLeg(v.calls[x]) /\ v.calls[x].peer = w.calls[x].peer /\ v.calls[x].in = 0
    BY DEF Good, LegsTyped, IsLeg, Given
  <1> HIDE DEF v
  <1>5. LegsTyped(v)
    BY <1>2, <1>4 DEF Good, LegsTyped
  <1>6. \A q \in Ports : LegsAt(v, q) = LegsAt(w, q)
    BY <1>2 DEF LegsAt
  <1>7. Limited(v) /\ PortsTyped(v) /\ SpvcsTyped(v)
    BY <1>2, <1>6 DEF Good, Limited, PortsTyped, SpvcsTyped
  <1>8. ASSUME NEW q \in Ports
        PROVE  /\ v.pool[q] \in Seq(Interval) /\ WellFormedPool(v.pool[q]) /\ FreeDlcis(v.pool[q]) \subseteq OwnRange
               /\ \A y, z \in LegsAt(v, q) : v.calls[y].in \in Proper(v, q) /\ v.calls[y].in = v.calls[z].in => y = z
               /\ \A y \in LegsAt(v, q) : v.calls[y].in \in Proper(v, q) => v.calls[y].in \notin FreeDlcis(v.pool[q])
               /\ Roomy => OwnRange \subseteq FreeDlcis(v.pool[q]) \cup {v.calls[y].in : y \in LegsAt(v, q)}
    <2> DEFINE L == LegsAt(w, q)
    <2>1. /\ w.pool[q] \in Seq(Interval) /\ WellFormedPool(w.pool[q]) /\ FreeDlcis(w.pool[q]) \subseteq OwnRange
          /\ \A y, z \in L : w.calls[y].in \in Proper(w, q) /\ w.calls[y].in = w.calls[z].in => y = z
          /\ \A y \in L : w.calls[y].in \in Proper(w, q) => w.calls[y].in \notin FreeDlcis(w.pool[q])
          /\ Roomy => OwnRange \subseteq FreeDlcis(w.pool[q]) \cup {w.calls[y].in : y \in L}
      BY Zenon DEF Good, Accounted
    <2>2. LegsAt(v, q) = L /\ \A y \in L : y \in DOMAIN w.calls /\ (q # p => y # x)
      BY <1>6 DEF LegsAt
    <2>0. Proper(v, q) = Proper(w, q) /\ Proper(w, q) \subseteq OwnRange
      BY <1>2 DEF Proper
    <2>3. CASE q # p
      <3>1. v.pool[q] = w.pool[q] /\ \A y \in L : v.calls[y].in = w.calls[y].in
        BY <1>2, <1>3, <2>2, <2>3
      <3> HIDE DEF L
      <3>2. {v.calls[y].in : y \in L} = {w.calls[y].in : y \in L}
        BY <3>1
      <3> QED  BY <2>0, <2>1, <2>2, <3>1, <3>2
    <2>4. CASE q = p
      <3>1. v.pool[q] = rest /\ x \in L
        BY <1>3, <2>4 DEF LegsAt
      <3>2. 0 \notin OwnRange /\ \A e \in OwnRange : e > 0
        BY DlciPoolAssumption DEF OwnRange
      <3>3. /\ rest \in Seq(Interval) /\ WellFormedPool(rest)
            /\ FreeDlcis(rest) = IF d \in OwnRange /\ (d \in FreeDlcis(w.pool[q]) \/ Len(w.pool[q]) < MaxFreeRanges)
                                 THEN FreeDlcis(w.pool[q]) \cup {d} ELSE FreeDlcis(w.pool[q])
        <4>1. CASE d > 0
          <5>1. rest = DlciFree(w.pool[q], d)
            BY <2>4, <4>1
          <5> HIDE DEF rest, d
          <5> QED  BY <2>1, <5>1, FreeWorks
        <4>2. CASE ~(d > 0)
          <5>1. rest = w.pool[q] /\ d \notin OwnRange
            BY <2>4, <3>2, <4>2
          <5> HIDE DEF rest, d
          <5> QED  BY <2>1, <5>1
        <4> QED  BY <4>1, <4>2
      <3>4. Roomy => Len(w.pool[q]) < MaxFreeRanges
        <4>1. 2 * Len(w.pool[q]) <= (RangeHigh - RangeLow) + 2
          BY <2>1, FewRanges
        <4>2. Len(w.pool[q]) \in Nat
          BY <2>1
        <4> QED  BY <4>1, <4>2, DlciPoolAssumption DEF Roomy
      <3>5. \A y \in L : y # x => v.calls[y].in = w.calls[y].in
        BY <1>2, <2>2
      <3> HIDE DEF rest, L
      <3>6. FreeDlcis(rest) \subseteq FreeDlcis(w.pool[q]) \cup {d} /\ (d \notin OwnRange => FreeDlcis(rest) = FreeDlcis(w.pool[q]))
        BY <3>3
      <3>7. \A y, z \in L : v.calls[y].in \in Proper(v, q) /\ v.calls[y].in = v.calls[z].in => y = z
        BY <1>4, <2>0, <2>1, <3>2, <3>5
      <3>8. \A y \in L : v.calls[y].in \in Proper(v, q) => v.calls[y].in \notin FreeDlcis(rest)
        <4> SUFFICES ASSUME NEW y \in L, v.calls[y].in \in Proper(v, q) PROVE v.calls[y].in \notin FreeDlcis(rest)
          OBVIOUS
        <4>1. CASE y = x
          BY <1>4, <2>0, <2>1, <3>2, <3>6, <4>1
        <4>2. CASE y # x
          <5>1. v.calls[y].in = w.calls[y].in /\ w.calls[y].in \notin FreeDlcis(w.pool[q])
            BY <2>0, <2>1, <3>5, <4>2
          <5>2. d \in OwnRange => w.calls[y].in # d
            BY <2>0, <2>1, <3>1, <3>5, <4>2
          <5> QED  BY <3>6, <5>1, <5>2
        <4> QED  BY <4>1, <4>2
      <3>9. Roomy => OwnRange \subseteq FreeDlcis(rest) \cup {v.calls[y].in : y \in L}
        <4> SUFFICES ASSUME Roomy, NEW e \in OwnRange, e \notin FreeDlcis(rest) PROVE \E y \in L : v.calls[y].in = e
          OBVIOUS
        <4>1. e \notin FreeDlcis(w.pool[q])
          BY <3>3
        <4>2. PICK y \in L : w.calls[y].in = e
          BY <2>1, <4>1
        <4>3. y # x
          BY <3>3, <3>4, <4>2
        <4> QED  BY <3>5, <4>2, <4>3
      <3> QED  BY <2>1, <2>2, <3>1, <3>3, <3>6, <3>7, <3>8, <3>9
    <2> QED  BY <2>3, <2>4
  <1>9. Accounted(v)
    BY <1>8, Zenon DEF Accounted
  <1>10. Good(v)
    BY <1>2, <1>5, <1>7, <1>9 DEF Good
  <1>11. QED
    BY <1>2, <1>4, <1>10 DEF v

\* A leg without a DLCI goes.
LEMMA Goes ==
    ASSUME NEW w, Good(w), NEW x \in DOMAIN w.calls, w.calls[x].in \notin OwnRange
    PROVE  LET v == [w EXCEPT !.calls = Restrict(@, DOMAIN @ \ {x})]
           IN /\ Good(v) /\ DOMAIN v.calls = DOMAIN w.calls \ {x}
              /\ \A y \in DOMAIN v.calls : v.calls[y] = w.calls[y]
  <1> DEFINE v == [w EXCEPT !.calls = Restrict(@, DOMAIN @ \ {x})]
             c == [y \in DOMAIN w.calls \ {x} |-> w.calls[y]]
  <1>1. v = [w EXCEPT !.calls = c]
    BY DEF Restrict
  <1>2. DOMAIN v = DOMAIN w /\ v.pool = w.pool /\ v.calls = c /\ v.spvc = w.spvc /\ v.restart = w.restart /\ v.lapf = w.lapf /\ v.shared = w.shared
    <2> HIDE DEF v, c
    <2> QED  BY <1>1 DEF Good
  <1> HIDE DEF v
  <1>3. DOMAIN v.calls = DOMAIN w.calls \ {x} /\ \A y \in DOMAIN v.calls : v.calls[y] = w.calls[y]
    BY <1>2
  <1> HIDE DEF c
  <1>4. LegsTyped(v) /\ PortsTyped(v) /\ SpvcsTyped(v)
    BY <1>2, <1>3 DEF Good, LegsTyped, PortsTyped, SpvcsTyped
  <1>5. \A q \in Ports : LegsAt(v, q) = LegsAt(w, q) \ {x}
    BY <1>3 DEF LegsAt
  <1>6. Limited(v)
    <2> SUFFICES ASSUME NEW q \in Ports PROVE Cardinality(LegsAt(v, q)) <= MaxCalls
      BY DEF Limited
    <2>1. IsFiniteSet(LegsAt(w, q))
      BY LegsFinite
    <2>2. LegsAt(v, q) \subseteq LegsAt(w, q)
      BY <1>5
    <2>3. /\ Cardinality(LegsAt(v, q)) <= Cardinality(LegsAt(w, q))
          /\ Cardinality(LegsAt(v, q)) \in Nat /\ Cardinality(LegsAt(w, q)) \in Nat
      BY <2>1, <2>2, FS_Subset, FS_CardinalityType
    <2>4. Cardinality(LegsAt(w, q)) <= MaxCalls
      BY DEF Good, Limited
    <2> QED  BY <2>3, <2>4, SvcCallsAssumption
  <1>7. ASSUME NEW q \in Ports
        PROVE  /\ v.pool[q] \in Seq(Interval) /\ WellFormedPool(v.pool[q]) /\ FreeDlcis(v.pool[q]) \subseteq OwnRange
               /\ \A y, z \in LegsAt(v, q) : v.calls[y].in \in Proper(v, q) /\ v.calls[y].in = v.calls[z].in => y = z
               /\ \A y \in LegsAt(v, q) : v.calls[y].in \in Proper(v, q) => v.calls[y].in \notin FreeDlcis(v.pool[q])
               /\ Roomy => OwnRange \subseteq FreeDlcis(v.pool[q]) \cup {v.calls[y].in : y \in LegsAt(v, q)}
    <2> DEFINE L == LegsAt(w, q)
               M == LegsAt(v, q)
    <2>1. /\ w.pool[q] \in Seq(Interval) /\ WellFormedPool(w.pool[q]) /\ FreeDlcis(w.pool[q]) \subseteq OwnRange
          /\ \A y, z \in L : w.calls[y].in \in Proper(w, q) /\ w.calls[y].in = w.calls[z].in => y = z
          /\ \A y \in L : w.calls[y].in \in Proper(w, q) => w.calls[y].in \notin FreeDlcis(w.pool[q])
          /\ Roomy => OwnRange \subseteq FreeDlcis(w.pool[q]) \cup {w.calls[y].in : y \in L}
      BY Zenon DEF Good, Accounted
    <2>2. M = L \ {x} /\ v.pool = w.pool /\ \A y \in M : v.calls[y].in = w.calls[y].in
      BY <1>2, <1>3, <1>5 DEF LegsAt
    <2>4. Proper(v, q) = Proper(w, q)
      BY <1>2 DEF Proper
    <2> HIDE DEF L, M
    <2>3. Roomy => OwnRange \subseteq FreeDlcis(w.pool[q]) \cup {v.calls[y].in : y \in M}
      <3> SUFFICES ASSUME Roomy, NEW e \in OwnRange, e \notin FreeDlcis(w.pool[q]) PROVE \E y \in M : v.calls[y].in = e
        OBVIOUS
      <3>1. PICK y \in L : w.calls[y].in = e
        BY <2>1
      <3> QED  BY <2>2, <3>1
    <2> QED  BY <2>1, <2>2, <2>3, <2>4 DEF M
  <1>8. Accounted(v)
    BY <1>7, Zenon DEF Accounted
  <1>9. Good(v)
    BY <1>2, <1>4, <1>6, <1>8 DEF Good
  <1>10. QED
    BY <1>3, <1>9 DEF v

LEMMA CallFreed ==
    ASSUME NEW w, Good(w), NEW x \in DOMAIN w.calls
    PROVE  Sheds(w, FreeCall(w, x), {x}) /\ DOMAIN FreeCall(w, x).calls = DOMAIN w.calls \ {x}
  <1> DEFINE w1 == Given(w, x)
             w2 == DestroyDataPvcs(w1, x)
             v == [w2 EXCEPT !.calls = Restrict(@, DOMAIN @ \ {x})]
  <1>1. FreeCall(w, x) = v
    BY Zenon DEF FreeCall, Given
  <1>2. /\ Good(w1) /\ DOMAIN w1.calls = DOMAIN w.calls /\ w1.calls[x].in = 0
        /\ \A y \in DOMAIN w.calls : y # x => w1.calls[y].in = w.calls[y].in
    BY Gives
  <1> HIDE DEF w1
  <1>3. Sheds(w1, w2, {})
    BY <1>2, PathDestroyed
  <1> HIDE DEF w2
  <1>4. Good(w2) /\ DOMAIN w2.calls = DOMAIN w.calls /\ \A y \in DOMAIN w.calls : w2.calls[y].in = w1.calls[y].in
    BY <1>2, <1>3 DEF Sheds
  <1>5. x \in DOMAIN w2.calls /\ w2.calls[x].in \notin OwnRange
    BY <1>2, <1>4, DlciPoolAssumption DEF OwnRange
  <1>6. /\ Good(v) /\ DOMAIN v.calls = DOMAIN w2.calls \ {x}
        /\ \A y \in DOMAIN v.calls : v.calls[y] = w2.calls[y]
    BY <1>4, <1>5, Goes
  <1> HIDE DEF v
  <1>7. QED
    BY <1>1, <1>2, <1>4, <1>6 DEF Sheds

-----------------------------------------------------------------------------
(***************************************************************************)
(* There is a call reference for a new call.                               *)
(***************************************************************************)
LegsIn(w, P) == {x \in DOMAIN w.calls : x[1] \in P}

LEMMA OnePortMore ==
    ASSUME NEW w, Good(w), NEW P \in SUBSET Ports, NEW p \in P, NEW n \in Nat,
           Cardinality(LegsIn(w, P \ {p})) <= n
    PROVE  Cardinality(LegsIn(w, P)) <= n + MaxCalls
  <1> DEFINE A == LegsIn(w, P \ {p})
             B == LegsAt(w, p)
  <1>1. LegsIn(w, P) = A \cup B /\ A \subseteq DOMAIN w.calls
    BY DEF LegsIn, LegsAt
  <1>2. IsFiniteSet(A) /\ IsFiniteSet(B)
    <2>1. IsFiniteSet(DOMAIN w.calls) /\ IsFiniteSet(B)
      BY LegsFinite
    <2> HIDE DEF A, B
    <2> QED  BY <1>1, <2>1, FS_Subset
  <1>3. Cardinality(B) <= MaxCalls
    BY DEF Good, Limited
  <1>4. Cardinality(A) <= n
    OBVIOUS
  <1> HIDE DEF A, B
  <1>5. Cardinality(A) \in Nat /\ Cardinality(B) \in Nat /\ Cardinality(A \cap B) \in Nat
    <2>1. IsFiniteSet(A \cap B)
      BY <1>2, FS_Subset
    <2> QED  BY <1>2, <2>1, FS_CardinalityType
  <1>6. Cardinality(A \cup B) = Cardinality(A) + Cardinality(B) - Cardinality(A \cap B)
    BY <1>2, FS_Union
  <1>7. QED
    BY <1>1, <1>3, <1>4, <1>5, <1>6, SvcCallsAssumption

LEMMA FewLegs ==
    ASSUME NEW w, Good(w)
    PROVE  Cardinality(DOMAIN w.calls) <= MaxCalls * Cardinality(Ports)
  <1> DEFINE T == {k \in Nat : \A P \in SUBSET Ports : Cardinality(P) = k => Cardinality(LegsIn(w, P)) <= MaxCalls * k}
  <1>0. MaxCalls \in Nat /\ IsFiniteSet(Ports) /\ Cardinality(Ports) \in Nat
    BY SvcCallsAssumption, FS_CardinalityType
  <1>1. 0 \in T
    <2> SUFFICES ASSUME NEW P \in SUBSET Ports, Cardinality(P) = 0 PROVE Cardinality(LegsIn(w, P)) <= MaxCalls * 0
      BY Zenon
    <2>1. IsFiniteSet(P)
      BY <1>0, FS_Subset
    <2>2. P = {}
      BY <2>1, FS_EmptySet
    <2>3. LegsIn(w, P) = {}
      BY <2>2 DEF LegsIn
    <2> QED  BY <1>0, <2>3, FS_EmptySet
  <1>2. ASSUME NEW k \in Nat, k \in T PROVE k + 1 \in T
    <2> SUFFICES ASSUME NEW P \in SUBSET Ports, Cardinality(P) = k + 1
                 PROVE  Cardinality(LegsIn(w, P)) <= MaxCalls * (k + 1)
      <3>1. k + 1 \in Nat
        OBVIOUS
      <3> QED  BY <3>1, Zenon
    <2>1. IsFiniteSet(P)
      BY <1>0, FS_Subset
    <2>2. P # {}
      BY FS_EmptySet
    <2>3. PICK p \in P : TRUE
      BY <2>2
    <2>4. Cardinality(P \ {p}) = k
      BY <2>1, <2>3, FS_RemoveElement
    <2>5. Cardinality(LegsIn(w, P \ {p})) <= MaxCalls * k
      BY <1>2, <2>4
    <2>6. MaxCalls * k \in Nat /\ MaxCalls * (k + 1) = MaxCalls * k + MaxCalls
      BY <1>0
    <2>7. Cardinality(LegsIn(w, P)) <= MaxCalls * k + MaxCalls
      BY <2>5, <2>6, OnePortMore
    <2> QED  BY <2>6, <2>7
  <1>3. Nat \subseteq T
    <2> HIDE DEF T
    <2> QED  BY <1>1, <1>2, Join!SetInduction
  <1>4. LegsIn(w, Ports) = DOMAIN w.calls
    BY DEF LegsIn, Good, LegsTyped, LegIds
  <1>5. QED
    BY <1>0, <1>3, <1>4

LEMMA FreshCrv ==
    ASSUME NEW w, Good(w), NEW q \in Ports
    PROVE  /\ <<q, NewCrv(w, q), 0>> \in LegIds /\ <<q, NewCrv(w, q), 0>> \notin DOMAIN w.calls
           /\ \A x \in DOMAIN w.calls : w.calls[x].peer # <<q, NewCrv(w, q), 0>>
  <1> DEFINE f == [x \in LegsAt(w, q) |-> x[2]]
             g == [x \in DOMAIN w.calls |-> w.calls[x].peer[2]]
             A == {f[x] : x \in DOMAIN f}
             B == {g[x] : x \in DOMAIN g}
  <1>1. IsFiniteSet(A) /\ Cardinality(A) <= MaxCalls
    <2>1. DOMAIN f = LegsAt(w, q) /\ IsFiniteSet(LegsAt(w, q)) /\ Cardinality(LegsAt(w, q)) <= MaxCalls
      BY LegsFinite DEF Good, Limited
    <2> HIDE DEF f
    <2>2. IsFiniteSet(A) /\ Cardinality(A) <= Cardinality(DOMAIN f)
      BY <2>1, ImageOf
    <2> HIDE DEF A
    <2>3. Cardinality(A) \in Nat /\ Cardinality(LegsAt(w, q)) \in Nat
      BY <2>1, <2>2, FS_CardinalityType
    <2> QED  BY <2>1, <2>2, <2>3, SvcCallsAssumption
  <1>2. IsFiniteSet(B) /\ Cardinality(B) <= MaxCalls * Cardinality(Ports)
    <2>1. DOMAIN g = DOMAIN w.calls /\ IsFiniteSet(DOMAIN w.calls)
      BY LegsFinite
    <2> HIDE DEF g
    <2>2. IsFiniteSet(B) /\ Cardinality(B) <= Cardinality(DOMAIN w.calls)
      BY <2>1, ImageOf
    <2> HIDE DEF B
    <2>3. Cardinality(B) \in Nat /\ Cardinality(DOMAIN w.calls) \in Nat /\ Cardinality(Ports) \in Nat /\ MaxCalls \in Nat
      BY <2>1, <2>2, FS_CardinalityType, SvcCallsAssumption
    <2>4. MaxCalls * Cardinality(Ports) \in Nat /\ Cardinality(DOMAIN w.calls) <= MaxCalls * Cardinality(Ports)
      BY <2>3, FewLegs
    <2> QED  BY <2>2, <2>3, <2>4
  <1> HIDE DEF A, B
  <1>3. \E c \in Crvs : c \notin A \cup B
    <2> SUFFICES ASSUME Crvs \subseteq A \cup B PROVE FALSE
      OBVIOUS
    <2>1. IsFiniteSet(A \cup B) /\ IsFiniteSet(A \cap B)
      BY <1>1, <1>2, FS_Union, FS_Subset
    <2>2. Cardinality(A \cup B) = Cardinality(A) + Cardinality(B) - Cardinality(A \cap B)
      BY <1>1, <1>2, FS_Union
    <2>3. Cardinality(Crvs) <= Cardinality(A \cup B)
      BY <2>1, FS_Subset
    <2>4. /\ Cardinality(A) \in Nat /\ Cardinality(B) \in Nat /\ Cardinality(A \cap B) \in Nat
          /\ Cardinality(Crvs) \in Nat /\ Cardinality(Ports) \in Nat /\ MaxCalls \in Nat
      BY <1>1, <1>2, <2>1, SvcCallsAssumption, FS_CardinalityType
    <2>5. /\ MaxCalls * Cardinality(Ports) \in Nat
          /\ MaxCalls * (Cardinality(Ports) + 1) = MaxCalls * Cardinality(Ports) + MaxCalls
      BY <2>4
    <2>6. Cardinality(Crvs) > MaxCalls * (Cardinality(Ports) + 1)
      BY SvcCallsAssumption
    <2>7. Cardinality(A \cup B) <= MaxCalls * Cardinality(Ports) + MaxCalls
      BY <1>1, <1>2, <2>2, <2>4, <2>5
    <2>8. Cardinality(A \cup B) \in Nat
      BY <2>1, FS_CardinalityType
    <2> QED  BY <2>3, <2>4, <2>5, <2>6, <2>7, <2>8
  <1>4. PICK c \in Crvs : c \notin A /\ c \notin B
    BY <1>3
  <1>5. {<<q, c, 0>>, <<q, c, 1>>} \cap DOMAIN w.calls = {}
    BY <1>4 DEF A, LegsAt
  <1>6. \A x \in DOMAIN w.calls : w.calls[x].peer # <<q, c, 0>>
    BY <1>4 DEF B
  <1>7. /\ NewCrv(w, q) \in Crvs
        /\ {<<q, NewCrv(w, q), 0>>, <<q, NewCrv(w, q), 1>>} \cap DOMAIN w.calls = {}
        /\ \A x \in DOMAIN w.calls : w.calls[x].peer # <<q, NewCrv(w, q), 0>>
    BY <1>5, <1>6, Zenon DEF NewCrv
  <1>8. QED
    BY <1>7 DEF LegIds

-----------------------------------------------------------------------------
(***************************************************************************)
(* Steps that take a DLCI, or add a leg that has none.                     *)
(***************************************************************************)
\* v has leg y beside those of w, or instead of one that had no DLCI; the leg
\* has the DLCI that was taken from the pool of its port.
LEMMA Takes ==
    ASSUME NEW w, Good(w), NEW y \in LegIds, NEW v,
           y \notin DOMAIN w.calls => HasRoom(w, y[1]),
           y \in DOMAIN w.calls => w.calls[y].in \notin OwnRange,
           DOMAIN v = DOMAIN w, DOMAIN v.calls = DOMAIN w.calls \cup {y},
           \A x \in DOMAIN v.calls : IsLeg(v.calls[x]) /\ v.calls[x].peer # x,
           \A x \in DOMAIN w.calls : x # y => v.calls[x].in = w.calls[x].in,
           v.calls[y].in = DlciAlloc(w.pool[y[1]]).dlci,
           v.pool = [w.pool EXCEPT ![y[1]] = DlciAlloc(w.pool[y[1]]).pool],
           v.restart = w.restart /\ v.lapf = w.lapf /\ v.shared = w.shared, SpvcsTyped(v)
    PROVE  Good(v)
  <1> DEFINE p == y[1]
             got == DlciAlloc(w.pool[p])
  <1>1. p \in Ports /\ LegsTyped(v)
    BY DEF Good, LegsTyped, LegIds
  <1>2. PortsTyped(v) /\ v.pool[p] = got.pool /\ \A q \in Ports : q # p => v.pool[q] = w.pool[q]
    BY <1>1 DEF Good, PortsTyped
  <1>3. /\ LegsAt(v, p) = LegsAt(w, p) \cup {y}
        /\ \A q \in Ports : q # p => LegsAt(v, q) = LegsAt(w, q)
    BY DEF LegsAt
  <1>4. \A q : LegsAt(w, q) \subseteq DOMAIN w.calls
    BY DEF LegsAt
  <1>5. Limited(v)
    <2>1. Cardinality(LegsAt(w, p)) \in Nat /\ IsFiniteSet(LegsAt(w, p)) /\ Cardinality(LegsAt(w, p)) <= MaxCalls
      BY <1>1, LegsFinite, FS_CardinalityType DEF Good, Limited
    <2>2. Cardinality(LegsAt(w, p) \cup {y}) = IF y \in LegsAt(w, p) THEN Cardinality(LegsAt(w, p)) ELSE Cardinality(LegsAt(w, p)) + 1
      BY <2>1, FS_AddElement
    <2>3. y \notin LegsAt(w, p) => Cardinality(LegsAt(w, p)) < MaxCalls
      BY DEF HasRoom, LegsAt
    <2>4. Cardinality(LegsAt(v, p)) <= MaxCalls
      BY <1>3, <2>1, <2>2, <2>3, SvcCallsAssumption
    <2>5. \A q \in Ports : q # p => Cardinality(LegsAt(v, q)) <= MaxCalls
      BY <1>3 DEF Good, Limited
    <2> QED  BY <2>4, <2>5 DEF Limited
  <1>6. ASSUME NEW q \in Ports
        PROVE  /\ v.pool[q] \in Seq(Interval) /\ WellFormedPool(v.pool[q]) /\ FreeDlcis(v.pool[q]) \subseteq OwnRange
               /\ \A x, z \in LegsAt(v, q) : v.calls[x].in \in Proper(v, q) /\ v.calls[x].in = v.calls[z].in => x = z
               /\ \A x \in LegsAt(v, q) : v.calls[x].in \in Proper(v, q) => v.calls[x].in \notin FreeDlcis(v.pool[q])
               /\ Roomy => OwnRange \subseteq FreeDlcis(v.pool[q]) \cup {v.calls[x].in : x \in LegsAt(v, q)}
    <2> DEFINE L == LegsAt(w, q)
    <2>1. /\ w.pool[q] \in Seq(Interval) /\ WellFormedPool(w.pool[q]) /\ FreeDlcis(w.pool[q]) \subseteq OwnRange
          /\ \A x, z \in L : w.calls[x].in \in Proper(w, q) /\ w.calls[x].in = w.calls[z].in => x = z
          /\ \A x \in L : w.calls[x].in \in Proper(w, q) => w.calls[x].in \notin FreeDlcis(w.pool[q])
          /\ Roomy => OwnRange \subseteq FreeDlcis(w.pool[q]) \cup {w.calls[x].in : x \in L}
      BY Zenon DEF Good, Accounted
    <2>2. \A x \in L : x # y => v.calls[x].in = w.calls[x].in
      BY <1>4
    <2>0. Proper(v, q) = Proper(w, q) /\ Proper(w, q) \subseteq OwnRange
      BY DEF Proper
    <2>3. CASE q # p
      <3>1. y \notin L /\ LegsAt(v, q) = L /\ v.pool[q] = w.pool[q]
        BY <1>2, <1>3, <2>3 DEF LegsAt
      <3> HIDE DEF L
      <3>2. {v.calls[x].in : x \in L} = {w.calls[x].in : x \in L}
        BY <2>2, <3>1
      <3> QED  BY <2>0, <2>1, <2>2, <3>1, <3>2
    <2>4. CASE q = p
      <3> DEFINE d == got.dlci
                 F == FreeDlcis(w.pool[q])
                 G == FreeDlcis(got.pool)
      <3>1. LegsAt(v, q) = L \cup {y} /\ v.pool[q] = got.pool /\ v.calls[y].in = d
        BY <1>2, <1>3, <2>4
      <3>2. y \in L => w.calls[y].in \notin OwnRange
        BY <1>4
      <3>3. 0 \notin OwnRange
        BY DlciPoolAssumption DEF OwnRange
      <3>4. /\ got.pool \in Seq(Interval) /\ WellFormedPool(got.pool)
            /\ G = F \ {d} /\ (d \in F \/ (F = {} /\ d \notin OwnRange))
        <4>1. /\ got.pool \in Seq(Interval) /\ WellFormedPool(got.pool)
              /\ w.pool[q] = <<>> => got.dlci = 0 /\ got.pool = w.pool[q]
              /\ w.pool[q] # <<>> => got.dlci \in F /\ G = F \ {got.dlci}
          BY <2>1, <2>4, AllocWorks
        <4>2. CASE w.pool[q] = <<>>
          <5>1. F = {}
            BY <4>2, FreeOfEmpty
          <5>2. G = {}
            BY <4>1, <4>2, FreeOfEmpty
          <5> HIDE DEF F, G, got
          <5> QED  BY <3>3, <4>1, <4>2, <5>1, <5>2
        <4>3. CASE w.pool[q] # <<>>
          <5> HIDE DEF F, G, got
          <5> QED  BY <4>1, <4>3
        <4> QED  BY <4>2, <4>3
      <3> HIDE DEF got, L, F, G
      <3>5. F \subseteq OwnRange /\ G \subseteq OwnRange
        BY <2>1, <3>4 DEF F
      <3>6. \A x, z \in L \cup {y} : v.calls[x].in \in Proper(v, q) /\ v.calls[x].in = v.calls[z].in => x = z
        <4>1. \A x \in L : x # y /\ v.calls[x].in = d => d \notin Proper(v, q)
          BY <2>0, <2>1, <2>2, <3>4 DEF F
        <4> QED  BY <2>0, <2>1, <2>2, <3>1, <4>1
      <3>7. \A x \in L \cup {y} : v.calls[x].in \in Proper(v, q) => v.calls[x].in \notin G
        BY <2>0, <2>1, <2>2, <3>1, <3>4 DEF F
      <3>8. Roomy => OwnRange \subseteq G \cup {v.calls[x].in : x \in L \cup {y}}
        <4> SUFFICES ASSUME Roomy, NEW e \in OwnRange, e \notin G PROVE \E x \in L \cup {y} : v.calls[x].in = e
          OBVIOUS
        <4>1. CASE e = d
          BY <3>1, <4>1
        <4>2. CASE e # d
          <5>1. e \notin F
            BY <3>4, <4>2
          <5>2. PICK x \in L : w.calls[x].in = e
            BY <2>1, <5>1 DEF F
          <5>3. x # y
            BY <3>2, <5>2
          <5> QED  BY <2>2, <5>2, <5>3
        <4> QED  BY <4>1, <4>2
      <3> QED  BY <3>1, <3>4, <3>5, <3>6, <3>7, <3>8 DEF G
    <2> QED  BY <2>3, <2>4
  <1>7. Accounted(v)
    BY <1>6, Zenon DEF Accounted
  <1>8. QED
    BY <1>1, <1>2, <1>5, <1>7 DEF Good

LEMMA Adds ==
    ASSUME NEW w, Good(w), NEW y \in LegIds, y \notin DOMAIN w.calls, HasRoom(w, y[1]),
           NEW leg, IsLeg(leg), leg.peer # y, leg.in \notin Proper(w, y[1])
    PROVE  LET v == SetLeg(w, y, leg)
           IN /\ Good(v) /\ DOMAIN v = DOMAIN w /\ DOMAIN v.calls = DOMAIN w.calls \cup {y} /\ v.calls[y] = leg
              /\ v.pool = w.pool
  <1> DEFINE v == SetLeg(w, y, leg)
             p == y[1]
  <1>1. /\ DOMAIN v = DOMAIN w /\ v.pool = w.pool /\ v.spvc = w.spvc /\ v.restart = w.restart /\ v.lapf = w.lapf /\ v.shared = w.shared
        /\ DOMAIN v.calls = DOMAIN w.calls \cup {y} /\ v.calls[y] = leg
        /\ \A x \in DOMAIN w.calls : v.calls[x] = w.calls[x]
    <2> DEFINE c == [x \in DOMAIN w.calls \cup {y} |-> IF x = y THEN leg ELSE w.calls[x]]
    <2>1. v = [w EXCEPT !.calls = c]
      BY DEF SetLeg
    <2>2. DOMAIN v = DOMAIN w /\ v.pool = w.pool /\ v.spvc = w.spvc /\ v.restart = w.restart /\ v.lapf = w.lapf /\ v.shared = w.shared /\ v.calls = c
      <3> HIDE DEF c, v
      <3> QED  BY <2>1 DEF Good
    <2> HIDE DEF v
    <2> QED  BY <2>2
  <1> HIDE DEF v
  <1>2. LegsTyped(v) /\ PortsTyped(v) /\ SpvcsTyped(v) /\ p \in Ports
    BY <1>1 DEF Good, LegsTyped, PortsTyped, SpvcsTyped, LegIds
  <1>3. /\ LegsAt(v, p) = LegsAt(w, p) \cup {y}
        /\ \A q \in Ports : q # p => LegsAt(v, q) = LegsAt(w, q)
    BY <1>1 DEF LegsAt
  <1>4. \A q \in Ports : LegsAt(w, q) \subseteq LegsAt(v, q) /\ LegsAt(v, q) \subseteq LegsAt(w, q) \cup {y}
    BY <1>3
  <1>5. \A q \in Ports : \A x \in LegsAt(w, q) : x # y /\ v.calls[x].in = w.calls[x].in
    BY <1>1 DEF LegsAt
  <1>6. Limited(v)
    <2>1. Cardinality(LegsAt(w, p)) \in Nat /\ IsFiniteSet(LegsAt(w, p)) /\ Cardinality(LegsAt(w, p)) < MaxCalls
      BY <1>2, LegsFinite, FS_CardinalityType DEF HasRoom
    <2>2. Cardinality(LegsAt(w, p) \cup {y}) = IF y \in LegsAt(w, p) THEN Cardinality(LegsAt(w, p)) ELSE Cardinality(LegsAt(w, p)) + 1
      BY <2>1, FS_AddElement
    <2>3. y \notin LegsAt(w, p)
      BY DEF LegsAt
    <2>4. Cardinality(LegsAt(v, p)) <= MaxCalls
      BY <1>3, <2>1, <2>2, <2>3, SvcCallsAssumption
    <2>5. \A q \in Ports : q # p => Cardinality(LegsAt(v, q)) <= MaxCalls
      BY <1>3 DEF Good, Limited
    <2> QED  BY <2>4, <2>5 DEF Limited
  <1>7. ASSUME NEW q \in Ports
        PROVE  /\ v.pool[q] \in Seq(Interval) /\ WellFormedPool(v.pool[q]) /\ FreeDlcis(v.pool[q]) \subseteq OwnRange
               /\ \A x, z \in LegsAt(v, q) : v.calls[x].in \in Proper(v, q) /\ v.calls[x].in = v.calls[z].in => x = z
               /\ \A x \in LegsAt(v, q) : v.calls[x].in \in Proper(v, q) => v.calls[x].in \notin FreeDlcis(v.pool[q])
               /\ Roomy => OwnRange \subseteq FreeDlcis(v.pool[q]) \cup {v.calls[x].in : x \in LegsAt(v, q)}
    <2> DEFINE L == LegsAt(w, q)
               M == LegsAt(v, q)
    <2>1. /\ w.pool[q] \in Seq(Interval) /\ WellFormedPool(w.pool[q]) /\ FreeDlcis(w.pool[q]) \subseteq OwnRange
          /\ \A x, z \in L : w.calls[x].in \in Proper(w, q) /\ w.calls[x].in = w.calls[z].in => x = z
          /\ \A x \in L : w.calls[x].in \in Proper(w, q) => w.calls[x].in \notin FreeDlcis(w.pool[q])
          /\ Roomy => OwnRange \subseteq FreeDlcis(w.pool[q]) \cup {w.calls[x].in : x \in L}
      BY Zenon DEF Good, Accounted
    <2>2. /\ v.pool[q] = w.pool[q] /\ L \subseteq M /\ M \subseteq L \cup {y}
          /\ \A x \in L : v.calls[x].in = w.calls[x].in
          /\ y \in M => v.calls[y].in \notin Proper(w, q)
      BY <1>1, <1>4, <1>5 DEF LegsAt
    <2>0. Proper(v, q) = Proper(w, q)
      BY <1>1 DEF Proper
    <2> HIDE DEF L, M
    <2>3. Roomy => OwnRange \subseteq FreeDlcis(w.pool[q]) \cup {v.calls[x].in : x \in M}
      <3> SUFFICES ASSUME Roomy, NEW e \in OwnRange, e \notin FreeDlcis(w.pool[q]) PROVE \E x \in M : v.calls[x].in = e
        OBVIOUS
      <3>1. PICK x \in L : w.calls[x].in = e
        BY <2>1
      <3> QED  BY <2>2, <3>1
    <2>4. \A x, z \in M : v.calls[x].in \in Proper(v, q) /\ v.calls[x].in = v.calls[z].in => x = z
      BY <2>0, <2>1, <2>2
    <2>5. \A x \in M : v.calls[x].in \in Proper(v, q) => v.calls[x].in \notin FreeDlcis(w.pool[q])
      BY <2>0, <2>1, <2>2
    <2> QED  BY <2>1, <2>2, <2>3, <2>4, <2>5 DEF M
  <1>8. Accounted(v)
    BY <1>7, Zenon DEF Accounted
  <1>9. Good(v)
    BY <1>1, <1>2, <1>6, <1>8 DEF Good
  <1>10. QED
    BY <1>1, <1>9 DEF v

\* A neighbour's proposal takes the DLCI out of the account.
LEMMA Claimed ==
    ASSUME NEW w, Good(w), NEW p, NEW dlci
    PROVE  LET v == Claim(w, <<p, dlci>>)
           IN Good(v) /\ v.calls = w.calls /\ v.pool = w.pool /\ dlci \notin Proper(v, p)
  <1> DEFINE at == <<p, dlci>>
             v == Claim(w, at)
             u == [w EXCEPT !.shared = @ \cup {at}]
  <1>1. v = u \/ (v = w /\ dlci \notin OwnRange)
    BY Zenon DEF Claim
  <1>2. /\ DOMAIN u = DOMAIN w /\ u.calls = w.calls /\ u.pool = w.pool /\ u.spvc = w.spvc
        /\ u.restart = w.restart /\ u.lapf = w.lapf /\ u.shared = w.shared \cup {at}
    BY DEF Good
  <1> HIDE DEF u
  <1>3. LegsTyped(u) /\ Limited(u) /\ PortsTyped(u) /\ SpvcsTyped(u)
    BY <1>2 DEF Good, LegsTyped, Limited, LegsAt, PortsTyped, SpvcsTyped
  <1>4. ASSUME NEW q \in Ports
        PROVE  /\ u.pool[q] \in Seq(Interval) /\ WellFormedPool(u.pool[q]) /\ FreeDlcis(u.pool[q]) \subseteq OwnRange
               /\ \A y, z \in LegsAt(u, q) : u.calls[y].in \in Proper(u, q) /\ u.calls[y].in = u.calls[z].in => y = z
               /\ \A y \in LegsAt(u, q) : u.calls[y].in \in Proper(u, q) => u.calls[y].in \notin FreeDlcis(u.pool[q])
               /\ Roomy => OwnRange \subseteq FreeDlcis(u.pool[q]) \cup {u.calls[y].in : y \in LegsAt(u, q)}
    <2> DEFINE L == LegsAt(w, q)
    <2>1. /\ w.pool[q] \in Seq(Interval) /\ WellFormedPool(w.pool[q]) /\ FreeDlcis(w.pool[q]) \subseteq OwnRange
          /\ \A y, z \in L : w.calls[y].in \in Proper(w, q) /\ w.calls[y].in = w.calls[z].in => y = z
          /\ \A y \in L : w.calls[y].in \in Proper(w, q) => w.calls[y].in \notin FreeDlcis(w.pool[q])
          /\ Roomy => OwnRange \subseteq FreeDlcis(w.pool[q]) \cup {w.calls[y].in : y \in L}
      BY Zenon DEF Good, Accounted
    <2>2. LegsAt(u, q) = L /\ u.calls = w.calls /\ u.pool = w.pool
      BY <1>2 DEF LegsAt
    <2>3. Proper(u, q) \subseteq Proper(w, q)
      BY <1>2 DEF Proper
    <2> HIDE DEF L
    <2> QED  BY <2>1, <2>2, <2>3
  <1>5. Accounted(u)
    BY <1>4, Zenon DEF Accounted
  <1>6. Good(u)
    BY <1>2, <1>3, <1>5 DEF Good
  <1>7. dlci \in OwnRange => dlci \notin Proper(u, p)
    BY <1>2 DEF Proper
  <1>8. dlci \notin OwnRange => dlci \notin Proper(w, p) /\ dlci \notin Proper(u, p)
    BY DEF Proper
  <1> HIDE DEF v
  <1>9. Good(v) /\ v.calls = w.calls /\ v.pool = w.pool /\ dlci \notin Proper(v, p)
    BY <1>1, <1>2, <1>6, <1>7, <1>8
  <1>10. QED
    BY <1>9 DEF v

-----------------------------------------------------------------------------
(***************************************************************************)
(* Clearing.                                                               *)
(***************************************************************************)
LEMMA ClearedBeforeActive ==
    ASSUME NEW w, Good(w), NEW x \in DOMAIN w.calls
    PROVE  Sheds(w, ClearBeforeActive(w, x), {x})
  <1> DEFINE w1 == DestroyDataPvcs(w, x)
  <1>1. Sheds(w, w1, {}) /\ x \in DOMAIN w1.calls
    BY PathDestroyed DEF Sheds
  <1>2. \/ ClearBeforeActive(w, x) = Await(w1, x, "N12", {"T305"})
        \/ ClearBeforeActive(w, x) = FreeCall(w1, x)
        \/ ClearBeforeActive(w, x) = Await(w1, x, "N19", {"T308"})
    BY Zenon DEF ClearBeforeActive
  <1> HIDE DEF w1
  <1>3. Sheds(w1, Await(w1, x, "N12", {"T305"}), {}) /\ Sheds(w1, Await(w1, x, "N19", {"T308"}), {})
    BY <1>1, Awaits DEF Sheds, LegStates, Timers
  <1>4. Sheds(w1, FreeCall(w1, x), {x})
    BY <1>1, CallFreed DEF Sheds
  <1>5. QED
    BY <1>1, <1>2, <1>3, <1>4 DEF Sheds

LEMMA ClearedNni ==
    ASSUME NEW w, Good(w), NEW x \in DOMAIN w.calls
    PROVE  Sheds(w, NniClear(w, x), {x})
  <1> DEFINE w1 == DestroyDataPvcs(w, x)
  <1>1. Sheds(w, w1, {}) /\ x \in DOMAIN w1.calls
    BY PathDestroyed DEF Sheds
  <1>2. NniClear(w, x) = FreeCall(w1, x) \/ NniClear(w, x) = Await(w1, x, "N11", {"T308"})
    BY Zenon DEF NniClear
  <1> HIDE DEF w1
  <1>3. Sheds(w1, Await(w1, x, "N11", {"T308"}), {})
    BY <1>1, Awaits DEF Sheds, LegStates, Timers
  <1>4. Sheds(w1, FreeCall(w1, x), {x})
    BY <1>1, CallFreed DEF Sheds
  <1>5. QED
    BY <1>1, <1>2, <1>3, <1>4 DEF Sheds

LEMMA Cleared ==
    ASSUME NEW w, Good(w), NEW x \in DOMAIN w.calls
    PROVE  Sheds(w, Clear(w, x), {x})
  BY ClearedBeforeActive, ClearedNni DEF Clear

\* Leg x is still there when its peer has been told.
LEMMA Forwarded ==
    ASSUME NEW w, Good(w), NEW x \in DOMAIN w.calls
    PROVE  Good(ForwardClearing(w, x)) /\ x \in DOMAIN ForwardClearing(w, x).calls
  <1> DEFINE y == w.calls[x].peer
             w1 == DestroyDataPvcs(w, y)
  <1>1. CASE HasPeer(w, x)
    <2>1. y \in DOMAIN w.calls /\ y # x
      BY <1>1 DEF HasPeer, Good, LegsTyped
    <2>2. Sheds(w, w1, {})
      BY PathDestroyed
    <2>3. ForwardClearing(w, x) = Clear(w1, y)
      BY <1>1, Zenon DEF ForwardClearing
    <2> HIDE DEF w1
    <2>4. Sheds(w1, Clear(w1, y), {y})
      BY <2>1, <2>2, Cleared DEF Sheds
    <2> QED  BY <2>1, <2>2, <2>3, <2>4 DEF Sheds
  <1>2. CASE ~HasPeer(w, x)
    BY <1>2 DEF ForwardClearing
  <1>3. QED
    BY <1>1, <1>2

LEMMA Dropped ==
    ASSUME NEW w, Good(w), NEW x
    PROVE  Good(NniDrop(w, x))
  <1>1. CASE x \in DOMAIN w.calls
    <2> DEFINE w1 == DestroyDataPvcs(w, x)
               w2 == ForwardClearing(w1, x)
    <2>1. NniDrop(w, x) = FreeCall(w2, x)
      BY <1>1 DEF NniDrop
    <2>2. Good(w1) /\ x \in DOMAIN w1.calls
      BY <1>1, PathDestroyed DEF Sheds
    <2> HIDE DEF w1
    <2>3. Good(w2) /\ x \in DOMAIN w2.calls
      BY <2>2, Forwarded
    <2> HIDE DEF w2
    <2> QED  BY <2>1, <2>3, CallFreed DEF Sheds
  <1>2. CASE x \notin DOMAIN w.calls
    BY <1>2 DEF NniDrop
  <1>3. QED
    BY <1>1, <1>2

-----------------------------------------------------------------------------
(***************************************************************************)
(* Timers.                                                                 *)
(***************************************************************************)
LEMMA SetupGivenUp ==
    ASSUME NEW w, Good(w), NEW x \in DOMAIN w.calls
    PROVE  Good(GiveUpSetup(w, x))
  <1> DEFINE y == w.calls[x].peer
             w1 == DestroyDataPvcs(w, x)
             w2 == DestroyDataPvcs(w1, y)
             told == Await(w2, y, "N11", w2.calls[y].timers \cup {"T308"})
             w3 == IF ~HasPeer(w, x) THEN w1 ELSE IF y[1] \in Nni THEN told ELSE FreeCall(w2, y)
  <1>1. GiveUpSetup(w, x) = FreeCall(w3, x)
    BY Zenon DEF GiveUpSetup
  <1>2. Sheds(w, w1, {})
    BY PathDestroyed
  <1>3. Sheds(w1, w2, {})
    <2> HIDE DEF w1
    <2> QED  BY <1>2, PathDestroyed DEF Sheds
  <1>4. Good(w3) /\ x \in DOMAIN w3.calls
    <2>1. CASE ~HasPeer(w, x)
      BY <1>2, <2>1 DEF Sheds
    <2>2. CASE HasPeer(w, x)
      <3>1. y \in DOMAIN w.calls /\ y # x
        BY <2>2 DEF HasPeer, Good, LegsTyped
      <3>2. w3 = told \/ w3 = FreeCall(w2, y)
        BY <2>2
      <3> HIDE DEF w1, w2, w3
      <3>3. Good(w2) /\ y \in DOMAIN w2.calls /\ x \in DOMAIN w2.calls
        BY <1>2, <1>3, <3>1 DEF Sheds
      <3>4. w2.calls[y].timers \cup {"T308"} \in SUBSET Timers
        BY <3>3 DEF Good, LegsTyped, IsLeg, Timers
      <3>5. Sheds(w2, told, {})
        <4>1. "N11" \in LegStates
          BY DEF LegStates
        <4> QED  BY <3>3, <3>4, <4>1, Awaits
      <3>6. Sheds(w2, FreeCall(w2, y), {y})
        BY <3>3, CallFreed
      <3> QED  BY <3>1, <3>2, <3>3, <3>5, <3>6 DEF Sheds
    <2> QED  BY <2>1, <2>2
  <1> HIDE DEF w3
  <1>5. QED
    BY <1>1, <1>4, CallFreed DEF Sheds

LEMMA ReleaseGivenUp ==
    ASSUME NEW w, Good(w), NEW x \in DOMAIN w.calls
    PROVE  Good(GiveUpRelease(w, x))
  <1> DEFINE y == w.calls[x].peer
             w1 == DestroyDataPvcs(w, x)
             w2 == DestroyDataPvcs(w1, y)
             w3 == IF HasPeer(w, x) THEN FreeCall(w2, y) ELSE w1
  <1>1. GiveUpRelease(w, x) = FreeCall(w3, x)
    BY Zenon DEF GiveUpRelease
  <1>2. Sheds(w, w1, {})
    BY PathDestroyed
  <1>3. Sheds(w1, w2, {})
    <2> HIDE DEF w1
    <2> QED  BY <1>2, PathDestroyed DEF Sheds
  <1>4. Good(w3) /\ x \in DOMAIN w3.calls
    <2>1. CASE ~HasPeer(w, x)
      BY <1>2, <2>1 DEF Sheds
    <2>2. CASE HasPeer(w, x)
      <3>1. y \in DOMAIN w.calls /\ y # x
        BY <2>2 DEF HasPeer, Good, LegsTyped
      <3>2. w3 = FreeCall(w2, y)
        BY <2>2
      <3> HIDE DEF w1, w2, w3
      <3>3. Good(w2) /\ y \in DOMAIN w2.calls /\ x \in DOMAIN w2.calls
        BY <1>2, <1>3, <3>1 DEF Sheds
      <3>4. Sheds(w2, FreeCall(w2, y), {y})
        BY <3>3, CallFreed
      <3> QED  BY <3>1, <3>2, <3>3, <3>4 DEF Sheds
    <2> QED  BY <2>1, <2>2
  <1> HIDE DEF w3
  <1>5. QED
    BY <1>1, <1>4, CallFreed DEF Sheds

LEMMA NotConnected ==
    ASSUME NEW w, Good(w), NEW x \in DOMAIN w.calls
    PROVE  Good(NoConnect(w, x))
  <1> DEFINE y == w.calls[x].peer
             w1 == IF HasPeer(w, x) THEN ClearBeforeActive(w, y) ELSE w
  <1>1. CASE x[1] \in Nni
    <2>1. NoConnect(w, x) = Await(w, x, "N11", w.calls[x].timers \cup {"T308"})
      BY <1>1, Zenon DEF NoConnect
    <2>2. w.calls[x].timers \cup {"T308"} \in SUBSET Timers /\ "N11" \in LegStates
      BY DEF Good, LegsTyped, IsLeg, Timers, LegStates
    <2> QED  BY <2>1, <2>2, Awaits DEF Sheds
  <1>2. CASE x[1] \notin Nni
    <2>1. NoConnect(w, x) = ClearBeforeActive(w1, x)
      BY <1>2, Zenon DEF NoConnect
    <2>2. Good(w1) /\ x \in DOMAIN w1.calls
      <3>1. HasPeer(w, x) => y \in DOMAIN w.calls /\ y # x
        BY DEF HasPeer, Good, LegsTyped
      <3> QED  BY <3>1, ClearedBeforeActive DEF Sheds
    <2> HIDE DEF w1
    <2> QED  BY <2>1, <2>2, ClearedBeforeActive DEF Sheds
  <1>3. QED
    BY <1>1, <1>2

LEMMA TimerExpires ==
    ASSUME NEW w, Good(w), NEW x \in DOMAIN w.calls, NEW t \in w.calls[x].timers
    PROVE  Good(Expired(w, x, t))
  <1> DEFINE off == [w EXCEPT !.calls[x].timers = @ \ {t}]
             n303 == [w EXCEPT !.calls[x].n303 = 1]
             n308 == [w EXCEPT !.calls[x].n308 = 1]
             w1 == DestroyDataPvcs(off, x)
             disc == Await(w1, x, ReleaseState(x[1]), off.calls[x].timers \cup {"T308"})
  <1>1. t \in Timers
    BY DEF Good, LegsTyped, IsLeg
  <1>2. \/ Expired(w, x, t) = n303 \/ Expired(w, x, t) = n308
        \/ Expired(w, x, t) = GiveUpSetup(off, x) \/ Expired(w, x, t) = GiveUpRelease(off, x)
        \/ Expired(w, x, t) = NoConnect(off, x) \/ Expired(w, x, t) = disc
    <2>1. t = "T303" \/ t = "T305" \/ t = "T308" \/ t = "T310"
      BY <1>1 DEF Timers
    <2> QED  BY <2>1, Zenon DEF Expired
  <1>3. Sheds(w, off, {})
    <2>1. ButFor(w, off, x)
      BY DEF ButFor, Good
    <2>2. IsLeg(off.calls[x]) /\ off.calls[x].peer = w.calls[x].peer /\ off.calls[x].in = w.calls[x].in
      BY DEF Good, LegsTyped, IsLeg
    <2> HIDE DEF off
    <2> QED  BY <2>1, <2>2, Edit
  <1>4. Sheds(w, n303, {})
    <2>1. ButFor(w, n303, x)
      BY DEF ButFor, Good
    <2>2. IsLeg(n303.calls[x]) /\ n303.calls[x].peer = w.calls[x].peer /\ n303.calls[x].in = w.calls[x].in
      BY DEF Good, LegsTyped, IsLeg
    <2> HIDE DEF n303
    <2> QED  BY <2>1, <2>2, Edit
  <1>5. Sheds(w, n308, {})
    <2>1. ButFor(w, n308, x)
      BY DEF ButFor, Good
    <2>2. IsLeg(n308.calls[x]) /\ n308.calls[x].peer = w.calls[x].peer /\ n308.calls[x].in = w.calls[x].in
      BY DEF Good, LegsTyped, IsLeg
    <2> HIDE DEF n308
    <2> QED  BY <2>1, <2>2, Edit
  <1> HIDE DEF off, n303, n308
  <1>6. Good(off) /\ x \in DOMAIN off.calls
    BY <1>3 DEF Sheds
  <1>7. Good(GiveUpSetup(off, x)) /\ Good(GiveUpRelease(off, x)) /\ Good(NoConnect(off, x))
    BY <1>6, SetupGivenUp, ReleaseGivenUp, NotConnected
  <1>8. Good(disc)
    <2>1. Good(w1) /\ x \in DOMAIN w1.calls
      BY <1>6, PathDestroyed DEF Sheds
    <2>2. off.calls[x].timers \cup {"T308"} \in SUBSET Timers
      BY <1>6 DEF Good, LegsTyped, IsLeg, Timers
    <2>3. ReleaseState(x[1]) \in LegStates
      BY DEF ReleaseState, LegStates
    <2> HIDE DEF w1
    <2> QED  BY <2>1, <2>2, <2>3, Awaits DEF Sheds
  <1>9. QED
    BY <1>2, <1>4, <1>5, <1>7, <1>8 DEF Sheds

-----------------------------------------------------------------------------
(***************************************************************************)
(* Soft PVCs.                                                              *)
(***************************************************************************)
LEMMA SpvcMoves ==
    ASSUME NEW w, Good(w), NEW v, DOMAIN v = DOMAIN w, v.pool = w.pool, v.calls = w.calls, v.restart = w.restart /\ v.lapf = w.lapf /\ v.shared = w.shared,
           SpvcsTyped(v)
    PROVE  Sheds(w, v, {})
  <1>1. \A y \in DOMAIN w.calls : IsLeg(v.calls[y]) /\ v.calls[y].peer # y /\ v.calls[y].in = w.calls[y].in
    BY DEF Good, LegsTyped
  <1>2. PortsTyped(v)
    BY DEF Good, PortsTyped
  <1>3. QED
    BY <1>1, <1>2, Alike

LEMMA SpvcSetTo ==
    ASSUME NEW w, Good(w), NEW i, NEW state \in {"idle", "setup", "connected", "retry"}, NEW x
    PROVE  Sheds(w, SpvcTo(w, i, state, x), {}) /\ SpvcTo(w, i, state, x).calls = w.calls
  <1> DEFINE v == SpvcTo(w, i, state, x)
  <1>1. DOMAIN v = DOMAIN w /\ v.pool = w.pool /\ v.calls = w.calls /\ v.restart = w.restart /\ v.lapf = w.lapf /\ v.shared = w.shared
    BY DEF Good, SpvcTo
  <1>2. SpvcsTyped(v)
    BY DEF Good, SpvcTo, SpvcsTyped, IsSpvc
  <1> HIDE DEF v
  <1>3. Sheds(w, v, {})
    BY <1>1, <1>2, SpvcMoves
  <1>4. QED
    BY <1>1, <1>3 DEF v

LEMMA SpvcStateSet ==
    ASSUME NEW w, Good(w), NEW i, NEW state \in {"idle", "setup", "connected", "retry"}
    PROVE  Sheds(w, [w EXCEPT !.spvc[i].state = state], {})
  <1> DEFINE v == [w EXCEPT !.spvc[i].state = state]
  <1>1. DOMAIN v = DOMAIN w /\ v.pool = w.pool /\ v.calls = w.calls /\ v.restart = w.restart /\ v.lapf = w.lapf /\ v.shared = w.shared
    BY DEF Good
  <1>2. SpvcsTyped(v)
    BY DEF Good, SpvcsTyped, IsSpvc
  <1> HIDE DEF v
  <1>3. Sheds(w, v, {})
    BY <1>1, <1>2, SpvcMoves
  <1>4. QED
    BY <1>3 DEF v

LEMMA Accepted ==
    ASSUME NEW w, Good(w), NEW x \in DOMAIN w.calls, NEW i
    PROVE  Good(Accept(w, x, i))
  <1> DEFINE w1 == SpvcTo(w, i, "connected", x)
             t == AddPvc(w1.tab, NearEnd(w, x), AccessPoint(i))
             v == [w1 EXCEPT !.tab = t, !.calls[x].state = "N10"]
  <1>1. Accept(w, x, i) = v
    BY Zenon DEF Accept
  <1>2. Good(w1) /\ x \in DOMAIN w1.calls
    BY SpvcSetTo DEF Sheds
  <1> HIDE DEF t, w1
  <1>3. ButFor(w1, v, x)
    BY <1>2 DEF ButFor, Good
  <1>4. IsLeg(v.calls[x]) /\ v.calls[x].peer = w1.calls[x].peer /\ v.calls[x].in = w1.calls[x].in
    BY <1>2 DEF Good, LegsTyped, IsLeg, LegStates
  <1> HIDE DEF v
  <1>5. Sheds(w1, v, {})
    BY <1>2, <1>3, <1>4, Edit
  <1>6. QED
    BY <1>1, <1>5 DEF Sheds

LEMMA AcceptedSvcToPvc ==
    ASSUME NEW w, Good(w), NEW x \in DOMAIN w.calls, NEW i
    PROVE  Good(AcceptSvcToPvc(w, x, i))
  <1> DEFINE v == [w EXCEPT !.calls[x].outPort = Spvcs[i].port, !.calls[x].out = Spvcs[i].dlci]
  <1>1. AcceptSvcToPvc(w, x, i) = Accept(v, x, i)
    BY Zenon DEF AcceptSvcToPvc
  <1>2. ButFor(w, v, x)
    BY DEF ButFor, Good
  <1>3. IsLeg(v.calls[x]) /\ v.calls[x].peer = w.calls[x].peer /\ v.calls[x].in = w.calls[x].in
    BY DEF Good, LegsTyped, IsLeg
  <1> HIDE DEF v
  <1>4. Sheds(w, v, {})
    BY <1>2, <1>3, Edit
  <1>5. Good(v) /\ x \in DOMAIN v.calls
    BY <1>4 DEF Sheds
  <1>6. QED
    BY <1>1, <1>5, Accepted

LEMMA SpvcAnswered ==
    ASSUME NEW w, Good(w), NEW x \in DOMAIN w.calls, NEW assigned
    PROVE  Good(SpvcConnected(w, x, assigned))
  <1> DEFINE i == SpvcOf(w, x)
             t == AddPvc(w.tab, AccessPoint(i), NearEnd(w, x))
             v == [w EXCEPT !.spvc[i].state = "connected", !.tab = t]
  <1>1. \/ SpvcConnected(w, x, assigned) = w \/ SpvcConnected(w, x, assigned) = v
        \/ SpvcConnected(w, x, assigned) = NniClear(w, x)
    BY Zenon DEF SpvcConnected
  <1> HIDE DEF i, t
  <1>2. DOMAIN v = DOMAIN w /\ v.pool = w.pool /\ v.calls = w.calls /\ v.restart = w.restart /\ v.lapf = w.lapf /\ v.shared = w.shared
    BY DEF Good
  <1>3. SpvcsTyped(v)
    BY DEF Good, SpvcsTyped, IsSpvc
  <1> HIDE DEF v
  <1>4. Sheds(w, v, {})
    BY <1>2, <1>3, SpvcMoves
  <1>5. QED
    BY <1>1, <1>4, ClearedNni DEF Sheds

LEMMA SpvcLetGo ==
    ASSUME NEW w, Good(w), NEW x
    PROVE  Sheds(w, SpvcReleased(w, x), {})
  <1> DEFINE i == SpvcOf(w, x)
             t == DelPvc(DelPvc(w.tab, AccessPoint(i)), NearEnd(w, x))
             v == [w EXCEPT !.tab = t, !.spvc[i].state = "retry", !.spvc[i].crv = 0]
  <1>1. SpvcReleased(w, x) = w \/ SpvcReleased(w, x) = v
    BY Zenon DEF SpvcReleased
  <1> HIDE DEF i, t
  <1>2. DOMAIN v = DOMAIN w /\ v.pool = w.pool /\ v.calls = w.calls /\ v.restart = w.restart /\ v.lapf = w.lapf /\ v.shared = w.shared
    BY DEF Good
  <1>3. SpvcsTyped(v)
    BY DEF Good, SpvcsTyped, IsSpvc
  <1> HIDE DEF v
  <1>4. Sheds(w, v, {})
    BY <1>2, <1>3, SpvcMoves
  <1>5. QED
    BY <1>1, <1>4 DEF Sheds

-----------------------------------------------------------------------------
(***************************************************************************)
(* The messages of a user.                                                 *)
(***************************************************************************)
LEMMA SwitchCalled ==
    ASSUME NEW w, Good(w), NEW x \in DOMAIN w.calls
    PROVE  Good(VirtualSwitch(w, x))
  <1> DEFINE v == [w EXCEPT !.calls[x] = [@ EXCEPT !.state = "N10", !.out = w.calls[x].in, !.outPort = x[1]]]
  <1>1. VirtualSwitch(w, x) = CreateDataPvcs(v, x)
    BY Zenon DEF VirtualSwitch
  <1>2. ButFor(w, v, x)
    BY DEF ButFor, Good
  <1>3. IsLeg(v.calls[x]) /\ v.calls[x].peer = w.calls[x].peer /\ v.calls[x].in = w.calls[x].in
    BY DEF Good, LegsTyped, IsLeg, LegStates
  <1> HIDE DEF v
  <1>4. Sheds(w, v, {})
    BY <1>2, <1>3, Edit
  <1>5. QED
    BY <1>1, <1>4, PathCreated DEF Sheds

LEMMA BothCleared ==
    ASSUME NEW w, Good(w), NEW x \in DOMAIN w.calls
    PROVE  Good(ClearBoth(w, x))
  <1> DEFINE w1 == ClearBeforeActive(w, x)
             y == w.calls[x].peer
  <1>1. ClearBoth(w, x) = IF HasPeer(w, x) THEN ClearBeforeActive(w1, y) ELSE w1
    BY Zenon DEF ClearBoth
  <1>2. Sheds(w, w1, {x})
    BY ClearedBeforeActive
  <1>3. HasPeer(w, x) => y \in DOMAIN w1.calls
    <2>1. HasPeer(w, x) => y \in DOMAIN w.calls /\ y # x
      BY DEF HasPeer, Good, LegsTyped
    <2> HIDE DEF w1
    <2> QED  BY <1>2, <2>1 DEF Sheds
  <1> HIDE DEF w1
  <1>4. QED
    BY <1>1, <1>2, <1>3, ClearedBeforeActive DEF Sheds

LEMMA UniProceeds ==
    ASSUME NEW w, Good(w), NEW x \in DOMAIN w.calls, NEW q
    PROVE  Good(UniCallProceeding(w, x, q))
  <1> DEFINE v == [w EXCEPT !.calls[x].state = "N9", !.calls[x].timers = (@ \ {"T303"}) \cup {"T310"}]
  <1>1. UniCallProceeding(w, x, q) = w \/ UniCallProceeding(w, x, q) = ClearBoth(w, x) \/ UniCallProceeding(w, x, q) = v
    BY Zenon DEF UniCallProceeding
  <1>2. ButFor(w, v, x)
    BY DEF ButFor, Good
  <1>3. IsLeg(v.calls[x]) /\ v.calls[x].peer = w.calls[x].peer /\ v.calls[x].in = w.calls[x].in
    BY DEF Good, LegsTyped, IsLeg, LegStates, Timers
  <1> HIDE DEF v
  <1>4. Sheds(w, v, {})
    BY <1>2, <1>3, Edit
  <1>5. QED
    BY <1>1, <1>4, BothCleared DEF Sheds

LEMMA AnsweredIs ==
    ASSUME NEW w, Good(w), NEW x \in DOMAIN w.calls
    PROVE  Sheds(w, Answered(w, x), {})
  <1> DEFINE v == Answered(w, x)
  <1>1. ButFor(w, v, x)
    BY DEF ButFor, Good, Answered
  <1>2. IsLeg(v.calls[x]) /\ v.calls[x].peer = w.calls[x].peer /\ v.calls[x].in = w.calls[x].in
    BY DEF Good, LegsTyped, IsLeg, LegStates, Answered
  <1> HIDE DEF v
  <1>3. Sheds(w, v, {})
    BY <1>1, <1>2, Edit
  <1>4. QED
    BY <1>3 DEF v

LEMMA UniConnects ==
    ASSUME NEW w, Good(w), NEW x \in DOMAIN w.calls, NEW q
    PROVE  Good(UniConnect(w, x, q))
  <1> DEFINE y == w.calls[x].peer
             w1 == Answered(w, x)
             w2 == [w1 EXCEPT !.calls[y].state = "N10", !.calls[y].timers = @ \ {"T310"}]
  <1>1. \/ UniConnect(w, x, q) = w \/ UniConnect(w, x, q) = ClearBeforeActive(w, x)
        \/ UniConnect(w, x, q) = ClearBoth(w, x) \/ UniConnect(w, x, q) = w1
        \/ HasPeer(w, x) /\ UniConnect(w, x, q) = CreateDataPvcs(w2, x)
    BY Zenon DEF UniConnect
  <1>2. Sheds(w, w1, {})
    BY AnsweredIs
  <1>3. HasPeer(w, x) => y \in DOMAIN w1.calls
    <2> HIDE DEF w1
    <2> QED  BY <1>2 DEF HasPeer, Sheds
  <1> HIDE DEF w1, y
  <1>4. ASSUME HasPeer(w, x) PROVE Good(CreateDataPvcs(w2, x))
    <2>1. Good(w1) /\ y \in DOMAIN w1.calls
      BY <1>2, <1>3, <1>4 DEF Sheds
    <2>2. ButFor(w1, w2, y)
      BY <2>1 DEF ButFor, Good
    <2>3. IsLeg(w2.calls[y]) /\ w2.calls[y].peer = w1.calls[y].peer /\ w2.calls[y].in = w1.calls[y].in
      BY <2>1 DEF Good, LegsTyped, IsLeg, LegStates
    <2> HIDE DEF w2
    <2>4. Sheds(w1, w2, {})
      BY <2>1, <2>2, <2>3, Edit
    <2> QED  BY <2>4, PathCreated DEF Sheds
  <1> HIDE DEF w2
  <1>5. QED
    BY <1>1, <1>2, <1>4, BothCleared, ClearedBeforeActive DEF Sheds

LEMMA UniAcknowledges ==
    ASSUME NEW w, Good(w), NEW x \in DOMAIN w.calls
    PROVE  Good(UniConnectAck(w, x))
  <1> DEFINE v == [w EXCEPT !.calls[x].state = "N10"]
  <1>1. UniConnectAck(w, x) = CreateDataPvcs(v, x)
    BY Zenon DEF UniConnectAck
  <1>2. ButFor(w, v, x)
    BY DEF ButFor, Good
  <1>3. IsLeg(v.calls[x]) /\ v.calls[x].peer = w.calls[x].peer /\ v.calls[x].in = w.calls[x].in
    BY DEF Good, LegsTyped, IsLeg, LegStates
  <1> HIDE DEF v
  <1>4. Sheds(w, v, {})
    BY <1>2, <1>3, Edit
  <1>5. QED
    BY <1>1, <1>4, PathCreated DEF Sheds

LEMMA UniDisconnects ==
    ASSUME NEW w, Good(w), NEW x \in DOMAIN w.calls
    PROVE  Good(UniDisconnect(w, x))
  <1> DEFINE c == w.calls[x]
             y == c.peer
             w1 == DestroyDataPvcs(w, x)
             w2 == DestroyDataPvcs(w1, y)
             w3 == IF ~HasPeer(w, x) THEN w1 ELSE IF y[1] \in Nni THEN NniClear(w2, y) ELSE Await(w2, y, "N12", {"T305"})
             kept == IF c.state = "N12" THEN c.timers \ {"T305"} ELSE c.timers
             v == [w3 EXCEPT !.calls[x].state = "N19", !.calls[x].timers = kept \cup {"T308"}]
  <1>1. UniDisconnect(w, x) = w \/ UniDisconnect(w, x) = v
    BY Zenon DEF UniDisconnect
  <1>2. Sheds(w, w1, {})
    BY PathDestroyed
  <1>3. Sheds(w1, w2, {})
    <2> HIDE DEF w1
    <2> QED  BY <1>2, PathDestroyed DEF Sheds
  <1>4. Good(w3) /\ x \in DOMAIN w3.calls
    <2>1. CASE ~HasPeer(w, x)
      BY <1>2, <2>1 DEF Sheds
    <2>2. CASE HasPeer(w, x)
      <3>1. y \in DOMAIN w.calls /\ y # x
        BY <2>2 DEF HasPeer, Good, LegsTyped
      <3>2. w3 = NniClear(w2, y) \/ w3 = Await(w2, y, "N12", {"T305"})
        BY <2>2
      <3> HIDE DEF w1, w2, w3
      <3>3. Good(w2) /\ y \in DOMAIN w2.calls /\ x \in DOMAIN w2.calls
        BY <1>2, <1>3, <3>1 DEF Sheds
      <3>4. Sheds(w2, NniClear(w2, y), {y})
        BY <3>3, ClearedNni
      <3>5. Sheds(w2, Await(w2, y, "N12", {"T305"}), {})
        BY <3>3, Awaits DEF LegStates, Timers
      <3> QED  BY <3>1, <3>2, <3>3, <3>4, <3>5 DEF Sheds
    <2> QED  BY <2>1, <2>2
  <1>5. kept \in SUBSET Timers
    BY DEF Good, LegsTyped, IsLeg
  <1> HIDE DEF w3, kept
  <1>6. ButFor(w3, v, x)
    BY <1>4 DEF ButFor, Good
  <1>7. IsLeg(v.calls[x]) /\ v.calls[x].peer = w3.calls[x].peer /\ v.calls[x].in = w3.calls[x].in
    BY <1>4, <1>5 DEF Good, LegsTyped, IsLeg, LegStates, Timers
  <1> HIDE DEF v
  <1>8. Sheds(w3, v, {})
    BY <1>4, <1>6, <1>7, Edit
  <1>9. QED
    BY <1>1, <1>8 DEF Sheds

LEMMA PeerReleased ==
    ASSUME NEW w, Good(w), NEW x \in DOMAIN w.calls
    PROVE  Sheds(w, ReleasePeer(w, x), {})
  <1> DEFINE y == w.calls[x].peer
             w1 == DestroyDataPvcs(w, y)
  <1>1. \/ ReleasePeer(w, x) = w \/ ReleasePeer(w, x) = w1
        \/ HasPeer(w, x) /\ ReleasePeer(w, x) = Await(w1, y, "N19", {"T308"})
    BY Zenon DEF ReleasePeer
  <1>2. Sheds(w, w1, {})
    BY PathDestroyed
  <1> HIDE DEF w1
  <1>3. HasPeer(w, x) => Sheds(w1, Await(w1, y, "N19", {"T308"}), {})
    <2>1. HasPeer(w, x) => y \in DOMAIN w1.calls /\ Good(w1)
      BY <1>2 DEF HasPeer, Sheds
    <2> QED  BY <2>1, Awaits DEF LegStates, Timers
  <1>4. QED
    BY <1>1, <1>2, <1>3 DEF Sheds

LEMMA UniReleases ==
    ASSUME NEW w, Good(w), NEW x \in DOMAIN w.calls
    PROVE  Good(UniRelease(w, x))
  <1> DEFINE w1 == DestroyDataPvcs(w, x)
             w2 == ReleasePeer(w1, x)
  <1>1. UniRelease(w, x) = FreeCall(w2, x)
    BY DEF UniRelease
  <1>2. Good(w1) /\ x \in DOMAIN w1.calls
    BY PathDestroyed DEF Sheds
  <1> HIDE DEF w1
  <1>3. Good(w2) /\ x \in DOMAIN w2.calls
    BY <1>2, PeerReleased DEF Sheds
  <1> HIDE DEF w2
  <1>4. QED
    BY <1>1, <1>3, CallFreed DEF Sheds

LEMMA UniReports ==
    ASSUME NEW w, Good(w), NEW x \in DOMAIN w.calls, NEW reported
    PROVE  Good(UniStatus(w, x, reported))
  <1> DEFINE y == w.calls[x].peer
             w1 == DestroyDataPvcs(w, x)
             w0 == DestroyDataPvcs(w1, y)
             timers == w.calls[y].timers \cup {"T308"}
             w2 == IF HasPeer(w, x) THEN Await(w0, y, "N19", timers) ELSE w1
  <1>1. UniStatus(w, x, reported) = w \/ UniStatus(w, x, reported) = FreeCall(w2, x)
    BY Zenon DEF UniStatus
  <1>2. Sheds(w, w1, {})
    BY PathDestroyed
  <1>3. Sheds(w1, w0, {})
    <2> HIDE DEF w1
    <2> QED  BY <1>2, PathDestroyed DEF Sheds
  <1>4. Good(w2) /\ x \in DOMAIN w2.calls
    <2>1. CASE ~HasPeer(w, x)
      BY <1>2, <2>1 DEF Sheds
    <2>2. CASE HasPeer(w, x)
      <3>1. y \in DOMAIN w.calls
        BY <2>2 DEF HasPeer
      <3>2. timers \in SUBSET Timers
        BY <3>1 DEF Good, LegsTyped, IsLeg, Timers
      <3>3. w2 = Await(w0, y, "N19", timers)
        BY <2>2
      <3> HIDE DEF w0, w1, w2, timers
      <3>4. Good(w0) /\ y \in DOMAIN w0.calls /\ x \in DOMAIN w0.calls
        BY <1>2, <1>3, <3>1 DEF Sheds
      <3>5. Sheds(w0, Await(w0, y, "N19", timers), {})
        BY <3>2, <3>4, Awaits DEF LegStates
      <3> QED  BY <3>3, <3>4, <3>5 DEF Sheds
    <2> QED  BY <2>1, <2>2
  <1> HIDE DEF w2
  <1>5. QED
    BY <1>1, <1>4, CallFreed DEF Sheds

-----------------------------------------------------------------------------
(***************************************************************************)
(* SETUP.                                                                  *)
(***************************************************************************)
LEMMA Routed ==
    ASSUME NEW d, Len(d.subs) \in Nat, NEW called, NEW tns, NEW tni
    PROVE  RouteLookup(d, called, tns, tni) \in Ports \cup {NoPort}
  <1>1. \A hit : RoutePort(hit) \in Ports \cup {NoPort}
    BY DEF RoutePort
  <1>2. FindSubscriber(d, Expand(called)) \in Ports \cup {NoPort}
    BY FindsPort
  <1> DEFINE viaTns == {r \in Range(d.routes) : r.net # NoNet /\ r.net = tns}
             noLoop == {r \in Range(d.routes) : r.net = NoNet \/ r.net \notin tni}
  <1>3. \/ RouteLookup(d, called, tns, tni) = NoPort
        \/ RouteLookup(d, called, tns, tni) = FindSubscriber(d, Expand(called))
        \/ RouteLookup(d, called, tns, tni) = RoutePort(ScanRoutes(d.routes, viaTns, Expand(called)))
        \/ RouteLookup(d, called, tns, tni) = RoutePort(ScanRoutes(d.routes, noLoop, Expand(called)))
    BY Zenon DEF RouteLookup
  <1> HIDE DEF viaTns, noLoop
  <1>4. QED
    BY <1>1, <1>2, <1>3

LEMMA NewLegTyped ==
    ASSUME NEW state \in LegStates, NEW dlci
    PROVE  LET leg == NewLeg(state, dlci) IN IsLeg(leg) /\ leg.peer = NoPeer /\ leg.in = dlci
  BY DEF IsLeg, NewLeg, Timers

LEMMA NoPeerIsNoLeg == NoPeer \notin LegIds
  BY DirectoryAssumption DEF NoPeer, LegIds

\* The leg on the way out is added, and what the leg on the way in becomes.
LEMMA Joins ==
    ASSUME NEW w, Good(w), NEW x \in DOMAIN w.calls, NEW q \in Ports, HasRoom(w, q),
           NEW y, y = <<q, NewCrv(w, q), 0>>, NEW l, NEW leg,
           IsLeg(l), l.in = w.calls[x].in, l.peer = y,
           IsLeg(leg), leg.in = DlciAlloc(w.pool[q]).dlci, leg.peer = x
    PROVE  Good(SetLeg([w EXCEPT !.pool[q] = DlciAlloc(w.pool[q]).pool, !.calls[x] = l], y, leg))
  <1> DEFINE w1 == [w EXCEPT !.pool[q] = DlciAlloc(w.pool[q]).pool, !.calls[x] = l]
             c == [z \in DOMAIN w1.calls \cup {y} |-> IF z = y THEN leg ELSE w1.calls[z]]
             v == [w1 EXCEPT !.calls = c]
  <1>1. SetLeg(w1, y, leg) = v
    BY DEF SetLeg
  <1>2. y \in LegIds /\ y \notin DOMAIN w.calls /\ y[1] = q /\ x # y
    BY FreshCrv
  <1>3. /\ DOMAIN w1 = DOMAIN w /\ w1.spvc = w.spvc /\ w1.restart = w.restart /\ w1.lapf = w.lapf /\ w1.shared = w.shared
        /\ w1.pool = [w.pool EXCEPT ![q] = DlciAlloc(w.pool[q]).pool]
        /\ DOMAIN w1.calls = DOMAIN w.calls /\ w1.calls[x] = l
        /\ \A z \in DOMAIN w.calls : z # x => w1.calls[z] = w.calls[z]
    BY DEF Good
  <1> HIDE DEF w1
  <1>4. DOMAIN v = DOMAIN w /\ v.spvc = w.spvc /\ v.restart = w.restart /\ v.lapf = w.lapf /\ v.shared = w.shared /\ v.pool = w1.pool /\ v.calls = c
    <2> HIDE DEF c
    <2> QED  BY <1>3 DEF Good
  <1>5. DOMAIN c = DOMAIN w.calls \cup {y} /\ c[y] = leg /\ \A z \in DOMAIN w.calls : z # y => c[z] = w1.calls[z]
    BY <1>3
  <1> HIDE DEF c, v
  <1>6. \A z \in DOMAIN v.calls : IsLeg(v.calls[z]) /\ v.calls[z].peer # z
    <2> SUFFICES ASSUME NEW z \in DOMAIN v.calls PROVE IsLeg(v.calls[z]) /\ v.calls[z].peer # z
      OBVIOUS
    <2>1. CASE z = y
      BY <1>2, <1>4, <1>5, <2>1
    <2>2. CASE z = x
      BY <1>2, <1>3, <1>4, <1>5, <2>2
    <2>3. CASE z # y /\ z # x
      BY <1>3, <1>4, <1>5, <2>3 DEF Good, LegsTyped
    <2> QED  BY <2>1, <2>2, <2>3
  <1>7. \A z \in DOMAIN w.calls : z # y => v.calls[z].in = w.calls[z].in
    BY <1>3, <1>4, <1>5
  <1>8. SpvcsTyped(v)
    BY <1>4 DEF Good, SpvcsTyped
  <1>9. Good(v)
    <2>1. v.pool = [w.pool EXCEPT ![y[1]] = DlciAlloc(w.pool[y[1]]).pool] /\ v.calls[y].in = DlciAlloc(w.pool[y[1]]).dlci
      BY <1>2, <1>3, <1>4, <1>5
    <2>2. DOMAIN v = DOMAIN w /\ DOMAIN v.calls = DOMAIN w.calls \cup {y} /\ v.restart = w.restart /\ v.lapf = w.lapf /\ v.shared = w.shared
      BY <1>3, <1>4, <1>5
    <2>3. y \in LegIds /\ y \notin DOMAIN w.calls /\ HasRoom(w, y[1])
      BY <1>2
    <2> QED  BY <1>6, <1>7, <1>8, <2>1, <2>2, <2>3, Takes
  <1>10. QED
    BY <1>1, <1>9 DEF w1

LEMMA Offered ==
    ASSUME NEW w, Good(w), NEW x \in DOMAIN w.calls, NEW q \in Ports, HasRoom(w, q)
    PROVE  Good(Offer(w, x, q))
  <1> DEFINE y == <<q, NewCrv(w, q), 0>>
             dlci == w.calls[x].in
             got == DlciAlloc(w.pool[q])
             leg == [NewLeg("N6", got.dlci) EXCEPT !.peer = x, !.out = dlci, !.outPort = x[1],
                                               !.timers = IF q \in Nni \cup w.lapf THEN {"T303"} ELSE {}]
             l == [w.calls[x] EXCEPT !.state = "N3", !.timers = {"T310"}, !.peer = y, !.out = dlci, !.outPort = q]
  <1>1. Offer(w, x, q) = SetLeg([w EXCEPT !.pool[q] = got.pool, !.calls[x] = l], y, leg)
    BY Zenon DEF Offer
  <1>2. x \in LegIds /\ y \in LegIds /\ IsLeg(w.calls[x])
    BY FreshCrv DEF Good, LegsTyped
  <1>3. IsLeg(leg) /\ leg.in = got.dlci /\ leg.peer = x
    <2> HIDE DEF got, dlci
    <2>1. IsLeg(NewLeg("N6", got.dlci)) /\ NewLeg("N6", got.dlci).in = got.dlci
      BY NewLegTyped DEF LegStates
    <2> DEFINE fresh == NewLeg("N6", got.dlci)
    <2> HIDE DEF fresh
    <2> QED  BY <1>2, <2>1 DEF fresh, IsLeg, Timers
  <1>4. IsLeg(l) /\ l.in = dlci /\ l.peer = y
    <2> HIDE DEF y
    <2> QED  BY <1>2 DEF IsLeg, LegStates, Timers
  <1> HIDE DEF l, leg, y
  <1>5. Good(SetLeg([w EXCEPT !.pool[q] = got.pool, !.calls[x] = l], y, leg))
    BY <1>3, <1>4, Joins DEF y
  <1>6. QED
    BY <1>1, <1>5

LEMMA CallPlaced ==
    ASSUME NEW w, Good(w), NEW x \in DOMAIN w.calls, NEW d, Len(d.subs) \in Nat, NEW m, NEW number
    PROVE  Good(PlaceCall(w, d, x, m, number))
  <1> DEFINE q == RouteLookup(d, number, m.tns, {})
             i == SvcToPvc(w, number)
  <1>1. \/ PlaceCall(w, d, x, m, number) = VirtualSwitch(w, x)
        \/ PlaceCall(w, d, x, m, number) = AcceptSvcToPvc(w, x, i)
        \/ PlaceCall(w, d, x, m, number) = ClearBeforeActive(w, x)
        \/ q # NoPort /\ HasRoom(w, q) /\ PlaceCall(w, d, x, m, number) = Offer(w, x, q)
    BY Zenon DEF PlaceCall
  <1>2. q \in Ports \cup {NoPort}
    BY Routed
  <1> HIDE DEF q, i
  <1>3. QED
    BY <1>1, <1>2, SwitchCalled, AcceptedSvcToPvc, ClearedBeforeActive, Offered DEF Sheds

\* v is w with the outcome of an allocation given to leg x: the rest of the pool and the DLCI.
Allotted(w, v, x, got) == v = [w EXCEPT !.pool[x[1]] = got.pool, !.calls[x].in = got.dlci]

\* A DLCI for a leg that has none.
LEMMA GetsDlci ==
    ASSUME NEW w, Good(w), NEW x \in DOMAIN w.calls, w.calls[x].in \notin OwnRange,
           NEW got, got = DlciAlloc(w.pool[x[1]]),
           NEW v, Allotted(w, v, x, got)
    PROVE  Good(v) /\ DOMAIN v.calls = DOMAIN w.calls
  <1> DEFINE p == x[1]
  <1>1. x \in LegIds
    BY DEF Good, LegsTyped
  <1>2. /\ DOMAIN v = DOMAIN w /\ v.spvc = w.spvc /\ v.restart = w.restart /\ v.lapf = w.lapf /\ v.shared = w.shared /\ DOMAIN v.calls = DOMAIN w.calls
        /\ v.pool = [w.pool EXCEPT ![p] = got.pool]
        /\ \A z \in DOMAIN w.calls : z # x => v.calls[z] = w.calls[z]
    BY DEF Good, Allotted
  <1>3. IsLeg(v.calls[x]) /\ v.calls[x].peer = w.calls[x].peer /\ v.calls[x].in = got.dlci
    BY DEF Good, LegsTyped, IsLeg, Allotted
  <1>4. \A z \in DOMAIN v.calls : IsLeg(v.calls[z]) /\ v.calls[z].peer # z
    BY <1>2, <1>3 DEF Good, LegsTyped
  <1>5. SpvcsTyped(v)
    BY <1>2 DEF Good, SpvcsTyped
  <1>6. DOMAIN v.calls = DOMAIN w.calls \cup {x}
    BY <1>2
  <1>7. Good(v)
    <2>1. v.pool = [w.pool EXCEPT ![x[1]] = DlciAlloc(w.pool[x[1]]).pool] /\ v.calls[x].in = DlciAlloc(w.pool[x[1]]).dlci
      BY <1>2, <1>3
    <2>2. \A z \in DOMAIN w.calls : z # x => v.calls[z].in = w.calls[z].in
      BY <1>2
    <2> HIDE DEF p
    <2>3. DOMAIN v = DOMAIN w /\ v.restart = w.restart /\ v.lapf = w.lapf /\ v.shared = w.shared
      BY <1>2
    <2> QED  BY <1>1, <1>4, <1>5, <1>6, <2>1, <2>2, <2>3, Takes
  <1>8. QED
    BY <1>2, <1>7

LEMMA UniCalls ==
    ASSUME NEW w, Good(w), NEW x \in LegIds, NEW d, Len(d.subs) \in Nat, NEW m
    PROVE  Good(UniSetup(w, d, x, m))
  <1> DEFINE w0 == Claim(w, <<x[1], m.dlci>>)
             w1 == SetLeg(w0, x, NewLeg("N1", m.dlci))
             got == DlciAlloc(w.pool[x[1]])
             w2 == IF m.dlci # 0 THEN w1 ELSE [w1 EXCEPT !.pool[x[1]] = got.pool, !.calls[x].in = got.dlci]
             dialled == PrimaryNumber(d, m.called)
  <1>1. CASE x \in DOMAIN w.calls \/ ~HasRoom(w, x[1])
    BY <1>1, Zenon DEF UniSetup
  <1>2. CASE x \notin DOMAIN w.calls /\ HasRoom(w, x[1])
    <2>1. \/ UniSetup(w, d, x, m) = ClearBeforeActive(w1, x)
          \/ UniSetup(w, d, x, m) = ClearBeforeActive(w2, x)
          \/ UniSetup(w, d, x, m) = PlaceCall(w2, d, x, m, dialled)
      BY <1>2, Zenon DEF UniSetup
    <2>2. 0 \notin OwnRange
      BY DlciPoolAssumption DEF OwnRange
    <2>3. Good(w0) /\ w0.calls = w.calls /\ w0.pool = w.pool /\ m.dlci \notin Proper(w0, x[1])
      BY Claimed
    <2>4. Good(w1) /\ x \in DOMAIN w1.calls /\ w1.calls[x].in = m.dlci /\ w1.pool = w.pool
      <3> DEFINE leg == NewLeg("N1", m.dlci)
      <3>1. IsLeg(leg) /\ leg.peer # x /\ leg.in = m.dlci
        BY NewLegTyped, NoPeerIsNoLeg DEF LegStates
      <3>2. x \notin DOMAIN w0.calls /\ HasRoom(w0, x[1])
        BY <1>2, <2>3 DEF HasRoom, LegsAt
      <3> HIDE DEF leg, w0
      <3> QED  BY <2>3, <3>1, <3>2, Adds DEF leg
    <2> HIDE DEF w1
    <2>5. Good(w2) /\ x \in DOMAIN w2.calls
      <3>1. CASE m.dlci # 0
        BY <2>4, <3>1
      <3>2. CASE m.dlci = 0
        <4> DEFINE v == [w1 EXCEPT !.pool[x[1]] = got.pool, !.calls[x].in = got.dlci]
        <4>1. Good(v) /\ DOMAIN v.calls = DOMAIN w1.calls
          <5>1. Good(w1) /\ x \in DOMAIN w1.calls /\ w1.calls[x].in \notin OwnRange /\ got = DlciAlloc(w1.pool[x[1]])
            BY <2>2, <2>4, <3>2
          <5>2. Allotted(w1, v, x, got)
            BY DEF Allotted
          <5> HIDE DEF got, v
          <5> QED  BY <5>1, <5>2, GetsDlci
        <4>2. w2 = v
          BY <3>2
        <4> HIDE DEF v, w2
        <4> QED  BY <2>4, <4>1, <4>2
      <3> QED  BY <3>1, <3>2
    <2> HIDE DEF w2, dialled
    <2> QED  BY <2>1, <2>4, <2>5, ClearedBeforeActive, CallPlaced DEF Sheds
  <1>3. QED
    BY <1>1, <1>2

LEMMA NniOffered ==
    ASSUME NEW w, Good(w), NEW x \in DOMAIN w.calls, NEW q \in Ports, HasRoom(w, q)
    PROVE  Good(NniOffer(w, x, q))
  <1> DEFINE y == <<q, NewCrv(w, q), 0>>
             got == DlciAlloc(w.pool[q])
             leg == [NewLeg("N6", got.dlci) EXCEPT !.peer = x, !.out = w.calls[x].in, !.outPort = x[1], !.timers = {"T303"}]
             l == [w.calls[x] EXCEPT !.state = "N3", !.peer = y, !.out = got.dlci, !.outPort = q]
  <1>1. \/ NniOffer(w, x, q) = NniClear(w, x)
        \/ NniOffer(w, x, q) = SetLeg([w EXCEPT !.pool[q] = got.pool, !.calls[x] = l], y, leg)
    BY Zenon DEF NniOffer
  <1>2. x \in LegIds /\ y \in LegIds /\ IsLeg(w.calls[x])
    BY FreshCrv DEF Good, LegsTyped
  <1>3. IsLeg(leg) /\ leg.in = got.dlci /\ leg.peer = x
    <2> HIDE DEF got
    <2>1. IsLeg(NewLeg("N6", got.dlci)) /\ NewLeg("N6", got.dlci).in = got.dlci
      BY NewLegTyped DEF LegStates
    <2> DEFINE fresh == NewLeg("N6", got.dlci)
    <2> HIDE DEF fresh
    <2> QED  BY <1>2, <2>1 DEF fresh, IsLeg, Timers
  <1>4. IsLeg(l) /\ l.in = w.calls[x].in /\ l.peer = y
    <2> HIDE DEF y
    <2> QED  BY <1>2 DEF IsLeg, LegStates
  <1> HIDE DEF l, leg, y
  <1>5. Good(SetLeg([w EXCEPT !.pool[q] = got.pool, !.calls[x] = l], y, leg))
    BY <1>3, <1>4, Joins DEF y
  <1>6. QED
    BY <1>1, <1>5, ClearedNni DEF Sheds

LEMMA NniCalls ==
    ASSUME NEW w, Good(w), NEW x \in LegIds, NEW d, Len(d.subs) \in Nat, NEW m
    PROVE  Good(NniSetup(w, d, x, m))
  <1> DEFINE w0 == Claim(w, <<x[1], m.dlci>>)
             w1 == SetLeg(w0, x, NewLeg("N0", m.dlci))
             i == CalledSpvc(m)
             q == RouteLookup(d, m.called, m.tns, m.tni \cup (IF Cardinality(m.tni) < MaxTnis THEN {OwnNet} ELSE {}))
  <1>1. CASE x \in DOMAIN w.calls \/ ~HasRoom(w, x[1])
    BY <1>1, Zenon DEF NniSetup
  <1>2. CASE x \notin DOMAIN w.calls /\ HasRoom(w, x[1])
    <2>1. \/ NniSetup(w, d, x, m) = NniClear(w1, x)
          \/ NniSetup(w, d, x, m) = IncomingSpvc(w1, x, i)
          \/ NniSetup(w, d, x, m) = NniPlaceCall(w1, d, x, m)
      BY <1>2, Zenon DEF NniSetup
    <2>2. IncomingSpvc(w1, x, i) = w1 \/ IncomingSpvc(w1, x, i) = Accept(w1, x, i)
      BY Zenon DEF IncomingSpvc
    <2>3. \/ NniPlaceCall(w1, d, x, m) = NniClear(w1, x)
          \/ q # NoPort /\ HasRoom(w1, q) /\ NniPlaceCall(w1, d, x, m) = NniOffer(w1, x, q)
      BY Zenon DEF NniPlaceCall
    <2>4. q \in Ports \cup {NoPort}
      BY Routed
    <2>5. Good(w1) /\ x \in DOMAIN w1.calls
      <3> DEFINE leg == NewLeg("N0", m.dlci)
      <3>1. IsLeg(leg) /\ leg.peer # x /\ leg.in = m.dlci
        BY NewLegTyped, NoPeerIsNoLeg DEF LegStates
      <3>2. Good(w0) /\ w0.calls = w.calls /\ m.dlci \notin Proper(w0, x[1])
        BY Claimed
      <3>3. x \notin DOMAIN w0.calls /\ HasRoom(w0, x[1])
        BY <1>2, <3>2 DEF HasRoom, LegsAt
      <3> HIDE DEF leg, w0
      <3> QED  BY <3>1, <3>2, <3>3, Adds DEF leg
    <2> HIDE DEF w1, i, q
    <2> QED  BY <2>1, <2>2, <2>3, <2>4, <2>5, ClearedNni, Accepted, NniOffered DEF Sheds
  <1>3. QED
    BY <1>1, <1>2

\* The call a soft PVC dials.
LEMMA Dialled ==
    ASSUME NEW w, Good(w), NEW d, Len(d.subs) \in Nat, NEW i
    PROVE  Good(Dial(w, d, i))
  <1> DEFINE q == RouteLookup(d, Spvcs[i].addr, NoNet, {})
             got == DlciAlloc(w.pool[q])
             x == <<q, NewCrv(w, q), 0>>
             leg == [NewLeg("N1", got.dlci) EXCEPT !.out = Spvcs[i].dlci, !.outPort = Spvcs[i].port, !.timers = {"T303"}]
             w0 == [w EXCEPT !.pool[q] = got.pool]
             c == [z \in DOMAIN w0.calls \cup {x} |-> IF z = x THEN leg ELSE w0.calls[z]]
             v == [w0 EXCEPT !.calls = c]
  <1>1. \/ Dial(w, d, i) = [w EXCEPT !.spvc[i].state = "retry"]
        \/ q # NoPort /\ HasRoom(w, q) /\ Dial(w, d, i) = SpvcTo(SetLeg(w0, x, leg), i, "setup", x)
    BY Zenon DEF Dial
  <1>2. Good([w EXCEPT !.spvc[i].state = "retry"])
    BY SpvcStateSet DEF Sheds
  <1>3. q \in Ports \cup {NoPort}
    BY Routed
  <1> HIDE DEF q
  <1>4. ASSUME q # NoPort, HasRoom(w, q) PROVE Good(SpvcTo(SetLeg(w0, x, leg), i, "setup", x))
    <2>1. x \in LegIds /\ x \notin DOMAIN w.calls /\ x[1] = q /\ HasRoom(w, x[1])
      BY <1>3, <1>4, FreshCrv
    <2>2. SetLeg(w0, x, leg) = v
      BY DEF SetLeg
    <2> HIDE DEF x
    <2>3. IsLeg(leg) /\ leg.in = got.dlci /\ leg.peer # x
      <3> DEFINE fresh == NewLeg("N1", got.dlci)
      <3>1. IsLeg(fresh) /\ fresh.in = got.dlci /\ fresh.peer # x
        <4> HIDE DEF got
        <4> QED  BY <2>1, NewLegTyped, NoPeerIsNoLeg DEF LegStates
      <3> HIDE DEF fresh, got
      <3> QED  BY <3>1 DEF fresh, IsLeg, Timers
    <2> HIDE DEF leg
    <2>4. /\ DOMAIN w0 = DOMAIN w /\ w0.calls = w.calls /\ w0.spvc = w.spvc /\ w0.restart = w.restart /\ w0.lapf = w.lapf /\ w0.shared = w.shared
          /\ w0.pool = [w.pool EXCEPT ![q] = got.pool]
      BY DEF Good
    <2> HIDE DEF w0
    <2>5. DOMAIN v = DOMAIN w /\ v.spvc = w.spvc /\ v.restart = w.restart /\ v.lapf = w.lapf /\ v.shared = w.shared /\ v.pool = w0.pool /\ v.calls = c
      <3> HIDE DEF c
      <3> QED  BY <2>4 DEF Good
    <2>6. DOMAIN c = DOMAIN w.calls \cup {x} /\ c[x] = leg /\ \A z \in DOMAIN w.calls : z # x => c[z] = w.calls[z]
      BY <2>4
    <2> HIDE DEF c, v
    <2>7. \A z \in DOMAIN v.calls : IsLeg(v.calls[z]) /\ v.calls[z].peer # z
      BY <2>3, <2>5, <2>6 DEF Good, LegsTyped
    <2>8. SpvcsTyped(v)
      BY <2>5 DEF Good, SpvcsTyped
    <2>9. \A z \in DOMAIN w.calls : z # x => v.calls[z].in = w.calls[z].in
      BY <2>5, <2>6
    <2>10. v.pool = [w.pool EXCEPT ![x[1]] = DlciAlloc(w.pool[x[1]]).pool] /\ v.calls[x].in = DlciAlloc(w.pool[x[1]]).dlci
      BY <2>1, <2>3, <2>4, <2>5, <2>6
    <2>11. DOMAIN v = DOMAIN w /\ DOMAIN v.calls = DOMAIN w.calls \cup {x} /\ v.restart = w.restart /\ v.lapf = w.lapf /\ v.shared = w.shared
      BY <2>5, <2>6
    <2>12. Good(v)
      BY <2>1, <2>7, <2>8, <2>9, <2>10, <2>11, Takes
    <2> QED  BY <2>2, <2>12, SpvcSetTo DEF Sheds
  <1> HIDE DEF x, leg, w0
  <1>5. QED
    BY <1>1, <1>2, <1>3, <1>4

LEMMA SpvcPolled ==
    ASSUME NEW w, Good(w), NEW d, Len(d.subs) \in Nat, NEW i, NEW accessUp
    PROVE  Good(PollSpvc(w, d, i, accessUp))
  <1> DEFINE x == <<w.spvc[i].port, w.spvc[i].crv, 0>>
             w1 == IF x \in DOMAIN w.calls THEN NniClear(w, x) ELSE w
  <1>1. \/ PollSpvc(w, d, i, accessUp) = w \/ PollSpvc(w, d, i, accessUp) = Dial(w, d, i)
        \/ PollSpvc(w, d, i, accessUp) = [w1 EXCEPT !.spvc[i].state = "idle"]
    BY Zenon DEF PollSpvc
  <1>2. Good(w1)
    <2> HIDE DEF x
    <2> QED  BY ClearedNni DEF Sheds
  <1> HIDE DEF w1
  <1>3. Good([w1 EXCEPT !.spvc[i].state = "idle"])
    BY <1>2, SpvcStateSet DEF Sheds
  <1>4. QED
    BY <1>1, <1>3, Dialled

-----------------------------------------------------------------------------
(***************************************************************************)
(* The messages of a network.                                              *)
(***************************************************************************)
LEMMA NniProceeds ==
    ASSUME NEW w, Good(w), NEW x \in DOMAIN w.calls
    PROVE  Good(NniCallProceeding(w, x))
  <1> DEFINE v == [w EXCEPT !.calls[x].state = "N9", !.calls[x].timers = (@ \ {"T303"}) \cup {"T310"}]
  <1>1. NniCallProceeding(w, x) = w \/ NniCallProceeding(w, x) = v
    BY Zenon DEF NniCallProceeding
  <1>2. ButFor(w, v, x)
    BY DEF ButFor, Good
  <1>3. IsLeg(v.calls[x]) /\ v.calls[x].peer = w.calls[x].peer /\ v.calls[x].in = w.calls[x].in
    BY DEF Good, LegsTyped, IsLeg, LegStates, Timers
  <1> HIDE DEF v
  <1>4. Sheds(w, v, {})
    BY <1>2, <1>3, Edit
  <1>5. QED
    BY <1>1, <1>4 DEF Sheds

LEMMA NniConnects ==
    ASSUME NEW w, Good(w), NEW x \in DOMAIN w.calls, NEW q
    PROVE  Good(NniConnect(w, x, q))
  <1> DEFINE y == w.calls[x].peer
             w1 == Answered(w, x)
             w2 == [w1 EXCEPT !.calls[y].state = "N10"]
  <1>1. \/ NniConnect(w, x, q) = w \/ NniConnect(w, x, q) = NniClear(w, x)
        \/ NniConnect(w, x, q) = SpvcConnected(w1, x, q) \/ NniConnect(w, x, q) = w1
        \/ HasPeer(w, x) /\ NniConnect(w, x, q) = CreateDataPvcs(w2, x)
    BY Zenon DEF NniConnect
  <1>2. Sheds(w, w1, {})
    BY AnsweredIs
  <1>3. x \in DOMAIN w1.calls /\ (HasPeer(w, x) => y \in DOMAIN w1.calls)
    <2> HIDE DEF w1
    <2> QED  BY <1>2 DEF HasPeer, Sheds
  <1> HIDE DEF w1, y
  <1>4. ASSUME HasPeer(w, x) PROVE Good(CreateDataPvcs(w2, x))
    <2>1. Good(w1) /\ y \in DOMAIN w1.calls
      BY <1>2, <1>3, <1>4 DEF Sheds
    <2>2. ButFor(w1, w2, y)
      BY <2>1 DEF ButFor, Good
    <2>3. IsLeg(w2.calls[y]) /\ w2.calls[y].peer = w1.calls[y].peer /\ w2.calls[y].in = w1.calls[y].in
      BY <2>1 DEF Good, LegsTyped, IsLeg, LegStates
    <2> HIDE DEF w2
    <2>4. Sheds(w1, w2, {})
      BY <2>1, <2>2, <2>3, Edit
    <2> QED  BY <2>4, PathCreated DEF Sheds
  <1>5. Good(SpvcConnected(w1, x, q))
    BY <1>2, <1>3, SpvcAnswered DEF Sheds
  <1> HIDE DEF w2
  <1>6. QED
    BY <1>1, <1>2, <1>4, <1>5, ClearedNni DEF Sheds

LEMMA NniReleases ==
    ASSUME NEW w, Good(w), NEW x \in DOMAIN w.calls
    PROVE  Good(NniRelease(w, x)) /\ Good(NniReleaseComplete(w, x))
  <1> DEFINE w1 == SpvcReleased(DestroyDataPvcs(w, x), x)
             w2 == ForwardClearing(w1, x)
             w3 == SpvcReleased(w, x)
  <1>1. /\ NniRelease(w, x) = FreeCall(w2, x) \/ NniRelease(w, x) = FreeCall(w3, x)
        /\ NniReleaseComplete(w, x) = FreeCall(w2, x)
    BY Zenon DEF NniRelease, NniReleaseComplete
  <1>2. Good(w1) /\ x \in DOMAIN w1.calls
    <2> DEFINE w0 == DestroyDataPvcs(w, x)
    <2>1. Good(w0) /\ x \in DOMAIN w0.calls
      BY PathDestroyed DEF Sheds
    <2> HIDE DEF w0
    <2>2. Sheds(w0, SpvcReleased(w0, x), {})
      BY <2>1, SpvcLetGo
    <2> QED  BY <2>1, <2>2 DEF Sheds, w0
  <1>3. Good(w3) /\ x \in DOMAIN w3.calls
    BY SpvcLetGo DEF Sheds
  <1> HIDE DEF w1, w3
  <1>4. Good(w2) /\ x \in DOMAIN w2.calls
    BY <1>2, Forwarded
  <1> HIDE DEF w2
  <1>5. QED
    BY <1>1, <1>3, <1>4, CallFreed DEF Sheds

-----------------------------------------------------------------------------
(***************************************************************************)
(* RESTART: every leg of a port.                                           *)
(***************************************************************************)
UniRestartStep(env, v, x) == FreeCall(DestroyDataPvcs(v, x), x)
NniRestartStep(env, v, x) == NniDrop(v, x)

UniLoop == INSTANCE FoldProofs WITH Step <- UniRestartStep
NniLoop == INSTANCE FoldProofs WITH Step <- NniRestartStep

LEMMA UniRestartIsFold == \A w, order : UniRestart(w, order) = UniLoop!Fold(0, w, order)
  BY Zenon DEF UniRestart, UniRestartStep, FoldLeft, MapThenFoldSet, Max,
           UniLoop!Fold, UniLoop!FoldLeft, UniLoop!MapThenFoldSet, UniLoop!Max

LEMMA NniRestartIsFold ==
    \A w, order : FoldLeft(NniDrop, w, order) = NniLoop!Fold(0, w, order)
  BY Zenon DEF NniRestartStep, FoldLeft, MapThenFoldSet, Max,
           NniLoop!Fold, NniLoop!FoldLeft, NniLoop!MapThenFoldSet, NniLoop!Max

Once(s) == \A i, j \in 1 .. Len(s) : i # j => s[i] # s[j]

LEMMA UniRestarts ==
    ASSUME NEW w, Good(w), NEW S \in SUBSET DOMAIN w.calls, NEW order \in Seq(S), Once(order)
    PROVE  Good(UniRestart(w, order))
  <1> DEFINE F(s) == UniLoop!Fold(0, w, s)
             Left(s) == \A y \in S : (\A i \in 1 .. Len(s) : s[i] # y) => y \in DOMAIN F(s).calls
             T == {s \in Seq(S) : Once(s) => Good(F(s)) /\ Left(s)}
  <1>1. <<>> \in T
    <2>1. F(<<>>) = w
      BY UniLoop!FoldEmpty
    <2> HIDE DEF F
    <2> QED  BY <2>1
  <1>2. ASSUME NEW rest \in Seq(S), NEW x \in S, rest \in T PROVE Append(rest, x) \in T
    <2> DEFINE s == Append(rest, x)
               n == Len(rest)
               u == F(rest)
               u1 == DestroyDataPvcs(u, x)
    <2>1. F(s) = FreeCall(u1, x)
      BY UniLoop!FoldAppend DEF UniRestartStep
    <2>2. /\ s \in Seq(S) /\ n \in Nat /\ Len(s) = n + 1 /\ s[n + 1] = x
          /\ \A i \in 1 .. n : s[i] = rest[i]
      OBVIOUS
    <2> HIDE DEF F, s
    <2> SUFFICES ASSUME Once(s) PROVE Good(F(s)) /\ Left(s)
      BY <2>2 DEF s
    <2>3. Once(rest) /\ \A i \in 1 .. n : rest[i] # x
      BY <2>2 DEF Once
    <2>4. Good(u) /\ x \in DOMAIN u.calls /\ Left(rest)
      BY <1>2, <2>3
    <2> HIDE DEF u
    <2>5. Sheds(u, u1, {})
      BY <2>4, PathDestroyed
    <2> HIDE DEF u1
    <2>6. Good(u1) /\ DOMAIN u1.calls = DOMAIN u.calls
      BY <2>5 DEF Sheds
    <2>7. Sheds(u1, FreeCall(u1, x), {x}) /\ DOMAIN FreeCall(u1, x).calls = DOMAIN u1.calls \ {x}
      BY <2>4, <2>6, CallFreed
    <2>8. ASSUME NEW y \in S, \A i \in 1 .. Len(s) : s[i] # y PROVE y \in DOMAIN F(s).calls
      <3>1. y # x /\ \A i \in 1 .. n : rest[i] # y
        BY <2>2, <2>8
      <3>2. y \in DOMAIN u.calls
        BY <2>4, <3>1 DEF u
      <3> QED  BY <2>1, <2>6, <2>7, <3>1, <3>2
    <2> QED  BY <2>1, <2>7, <2>8 DEF Sheds
  <1>3. Seq(S) \subseteq T
    <2> HIDE DEF T
    <2> QED  BY <1>1, <1>2, UniLoop!SequenceInduction
  <1>4. Good(F(order))
    BY <1>3
  <1>5. QED
    BY <1>4, UniRestartIsFold

LEMMA AllDropped ==
    ASSUME NEW w, Good(w), NEW S, NEW order \in Seq(S)
    PROVE  Good(FoldLeft(NniDrop, w, order))
  <1> DEFINE F(s) == NniLoop!Fold(0, w, s)
             T == {s \in Seq(S) : Good(F(s))}
  <1>1. <<>> \in T
    BY NniLoop!FoldEmpty
  <1>2. ASSUME NEW rest \in Seq(S), NEW x \in S, rest \in T PROVE Append(rest, x) \in T
    <2>1. F(Append(rest, x)) = NniDrop(F(rest), x)
      BY NniLoop!FoldAppend DEF NniRestartStep
    <2>2. Append(rest, x) \in Seq(S)
      OBVIOUS
    <2> HIDE DEF F
    <2> QED  BY <1>2, <2>1, <2>2, Dropped
  <1>3. Seq(S) \subseteq T
    <2> HIDE DEF T
    <2> QED  BY <1>1, <1>2, NniLoop!SequenceInduction
  <1>4. Good(F(order))
    BY <1>3
  <1>5. QED
    BY <1>4, NniRestartIsFold

LEMMA NniRestarts ==
    ASSUME NEW w, Good(w), NEW p \in Ports, NEW S, NEW order \in Seq(S), NEW dlci
    PROVE  /\ Good(NniRestart(w, p, order)) /\ Good(NniRestartChannel(w, p, dlci, order))
           /\ Good(InitiateRestart(w, p, order))
  <1> DEFINE w1 == [w EXCEPT !.restart[p] = 0]
             i == SelectInSeq(order, LAMBDA x : dlci \in {w.calls[x].in, w.calls[x].out})
             w2 == FoldLeft(NniDrop, w, order)
             w3 == [w2 EXCEPT !.restart[p] = 1]
  <1>1. NniRestart(w, p, order) = FoldLeft(NniDrop, w1, order)
    BY Zenon DEF NniRestart
  <1>2. NniRestartChannel(w, p, dlci, order) = w1 \/ NniRestartChannel(w, p, dlci, order) = NniDrop(w1, order[i])
    BY Zenon DEF NniRestartChannel
  <1>3. InitiateRestart(w, p, order) = w3
    BY Zenon DEF InitiateRestart
  <1>0. 0 \in 0 .. 3 /\ 1 \in 0 .. 3
    OBVIOUS
  <1>4. Good(w1)
    <2>1. Sheds(w, w1, {})
      BY <1>0, Restarting
    <2> QED  BY <2>1 DEF Sheds
  <1>5. Good(w2)
    BY AllDropped
  <1> HIDE DEF w1, w2, i
  <1>6. Good(w3)
    <2>1. Sheds(w2, w3, {})
      BY <1>0, <1>5, Restarting
    <2> QED  BY <2>1 DEF Sheds
  <1> HIDE DEF w3
  <1>7. QED
    BY <1>1, <1>2, <1>3, <1>4, <1>6, AllDropped, Dropped

LEMMA OrdersOf ==
    ASSUME NEW w, Good(w), NEW p, NEW order \in SetToSeqs(LegsAt(w, p))
    PROVE  LegsAt(w, p) \in SUBSET DOMAIN w.calls /\ order \in Seq(LegsAt(w, p)) /\ Once(order)
  <1> DEFINE n == Cardinality(LegsAt(w, p))
  <1>1. n \in Nat
    BY LegsFinite, FS_CardinalityType
  <1>2. order \in [1 .. n -> LegsAt(w, p)] /\ \A i, j \in 1 .. n : i # j => order[i] # order[j]
    BY DEF SetToSeqs
  <1> HIDE DEF n
  <1>3. order \in Seq(LegsAt(w, p)) /\ Len(order) = n
    BY <1>1, <1>2
  <1>4. QED
    BY <1>2, <1>3 DEF LegsAt, Once

LEMMA DirTyped == Configured => Len(dir.subs) \in Nat
  <1> SUFFICES ASSUME Configured PROVE Len(dir.subs) \in Nat
    OBVIOUS
  <1>1. PICK A, B : dir \in Directories(A, B)
    BY ConfigureType DEF Configured
  <1>2. dir.subs \in Seq(A)
    BY <1>1 DEF Directories
  <1>3. QED
    BY <1>2

-----------------------------------------------------------------------------
(***************************************************************************)
(* The invariant, and what follows.                                        *)
(***************************************************************************)
IInv == Configured /\ Good(sw) /\ sent \in 0 .. MaxMessages /\ mishap \in BOOLEAN

LEMMA Starts == Init => IInv
  <1> SUFFICES ASSUME Init PROVE IInv
    OBVIOUS
  <1> DEFINE table == FoldLeft(LAMBDA t, a : AddPvc(t, a[1], a[2]), EmptyTable, Access)
  <1>1. PICK config \in Configs :
           /\ dir = Configure(config)
           /\ sw = [calls   |-> <<>>,
                    pool    |-> [p \in Ports |-> AllocInit],
                    tab     |-> table,
                    spvc    |-> [i \in DOMAIN Spvcs |-> SpvcIdle],
                    restart |-> [p \in Ports |-> 0],
                    lapf    |-> config.lapf,
                    shared  |-> {AccessPoint(i) : i \in DOMAIN Spvcs}]
    BY Zenon DEF Init
  <1> HIDE DEF table
  <1>2. /\ DOMAIN sw = {"calls", "pool", "tab", "spvc", "restart", "lapf", "shared"}
        /\ DOMAIN sw.calls = {} /\ sw.pool = [p \in Ports |-> AllocInit]
        /\ sw.spvc = [i \in DOMAIN Spvcs |-> SpvcIdle] /\ sw.restart = [p \in Ports |-> 0]
        /\ sw.lapf \subseteq Ports
    BY <1>1, ConfigAssumption
  <1>3. \A p : LegsAt(sw, p) = {}
    BY <1>2 DEF LegsAt
  <1>4. LegsTyped(sw) /\ PortsTyped(sw) /\ SpvcsTyped(sw)
    BY <1>2 DEF LegsTyped, PortsTyped, SpvcsTyped, IsSpvc, SpvcIdle
  <1>5. Limited(sw)
    BY <1>3, FS_EmptySet, SvcCallsAssumption DEF Limited
  <1>6. Accounted(sw)
    BY <1>2, <1>3, InitWorks DEF Accounted
  <1>7. Configured /\ sent \in 0 .. MaxMessages /\ mishap \in BOOLEAN
    <2>1. Configured /\ sent = 0 /\ mishap = FALSE
      BY <1>1, Zenon DEF Init, Configured
    <2>2. MaxMessages \in Nat
      BY SvcSwitchAssumption
    <2>3. sent \in 0 .. MaxMessages
      BY <2>1, <2>2
    <2>4. mishap \in BOOLEAN
      BY <2>1
    <2> QED  BY <2>1, <2>3, <2>4
  <1>8. QED
    BY <1>2, <1>4, <1>5, <1>6, <1>7 DEF IInv, Good

LEMMA SetupGood == IInv /\ Setup => Good(sw')
  <1> SUFFICES ASSUME IInv, Setup PROVE Good(sw')
    OBVIOUS
  <1>1. PICK m \in Setups, c \in NeighbourCrvs :
            sw' = IF m.port \in Nni THEN NniSetup(sw, dir, <<m.port, c, 1>>, m) ELSE UniSetup(sw, dir, <<m.port, c, 1>>, m)
    BY Zenon DEF Setup, Arrives
  <1> DEFINE x == <<m.port, c, 1>>
  <1>2. x \in LegIds
    BY SvcSwitchAssumption DEF LegIds
  <1>3. Len(dir.subs) \in Nat
    BY DirTyped DEF IInv
  <1> HIDE DEF x
  <1>4. QED
    BY <1>1, <1>2, <1>3, NniCalls, UniCalls DEF IInv, x

LEMMA EstablishGood == IInv /\ Establish => Good(sw')
  <1> SUFFICES ASSUME IInv, NEW p \in Ports, sw' = [sw EXCEPT !.lapf = @ \cup {p}] PROVE Good(sw')
    BY Zenon DEF Establish, Arrives
  <1> DEFINE v == [sw EXCEPT !.lapf = @ \cup {p}]
  <1>1. /\ DOMAIN v = DOMAIN sw /\ v.pool = sw.pool /\ v.calls = sw.calls /\ v.spvc = sw.spvc
        /\ v.restart = sw.restart /\ v.lapf = sw.lapf \cup {p} /\ v.shared = sw.shared /\ Good(sw)
    BY DEF IInv, Good
  <1> HIDE DEF v
  <1>2. PortsTyped(v) /\ SpvcsTyped(v)
    BY <1>1 DEF Good, PortsTyped, SpvcsTyped
  <1>3. \A y \in DOMAIN sw.calls : IsLeg(v.calls[y]) /\ v.calls[y].peer # y /\ v.calls[y].in = sw.calls[y].in
    BY <1>1 DEF Good, LegsTyped
  <1>4. Sheds(sw, v, {})
    BY <1>1, <1>2, <1>3, Alike
  <1>5. QED
    BY <1>4 DEF Sheds, v

LEMMA AnswersGood == IInv /\ (CallProceeding \/ Connect \/ ConnectAck) => Good(sw')
  <1> SUFFICES ASSUME IInv, CallProceeding \/ Connect \/ ConnectAck PROVE Good(sw')
    OBVIOUS
  <1>1. UniLegs \subseteq DOMAIN sw.calls /\ NniLegs \subseteq DOMAIN sw.calls /\ Good(sw)
    BY DEF UniLegs, NniLegs, Legs, LegsAt, IInv
  <1>2. CASE CallProceeding
    <2>1. \/ \E x \in UniLegs, q \in {"ok", "nodlci", "baddlci"} : sw' = UniCallProceeding(sw, x, q)
          \/ \E x \in NniLegs : sw' = NniCallProceeding(sw, x)
      BY <1>2, Zenon DEF CallProceeding, Arrives
    <2> QED  BY <1>1, <2>1, UniProceeds, NniProceeds
  <1>3. CASE Connect
    <2>1. \/ \E x \in UniLegs, q \in {"ok", "nodlci", "baddlci", "refused"} : sw' = UniConnect(sw, x, q)
          \/ \E x \in NniLegs, q \in {"ok", "wrong", "refused"} : sw' = NniConnect(sw, x, q)
      BY <1>3, Zenon DEF Connect, Arrives
    <2> QED  BY <1>1, <2>1, UniConnects, NniConnects
  <1>4. CASE ConnectAck
    <2>1. \E x \in UniLegs : sw' = UniConnectAck(sw, x)
      BY <1>4, Zenon DEF ConnectAck, Arrives
    <2> QED  BY <1>1, <2>1, UniAcknowledges
  <1>5. QED
    BY <1>2, <1>3, <1>4

LEMMA ClearingGood == IInv /\ (Disconnect \/ Release \/ ReleaseComplete \/ Status) => Good(sw')
  <1> SUFFICES ASSUME IInv, Disconnect \/ Release \/ ReleaseComplete \/ Status PROVE Good(sw')
    OBVIOUS
  <1>1. UniLegs \subseteq DOMAIN sw.calls /\ NniLegs \subseteq DOMAIN sw.calls /\ Good(sw)
    BY DEF UniLegs, NniLegs, Legs, LegsAt, IInv
  <1>2. CASE Disconnect
    <2>1. \E x \in UniLegs : sw' = UniDisconnect(sw, x)
      BY <1>2, Zenon DEF Disconnect, Arrives
    <2> QED  BY <1>1, <2>1, UniDisconnects
  <1>3. CASE Release
    <2>1. (\E x \in UniLegs : sw' = UniRelease(sw, x)) \/ (\E x \in NniLegs : sw' = NniRelease(sw, x))
      BY <1>3, Zenon DEF Release, Arrives
    <2> QED  BY <1>1, <2>1, UniReleases, NniReleases
  <1>4. CASE ReleaseComplete
    <2>1. (\E x \in UniLegs : sw' = UniRelease(sw, x)) \/ (\E x \in NniLegs : sw' = NniReleaseComplete(sw, x))
      BY <1>4, Zenon DEF ReleaseComplete, Arrives
    <2> QED  BY <1>1, <2>1, UniReleases, NniReleases
  <1>5. CASE Status
    <2>1. \/ \E x \in UniLegs, s \in {"N0", "same", "other"} : sw' = UniStatus(sw, x, s)
          \/ \E x \in NniLegs, s \in {"N0", "other"} : sw' = NniStatus(sw, x, s)
      BY <1>5, Zenon DEF Status, Arrives
    <2>2. \A x, s : NniStatus(sw, x, s) = sw \/ NniStatus(sw, x, s) = NniDrop(sw, x)
      BY Zenon DEF NniStatus
    <2> QED  BY <1>1, <2>1, <2>2, UniReports, Dropped
  <1>6. QED
    BY <1>2, <1>3, <1>4, <1>5

LEMMA RestartsGood == IInv /\ (Restart \/ RestartAck \/ OperatorRestart \/ OperatorClear) => Good(sw')
  <1> SUFFICES ASSUME IInv, Restart \/ RestartAck \/ OperatorRestart \/ OperatorClear PROVE Good(sw')
    OBVIOUS
  <1>1. Good(sw) /\ \A p : Legs(p) = LegsAt(sw, p) /\ Legs(p) \subseteq DOMAIN sw.calls
    BY DEF Legs, LegsAt, IInv
  <1>2. CASE Restart
    <2>1. PICK p \in Ports : \E order \in SetToSeqs(LegsAt(sw, p)) :
              \/ sw' = UniRestart(sw, order) \/ sw' = NniRestart(sw, p, order)
              \/ \E x \in Legs(p) : sw' = NniRestartChannel(sw, p, sw.calls[x].in, order)
      BY <1>1, <1>2, Zenon DEF Restart, Arrives
    <2>2. PICK order \in SetToSeqs(LegsAt(sw, p)) :
              \/ sw' = UniRestart(sw, order) \/ sw' = NniRestart(sw, p, order)
              \/ \E x \in Legs(p) : sw' = NniRestartChannel(sw, p, sw.calls[x].in, order)
      BY <2>1
    <2>3. LegsAt(sw, p) \in SUBSET DOMAIN sw.calls /\ order \in Seq(LegsAt(sw, p)) /\ Once(order)
      BY <1>1, OrdersOf
    <2> QED  BY <1>1, <2>2, <2>3, UniRestarts, NniRestarts
  <1>3. CASE RestartAck
    <2>1. PICK p \in Ports : sw' = [sw EXCEPT !.restart[p] = 0]
      BY <1>3, Zenon DEF RestartAck, Arrives
    <2>2. 0 \in 0 .. 3
      OBVIOUS
    <2>3. Sheds(sw, [sw EXCEPT !.restart[p] = 0], {})
      BY <1>1, <2>2, Restarting
    <2> QED  BY <2>1, <2>3 DEF Sheds
  <1>4. CASE OperatorRestart
    <2>1. PICK p \in Nni : \E order \in SetToSeqs(LegsAt(sw, p)) : sw' = InitiateRestart(sw, p, order)
      BY <1>1, <1>4, Zenon DEF OperatorRestart, Arrives
    <2>2. PICK order \in SetToSeqs(LegsAt(sw, p)) : sw' = InitiateRestart(sw, p, order)
      BY <2>1
    <2>3. p \in Ports /\ order \in Seq(LegsAt(sw, p))
      BY <1>1, OrdersOf, SvcCallsAssumption
    <2> QED  BY <1>1, <2>2, <2>3, NniRestarts
  <1>5. CASE OperatorClear
    <2>1. \E p \in Ports : \E x \in Legs(p) : sw' = Clear(sw, x)
      BY <1>5, Zenon DEF OperatorClear, Arrives
    <2>2. \E x \in DOMAIN sw.calls : sw' = Clear(sw, x)
      BY <1>1, <2>1
    <2> QED  BY <1>1, <2>2, Cleared DEF Sheds
  <1>6. QED
    BY <1>2, <1>3, <1>4, <1>5

LEMMA OthersGood == IInv /\ (TimerRunsOut \/ \E i \in DOMAIN Spvcs : Poll(i)) => Good(sw')
  <1> SUFFICES ASSUME IInv, TimerRunsOut \/ \E i \in DOMAIN Spvcs : Poll(i) PROVE Good(sw')
    OBVIOUS
  <1>1. Good(sw) /\ Len(dir.subs) \in Nat
    BY DirTyped DEF IInv
  <1>2. CASE \E x \in DOMAIN sw.calls : Expire(x)
    <2>1. PICK x \in DOMAIN sw.calls : \E t \in sw.calls[x].timers : sw' = Expired(sw, x, t)
      BY <1>2, Zenon DEF Expire
    <2>2. sw.calls[x].timers \subseteq Timers
      BY <1>1 DEF Good, LegsTyped, IsLeg
    <2> QED  BY <1>1, <2>1, <2>2, TimerExpires
  <1>3. CASE \E p \in Ports : ExpireRestart(p)
    <2>1. PICK p \in Ports : sw' = RestartExpired(sw, p)
      BY <1>3, Zenon DEF ExpireRestart
    <2> DEFINE n == IF sw.restart[p] < 3 THEN sw.restart[p] + 1 ELSE 0
    <2>2. sw' = [sw EXCEPT !.restart[p] = n]
      BY <1>1, <2>1 DEF RestartExpired, Good, PortsTyped
    <2>3. n \in 0 .. 3
      BY <1>1 DEF Good, PortsTyped
    <2> HIDE DEF n
    <2>4. Sheds(sw, [sw EXCEPT !.restart[p] = n], {})
      BY <1>1, <2>3, Restarting
    <2> QED  BY <2>2, <2>4 DEF Sheds
  <1>4. CASE \E i \in DOMAIN Spvcs : Poll(i)
    <2>1. \E i \in DOMAIN Spvcs, accessUp \in BOOLEAN : sw' = PollSpvc(sw, dir, i, accessUp)
      BY <1>4, Zenon DEF Poll, Arrives
    <2> QED  BY <1>1, <2>1, SpvcPolled
  <1>5. QED
    BY <1>2, <1>3, <1>4, Zenon DEF TimerRunsOut

LEMMA BoundsKept == IInv /\ [Next]_vars => sent' \in 0 .. MaxMessages /\ mishap' \in BOOLEAN
  <1> SUFFICES ASSUME IInv, [Next]_vars PROVE sent' \in 0 .. MaxMessages /\ mishap' \in BOOLEAN
    OBVIOUS
  <1>1. mishap \in BOOLEAN /\ sent \in 0 .. MaxMessages /\ MaxMessages \in Nat
    BY SvcSwitchAssumption DEF IInv
  <1>2. sent' = sent \/ (sent < MaxMessages /\ sent' = sent + 1)
    <2>1. CASE UNCHANGED vars
      BY <2>1 DEF vars
    <2>2. CASE Setup \/ Establish \/ CallProceeding \/ Connect \/ ConnectAck
      BY <2>2, Zenon DEF Setup, Establish, CallProceeding, Connect, ConnectAck, Arrives
    <2>3. CASE Disconnect \/ Release \/ ReleaseComplete \/ Status
      BY <2>3, Zenon DEF Disconnect, Release, ReleaseComplete, Status, Arrives
    <2>4. CASE Restart \/ RestartAck \/ OperatorRestart \/ OperatorClear
      BY <2>4, Zenon DEF Restart, RestartAck, OperatorRestart, OperatorClear, Arrives
    <2>5. CASE TimerRunsOut
      BY <2>5, Zenon DEF TimerRunsOut, Expire, ExpireRestart
    <2>6. CASE \E i \in DOMAIN Spvcs : Poll(i)
      BY <2>6, Zenon DEF Poll, Arrives
    <2> QED  BY <2>1, <2>2, <2>3, <2>4, <2>5, <2>6, Zenon DEF Next
  <1>3. mishap' \in BOOLEAN
    <2>0. \A P, Q : (P \/ Q) \in BOOLEAN
      OBVIOUS
    <2>1. CASE UNCHANGED vars
      BY <1>1, <2>1 DEF vars
    <2>2. CASE Setup \/ Establish \/ CallProceeding \/ Connect \/ ConnectAck
      BY <1>1, <2>0, <2>2, Zenon DEF Setup, Establish, CallProceeding, Connect, ConnectAck
    <2>3. CASE Disconnect \/ Release \/ ReleaseComplete \/ Status
      BY <1>1, <2>0, <2>3, Zenon DEF Disconnect, Release, ReleaseComplete, Status
    <2>4. CASE Restart \/ RestartAck \/ OperatorRestart \/ OperatorClear
      BY <1>1, <2>0, <2>4, Zenon DEF Restart, RestartAck, OperatorRestart, OperatorClear
    <2>5. CASE TimerRunsOut
      BY <1>1, <2>5, Zenon DEF TimerRunsOut, Expire, ExpireRestart
    <2>6. CASE \E i \in DOMAIN Spvcs : Poll(i)
      BY <1>1, <2>0, <2>6, Zenon DEF Poll
    <2> QED  BY <2>1, <2>2, <2>3, <2>4, <2>5, <2>6, Zenon DEF Next
  <1>4. QED
    BY <1>1, <1>2, <1>3

LEMMA StaysGood == Spec => []IInv
  <1>1. IInv /\ Configured' /\ [Next]_vars => IInv'
    <2> SUFFICES ASSUME IInv, Configured', [Next]_vars PROVE IInv'
      OBVIOUS
    <2>1. sent' \in 0 .. MaxMessages /\ mishap' \in BOOLEAN
      BY BoundsKept
    <2>2. Good(sw')
      <3>1. CASE UNCHANGED vars
        BY <3>1 DEF vars, IInv
      <3>2. CASE Next
        BY <3>2, SetupGood, EstablishGood, AnswersGood, ClearingGood, RestartsGood, OthersGood, Zenon DEF Next
      <3> QED  BY <3>1, <3>2
    <2>3. Good(sw)'
      BY <2>2
    <2> QED  BY <2>1, <2>3 DEF IInv
  <1>2. QED
    BY Starts, StaysConfigured, <1>1, PTL DEF Spec

\* Every leg is one of a port and a call reference, in a state and with timers
\* the code gives legs; the pools hold DLCIs of their range; the number of a
\* RESTART never passes 3; whatever comes and whatever expires.
THEOREM TypeCorrect == Spec => []TypeOK
  <1>1. IInv => TypeOK
    <2> SUFFICES ASSUME IInv PROVE TypeOK
      OBVIOUS
    <2>1. \A x \in DOMAIN sw.calls : x \in LegIds /\ IsLeg(Leg(x))
      BY DEF IInv, Good, LegsTyped, Leg
    <2>2. \A p \in Ports : FreeDlcis(sw.pool[p]) \subseteq OwnRange /\ sw.restart[p] \in 0 .. 3
      BY DEF IInv, Good, Accounted, PortsTyped
    <2>3. \A i \in DOMAIN Spvcs : sw.spvc[i].state \in {"idle", "setup", "connected", "retry"}
      BY DEF IInv, Good, SpvcsTyped, IsSpvc
    <2>4. sent \in 0 .. MaxMessages /\ mishap \in BOOLEAN
      BY DEF IInv
    <2> HIDE DEF Leg
    <2> QED  BY <2>1, <2>2, <2>3, <2>4 DEF TypeOK, LegIds, IsLeg, LegStates, Timers
  <1>2. QED
    BY <1>1, StaysGood, PTL

\* svc_dlci_alloc never hands out a DLCI that a leg of the port holds, unless a
\* neighbour has proposed that DLCI; and the list of free ranges stays sorted
\* with gaps between them; however calls are set up, refused, crossed, restarted
\* and cleared.
THEOREM AccountingHolds == Spec => []DlciAccounting
  <1>1. IInv => DlciAccounting
    <2> SUFFICES ASSUME IInv, NEW p \in Ports
                 PROVE  /\ WellFormedPool(sw.pool[p])
                        /\ \A x \in Legs(p) :
                               NearEnd(sw, x) \notin sw.shared =>
                                   /\ Leg(x).in \notin FreeDlcis(sw.pool[p])
                                   /\ \A y \in Legs(p) : Leg(x).in \in OwnRange /\ Leg(x).in = Leg(y).in => x = y
      BY Zenon DEF DlciAccounting
    <2>1. /\ WellFormedPool(sw.pool[p]) /\ FreeDlcis(sw.pool[p]) \subseteq OwnRange
          /\ \A x, y \in LegsAt(sw, p) : sw.calls[x].in \in Proper(sw, p) /\ sw.calls[x].in = sw.calls[y].in => x = y
          /\ \A x \in LegsAt(sw, p) : sw.calls[x].in \in Proper(sw, p) => sw.calls[x].in \notin FreeDlcis(sw.pool[p])
      BY Zenon DEF IInv, Good, Accounted
    <2>2. \A x \in LegsAt(sw, p) :
              NearEnd(sw, x) \notin sw.shared /\ sw.calls[x].in \in OwnRange => sw.calls[x].in \in Proper(sw, p)
      BY DEF LegsAt, NearEnd, Proper
    <2>3. Legs(p) = LegsAt(sw, p) /\ \A x : Leg(x) = sw.calls[x]
      BY DEF Legs, Leg
    <2> QED  BY <2>1, <2>2, <2>3
  <1>2. QED
    BY <1>1, StaysGood, PTL

\* svc_free_call gives every DLCI back that svc_dlci_alloc handed out, as long
\* as the list of free ranges has room for the most scattered set of free DLCIs
\* of the range.  The code's list of 64 has for ranges of at most 126 DLCIs.
THEOREM ReturnedIfRoomy == Roomy => (Spec => []DlciReturned)
  <1> SUFFICES ASSUME Roomy PROVE Spec => []DlciReturned
    OBVIOUS
  <1>1. IInv => DlciReturned
    <2> SUFFICES ASSUME IInv, NEW p \in Ports
                 PROVE  OwnRange \subseteq FreeDlcis(sw.pool[p]) \cup {Leg(x).in : x \in Legs(p)}
      BY Zenon DEF DlciReturned
    <2>1. OwnRange \subseteq FreeDlcis(sw.pool[p]) \cup {sw.calls[x].in : x \in LegsAt(sw, p)}
      BY Zenon DEF IInv, Good, Accounted
    <2> QED  BY <2>1, Zenon DEF Leg, Legs
  <1>2. QED
    BY <1>1, StaysGood, PTL
=============================================================================
