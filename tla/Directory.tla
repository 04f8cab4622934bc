----------------------------- MODULE Directory -----------------------------
(***************************************************************************)
(* Numbering and routing.  A number is a sequence of digits; the           *)
(* configuration may write the switch's own codes as macros in it.  The    *)
(* directory d has the subscriber table, the route table, both in order of *)
(* configuration, and for each port the number its signalling context      *)
(* holds, which is the last one configured on it.                          *)
(***************************************************************************)
EXTENDS Naturals, Sequences, SequencesExt

CONSTANTS
    Ports,
    Digits,
    Dnic, Sgc, Sic,   \* the codes of the switch, written out
    SubNumLen,        \* the digits a subscriber has under the switch's code
    MaxDigits,        \* 14 for X.121
    MaxSubscribers, MaxRoutes,
    NoPort            \* no route, or a port that does not exist

ASSUME DirectoryAssumption ==
    /\ {Dnic, Sgc, Sic} \subseteq Seq(Digits)
    /\ {"0"} \subseteq Digits /\ {"dnic", "sgc", "sic", ","} \cap Digits = {}
    /\ {SubNumLen, MaxDigits, MaxSubscribers, MaxRoutes} \subseteq Nat
    /\ NoPort \notin Ports

NoNumber == <<>>
NoNet == "none"

EmptyDirectory ==
    [subs |-> <<>>, routes |-> <<>>, primary |-> [p \in Ports |-> NoNumber]]

\* svc_numbering_expand: macros become digits, commas disappear.
Written(c) ==
    CASE c = "dnic" -> Dnic [] c = "sgc" -> Sgc [] c = "sic" -> Sic
      [] c = "," -> <<>> [] OTHER -> <<c>>

Expand(raw) == FoldLeft(LAMBDA done, c : done \o Written(c), <<>>, raw)

OwnCode == Dnic \o Sgc \o Sic

\* svc_numbering_is_all_zeros: the number of the switch itself.
IsAllZeros(raw) ==
    LET number == Expand(raw)
        suffix == IF IsPrefix(OwnCode, number) THEN SubSeq(number, Len(OwnCode) + 1, Len(number)) ELSE number
    IN suffix # <<>> /\ \A i \in DOMAIN suffix : suffix[i] = "0"

FindSubscriber(d, number) ==
    LET hit(s) == s.number = Expand(number) /\ s.port \in Ports
        i == SelectInSeq(d.subs, hit)
    IN IF number = NoNumber \/ i = 0 THEN NoPort ELSE d.subs[i].port

\* Mutant: a number that another port already has is taken.
AddSubscriber_Duplicate(d, s) ==
    LET number == Expand(IF s.auto THEN <<"dnic", "sgc", "sic">> \o s.number ELSE s.number)
    IN IF IsAllZeros(number) \/ Len(number) > MaxDigits THEN d
       ELSE [d EXCEPT !.subs = Append(@, [number |-> number, port |-> s.port]), !.primary[s.port] = number]

\* svc_numbering_add_mode.  An alias is entered as it is, without the checks
\* the number itself goes through.
AddSubscriber(d, s) ==
    LET number == Expand(IF s.auto THEN <<"dnic", "sgc", "sic">> \o s.number ELSE s.number)
        alias == IF s.alias # NoNumber /\ Len(d.subs) + 1 < MaxSubscribers
                 THEN <<[number |-> Expand(s.alias), port |-> s.port]>> ELSE <<>>
    IN IF \/ s.auto /\ Len(s.number) > SubNumLen
          \/ ~(Range(number) \subseteq Digits)
          \/ Len(number) > MaxDigits
          \/ IsAllZeros(number)
          \/ \E i \in DOMAIN d.subs : d.subs[i].number = number
          \/ Len(d.subs) >= MaxSubscribers
       THEN d
       ELSE [d EXCEPT !.subs = @ \o <<[number |-> number, port |-> s.port]>> \o alias,
                      !.primary[s.port] = number]

AddRoute(d, r) ==
    IF Len(d.routes) >= MaxRoutes THEN d
    ELSE [d EXCEPT !.routes = Append(@, [prefix |-> Expand(r.prefix), port |-> r.port, net |-> r.net,
                                         metric |-> IF r.metric > 0 THEN r.metric ELSE 10])]

\* compile_svc: the addresses, then the routes, in the order of the file.
Configure(config) ==
    FoldLeft(AddRoute, FoldLeft(AddSubscriber, EmptyDirectory, config.addrs), config.routes)

\* svc_get_primary_number: a number of a port stands for the port's last one.
PrimaryNumber(d, number) ==
    LET p == FindSubscriber(d, Expand(number))
    IN IF p # NoPort /\ d.primary[p] # NoNumber THEN d.primary[p] ELSE number

BetterRoute(best, r) ==
    \/ Len(r.prefix) > Len(best.prefix)
    \/ Len(r.prefix) = Len(best.prefix) /\ r.metric < best.metric

\* Mutant: the first route that matches is taken.
ScanRoutes_First(routes, usable, number) ==
    LET i == SelectInSeq(routes, LAMBDA r : r \in usable /\ IsPrefix(r.prefix, number))
    IN IF i = 0 THEN <<>> ELSE <<routes[i]>>

\* The usable route the scan of the table ends with, as a sequence of at most one.
ScanRoutes(routes, usable, number) ==
    FoldLeft(LAMBDA best, r :
                 IF r \in usable /\ IsPrefix(r.prefix, number) /\ (best = <<>> \/ BetterRoute(best[1], r))
                 THEN <<r>> ELSE best,
             <<>>, routes)

RoutePort(hit) == IF hit # <<>> /\ hit[1].port \in Ports THEN hit[1].port ELSE NoPort

\* svc_route_lookup_ex: a subscriber, unless the caller selects a transit
\* network; then the routes of that network; then all routes that do not lead
\* back into a network the call has come through.
RouteLookup(d, called, tns, tni) ==
    LET number == Expand(called)
        viaTns == {r \in Range(d.routes) : r.net # NoNet /\ r.net = tns}
        noLoop == {r \in Range(d.routes) : r.net = NoNet \/ r.net \notin tni}
        local == IF tns = NoNet THEN FindSubscriber(d, number) ELSE NoPort
        selected == IF tns = NoNet THEN NoPort ELSE RoutePort(ScanRoutes(d.routes, viaTns, number))
    IN IF called = NoNumber THEN NoPort
       ELSE IF local # NoPort THEN local
       ELSE IF selected # NoPort THEN selected
       ELSE RoutePort(ScanRoutes(d.routes, noLoop, number))

\* What the lookup is meant to return, without the scan: the port of a route
\* that matches and that no other matching route is better than.
BestPorts(routes, number) ==
    LET matching == {r \in routes : IsPrefix(r.prefix, number)}
    IN {r.port : r \in {m \in matching : \A o \in matching : ~BetterRoute(m, o)}}
=============================================================================
