------------------------------- MODULE MCSvc -------------------------------
(***************************************************************************)
(* A switch with one user and one neighbouring network.  Its own code is   *)
(* "1", so that "10" is the switch itself; the user is "12", by a second   *)
(* configuration also "2" and "11", and "13" is configured twice; numbers  *)
(* that begin with "3" are beyond the network, by several routes.          *)
(***************************************************************************)
EXTENDS SvcSwitch

CONSTANTS U, N

MCPorts == {U, N}
MCNni == {N}
MCNoPort == "nowhere"
MCDigits == {"0", "1", "2", "3"}
MCDnic == <<"1">>
MCNoCode == <<>>

Subscriber(digits, port) == [number |-> digits, auto |-> FALSE, alias |-> NoNumber, port |-> port]
Route(digits, port, net, metric) == [prefix |-> digits, port |-> port, net |-> net, metric |-> metric]

MCConfigs ==
    {[addrs  |-> <<Subscriber(<<"dnic", "2">>, U)>>,
      routes |-> <<Route(<<"3">>, N, NoNet, 0)>>, lapf |-> {}],
     [addrs  |-> <<[Subscriber(<<"2">>, U) EXCEPT !.auto = TRUE, !.alias = <<"2">>], Subscriber(<<"1", "1">>, U),
                   Subscriber(<<"1", "3">>, N), Subscriber(<<"1", "0">>, N), Subscriber(<<"1", "3">>, U)>>,
      routes |-> <<Route(<<"3">>, N, "far", 5), Route(<<"3">>, MCNoPort, NoNet, 20),
                   Route(<<"3", "1">>, U, "near", 6), Route(<<"3", "1">>, N, NoNet, 7)>>, lapf |-> {U}]}

Call(port, digits) ==
    [port |-> port, called |-> digits, tns |-> NoNet, dlci |-> IF port = N THEN 8 ELSE 0, tni |-> {},
     refused |-> FALSE, reverse |-> FALSE, spvc |-> FALSE, target |-> 0]

MCSetups ==
    {[Call(U, <<"1", "2">>) EXCEPT !.dlci = 2], Call(U, <<"1", "0">>), Call(U, <<"2", "2">>),
     [Call(U, <<"3", "1">>) EXCEPT !.tns = "far"],
     [Call(U, <<"3">>) EXCEPT !.reverse = TRUE], Call(U, <<"3", "1">>), [Call(U, <<"3">>) EXCEPT !.refused = TRUE],
     [Call(N, <<"1", "2">>) EXCEPT !.dlci = 1],
     [Call(N, <<"3", "1">>) EXCEPT !.tni = {"near"}],
     [Call(N, <<"3">>) EXCEPT !.spvc = TRUE, !.target = 9]}

MCSpvcs ==
    <<[mode |-> "inter", port |-> U, dlci |-> 9, addr |-> <<"3", "1">>, target |-> 9],
      [mode |-> "svc_to_pvc", port |-> U, dlci |-> 9, addr |-> <<"2", "2">>, target |-> 0]>>
MCAccess == <<<<<<U, 9>>, <<U, 20>>>>>>
MCNoAccess == <<>>
MCBarred == {N}

MCMessages ==
    {"sabme", "call proceeding", "connect", "connect ack", "disconnect", "release", "release complete", "status",
     "restart", "restart ack", "operator"}

\* For the runs that expect a violation: callers and called users only, and a
\* neighbour that calls a soft PVC.
MCAnswer == {"call proceeding", "connect"}
MCHangUp == {"release"}
MCTalk == {"connect", "release"}
MCCrossed == {Call(U, <<"3", "1">>), Call(U, <<"1", "0">>)}
=============================================================================
