------------------------------- MODULE Spvc --------------------------------
(***************************************************************************)
(* Soft PVCs: a permanent circuit at the edge, a switched call through the *)
(* network.  The switch dials for the modes "inter" and "pvc_to_svc",      *)
(* accepts calls from the network for "inter" and from a user for          *)
(* "svc_to_pvc".                                                           *)
(***************************************************************************)
EXTENDS SvcCalls

CONSTANTS
    Spvcs,       \* configured, newest first: [mode, port, dlci, addr, target]
    Access       \* the access PVCs configured, in the order they are read: pairs of points

ASSUME SpvcAssumption ==
    /\ Spvcs \in Seq(Range(Spvcs)) /\ Access \in Seq(Range(Access))
    /\ \A i \in DOMAIN Spvcs : /\ Spvcs[i].mode \in {"inter", "pvc_to_svc", "svc_to_pvc"}
                               /\ Spvcs[i].port \in Ports /\ Spvcs[i].dlci \in Nat

SpvcIdle == [state |-> "idle", crv |-> 0, port |-> NoPort]

\* The first soft PVC of the list that satisfies Test, 0 if none does.
SpvcWhere(Test(_)) == SelectInSeq([i \in DOMAIN Spvcs |-> i], Test)

AccessPoint(i) == <<Spvcs[i].port, Spvcs[i].dlci>>

SpvcTo(w, i, state, x) == [w EXCEPT !.spvc[i] = [state |-> state, crv |-> x[2], port |-> x[1]]]

\* The soft PVC whose call x is taken to be.
SpvcOf(w, x) == SpvcWhere(LAMBDA i : w.spvc[i].crv = x[2] /\ w.spvc[i].port = x[1])

(***************************************************************************)
(* Calls from the network and from users.                                  *)
(***************************************************************************)
Accept(w, x, i) ==
    LET w1 == SpvcTo(w, i, "connected", x)
    IN [w1 EXCEPT !.tab = AddPvc(@, NearEnd(w, x), AccessPoint(i)), !.calls[x].state = "N10"]

\* spvc_handle_incoming_setup
SvcToPvc(w, called) ==
    LET i == SpvcWhere(LAMBDA j : Spvcs[j].mode = "svc_to_pvc" /\ Spvcs[j].addr = called)
    IN IF i # 0 /\ HasEntry(w.tab, AccessPoint(i)) THEN i ELSE 0

AcceptSvcToPvc(w, x, i) ==
    Accept([w EXCEPT !.calls[x].outPort = Spvcs[i].port, !.calls[x].out = Spvcs[i].dlci], x, i)

\* spvc_handle_nni_incoming_setup: 0 when no soft PVC is meant
CalledSpvc(m) ==
    IF ~m.spvc THEN 0
    ELSE SpvcWhere(LAMBDA i : /\ Spvcs[i].mode = "inter"
                              /\ \/ Spvcs[i].addr = m.called
                                 \/ Spvcs[i].target > 0 /\ Spvcs[i].target = m.target)

\* A call for an access PVC that is not there is answered with RELEASE
\* COMPLETE, and its leg stays.
IncomingSpvc(w, x, i) == IF HasEntry(w.tab, AccessPoint(i)) THEN Accept(w, x, i) ELSE w

\* spvc_handle_nni_connect: "wrong" when another DLCI was assigned than asked for
SpvcConnected(w, x, assigned) ==
    LET i == SpvcOf(w, x)
        w1 == [w EXCEPT !.spvc[i].state = "connected", !.tab = AddPvc(@, AccessPoint(i), NearEnd(w, x))]
    IN IF i = 0 THEN w
       ELSE IF Spvcs[i].target > 0 /\ assigned = "wrong" THEN NniClear(w, x)
       ELSE w1

\* spvc_handle_nni_release_cause
SpvcReleased(w, x) ==
    LET i == SpvcOf(w, x)
    IN IF i = 0 THEN w
       ELSE [w EXCEPT !.tab = DelPvc(DelPvc(@, AccessPoint(i)), NearEnd(w, x)),
                      !.spvc[i].state = "retry", !.spvc[i].crv = 0]

(***************************************************************************)
(* Calls the switch dials.  d is the directory.                            *)
(***************************************************************************)
\* spvc_trigger_call
Dial(w, d, i) ==
    LET q == RouteLookup(d, Spvcs[i].addr, NoNet, {})
        got == DlciAlloc(w.pool[q])
        x == <<q, NewCrv(w, q), 0>>
        leg == [NewLeg("N1", got.dlci) EXCEPT !.out = Spvcs[i].dlci, !.outPort = Spvcs[i].port, !.timers = {"T303"}]
        w1 == SetLeg([w EXCEPT !.pool[q] = got.pool], x, leg)
    IN IF q = NoPort \/ ~HasRoom(w, q) \/ got.dlci = 0 THEN [w EXCEPT !.spvc[i].state = "retry"]
       ELSE SpvcTo(w1, i, "setup", x)

\* spvc_poll_timers, one soft PVC: accessUp says what LMI knows of its port.
PollSpvc(w, d, i, accessUp) ==
    LET active == accessUp /\ HasEntry(w.tab, AccessPoint(i))
        s == w.spvc[i]
        x == <<s.port, s.crv, 0>>
        w1 == IF x \in DOMAIN w.calls THEN NniClear(w, x) ELSE w
    IN IF active /\ s.state \in {"idle", "retry"} THEN Dial(w, d, i)
       ELSE IF ~active /\ s.state = "connected" THEN [w1 EXCEPT !.spvc[i].state = "idle"]
       ELSE w
=============================================================================
