------------------------------- MODULE SvcNni ------------------------------
(***************************************************************************)
(* X.76 signalling at an NNI: what the switch does with each message of    *)
(* the neighbouring network.  x is the leg the message names; a message    *)
(* that names none changes nothing, whatever is answered, unless it is a   *)
(* SETUP.                                                                  *)
(***************************************************************************)
EXTENDS SvcUni

CONSTANTS
    OwnNet,     \* the network the switch is in
    MaxTnis     \* SVC_MAX_TRANSIT_NETWORKS

(***************************************************************************)
(* SETUP.  Beside what it has at a UNI, m has the networks the call came   *)
(* through (tni), and for a soft PVC the DLCI it is meant for (target).    *)
(***************************************************************************)
\* The leg on the way out gets its DLCI last; without one it is dropped.
NniOffer(w, x, q) ==
    LET y == <<q, NewCrv(w, q), 0>>
        got == DlciAlloc(w.pool[q])
        leg == [NewLeg("N6", got.dlci) EXCEPT !.peer = x, !.out = w.calls[x].in, !.outPort = x[1], !.timers = {"T303"}]
        w1 == [w EXCEPT !.pool[q] = got.pool,
                        !.calls[x] = [@ EXCEPT !.state = "N3", !.peer = y, !.out = got.dlci, !.outPort = q]]
    IN IF got.dlci = 0 THEN NniClear(w, x) ELSE SetLeg(w1, y, leg)

NniPlaceCall(w, d, x, m) ==
    LET own == IF Cardinality(m.tni) < MaxTnis THEN {OwnNet} ELSE {}
        q == RouteLookup(d, m.called, m.tns, m.tni \cup own)
    IN IF q = NoPort \/ ~HasRoom(w, q) THEN NniClear(w, x) ELSE NniOffer(w, x, q)

NniSetup(w, d, x, m) ==
    LET w1 == SetLeg(Claim(w, <<x[1], m.dlci>>), x, NewLeg("N0", m.dlci))
        i == CalledSpvc(m)
        looped == OwnNet \in m.tni \/ Cardinality(m.tni) > MaxTnis
        barred == m.reverse /\ x[1] \in ReverseBarred
    IN IF x \in DOMAIN w.calls \/ ~HasRoom(w, x[1]) THEN w
       ELSE IF looped \/ m.refused \/ m.called = NoNumber \/ barred THEN NniClear(w1, x)
       ELSE IF i # 0 THEN IncomingSpvc(w1, x, i)
       ELSE NniPlaceCall(w1, d, x, m)

(***************************************************************************)
(* The answer.                                                             *)
(***************************************************************************)
NniCallProceeding(w, x) ==
    IF w.calls[x].state # "N6" THEN w
    ELSE [w EXCEPT !.calls[x].state = "N9", !.calls[x].timers = (@ \ {"T303"}) \cup {"T310"}]

\* The timers of the peer run on: that is a T310 if it is a user's.
NniConnect(w, x, q) ==
    LET c == w.calls[x]
        w1 == Answered(w, x)
        w2 == [w1 EXCEPT !.calls[c.peer].state = "N10"]
    IN IF c.state \notin {"N6", "N9"} THEN w
       ELSE IF q = "refused" THEN NniClear(w, x)
       ELSE IF c.peer = NoPeer THEN SpvcConnected(w1, x, q)
       ELSE IF HasPeer(w, x) THEN CreateDataPvcs(w2, x) ELSE w1

(***************************************************************************)
(* Clearing.                                                               *)
(***************************************************************************)
\* A RELEASE that meets ours ends the call here; the peer is not told.
NniRelease(w, x) ==
    LET w1 == SpvcReleased(DestroyDataPvcs(w, x), x)
    IN IF w.calls[x].state = "N11" THEN FreeCall(SpvcReleased(w, x), x)
       ELSE FreeCall(ForwardClearing(w1, x), x)

\* Mutant: the other leg is not told.
NniReleaseComplete_Alone(w, x) == FreeCall(SpvcReleased(DestroyDataPvcs(w, x), x), x)

NniReleaseComplete(w, x) ==
    FreeCall(ForwardClearing(SpvcReleased(DestroyDataPvcs(w, x), x), x), x)

NniDrop(w, x) ==
    IF x \in DOMAIN w.calls THEN FreeCall(ForwardClearing(DestroyDataPvcs(w, x), x), x) ELSE w

\* Only a report of the null state counts.
NniStatus(w, x, reported) ==
    IF reported # "N0" THEN w ELSE NniDrop(w, x)

\* RESTART of the interface, which also ends a restart of ours; the legs of
\* the port in the order of the control blocks.
NniRestart(w, p, order) == FoldLeft(NniDrop, [w EXCEPT !.restart[p] = 0], order)

\* RESTART of one channel: the first leg that has the DLCI at either end.
NniRestartChannel(w, p, dlci, order) ==
    LET i == SelectInSeq(order, LAMBDA x : dlci \in {w.calls[x].in, w.calls[x].out})
        w1 == [w EXCEPT !.restart[p] = 0]
    IN IF i = 0 THEN w1 ELSE NniDrop(w1, order[i])

\* svc_nni_initiate_restart, at the console
InitiateRestart(w, p, order) == [FoldLeft(NniDrop, w, order) EXCEPT !.restart[p] = 1]
=============================================================================
