------------------------------- MODULE SvcUni ------------------------------
(***************************************************************************)
(* Q.933 signalling at a UNI, the network side (X.36): what the switch     *)
(* does with each message of a user.  x is the leg the message names; a    *)
(* message that names none changes nothing, whatever is answered, unless   *)
(* it is a SETUP.                                                          *)
(***************************************************************************)
EXTENDS Spvc

CONSTANT ReverseBarred   \* the ports that take no reverse charging

(***************************************************************************)
(* SETUP.  m has the called number, the transit network selected (tns),    *)
(* the DLCI asked for or 0, whether reverse charging is requested, and     *)
(* whether an element of the message is missing, invalid or out of range   *)
(* (refused).                                                              *)
(***************************************************************************)
\* svc_uni_handle_virtual_switch_call: the call ends at the switch itself.
VirtualSwitch(w, x) ==
    CreateDataPvcs([w EXCEPT !.calls[x] = [@ EXCEPT !.state = "N10", !.out = w.calls[x].in, !.outPort = x[1]]], x)

\* The leg on the way out.  Its DLCI may be 0: the allocator is not checked.
\* The incoming leg is given its own DLCI for the far end's.  A user whose port
\* has no LAPF entity for DLCI 0 is sent no SETUP, and nothing times the wait.
Offer(w, x, q) ==
    LET y == <<q, NewCrv(w, q), 0>>
        dlci == w.calls[x].in
        got == DlciAlloc(w.pool[q])
        leg == [NewLeg("N6", got.dlci) EXCEPT !.peer = x, !.out = dlci, !.outPort = x[1],
                                               !.timers = IF q \in Nni \cup w.lapf THEN {"T303"} ELSE {}]
        w1 == [w EXCEPT !.pool[q] = got.pool,
                        !.calls[x] = [@ EXCEPT !.state = "N3", !.timers = {"T310"}, !.peer = y,
                                               !.out = dlci, !.outPort = q]]
    IN SetLeg(w1, y, leg)

\* Where the call of leg x to number goes.
PlaceCall(w, d, x, m, number) ==
    LET q == RouteLookup(d, number, m.tns, {})
        i == SvcToPvc(w, number)
    IN IF IsAllZeros(number) THEN VirtualSwitch(w, x)
       ELSE IF i # 0 THEN AcceptSvcToPvc(w, x, i)
       ELSE IF q = NoPort \/ (m.reverse /\ q \in ReverseBarred) \/ ~HasRoom(w, q) THEN ClearBeforeActive(w, x)
       ELSE Offer(w, x, q)

UniSetup(w, d, x, m) ==
    LET w1 == SetLeg(Claim(w, <<x[1], m.dlci>>), x, NewLeg("N1", m.dlci))
        got == DlciAlloc(w.pool[x[1]])
        w2 == IF m.dlci # 0 THEN w1
              ELSE [w1 EXCEPT !.pool[x[1]] = got.pool, !.calls[x].in = got.dlci]
    IN IF x \in DOMAIN w.calls \/ ~HasRoom(w, x[1]) THEN w
       ELSE IF m.refused \/ m.called = NoNumber THEN ClearBeforeActive(w1, x)
       ELSE IF w2.calls[x].in = 0 THEN ClearBeforeActive(w2, x)
       ELSE PlaceCall(w2, d, x, m, PrimaryNumber(d, m.called))

(***************************************************************************)
(* The answer.  q says what is wrong with the message: "ok", "nodlci",     *)
(* "baddlci" (another DLCI than the call's) or "refused" (an element that  *)
(* must be understood and is not).                                         *)
(***************************************************************************)
ClearBoth(w, x) ==
    LET w1 == ClearBeforeActive(w, x)
    IN IF HasPeer(w, x) THEN ClearBeforeActive(w1, w.calls[x].peer) ELSE w1

\* Mutant: T303 is stopped and nothing takes its place.
UniCallProceeding_NoTimer(w, x, q) ==
    LET c == w.calls[x]
    IN IF c.state # "N6" THEN w
       ELSE IF q \in {"nodlci", "baddlci"} THEN ClearBoth(w, x)
       ELSE [w EXCEPT !.calls[x].state = "N9", !.calls[x].timers = @ \ {"T303"}]

UniCallProceeding(w, x, q) ==
    LET c == w.calls[x]
    IN IF c.state # "N6" THEN w
       ELSE IF q \in {"nodlci", "baddlci"} THEN ClearBoth(w, x)
       ELSE [w EXCEPT !.calls[x].state = "N9", !.calls[x].timers = (@ \ {"T303"}) \cup {"T310"}]

Answered(w, x) ==
    [w EXCEPT !.calls[x].state = "N10", !.calls[x].timers = @ \ {"T303", "T310"}]

UniConnect(w, x, q) ==
    LET c == w.calls[x]
        w1 == Answered(w, x)
        w2 == [w1 EXCEPT !.calls[c.peer].state = "N10", !.calls[c.peer].timers = @ \ {"T310"}]
    IN IF c.state \notin {"N6", "N9"} THEN w
       ELSE IF q = "refused" THEN ClearBeforeActive(w, x)
       ELSE IF q = "baddlci" \/ (q = "nodlci" /\ c.state = "N6") THEN ClearBoth(w, x)
       ELSE IF HasPeer(w, x) THEN CreateDataPvcs(w2, x) ELSE w1

\* In any state.
UniConnectAck(w, x) == CreateDataPvcs([w EXCEPT !.calls[x].state = "N10"], x)

(***************************************************************************)
(* Clearing by the user.                                                   *)
(***************************************************************************)
UniDisconnect(w, x) ==
    LET c == w.calls[x]
        y == c.peer
        w1 == DestroyDataPvcs(w, x)
        w2 == DestroyDataPvcs(w1, y)
        w3 == IF ~HasPeer(w, x) THEN w1 ELSE IF y[1] \in Nni THEN NniClear(w2, y) ELSE Await(w2, y, "N12", {"T305"})
        kept == IF c.state = "N12" THEN c.timers \ {"T305"} ELSE c.timers
    IN IF c.state \notin {"N10", "N12"} THEN w
       ELSE [w3 EXCEPT !.calls[x].state = "N19", !.calls[x].timers = kept \cup {"T308"}]

\* The peer of a leg that is going away is released, unless it is already.
ReleasePeer(w, x) ==
    LET y == w.calls[x].peer
        w1 == DestroyDataPvcs(w, y)
    IN IF ~HasPeer(w, x) THEN w
       ELSE IF w.calls[y].state = "N19" THEN w1
       ELSE Await(w1, y, "N19", {"T308"})

\* RELEASE and RELEASE COMPLETE
UniRelease(w, x) == FreeCall(ReleasePeer(DestroyDataPvcs(w, x), x), x)

\* STATUS reports "N0", the state the leg is in ("same") or another one.
\* The timers of the peer run on.
UniStatus(w, x, reported) ==
    LET y == w.calls[x].peer
        w1 == DestroyDataPvcs(w, x)
        w2 == IF HasPeer(w, x)
              THEN Await(DestroyDataPvcs(w1, y), y, "N19", w.calls[y].timers \cup {"T308"}) ELSE w1
        ignored == IF w.calls[x].state = "N19" THEN reported # "N0" ELSE reported = "same"
    IN IF ignored THEN w ELSE FreeCall(w2, x)

\* RESTART: every leg of the port, in the order of the control blocks.  The
\* peers are not told.
UniRestart(w, order) == FoldLeft(LAMBDA v, x : FreeCall(DestroyDataPvcs(v, x), x), w, order)
=============================================================================
