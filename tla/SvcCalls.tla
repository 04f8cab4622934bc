----------------------------- MODULE SvcCalls ------------------------------
(***************************************************************************)
(* What the two kinds of SVC port share: the call control blocks, here     *)
(* "legs", the data path between the two legs of a call, the ways a leg is *)
(* cleared, and its timers.                                                *)
(*                                                                         *)
(* A call through the switch has a leg on the port it came in by and one   *)
(* on the port it leaves by.  Each names the other by port and call        *)
(* reference; nothing removes that name when the other leg goes away.  A   *)
(* leg is identified by <<port, call reference value, flag>>: flag 1 for   *)
(* calls the neighbour set up, 0 for those the switch did.  Its state is   *)
(* the number the code gives it, the same for UNI and NNI.                 *)
(*                                                                         *)
(* An operator takes the switch w and returns it changed.  w has           *)
(*   calls    the legs in use                                              *)
(*   pool     for each port, the free DLCIs                                *)
(*   tab      the virtual-circuit tables                                   *)
(*   spvc     the state of each soft PVC (module Spvc)                     *)
(*   restart  for each port, 0 or the number of the RESTART being sent     *)
(*   lapf     the ports that have a LAPF entity for DLCI 0                 *)
(*   shared   not in the code: the points, <<port, DLCI>>, that more than  *)
(*            one call or PVC may have taken since the switch was started  *)
(***************************************************************************)
EXTENDS DlciPool, VcTable, Directory, FiniteSets

CONSTANTS
    Nni,        \* the ports that are NNI; the others are UNI
    Crvs,       \* call reference values the switch takes
    MaxCalls    \* SVC_MAX_CALLS_PER_PORT

ASSUME SvcCallsAssumption ==
    /\ Nni \subseteq Ports
    /\ IsFiniteSet(Ports) /\ IsFiniteSet(Crvs) /\ MaxCalls \in Nat
    /\ Cardinality(Crvs) > MaxCalls * (Cardinality(Ports) + 1)

NoPeer == <<NoPort, 0, 0>>

NewLeg(state, dlci) ==
    [state |-> state, peer |-> NoPeer, in |-> dlci, out |-> 0, outPort |-> NoPort,
     timers |-> {}, n303 |-> 0, n308 |-> 0, path |-> FALSE]

LegsAt(w, p) == {x \in DOMAIN w.calls : x[1] = p}
HasPeer(w, x) == w.calls[x].peer \in DOMAIN w.calls
HasRoom(w, p) == Cardinality(LegsAt(w, p)) < MaxCalls

\* The value the switch takes for a new call on p.  The counter is one for all
\* ports and runs through 32,766 values, so one that a leg still has for its
\* peer does not come up again before that leg is gone.  Beside that it only
\* matters whether the neighbour uses the value as well.
NewCrv(w, p) ==
    CHOOSE c \in Crvs : /\ {<<p, c, 0>>, <<p, c, 1>>} \cap DOMAIN w.calls = {}
                        /\ \A x \in DOMAIN w.calls : w.calls[x].peer # <<p, c, 0>>

SetLeg(w, x, leg) == [w EXCEPT !.calls = [y \in DOMAIN @ \cup {x} |-> IF y = x THEN leg ELSE @[y]]]

\* A neighbour that proposes a DLCI gets it, unchecked: it may be one of the
\* range the switch hands out on the port, or one that another leg has.
Claim(w, at) ==
    IF at[2] \in OwnRange \/ (at[2] # 0 /\ \E y \in LegsAt(w, at[1]) : w.calls[y].in = at[2])
    THEN [w EXCEPT !.shared = @ \cup {at}] ELSE w

(***************************************************************************)
(* The data path.                                                          *)
(***************************************************************************)
SetPath(w, x, there) ==
    [w EXCEPT !.calls = [y \in DOMAIN @ |-> IF y \in {x, @[x].peer} THEN [@[y] EXCEPT !.path = there] ELSE @[y]]]

NearEnd(w, x) == <<x[1], w.calls[x].in>>
FarEnd(w, x) == <<w.calls[x].outPort, w.calls[x].out>>

\* svc_create_data_pvcs
CreateDataPvcs(w, x) ==
    LET c == w.calls[x]
    IN IF c.in = 0 \/ c.out = 0 \/ c.path \/ c.outPort \notin Ports THEN w
       ELSE SetPath([w EXCEPT !.tab = AddEntry(AddEntry(@, NearEnd(w, x), FarEnd(w, x)), FarEnd(w, x), NearEnd(w, x))],
                    x, TRUE)

\* Mutant: the other leg is left with its mark.
DestroyDataPvcs_OneLeg(w, x) ==
    IF w.calls[x].path
    THEN [w EXCEPT !.tab = DelEntries(@, {NearEnd(w, x), FarEnd(w, x)}), !.calls[x].path = FALSE]
    ELSE w

\* svc_destroy_data_pvcs
DestroyDataPvcs(w, x) ==
    IF w.calls[x].path
    THEN SetPath([w EXCEPT !.tab = DelEntries(@, {NearEnd(w, x), FarEnd(w, x)})], x, FALSE)
    ELSE w

\* svc_free_call: the DLCI is given back and forgotten before the path is
\* destroyed.
FreeCall(w, x) ==
    LET dlci == w.calls[x].in
        w1 == [w EXCEPT !.pool[x[1]] = IF dlci > 0 THEN DlciFree(@, dlci) ELSE @, !.calls[x].in = 0]
        w2 == DestroyDataPvcs(w1, x)
    IN [w2 EXCEPT !.calls = Restrict(@, DOMAIN @ \ {x})]

(***************************************************************************)
(* Clearing.                                                               *)
(***************************************************************************)
Await(w, x, state, timers) ==
    [w EXCEPT !.calls[x].state = state, !.calls[x].timers = timers,
              !.calls[x].n308 = IF state \in {"N11", "N19"} THEN 0 ELSE @]

\* svc_initiate_clearing_before_active, used on NNI legs too
ClearBeforeActive(w, x) ==
    LET w1 == DestroyDataPvcs(w, x)
    IN CASE w.calls[x].state = "N10" -> Await(w1, x, "N12", {"T305"})
         [] w.calls[x].state = "N0"  -> FreeCall(w1, x)
         [] OTHER                    -> Await(w1, x, "N19", {"T308"})

\* svc_nni_initiate_clearing
NniClear(w, x) ==
    LET w1 == DestroyDataPvcs(w, x)
    IN IF w.calls[x].state = "N0" THEN FreeCall(w1, x) ELSE Await(w1, x, "N11", {"T308"})

Clear(w, x) == IF x[1] \in Nni THEN NniClear(w, x) ELSE ClearBeforeActive(w, x)

\* forward_clearing_to_peer
ForwardClearing(w, x) ==
    IF HasPeer(w, x) THEN Clear(DestroyDataPvcs(w, w.calls[x].peer), w.calls[x].peer) ELSE w

ReleaseState(p) == IF p \in Nni THEN "N11" ELSE "N19"

(***************************************************************************)
(* svc_poll_timers: the timer t of leg x has expired.                      *)
(***************************************************************************)
\* T303 has expired twice.  A UNI peer is sent DISCONNECT and is gone.
GiveUpSetup(w, x) ==
    LET y == w.calls[x].peer
        w1 == DestroyDataPvcs(w, x)
        w2 == DestroyDataPvcs(w1, y)
        w3 == IF ~HasPeer(w, x) THEN w1
              ELSE IF y[1] \in Nni THEN Await(w2, y, "N11", w2.calls[y].timers \cup {"T308"})
              ELSE FreeCall(w2, y)
    IN FreeCall(w3, x)

\* Mutant: the release is started anew.
GiveUpRelease_Again(w, x) == Await(w, x, ReleaseState(x[1]), {"T308"})

\* T308 has expired twice.
GiveUpRelease(w, x) ==
    LET y == w.calls[x].peer
        w1 == DestroyDataPvcs(w, x)
        w2 == IF HasPeer(w, x) THEN FreeCall(DestroyDataPvcs(w1, y), y) ELSE w1
    IN FreeCall(w2, x)

\* No CONNECT: an NNI leg is cleared alone, a UNI leg after its peer.
NoConnect(w, x) ==
    IF x[1] \in Nni THEN Await(w, x, "N11", w.calls[x].timers \cup {"T308"})
    ELSE ClearBeforeActive(IF HasPeer(w, x) THEN ClearBeforeActive(w, w.calls[x].peer) ELSE w, x)

Expired(w, x, t) ==
    LET c == w.calls[x]
        off == [w EXCEPT !.calls[x].timers = @ \ {t}]
    IN CASE t = "T303" -> IF c.n303 = 0 THEN [w EXCEPT !.calls[x].n303 = 1] ELSE GiveUpSetup(off, x)
         [] t = "T305" -> Await(DestroyDataPvcs(off, x), x, ReleaseState(x[1]), off.calls[x].timers \cup {"T308"})
         [] t = "T308" -> IF c.n308 = 0 THEN [w EXCEPT !.calls[x].n308 = 1] ELSE GiveUpRelease(off, x)
         [] t = "T310" -> NoConnect(off, x)

\* Mutant: it never does.
RestartExpired_Forever(w, p) == [w EXCEPT !.restart[p] = @ + 1]

\* T316: the third expiry gives up.
RestartExpired(w, p) == [w EXCEPT !.restart[p] = IF @ < 3 THEN @ + 1 ELSE 0]
=============================================================================
