----------------------------- MODULE SvcSwitch -----------------------------
(***************************************************************************)
(* The switched calls of one switch: users and neighbouring networks that  *)
(* send any message about any call they know, soft PVCs that dial, timers  *)
(* that run out, and an operator.  Messages are handled one at a time by   *)
(* the slow path; one that is lost, late or repeated is a message not      *)
(* sent, or sent in another state of the call.                             *)
(***************************************************************************)
EXTENDS SvcNni

CONSTANTS
    Configs,        \* configurations of numbers, routes and LAPF entities
    Setups,         \* the SETUPs that may arrive, with their port
    NeighbourCrvs,  \* call reference values the neighbours take
    Messages,       \* the other messages that may arrive
    MaxMessages     \* bound: messages, console commands and polls of soft PVCs that change something

ASSUME SvcSwitchAssumption ==
    /\ \A m \in Setups : m.port \in Ports /\ m.dlci \in Nat
    /\ NeighbourCrvs \subseteq Crvs /\ MaxMessages \in Nat

\* A configuration's numbers and tables are finite sequences.
Finite(q) == q \in Seq(Range(q))

ASSUME ConfigAssumption ==
    \A config \in Configs :
        /\ Finite(config.addrs) /\ \A s \in Range(config.addrs) : Finite(s.number) /\ Finite(s.alias)
        /\ config.lapf \subseteq Ports
        /\ Finite(config.routes) /\ \A r \in Range(config.routes) : Finite(r.prefix) /\ r.metric \in Nat

VARIABLES
    dir,       \* the directory
    sw,        \* the switch, see SvcCalls
    sent,      \* messages, commands and polls so far
    mishap     \* something came that separates the legs of a call: see Setup, ConnectAck, Release, Restart

vars == <<dir, sw, sent, mishap>>

Init ==
    /\ \E config \in Configs :
           /\ dir = Configure(config)
           /\ sw = [calls   |-> <<>>,
                    pool    |-> [p \in Ports |-> AllocInit],
                    tab     |-> FoldLeft(LAMBDA t, a : AddPvc(t, a[1], a[2]), EmptyTable, Access),
                    spvc    |-> [i \in DOMAIN Spvcs |-> SpvcIdle],
                    restart |-> [p \in Ports |-> 0],
                    lapf    |-> config.lapf,
                    shared  |-> {AccessPoint(i) : i \in DOMAIN Spvcs}]
    /\ sent = 0 /\ mishap = FALSE

Arrives(w) ==
    /\ sent < MaxMessages /\ w # sw
    /\ sent' = sent + 1 /\ sw' = w
    /\ UNCHANGED dir

Legs(p) == LegsAt(sw, p)
UniLegs == UNION {Legs(p) : p \in Ports \ Nni}
NniLegs == UNION {Legs(p) : p \in Nni}

\* The neighbour may use a call reference again as soon as its call is cleared,
\* while the far end of that call still has it for its peer.
Setup ==
    \E m \in Setups, c \in NeighbourCrvs :
        LET x == <<m.port, c, 1>>
        IN /\ Arrives(IF m.port \in Nni THEN NniSetup(sw, dir, x, m) ELSE UniSetup(sw, dir, x, m))
           /\ mishap' = (mishap \/ (x \notin Legs(m.port) /\ \E y \in DOMAIN sw.calls : sw.calls[y].peer = x))

\* A user establishes the link for signalling.  Messages came without it too, on
\* any other LAPF link of the port, and the answers went out as UI frames.
Establish ==
    /\ "sabme" \in Messages
    /\ \E p \in Ports : Arrives([sw EXCEPT !.lapf = @ \cup {p}])
    /\ UNCHANGED mishap

CallProceeding ==
    /\ "call proceeding" \in Messages
    /\ \/ \E x \in UniLegs, q \in {"ok", "nodlci", "baddlci"} : Arrives(UniCallProceeding(sw, x, q))
       \/ \E x \in NniLegs : Arrives(NniCallProceeding(sw, x))
    /\ UNCHANGED mishap

Connect ==
    /\ "connect" \in Messages
    /\ \/ \E x \in UniLegs, q \in {"ok", "nodlci", "baddlci", "refused"} : Arrives(UniConnect(sw, x, q))
       \/ \E x \in NniLegs, q \in {"ok", "wrong", "refused"} : Arrives(NniConnect(sw, x, q))
    /\ UNCHANGED mishap

\* A user acknowledges a CONNECT.  One that acknowledges what was not sent, or
\* what the switch has cleared since, makes the leg active and gives it a path.
Acknowledges(leg) == leg.state = "N10" /\ (leg.path \/ leg.peer = NoPeer)

ConnectAck ==
    /\ "connect ack" \in Messages
    /\ \E x \in UniLegs : /\ Arrives(UniConnectAck(sw, x))
                          /\ mishap' = (mishap \/ ~Acknowledges(sw.calls[x]))

Disconnect ==
    /\ "disconnect" \in Messages
    /\ \E x \in UniLegs : Arrives(UniDisconnect(sw, x))
    /\ UNCHANGED mishap

\* A RELEASE that crosses ours ends this leg; if ours was sent for a timer, a
\* bad CONNECT or the operator, the other leg has not been told and now never is.
Crosses(x) ==
    LET y == sw.calls[x].peer
    IN sw.calls[x].state = "N11" /\ HasPeer(sw, x) /\ sw.calls[y].state \in {"N3", "N10"}

Release ==
    /\ "release" \in Messages
    /\ \/ \E x \in UniLegs : Arrives(UniRelease(sw, x)) /\ UNCHANGED mishap
       \/ \E x \in NniLegs : Arrives(NniRelease(sw, x)) /\ mishap' = (mishap \/ Crosses(x))

ReleaseComplete ==
    /\ "release complete" \in Messages
    /\ \/ \E x \in UniLegs : Arrives(UniRelease(sw, x))
       \/ \E x \in NniLegs : Arrives(NniReleaseComplete(sw, x))
    /\ UNCHANGED mishap

Status ==
    /\ "status" \in Messages
    /\ \/ \E x \in UniLegs, s \in {"N0", "same", "other"} : Arrives(UniStatus(sw, x, s))
       \/ \E x \in NniLegs, s \in {"N0", "other"} : Arrives(NniStatus(sw, x, s))
    /\ UNCHANGED mishap

\* A user that restarts leaves the other legs of its calls alone.
Restart ==
    /\ "restart" \in Messages
    /\ \E p \in Ports : \E order \in SetToSeqs(Legs(p)) :
           \/ /\ p \notin Nni /\ Arrives(UniRestart(sw, order))
              /\ mishap' = (mishap \/ order # <<>>)
           \/ /\ p \in Nni /\ Arrives(NniRestart(sw, p, order))
              /\ UNCHANGED mishap
           \/ /\ p \in Nni
              /\ \E x \in Legs(p) : Arrives(NniRestartChannel(sw, p, sw.calls[x].in, order))
              /\ UNCHANGED mishap

RestartAck ==
    /\ "restart ack" \in Messages
    /\ \E p \in Ports : sw.restart[p] # 0 /\ Arrives([sw EXCEPT !.restart[p] = 0])
    /\ UNCHANGED mishap

OperatorRestart ==
    /\ "operator" \in Messages
    /\ \E p \in Nni : \E order \in SetToSeqs(Legs(p)) : Arrives(InitiateRestart(sw, p, order))
    /\ UNCHANGED mishap

\* svc clear: the leg with flag 0 if there is one.
OperatorClear ==
    /\ "operator" \in Messages
    /\ \E p \in Ports, c \in Crvs :
           LET x == <<p, c, IF <<p, c, 0>> \in Legs(p) THEN 0 ELSE 1>>
           IN x \in Legs(p) /\ Arrives(Clear(sw, x))
    /\ UNCHANGED mishap

Expire(x) ==
    /\ UNCHANGED <<dir, sent, mishap>>
    /\ \E t \in sw.calls[x].timers : sw' = Expired(sw, x, t)

ExpireRestart(p) ==
    /\ sw.restart[p] # 0
    /\ sw' = RestartExpired(sw, p)
    /\ UNCHANGED <<dir, sent, mishap>>

TimerRunsOut == (\E x \in DOMAIN sw.calls : Expire(x)) \/ \E p \in Ports : ExpireRestart(p)

\* A soft PVC that has accepted a call looks for it among those the switch set
\* up, and may clear one of them that happens to have the same reference.
Poll(i) ==
    LET x == <<sw.spvc[i].port, sw.spvc[i].crv, 0>>
    IN /\ Spvcs[i].mode # "svc_to_pvc"
       /\ \E accessUp \in BOOLEAN : Arrives(PollSpvc(sw, dir, i, accessUp))
       /\ mishap' = (mishap \/ (sw.spvc[i].state = "connected" /\ x \in DOMAIN sw.calls /\ HasPeer(sw, x)))

Next ==
    \/ Setup \/ Establish \/ CallProceeding \/ Connect \/ ConnectAck
    \/ Disconnect \/ Release \/ ReleaseComplete \/ Status
    \/ Restart \/ RestartAck \/ OperatorRestart \/ OperatorClear
    \/ TimerRunsOut
    \/ \E i \in DOMAIN Spvcs : Poll(i)

\* svc_poll_timers is run for every port in each round of the slow path: weak
\* fairness of TimerRunsOut, with the condition that enables it written out
\* (every expiry changes the leg), which is far cheaper to check.
TimerPending == (\E x \in DOMAIN sw.calls : sw.calls[x].timers # {}) \/ \E p \in Ports : sw.restart[p] # 0

Fairness == []<>~TimerPending \/ []<><<TimerRunsOut>>_vars

Spec == Init /\ [][Next]_vars /\ Fairness

-----------------------------------------------------------------------------
Leg(x) == sw.calls[x]
Paired(x) == HasPeer(sw, x) /\ Leg(Leg(x).peer).peer = x

\* The switch is made of what its parts are declared to be.
TypeOK ==
    /\ \A x \in DOMAIN sw.calls :
           /\ x \in Ports \X Crvs \X {0, 1}
           /\ Leg(x).state \in {"N0", "N1", "N3", "N6", "N9", "N10", "N11", "N12", "N19"}
           /\ Leg(x).peer \in (Ports \X Crvs \X {0, 1}) \cup {NoPeer}
           /\ Leg(x).timers \subseteq {"T303", "T305", "T308", "T310"}
           /\ {Leg(x).n303, Leg(x).n308} \subseteq {0, 1} /\ Leg(x).path \in BOOLEAN
    /\ \A p \in Ports : FreeDlcis(sw.pool[p]) \subseteq OwnRange /\ sw.restart[p] \in 0 .. 3
    /\ \A i \in DOMAIN Spvcs : sw.spvc[i].state \in {"idle", "setup", "connected", "retry"}
    /\ sent \in 0 .. MaxMessages /\ mishap \in BOOLEAN

\* A DLCI the switch hands out is not free while a leg holds it, and one leg
\* alone does, however calls are set up, refused, crossed and cleared, if no
\* neighbour has proposed it; and the list of free ones stays sorted and joined.
DlciAccounting ==
    \A p \in Ports :
        /\ WellFormedPool(sw.pool[p])
        /\ \A x \in Legs(p) :
               NearEnd(sw, x) \notin sw.shared =>
                   /\ Leg(x).in \notin FreeDlcis(sw.pool[p])
                   /\ \A y \in Legs(p) : Leg(x).in \in OwnRange /\ Leg(x).in = Leg(y).in => x = y

\* One that no leg holds is free: none is lost.  RELEASE COMPLETE stands for the
\* return of the DLCI to the pool (README.md:196).
DlciReturned ==
    \A p \in Ports : OwnRange \subseteq FreeDlcis(sw.pool[p]) \cup {Leg(x).in : x \in Legs(p)}

\* The legs that may wait without a timer of their own: the incoming one of a
\* call from a network, and that of a called user who was sent no SETUP.
Untimed(x) == (Leg(x).state = "N3" /\ x[1] \in Nni) \/ (Leg(x).state = "N6" /\ x[1] \notin Nni)

\* A leg that waits for something has a timer running, or relies on that of the
\* other leg of its call.
Supervised ==
    \A x \in DOMAIN sw.calls :
        \/ Leg(x).state \in {"N0", "N10"} \/ Leg(x).timers # {}
        \/ Untimed(x) /\ (mishap \/ (Paired(x) /\ Leg(Leg(x).peer).timers # {}))

\* While a call has a data path, both legs are active, and frames that come in
\* on one leave on the other or not at all: never on another call's, unless that
\* has been given the same DLCI.
PathJoinsTheCall ==
    \A x \in DOMAIN sw.calls :
        LET y == Leg(x).peer
        IN Leg(x).path /\ y # NoPeer /\ ~mishap =>
               /\ Paired(x) /\ Leg(y).path
               /\ Leg(x).state = "N10" /\ Leg(y).state = "N10"
               /\ HasEntry(sw.tab, NearEnd(sw, x)) /\ NearEnd(sw, x) \notin sw.shared =>
                      sw.tab.lut[NearEnd(sw, x)] = NearEnd(sw, y)

Connected(s, x) == x \in DOMAIN s.calls /\ s.calls[x].state = "N10"

\* No message clears an answered call at one of its ends only.
ClearedTogether ==
    [][sent' # sent /\ ~mishap' /\ ~OperatorClear =>
           \A x \in DOMAIN sw.calls :
               LET y == Leg(x).peer
               IN Paired(x) /\ Connected(sw, x) /\ Connected(sw, y) => (Connected(sw', x) <=> Connected(sw', y))]_vars

\* Once the neighbours are silent, every call comes to be up or gone and every
\* restart to its end.
Settles ==
    []<>(/\ \A p \in Ports : sw.restart[p] = 0
         /\ \A x \in DOMAIN sw.calls : Leg(x).state \in {"N0", "N10"} \/ (mishap /\ Untimed(x)))

\* A number of a subscriber reaches the port of that subscriber, though the
\* switch first replaces it by the port's last number.
DialledReaches ==
    \A m \in Setups :
        LET p == FindSubscriber(dir, Expand(m.called))
        IN p # NoPort => RouteLookup(dir, PrimaryNumber(dir, m.called), NoNet, {}) = p

\* Any other call takes a best route of the network its caller selects, or else
\* of all that do not lead back into a network it has come through.
RouteIsBest ==
    \A m \in Setups :
        LET number == Expand(m.called)
            at == RouteLookup(dir, m.called, m.tns, m.tni)
            all == Range(dir.routes)
            viaTns == BestPorts({r \in all : r.net = m.tns /\ m.tns # NoNet}, number)
            noLoop == BestPorts({r \in all : r.net = NoNet \/ r.net \notin m.tni}, number)
            known(ports) == ports \cap Ports
        IN m.called # NoNumber /\ (m.tns # NoNet \/ FindSubscriber(dir, number) = NoPort) =>
               \/ at \in known(viaTns)
               \/ at \in known(noLoop)
               \/ at = NoPort /\ (noLoop = {} \/ noLoop \ Ports # {})
-----------------------------------------------------------------------------
(***************************************************************************)
(* Said of the program, and not so.                                        *)
(***************************************************************************)

\* T310 is the wait for a CONNECT (README.md:248), so an answered call does not
\* have it running.  CONNECT from a network leaves that of the user's leg on,
\* and its expiry clears the call.
AnsweredInTime ==
    \A x \in DOMAIN sw.calls : Leg(x).state = "N10" => "T310" \notin Leg(x).timers

\* The console says of a call with a path that its "Fast-Path Data PVCs" are
\* "Installed & Operational" (svc_sig_uni.c:1479).  The leg of a calling user has
\* its own DLCI for the far one (svc_sig_common.h:227 says the field is the "SVC
\* data DLCI on egress port"), so that clearing it destroys another call's entry.
PathStays ==
    \A x \in DOMAIN sw.calls :
        Leg(x).path /\ Leg(x).peer # NoPeer /\ ~mishap => HasEntry(sw.tab, NearEnd(sw, x))

\* A soft PVC whose call was cleared is dialled again (README.md:330), so it
\* still has the access PVC that dialling asks for.  A release takes it away.
CanRedial ==
    \A i \in DOMAIN Spvcs : sw.spvc[i].state = "retry" => HasEntry(sw.tab, AccessPoint(i))
=============================================================================
