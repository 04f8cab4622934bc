------------------------------ MODULE LmiLink ------------------------------
(***************************************************************************)
(* The Local Management Interface between two VFRS ports: both ends answer *)
(* enquiries, the ends in Polling send them.  Time passes in ticks; T391   *)
(* and T392 are many round trips long and the timer loop runs every 100 ms,*)
(* so a tick normally finds no message under way and no timer expired.     *)
(* Faults are messages lost, ticks that overtake a message, and switches   *)
(* that restart.  Changes are circuits added and deleted at the console,   *)
(* and circuits whose destination fails or recovers.                       *)
(***************************************************************************)
EXTENDS Lmi

CONSTANTS
    Ends, Polling,
    Configured,   \* the circuits each end's configuration names
    RestartCost,  \* how many faults a restart stands for
    MaxEvents     \* bound on the faults and changes together

ASSUME LmiLinkAssumption ==
    /\ Cardinality(Ends) = 2 /\ Polling \subseteq Ends
    /\ Configured \in [Ends -> SUBSET Circuits]
    /\ RestartCost \in Nat /\ MaxEvents \in Nat

Other(e) == CHOOSE f \in Ends : f # e

InitEnd(e) == InitState(e \in Polling, Configured[e])

VARIABLES
    lmi,      \* the context and the circuits of each end
    wire,     \* the messages on their way to each end
    dest,     \* whether the destination of an end's circuit works
    streak,   \* errors (< 0) or good events (> 0) each role saw in a row
    seen,     \* circuits each end accepted a New flag for
    restarted,
    faults, changes

vars == <<lmi, wire, dest, streak, seen, restarted, faults, changes>>

Roles == {"dce", "dte"}

Init ==
    /\ lmi = [e \in Ends |-> InitEnd(e)]
    /\ wire = [e \in Ends |-> <<>>]
    /\ dest = [e \in Ends |-> [c \in Circuits |-> TRUE]]
    /\ streak = [e \in Ends |-> [r \in Roles |-> 0]]
    /\ seen = [e \in Ends |-> {}]
    /\ restarted = {}
    /\ faults = 0 /\ changes = 0

Run(e, o, rest) ==
    /\ lmi' = [lmi EXCEPT ![e] = o.l]
    /\ wire' = [wire EXCEPT ![e] = rest, ![Other(e)] = @ \o o.out]

\* A streak after one more event; N392 in a row is all that matters.
Extend(n, err) ==
    IF err THEN Max({-N392, IF n > 0 THEN -1 ELSE n - 1})
    ELSE Min({N392, IF n < 0 THEN 1 ELSE n + 1})

Timer(e) ==
    LET l == lmi[e]
        counted == [r \in Roles |->
                       CASE r = "dce" /\ l.t392 = 0 -> Extend(streak[e][r], TRUE)
                         [] r = "dte" /\ l.t391 = 0 /\ l.dteEvents # 0 -> Extend(streak[e][r], ~l.answered)
                         [] OTHER -> streak[e][r]]
    IN /\ Expired(l)
       /\ Run(e, PollTimer(l), wire[e])
       /\ streak' = [streak EXCEPT ![e] = counted]
       /\ UNCHANGED <<dest, seen, restarted, faults, changes>>

Receive(e) ==
    /\ wire[e] # <<>>
    /\ LET l == lmi[e]
           m == Head(wire[e])
           o == HandleFrame(l, m, dest[e])
       IN /\ Run(e, o, Tail(wire[e]))
          /\ streak' = IF m.type = "enquiry" THEN [streak EXCEPT ![e]["dce"] = Extend(@, Mismatch(l, m))]
                       ELSE streak
          /\ seen' = IF m.type = "status" /\ ~Ignored(l, m)
                     THEN [seen EXCEPT ![e] = @ \cup {i.dlci : i \in {j \in m.items : j.new}}]
                     ELSE seen
    /\ UNCHANGED <<dest, restarted, faults, changes>>

Lose(e) ==
    /\ wire[e] # <<>>
    /\ faults + changes < MaxEvents /\ faults' = faults + 1
    /\ wire' = [wire EXCEPT ![e] = Tail(@)]
    /\ UNCHANGED <<lmi, dest, streak, seen, restarted, changes>>

\* A switch starts again; what was sent to it is still on its way.
Restart(e) ==
    /\ faults + changes + RestartCost <= MaxEvents /\ faults' = faults + RestartCost
    /\ lmi' = [lmi EXCEPT ![e] = InitEnd(e)]
    /\ streak' = [streak EXCEPT ![e] = [r \in Roles |-> 0]]
    /\ restarted' = restarted \cup {e}
    /\ UNCHANGED <<wire, dest, seen, changes>>

Change == faults + changes < MaxEvents /\ changes' = changes + 1

\* What the circuit leads to fails or recovers.
Destination(e, c) ==
    /\ Change
    /\ c \in lmi[e].table
    /\ dest' = [dest EXCEPT ![e][c] = ~@]
    /\ Run(e, Outcome(lmi[e], AsyncStatus(lmi[e], c, LinkUp(lmi[e]) /\ dest'[e][c])), wire[e])
    /\ UNCHANGED <<streak, seen, restarted, faults>>

Add(e, c) ==
    /\ Change
    /\ c \notin lmi[e].table
    /\ Run(e, AddCircuit(lmi[e], c), wire[e])
    /\ seen' = [seen EXCEPT ![Other(e)] = @ \ {c}]
    /\ UNCHANGED <<dest, streak, restarted, faults>>

Delete(e, c) ==
    /\ Change
    /\ c \in lmi[e].table
    /\ Run(e, DeleteCircuit(lmi[e], c), wire[e])
    /\ UNCHANGED <<dest, streak, seen, restarted, faults>>

Quiet == \A e \in Ends : wire[e] = <<>>

Down(t) == IF t = T391Off \/ t = 0 THEN t ELSE t - 1

Tick ==
    /\ \A e \in Ends : ~Expired(lmi[e])
    /\ IF Quiet THEN UNCHANGED faults ELSE faults + changes < MaxEvents /\ faults' = faults + 1
    /\ lmi' = [e \in Ends |-> [lmi[e] EXCEPT !.t391 = Down(@), !.t392 = @ - 1]]
    /\ UNCHANGED <<wire, dest, streak, seen, restarted, changes>>

Next ==
    \/ \E e \in Ends : Timer(e) \/ Receive(e) \/ Lose(e) \/ Restart(e)
    \/ \E e \in Ends, c \in Circuits : Destination(e, c) \/ Add(e, c) \/ Delete(e, c)
    \/ Tick

\* The slow path keeps taking frames and visiting the timers, and time passes.
Fairness ==
    /\ \A e \in Ends : WF_vars(Timer(e)) /\ WF_vars(Receive(e))
    /\ WF_vars(Tick)

Spec == Init /\ [][Next]_vars /\ Fairness

-----------------------------------------------------------------------------
(* Properties. *)

Numbers == 0 .. SeqMax

\* The shape of the state.
TypeOK ==
    /\ \A e \in Ends :
        /\ {lmi[e].dceSend, lmi[e].dteSend, lmi[e].dteEcho} \subseteq Numbers
        /\ \A c \in Circuits : lmi[e].txsn[c] \in Numbers
        /\ lmi[e].dceErrors \in [1 .. N393 -> BOOLEAN] /\ lmi[e].dteErrors \in [1 .. N393 -> BOOLEAN]
        /\ lmi[e].psf \in 0 .. N391 /\ lmi[e].index \in {1} \cup 1 .. Cardinality(Circuits)
        /\ lmi[e].t391 \in 0 .. T391Off /\ lmi[e].t392 \in 0 .. T392
    /\ \A e \in Ends : \A i \in DOMAIN wire[e] : {wire[e][i].send, wire[e][i].recv} \subseteq Numbers
    /\ streak \in [Ends -> [Roles -> -N392 .. N392]]

\* What the code says of its recovery mask, "N392 consecutive error-free
\* events clear the error state", for both roles.  The window is tested
\* first: it may still hold N392 older errors if it is twice as long.
GoodEventsRecover ==
    \A e \in Ends :
        /\ streak[e]["dce"] = N392 => ~lmi[e].dceDown
        /\ streak[e]["dte"] = N392 => ~lmi[e].dteDown

\* N392 good events in a row bring a role up, N392 errors in a row take it
\* down, whatever came before them: the window of N393 bits, its reset and
\* its two tests together do what X.36 asks of N392.
LinkFollowsEvents ==
    /\ GoodEventsRecover
    /\ \A e \in Ends :
        /\ streak[e]["dce"] = -N392 => lmi[e].dceDown
        /\ streak[e]["dte"] = -N392 => lmi[e].dteDown

\* The network role forgets that a circuit is new only when the far end
\* accepted a STATUS that said so; the number that acknowledges it is not
\* mistaken for an older or a later one.  A restarted switch numbers its
\* STATUSes from 1 again and may take an old echo for an acknowledgement.
NewIsSeen ==
    \A e \in Ends \ restarted : \A c \in lmi[e].table :
        ~lmi[e].new[c] => c \in seen[Other(e)]

\* A link that is up survives fewer than N392 faults: no single loss,
\* delay or restart of the far end is counted more often than it happened.
ToleratesFaults ==
    [][\A e \in Ends :
        \/ lmi[e].dceDown /\ lmi[e].dteDown
        \/ lmi'[e] = InitEnd(e)
        \/ faults' >= N392
        \/ (lmi'[e].dceDown => lmi[e].dceDown) /\ (lmi'[e].dteDown => lmi[e].dteDown)]_vars

\* When faults and changes are over, both ends bring the link up and each
\* learns the status of every circuit as the other sees it, New included.
Converges ==
    <>[](\A e \in Ends :
            /\ LinkUp(lmi[e])
            /\ \A c \in lmi[e].table :
                lmi[e].active[c] <=> c \in lmi[Other(e)].table /\ dest[Other(e)][c]
            /\ \A c \in lmi[e].table : ~lmi[e].new[c])

\* What the code says of a lost report, "re-transmitting lost LMI Full
\* Status report": while no circuit changes, one that both ends have is not
\* taken down as omitted because a segment was lost.  The code goes on after
\* the lost segment.
OnlyAbsentOmitted ==
    [][\A e \in Ends : \A c \in Circuits :
        changes' = 0 /\ lmi[e].active[c] /\ ~lmi'[e].active[c]
            /\ c \in lmi'[e].table \cap lmi[Other(e)].table
            => \E i \in Head(wire[e]).items : i.dlci = c /\ ~i.active]_vars
=============================================================================
