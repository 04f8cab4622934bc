------------------------------ MODULE LapfLink ------------------------------
(***************************************************************************)
(* Two VFRS ports joined by a frame relay link, each running the LAPF      *)
(* entity of its signalling DLCI.  The link keeps the order of frames and  *)
(* may lose any of them.  T200 (1.5 s and more) and T203 (30 s) are longer *)
(* than a round trip: a timer expires only when nothing is under way.      *)
(*                                                                         *)
(* Establish and Release are the public requests of the file; no routine   *)
(* of src/ calls them, the embedding program does.  It asks for a link at  *)
(* a disconnected end once the frames of the earlier link are gone (a UA   *)
(* cannot tell which SABME it answers), for the release of one that is up. *)
(***************************************************************************)
EXTENDS Lapf, SequencesExt

CONSTANTS
    Ends,
    MaxMessages,  \* bound on the messages of each end
    MaxCalls,     \* bound on Establish and Release together
    MaxLosses     \* bound on the frames the link loses

\* Layer 3 messages are numbered per end, in the order they are accepted.
ASSUME LinkAssumption ==
    /\ IsFiniteSet(Ends) /\ Cardinality(Ends) = 2
    /\ MaxMessages \in [Ends -> Nat]
    /\ \A e \in Ends : 1 .. MaxMessages[e] \subseteq Data
    /\ MaxCalls \in Nat /\ MaxLosses \in Nat

Other(e) == CHOOSE p \in Ends : p # e

VARIABLES
    end,       \* the entity of each end
    wire,      \* the frames on their way to each end
    accepted,  \* how many messages each end's layer 3 handed over
    givenUp,   \* those a restart of the link discarded
    got,       \* the messages of each end its peer delivered to layer 3
    calls, losses

vars == <<end, wire, accepted, givenUp, got, calls, losses>>
budgets == <<calls, losses>>

Init ==
    /\ end = [e \in Ends |-> Fresh]
    /\ wire = [e \in Ends |-> <<>>]
    /\ accepted = [e \in Ends |-> 0]
    /\ givenUp = [e \in Ends |-> {}]
    /\ got = [e \in Ends |-> <<>>]
    /\ calls = 0 /\ losses = 0

\* The outcome c of a routine run by end e, after `rest` of its wire was read.
Run(e, c, rest) ==
    /\ end' = [end EXCEPT ![e] = c.s]
    /\ wire' = [wire EXCEPT ![e] = rest, ![Other(e)] = @ \o c.out]

Waiting == {"AWAITING_ESTABLISHMENT", "AWAITING_RELEASE"}

\* Nothing is left of an earlier link; at most the peer's own request is
\* under way, so that two requests may still collide.
Settled(e) == wire[Other(e)] = <<>> /\ \A i \in DOMAIN wire[e] : wire[e][i].type = "SABME"

Establish(e) ==
    /\ end[e].state = "TEI_ASSIGNED" /\ Settled(e)
    /\ calls < MaxCalls /\ calls' = calls + 1
    /\ Run(e, EstablishLink(end[e]), wire[e])
    /\ UNCHANGED <<accepted, givenUp, got, losses>>

Release(e) ==
    /\ end[e].state \in Transfer
    /\ calls < MaxCalls /\ calls' = calls + 1
    /\ Run(e, ReleaseLink(end[e]), wire[e])
    /\ UNCHANGED <<accepted, givenUp, got, losses>>

\* port_dl_send_data; a message it rejects is not accepted.
Send(e) ==
    LET c == SendL3(end[e], accepted[e] + 1)
    IN /\ accepted[e] < MaxMessages[e]
       /\ c.s # end[e]
       /\ Run(e, c, wire[e])
       /\ accepted' = [accepted EXCEPT ![e] = @ + 1]
       /\ UNCHANGED <<givenUp, got, budgets>>

\* The window, and on a SABME the backlog, a restart forgets.
Forgotten(e, f) ==
    LET s == end[e]
        window == {s.window[Plus(s.va, i)] : i \in 0 .. Outstanding(s) - 1}
    IN CASE f.type = "SABME" -> window \cup ToSet(s.backlog)
         [] f.type = "UA" /\ f.pf /\ s.state = "AWAITING_ESTABLISHMENT" -> window
         [] OTHER -> {}

Receive(e) ==
    /\ wire[e] # <<>>
    /\ LET f == Head(wire[e])
           c == HandleFrame(end[e], f)
       IN /\ Run(e, c, Tail(wire[e]))
          /\ got' = [got EXCEPT ![Other(e)] = @ \o c.up]
          /\ givenUp' = [givenUp EXCEPT ![e] = @ \cup Forgotten(e, f)]
    /\ UNCHANGED <<accepted, budgets>>

Lose(e) ==
    /\ wire[e] # <<>>
    /\ losses < MaxLosses /\ losses' = losses + 1
    /\ wire' = [wire EXCEPT ![e] = Tail(@)]
    /\ UNCHANGED <<end, accepted, givenUp, got, calls>>

Quiet == \A e \in Ends : wire[e] = <<>>

Timeout(e) ==
    /\ Quiet
    /\ \/ end[e].t200 /\ Run(e, PollTimer(end[e], {"T200"}), <<>>)
       \/ ~end[e].t200 /\ end[e].t203 /\ Run(e, PollTimer(end[e], {"T203"}), <<>>)
    /\ UNCHANGED <<accepted, givenUp, got, budgets>>

Next == \E e \in Ends :
    Establish(e) \/ Release(e) \/ Send(e) \/ Receive(e) \/ Lose(e) \/ Timeout(e)

\* The receiving thread and the timer loop of the slow path both keep running.
Fairness == \A e \in Ends : WF_vars(Receive(e)) /\ WF_vars(Timeout(e))

Spec == Init /\ [][Next]_vars /\ Fairness

-----------------------------------------------------------------------------
(* Properties. *)

TypeOK ==
    /\ end \in [Ends -> EndState]
    /\ \A e \in Ends : accepted[e] \in 0 .. MaxMessages[e]
    /\ \A e \in Ends :
        /\ givenUp[e] \subseteq Data
        /\ ToSet(got[e]) \subseteq Data
        /\ \A i \in DOMAIN wire[e] : wire[e][i].nr \in SeqNos

\* Two entities of this code never find fault with each other's frames:
\* through losses, restarts and colliding SABMEs, no N(R) one sends is
\* outside the window of the other when it arrives.
NoFrameReject == \A e \in Ends : \A i \in DOMAIN wire[e] : wire[e][i].type # "FRMR"

\* The messages of e on their way: accepted, not delivered, not given up.
Transit ==
    [e \in Ends |-> SelectSeq([i \in 1 .. accepted[e] |-> i],
                              LAMBDA m : m \notin ToSet(got[e]) \cup givenUp[e])]

\* The link implements the service: order kept, nothing twice, nothing
\* skipped but what a restart gives up.
Service == INSTANCE LapfService WITH transit <- Transit
ImplementsService == Service!Spec

\* No end waits for ever for an answer to its SABME or DISC.
WaitEnds ==
    \A e \in Ends :
        end[e].state \in Waiting ~> end[e].state \notin Waiting

\* A link up at one end and down at the other does not stay so: the idle
\* timer polls the silent peer and its DM restarts the link.
HalfOpenHeals ==
    \A e \in Ends :
        end[e].state \in Transfer /\ end[Other(e)].state = "TEI_ASSIGNED"
            ~> (end[e].state \in Transfer <=> end[Other(e)].state \in Transfer)

\* What the documentation says of T200, "the I-frame retransmission timer":
\* a message accepted on a link that loses a frame still arrives, unless
\* the link is restarted.  The code answers an expiry with a poll, and
\* leaves TIMER_RECOVERY on the answer without sending anything again.
AcceptedArrives ==
    \A e \in Ends : \A m \in Data :
        m <= accepted[e] ~> m \in ToSet(got[e]) \cup givenUp[e]
=============================================================================
