------------------------------- MODULE LapfEnd -------------------------------
(***************************************************************************)
(* One LAPF entity facing an arbitrary peer: any well or badly formed      *)
(* frame may arrive at any time, any running timer may expire, and layer 3 *)
(* may ask for anything.  Every routine runs under port->mutex, so a step  *)
(* is a whole routine.  The peer may be a foreign implementation (or a     *)
(* broken one): it sends RNR, XID, I responses, wrong N(R) and N(S).       *)
(***************************************************************************)
EXTENDS Lapf

CONSTANT Peer      \* the frames the peer may send

VARIABLES
    end,    \* the entity, vfr_lapf_state_t
    l3up    \* what the DL-ESTABLISH and DL-RELEASE indications told layer 3

vars == <<end, l3up>>

FrameTypes == {"I", "SABME", "DISC", "UA", "DM", "FRMR", "XID", "UI", "unknown"}
                \cup Supervisory

\* Every frame a peer could send.
AnyFrame ==
    [type : FrameTypes, cr : {"cmd", "rsp"}, pf : BOOLEAN, nr : SeqNos, ns : SeqNos,
     data : Info, size : {"ok", "short", "long"}, k : 0 .. K, becn : BOOLEAN]

ASSUME PeerAssumption == Peer \subseteq AnyFrame

Init == end = Fresh /\ l3up = FALSE

\* The outcome c of a routine; layer 3 hears the event it deferred.
Run(c) ==
    /\ end' = c.s
    /\ l3up' = IF c.event = "none" THEN l3up ELSE c.event = "ESTABLISHED"

Establish == Run(EstablishLink(end))
Release == Run(ReleaseLink(end))
Send == \E d \in Data : Run(SendL3(end, d))
Receive == \E f \in Peer : Run(HandleFrame(end, f))
Poll ==
    \E expired \in {{"T200"}, {"T203"}, {"T200", "T203"}} :
        /\ \E t \in expired : IF t = "T200" THEN end.t200 ELSE end.t203
        /\ Run(PollTimer(end, expired))

Next == Establish \/ Release \/ Send \/ Receive \/ Poll

Spec == Init /\ [][Next]_vars

\* The console's reload initialises the entities of the "lapf" lines again.
Reload == Run(Context(ReInit(end)))

ReloadSpec == Init /\ [][Next \/ Reload]_vars

-----------------------------------------------------------------------------
(* Properties. *)

TypeOK ==
    /\ end \in EndState
    /\ Len(end.backlog) <= BacklogCap
    /\ l3up \in BOOLEAN

\* Whatever the peer acknowledges, rejects or negotiates, and however the
\* dynamic window moves, no more than the configured k frames are ever
\* unacknowledged, so N(S) never laps V(A).
WindowBound == Outstanding(end) <= K

\* A link that waits for the peer or carries data always has a timer that
\* will notice a silent peer, and a disconnected one has none: a forgotten
\* timer would bring it to TIMER_RECOVERY on its own.
Supervised == TimersOf(end)

\* Data moves only on a link whose establishment layer 3 was told of, also
\* when the two ends collide or the link is reset under it.
AnnouncedUp == end.state \in Transfer => l3up

\* The messages a REJ would send again, oldest first.
Unacked(s) == [i \in 1 .. Outstanding(s) |-> s.window[Plus(s.va, i - 1)]]

Restarted == end'.vs = 0 /\ end'.va = 0 /\ end'.vr = 0
GivenUp == end.state = "TIMER_RECOVERY" /\ end'.state = "ESTABLISHED" /\ end'.vr # end.vr

\* While the link stays up, a message leaves the retransmission window only
\* when its number is acknowledged, oldest first, and none is overwritten
\* or renumbered.  The exceptions are a restart by the peer's SABME and the
\* I response with F = 1, on which the code gives up the whole window.
UnackedKept ==
    [][end.state \in Transfer /\ end'.state \in Transfer =>
        \/ Restarted \/ GivenUp
        \/ LET acked == Ahead(end.va, end'.va)
               rest == Outstanding(end) - acked
           IN /\ acked <= Outstanding(end)
              /\ rest <= Outstanding(end')
              /\ \A i \in 1 .. rest : Unacked(end')[i] = Unacked(end)[acked + i]]_vars

\* What the header says of LAPF_STATE_TEI_ASSIGNED, "link disconnected", and
\* of TIMER_RECOVERY, "T200 expired, waiting for poll response": a link that
\* does not carry data starts to only when a SABME or a UA establishes it.
\* A reload disconnects the entity and leaves its timers running, and the
\* next expiry of T203 puts it in TIMER_RECOVERY, where layer 3 may send.
UpByHandshake ==
    [][end.state \notin Transfer /\ end'.state \in Transfer
        => end'.state = "ESTABLISHED"]_vars
=============================================================================
