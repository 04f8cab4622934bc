----------------------------- MODULE LapfService -----------------------------
(***************************************************************************)
(* What the LAPF entities of a link promise layer 3, the contract behind   *)
(* port_dl_send_data ("Sequenced acknowledged I-frame transfer"): messages *)
(* reach the other end in the order they were accepted, none twice; when   *)
(* the link is re-established the oldest ones still on their way may be    *)
(* given up, and only those.                                               *)
(***************************************************************************)
EXTENDS Naturals, Sequences

CONSTANT Ends

VARIABLES
    accepted,  \* how many messages each end's layer 3 handed over: 1 .. n
    transit,   \* the messages of each end on their way, oldest first
    got        \* the messages of each end its peer's layer 3 received

vars == <<accepted, transit, got>>

Init ==
    /\ accepted = [e \in Ends |-> 0]
    /\ transit = [e \in Ends |-> <<>>]
    /\ got = [e \in Ends |-> <<>>]

Accept(e) ==
    /\ accepted' = [accepted EXCEPT ![e] = @ + 1]
    /\ transit' = [transit EXCEPT ![e] = Append(@, accepted[e] + 1)]
    /\ UNCHANGED got

Deliver(e) ==
    /\ transit[e] # <<>>
    /\ got' = [got EXCEPT ![e] = Append(@, Head(transit[e]))]
    /\ transit' = [transit EXCEPT ![e] = Tail(@)]
    /\ UNCHANGED accepted

GiveUp(e) ==
    \E n \in 1 .. Len(transit[e]) :
        /\ transit' = [transit EXCEPT ![e] = SubSeq(@, n + 1, Len(@))]
        /\ UNCHANGED <<accepted, got>>

Next == \E e \in Ends : Accept(e) \/ Deliver(e) \/ GiveUp(e)

Spec == Init /\ [][Next]_vars
=============================================================================
