-------------------------------- MODULE Lapf --------------------------------
(***************************************************************************)
(* The LAPF (Q.922) link entity of one DLCI: src/src/ports/lapf/port_lapf.c.*)
(*                                                                         *)
(* The module holds no variable.  It says what each routine of the file    *)
(* does to the state of one entity, vfr_lapf_state_t, while the routine    *)
(* holds port->mutex: LapfEnd runs these operators in one entity facing    *)
(* an arbitrary peer, LapfLink in two entities facing each other.          *)
(*                                                                         *)
(* A routine takes and gives a context [s, out, up, event]: the entity's   *)
(* state, the frames given to port->ops->send in order, and the message    *)
(* and the event deferred to layer 3 until the mutex is released.          *)
(***************************************************************************)
EXTENDS Naturals, Sequences

CONSTANTS
    Mod,         \* sequence numbers are modulo Mod (128 in the code)
    K,           \* configured window size k
    N200,        \* configured retransmission limit
    NW,          \* step of the dynamic window (n_w, 5 in the code)
    BacklogCap,  \* the backlog ring of 64 slots holds 63 frames
    Data,        \* layer 3 messages (protocol discriminator 0x08)
    NoData       \* an information field layer 3 never sees

\* The parser admits k in 1..127 (cfg_parser.c), always below the modulus.
ASSUME WindowAssumption == Mod \in Nat /\ K \in Nat /\ 1 <= K /\ K < Mod
ASSUME LimitAssumption  == N200 \in Nat /\ N200 >= 1 /\ NW \in Nat /\ NW >= 1
ASSUME BacklogAssumption == BacklogCap \in Nat
ASSUME DataAssumption == NoData \notin Data

States == {"TEI_ASSIGNED", "AWAITING_ESTABLISHMENT", "AWAITING_RELEASE",
           "ESTABLISHED", "TIMER_RECOVERY"}
Transfer == {"ESTABLISHED", "TIMER_RECOVERY"}

SeqNos == 0 .. Mod - 1
Info == Data \cup {NoData}

\* vfr_lapf_state_t.  A timer is its "expire # 0"; own_receiver_busy is
\* only ever cleared and acknowledgement_pending is 0 between two calls.
EndState ==
    [state : States, vs : SeqNos, vr : SeqNos, va : SeqNos,
     peerBusy : BOOLEAN, rejExc : BOOLEAN, retx : 0 .. N200 - 1,
     vk : 1 .. K, k : 0 .. K, ia : 0 .. NW - 1, t200 : BOOLEAN, t203 : BOOLEAN,
     window : [SeqNos -> Info], backlog : Seq(Data)]

\* calloc, then the parameters of port_dl_init_dlci.
Fresh ==
    [state |-> "TEI_ASSIGNED", vs |-> 0, vr |-> 0, va |-> 0,
     peerBusy |-> FALSE, rejExc |-> FALSE, retx |-> 0,
     vk |-> K, k |-> K, ia |-> 0, t200 |-> FALSE, t203 |-> FALSE,
     window |-> [n \in SeqNos |-> NoData], backlog |-> <<>>]

\* Initialising an entity that exists (a reload of the configuration) gives
\* it the parameters and the state; variables, timers and queue stay.
ReInit(s) == [s EXCEPT !.state = "TEI_ASSIGNED", !.k = K, !.vk = K, !.ia = 0]

-----------------------------------------------------------------------------
(* Sequence numbers, and the working window of Q.922 Appendix I. *)

Plus(n, i) == IF n + i < Mod THEN n + i ELSE n + i - Mod

\* How far n is ahead of m: outstanding frames, acknowledged frames.
Ahead(m, n) == IF n >= m THEN n - m ELSE Mod - m + n

Outstanding(s) == Ahead(s.va, s.vs)

\* Mutant: only the lower edge of the range is tested.
InRange_LowerOnly(n, lo, hi) == lo <= n
InRange(n, lo, hi) == IF lo <= hi THEN lo <= n /\ n <= hi ELSE lo <= n \/ n <= hi

AtLeast1(n) == IF n > 0 THEN n ELSE 1

OnBecn(s) == [s EXCEPT !.vk = AtLeast1((@ * 5) \div 8)]

\* Mutant: the window is quartered without a floor.
OnLoss_NoFloor(s) == [s EXCEPT !.vk = @ \div 4, !.ia = 0]

\* A loss, seen as a REJ or as an expiry of T200.
OnLoss(s) == [s EXCEPT !.vk = IF @ > 4 THEN @ \div 4 ELSE 1, !.ia = 0]

\* One step up to k for every NW acknowledgements; a window that is already
\* wider than k (an XID lowered k) stays as it is.
StepUp(s, acked) ==
    LET steps == (s.ia + acked) \div NW
    IN [s EXCEPT !.ia = (s.ia + acked) % NW,
                 !.vk = IF @ >= s.k THEN @
                        ELSE IF @ + steps <= s.k THEN @ + steps ELSE s.k]

-----------------------------------------------------------------------------
(* Frames.  size is the length check a frame passes: "ok", "short" (the     *)
(* control field is cut), "long" (more octets than the type may have).      *)

Command(type, nr, pf) ==
    [type |-> type, cr |-> "cmd", pf |-> pf, nr |-> nr, ns |-> 0,
     data |-> NoData, size |-> "ok", k |-> K, becn |-> FALSE]
Response(type, nr, pf) == [Command(type, nr, pf) EXCEPT !.cr = "rsp"]
IFrame(ns, nr, d) == [Command("I", nr, FALSE) EXCEPT !.ns = ns, !.data = d]

Context(s) == [s |-> s, out |-> <<>>, up |-> <<>>, event |-> "none"]
Say(c, f) == [c EXCEPT !.out = Append(@, f)]
Deliver(c, d) == IF d \in Data THEN [c EXCEPT !.up = Append(@, d)] ELSE c
Tell(c, event) == [c EXCEPT !.event = event]

-----------------------------------------------------------------------------
(* Steps shared by several handlers. *)

\* timer_set(t200), timer_cancel(t203); and the reverse.
Supervise(s) == [s EXCEPT !.t200 = TRUE, !.t203 = FALSE]
Idle(s)      == [s EXCEPT !.t200 = FALSE, !.t203 = TRUE]

\* Mutant: the wait starts without its timer.
Await_NoT200(c, state, type) ==
    Say([c EXCEPT !.s = [@ EXCEPT !.state = state, !.retx = 0, !.t203 = FALSE]],
        Command(type, 0, TRUE))

\* A SABME is sent and its UA awaited; send and receive variables, the
\* window and the backlog stay until the answer.
Await(c, state, type) ==
    Say([c EXCEPT !.s = Supervise([@ EXCEPT !.state = state, !.retx = 0])],
        Command(type, 0, TRUE))
Reestablish(c) == Await(c, "AWAITING_ESTABLISHMENT", "SABME")
Reject(c) == Reestablish(Say(c, Response("FRMR", 0, FALSE)))

\* How many frames of the backlog the loop of lapf_process_backlog sends.
Sendable(s) ==
    IF s.peerBusy \/ Outstanding(s) >= s.vk THEN 0
    ELSE IF Len(s.backlog) <= s.vk - Outstanding(s) THEN Len(s.backlog)
    ELSE s.vk - Outstanding(s)

\* The first n frames of the backlog get the next sequence numbers.
Dequeue(c, n) ==
    LET s == c.s
        moved == [s EXCEPT
            !.window = [i \in SeqNos |-> IF Ahead(s.vs, i) < n
                                         THEN s.backlog[Ahead(s.vs, i) + 1] ELSE @[i]],
            !.vs = Plus(@, n),
            !.backlog = SubSeq(@, n + 1, Len(@))]
    IN IF n = 0 THEN c
       ELSE [c EXCEPT
            !.s = Supervise(moved),
            !.out = @ \o [i \in 1 .. n |-> IFrame(Plus(s.vs, i - 1), s.vr, s.backlog[i])]]

ProcessBacklog(c) == Dequeue(c, Sendable(c.s))

-----------------------------------------------------------------------------
(* Requests of layer 3: lapf_establish_link, lapf_release_link and          *)
(* lapf_send_l3, which appends to the backlog only when it may not send.    *)

EstablishLink(s) == Reestablish(Context(s))
ReleaseLink(s) == Await(Context(s), "AWAITING_RELEASE", "DISC")

\* Mutant: ">" for ">=" in the window test.
SendL3_OffByOne(s, d) ==
    IF s.state \notin Transfer THEN Context(s)
    ELSE IF Outstanding(s) > s.vk \/ s.peerBusy
         THEN IF Len(s.backlog) = BacklogCap THEN Context(s)
              ELSE Context([s EXCEPT !.backlog = Append(@, d)])
    ELSE Say(Context(Supervise([s EXCEPT !.window[s.vs] = d, !.vs = Plus(@, 1)])),
             IFrame(s.vs, s.vr, d))

SendL3(s, d) ==
    IF s.state \notin Transfer THEN Context(s)
    ELSE IF Outstanding(s) >= s.vk \/ s.peerBusy
         THEN IF Len(s.backlog) = BacklogCap THEN Context(s)
              ELSE Context([s EXCEPT !.backlog = Append(@, d)])
    ELSE Say(Context(Supervise([s EXCEPT !.window[s.vs] = d, !.vs = Plus(@, 1)])),
             IFrame(s.vs, s.vr, d))

-----------------------------------------------------------------------------
(* lapf_handle_frame.  Frames cut short: an I-frame is only reported, a     *)
(* supervisory or unnumbered frame of the wrong length resets the link.     *)

Unsized == {"SABME", "DISC", "UA", "DM", "unknown"}  \* U-frames without information
Supervisory == {"RR", "RNR", "REJ", "reserved"}
Malformed(f) ==
    \/ f.type \in Supervisory \cup {"I"} /\ f.size = "short"
    \/ f.type \in Unsized /\ f.size = "long"

OnMalformed(c, f) ==
    IF f.type # "I" /\ c.s.state \in Transfer THEN Reject(c) ELSE c

\* UI is handled in every state, outside the numbering.
OnUi(c, f) == Deliver(c, f.data)

\* Mutant: the establishment is not reported to layer 3.
OnSabme_Silent(c, f) ==
    LET s == [c.s EXCEPT !.state = "ESTABLISHED", !.vs = 0, !.vr = 0, !.va = 0,
                         !.peerBusy = FALSE, !.rejExc = FALSE, !.backlog = <<>>]
    IN Say([c EXCEPT !.s = Idle(s)], Response("UA", 0, f.pf))

OnSabme(c, f) ==
    LET s == [c.s EXCEPT !.state = "ESTABLISHED", !.vs = 0, !.vr = 0, !.va = 0,
                         !.peerBusy = FALSE, !.rejExc = FALSE, !.backlog = <<>>]
    IN Tell(Say([c EXCEPT !.s = Idle(s)], Response("UA", 0, f.pf)), "ESTABLISHED")

OnDisc(c, f) ==
    LET s == [c.s EXCEPT !.state = "TEI_ASSIGNED", !.t200 = FALSE, !.t203 = FALSE]
        answer == IF c.s.state = "TEI_ASSIGNED" THEN "DM" ELSE "UA"
        d == Say([c EXCEPT !.s = s], Response(answer, 0, f.pf))
    IN IF c.s.state \in Transfer THEN Tell(d, "RELEASED") ELSE d

OnDisconnected(c, f) ==
    CASE f.type = "DM" /\ ~f.pf -> Reestablish(c)
      [] f.type \notin {"UA", "DM"} /\ f.cr = "cmd" -> Say(c, Response("DM", 0, f.pf))
      [] OTHER -> c

\* Mutant: T200 of the wait is left running.
Disconnect_LeavesT200(c) == [c EXCEPT !.s = [@ EXCEPT !.state = "TEI_ASSIGNED"]]

\* The link is refused or released: T203 was stopped when the wait began.
Disconnect(c) == [c EXCEPT !.s = [@ EXCEPT !.state = "TEI_ASSIGNED", !.t200 = FALSE]]

\* Mutant: a UA leaves the variables of the previous link in place.
OnAwaitingEstablishment_KeepsSeq(c, f) ==
    CASE f.type = "UA" /\ f.pf ->
            LET s == [c.s EXCEPT !.state = "ESTABLISHED", !.rejExc = FALSE]
            IN Tell(ProcessBacklog([c EXCEPT !.s = Idle(s)]), "ESTABLISHED")
      [] f.type = "DM" /\ f.pf -> Disconnect(c)
      [] OTHER -> c

OnAwaitingEstablishment(c, f) ==
    CASE f.type = "UA" /\ f.pf ->
            LET s == [c.s EXCEPT !.state = "ESTABLISHED", !.vs = 0, !.vr = 0,
                                 !.va = 0, !.rejExc = FALSE]
            IN Tell(ProcessBacklog([c EXCEPT !.s = Idle(s)]), "ESTABLISHED")
      [] f.type = "DM" /\ f.pf -> Disconnect(c)
      [] OTHER -> c

OnAwaitingRelease(c, f) ==
    IF f.type \in {"UA", "DM"} /\ f.pf THEN Disconnect(c) ELSE c

-----------------------------------------------------------------------------
(* ESTABLISHED and TIMER_RECOVERY. *)

\* lapf_handle_xid: both ends take the smaller window; vk is left alone.
OnXid(c, f) ==
    LET d == [c EXCEPT !.s.k = IF f.k < @ THEN f.k ELSE @]
    IN IF f.cr = "cmd" THEN Say(d, [Response("XID", 0, f.pf) EXCEPT !.k = d.s.k]) ELSE d

OnUnnumbered(c, f) ==
    CASE f.type = "DM" /\ (~f.pf \/ c.s.state = "TIMER_RECOVERY") -> Reestablish(c)
      [] f.type = "XID" -> OnXid(c, f)
      [] f.type = "FRMR" -> Reestablish(c)
      [] OTHER -> c

\* N(R) acknowledges everything before it.
Acknowledge(c, nr) ==
    LET stepped == StepUp([c.s EXCEPT !.va = nr], Ahead(c.s.va, nr))
        d == ProcessBacklog([c EXCEPT !.s = stepped])
    IN IF nr = c.s.va THEN c
       ELSE [d EXCEPT !.s = IF @.va = @.vs THEN Idle(@) ELSE [@ EXCEPT !.t200 = TRUE]]

\* F = 1 answers the poll of TIMER_RECOVERY.
PollAnswered(c, f) == f.pf /\ f.cr = "rsp" /\ c.s.state = "TIMER_RECOVERY"
Recover(c) == [c EXCEPT !.s = Idle([@ EXCEPT !.state = "ESTABLISHED"])]
AnswerPoll(c) == Say(c, Response("RR", c.s.vr, TRUE))

OnReady(c, f) ==
    LET d == [c EXCEPT !.s.peerBusy = (f.type = "RNR")]
    IN CASE PollAnswered(c, f) -> Recover(d)
         [] f.pf /\ f.cr = "cmd" -> AnswerPoll(d)
         [] OTHER -> d

\* Everything from N(R) on is sent again; T200 runs even if that is nothing.
OnRej(c, f) ==
    LET s == OnLoss([c.s EXCEPT !.peerBusy = FALSE,
                     !.state = IF PollAnswered(c, f) THEN "ESTABLISHED" ELSE @])
        again == [i \in 1 .. Ahead(f.nr, s.vs) |->
                    IFrame(Plus(f.nr, i - 1), s.vr, s.window[Plus(f.nr, i - 1)])]
    IN [c EXCEPT !.s = Supervise(s), !.out = @ \o again]

\* An I response with F = 1 ends the recovery; what it leaves unacknowledged
\* is given up (vs := N(R)) and the head of the backlog goes next.
RecoverByI(c, nr) ==
    LET d == Recover([c EXCEPT !.s = [@ EXCEPT !.vs = nr, !.peerBusy = FALSE]])
    IN IF d.s.backlog = <<>> THEN d ELSE Dequeue(d, 1)

InSequence(c, f) ==
    LET s == [c.s EXCEPT !.vr = Plus(@, 1), !.rejExc = FALSE]
        d == Deliver([c EXCEPT !.s = s], f.data)
    IN CASE f.cr = "cmd" /\ f.pf -> AnswerPoll(d)
         [] f.cr = "cmd" /\ ~f.pf -> Say(d, Response("RR", s.vr, FALSE))
         [] PollAnswered(c, f) -> RecoverByI(d, f.nr)
         [] OTHER -> d

OutOfSequence(c, f) ==
    IF c.s.rejExc THEN c
    ELSE [Say(c, Response("REJ", c.s.vr, f.cr = "cmd" /\ f.pf)) EXCEPT
            !.s = [@ EXCEPT !.rejExc = TRUE]]

\* Mutant: a frame ahead of the expected one passes for it.
OnI_AcceptsAhead(c, f) ==
    IF f.size = "long" THEN Reject(c)
    ELSE IF f.ns >= c.s.vr THEN InSequence(c, f) ELSE OutOfSequence(c, f)

OnI(c, f) ==
    IF f.size = "long" THEN Reject(c)
    ELSE IF f.ns = c.s.vr THEN InSequence(c, f) ELSE OutOfSequence(c, f)

OnNumbered(c, f) ==
    LET d == Acknowledge(c, f.nr)
    IN IF ~InRange(f.nr, c.s.va, c.s.vs) THEN Reject(c)
       ELSE CASE f.type \in {"RR", "RNR"} -> OnReady(d, f)
              [] f.type = "REJ" -> OnRej(d, f)
              [] f.type = "I" -> OnI(d, f)
              [] OTHER -> d

OnTransfer(c, f) ==
    CASE f.type = "UA" -> c
      [] f.type \in Supervisory \cup {"I"} -> OnNumbered(c, f)
      [] OTHER -> OnUnnumbered(c, f)

\* The switch on the state, and what follows it: T203 watches an
\* established link while T200 does not.
WatchIdle(c) ==
    IF c.s.state = "ESTABLISHED" /\ ~c.s.t200
    THEN [c EXCEPT !.s = [@ EXCEPT !.t203 = TRUE]] ELSE c
ByState(c, f) ==
    CASE c.s.state = "TEI_ASSIGNED" -> OnDisconnected(c, f)
      [] c.s.state = "AWAITING_ESTABLISHMENT" -> OnAwaitingEstablishment(c, f)
      [] c.s.state = "AWAITING_RELEASE" -> OnAwaitingRelease(c, f)
      [] OTHER -> OnTransfer(c, f)

HandleFrame(s, f) ==
    LET c == Context(IF f.becn THEN OnBecn(s) ELSE s)
    IN IF Malformed(f) THEN OnMalformed(c, f)
       ELSE CASE f.type = "UI" -> OnUi(c, f)
              [] f.type = "SABME" -> OnSabme(c, f)
              [] f.type = "DISC" -> OnDisc(c, f)
              [] OTHER -> WatchIdle(ByState(c, f))

-----------------------------------------------------------------------------
(* lapf_poll_timer, for one entity: T200, then T203. *)

\* Mutant: the limit is tested with ">".
OnT200_Strict(c) ==
    LET s == OnLoss(c.s)
        retx == c.s.retx + 1
        again == [c EXCEPT !.s = [s EXCEPT !.retx = retx]]
    IN IF retx > N200 THEN Reestablish([c EXCEPT !.s = s])
       ELSE IF s.state = "ESTABLISHED"
            THEN Say([c EXCEPT !.s = [s EXCEPT !.state = "TIMER_RECOVERY", !.retx = 0]],
                     Command("RR", s.vr, TRUE))
            ELSE Say(again, Command("RR", s.vr, TRUE))

OnT200(c) ==
    LET s == OnLoss(c.s)
        retx == c.s.retx + 1
        again == [c EXCEPT !.s = [s EXCEPT !.retx = retx]]
    IN IF retx >= N200 THEN Reestablish([c EXCEPT !.s = s])
       ELSE CASE s.state = "AWAITING_ESTABLISHMENT" ->
                    Say(again, Command("SABME", 0, TRUE))
              [] s.state = "AWAITING_RELEASE" ->
                    Say(again, Command("DISC", 0, TRUE))
              [] s.state = "ESTABLISHED" ->
                    Say([c EXCEPT !.s = [s EXCEPT !.state = "TIMER_RECOVERY", !.retx = 0]],
                        Command("RR", s.vr, TRUE))
              [] OTHER -> Say(again, Command("RR", s.vr, TRUE))

\* Mutant: the idle timer starts again without a poll.
OnT203_NoPoll(c) == [c EXCEPT !.s = Idle(@)]

OnT203(c) ==
    Say([c EXCEPT !.s = Supervise([@ EXCEPT !.state = "TIMER_RECOVERY", !.retx = 0])],
        Command("RR", c.s.vr, TRUE))

PollTimer(s, expired) ==
    LET c == IF "T200" \in expired /\ s.t200 THEN OnT200(Context(s)) ELSE Context(s)
    IN IF "T203" \in expired /\ c.s.t203 THEN OnT203(c) ELSE c

-----------------------------------------------------------------------------
\* The timers that fit a state.
TimersOf(s) ==
    /\ s.state = "TEI_ASSIGNED" => ~s.t200 /\ ~s.t203
    /\ s.state \in Transfer => s.t200 \/ s.t203
    /\ s.state \in {"AWAITING_ESTABLISHMENT", "AWAITING_RELEASE"} => s.t200 /\ ~s.t203
=============================================================================
