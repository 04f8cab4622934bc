---------------------------- MODULE LapfRoutines ----------------------------
(***************************************************************************)
(* What the routines of one LAPF entity preserve, for every modulus,       *)
(* window, retransmission limit, backlog and set of messages: the lemmas   *)
(* that the proofs about one entity and about two share.                   *)
(***************************************************************************)
EXTENDS Lapf, TLAPS

\* What is inductive: the state is well formed, at most K frames are
\* unacknowledged, the timers fit the state.
Good(s) ==
    /\ s \in EndState
    /\ Len(s.backlog) <= BacklogCap
    /\ Outstanding(s) <= K
    /\ TimersOf(s)

LEMMA PlusType ==
    ASSUME NEW n \in SeqNos, NEW i \in 0 .. Mod
    PROVE  Plus(n, i) \in SeqNos
  BY WindowAssumption DEF SeqNos, Plus

LEMMA ZeroTypes == 0 \in SeqNos /\ 0 \in 0 .. N200 - 1 /\ 0 \in 0 .. NW - 1 /\ K \in 1 .. K
  BY WindowAssumption, LimitAssumption DEF SeqNos

LEMMA AheadType ==
    ASSUME NEW m \in SeqNos, NEW n \in SeqNos
    PROVE  Ahead(m, n) \in SeqNos
  BY WindowAssumption DEF SeqNos, Ahead

\* Sending i more frames adds i to the distance, as long as it cannot wrap.
LEMMA AheadPlus ==
    ASSUME NEW m \in SeqNos, NEW n \in SeqNos, NEW i \in Nat, Ahead(m, n) + i < Mod
    PROVE  Ahead(m, Plus(n, i)) = Ahead(m, n) + i
  BY WindowAssumption DEF SeqNos, Ahead, Plus

\* An N(R) inside the window brings V(S) closer, never further.
LEMMA AheadOfAck ==
    ASSUME NEW a \in SeqNos, NEW n \in SeqNos, NEW s \in SeqNos, InRange(n, a, s)
    PROVE  Ahead(n, s) <= Ahead(a, s)
  BY WindowAssumption DEF SeqNos, Ahead, InRange

\* The three ways the working window changes keep it in 1 .. K.
LEMMA ScaledType ==
    ASSUME NEW n \in 1 .. K
    PROVE  AtLeast1((n * 5) \div 8) \in 1 .. K
  BY WindowAssumption DEF AtLeast1

LEMMA QuarterType ==
    ASSUME NEW n \in 1 .. K, n > 4
    PROVE  n \div 4 \in 1 .. K
  BY WindowAssumption

LEMMA StepType ==
    ASSUME NEW n \in Nat
    PROVE  n \div NW \in Nat /\ n % NW \in 0 .. NW - 1
  BY LimitAssumption

\* The window, the counter and the retransmission count may change freely
\* within their ranges: Good does not depend on them otherwise.
LEMMA CountersGood ==
    ASSUME NEW s, Good(s), NEW vk \in 1 .. K, NEW ia \in 0 .. NW - 1
    PROVE  Good([s EXCEPT !.vk = vk, !.ia = ia]) /\ Good([s EXCEPT !.vk = vk])
  BY DEF Good, EndState, Outstanding, TimersOf

\* What Good needs of a state beside its type and its timers.
SameWindow(s, t) == t.vs = s.vs /\ t.va = s.va /\ t.backlog = s.backlog

LEMMA SameWindowGood ==
    ASSUME NEW s, Good(s), NEW t \in EndState, SameWindow(s, t), TimersOf(t)
    PROVE  Good(t)
  BY DEF Good, SameWindow, Outstanding

LEMMA SuperviseType ==
    ASSUME NEW s \in EndState
    PROVE  /\ Supervise(s) \in EndState
           /\ SameWindow(s, Supervise(s))
           /\ Supervise(s).state = s.state
           /\ s.state # "TEI_ASSIGNED" => TimersOf(Supervise(s))
  BY DEF EndState, Supervise, SameWindow, TimersOf

LEMMA IdleType ==
    ASSUME NEW s \in EndState
    PROVE  /\ Idle(s) \in EndState
           /\ SameWindow(s, Idle(s))
           /\ Idle(s).state = s.state
           /\ s.state \in Transfer => TimersOf(Idle(s))
  BY DEF EndState, Idle, SameWindow, TimersOf, Transfer

-----------------------------------------------------------------------------
(* Contexts. *)

\* A routine that started with layer 3 told `up` may leave the link in
\* transfer only if layer 3 knows, or hears it now.
Ok(c, up) ==
    /\ c = [s |-> c.s, out |-> c.out, up |-> c.up, event |-> c.event]
    /\ Good(c.s)
    /\ c.event \in {"none", "ESTABLISHED", "RELEASED"}
    /\ c.s.state \in Transfer => c.event = "ESTABLISHED" \/ (c.event = "none" /\ up)

LEMMA ContextOk ==
    ASSUME NEW s, NEW up, Good(s), s.state \in Transfer => up
    PROVE  Ok(Context(s), up) /\ Context(s).s = s /\ Context(s).event = "none"
  BY DEF Ok, Context

LEMMA SayOk ==
    ASSUME NEW c, NEW up, Ok(c, up), NEW f
    PROVE  /\ Ok(Say(c, f), up)
           /\ Say(c, f).s = c.s
           /\ Say(c, f).event = c.event
  BY DEF Ok, Say

LEMMA DeliverOk ==
    ASSUME NEW c, NEW up, Ok(c, up), NEW d
    PROVE  /\ Ok(Deliver(c, d), up)
           /\ Deliver(c, d).s = c.s
           /\ Deliver(c, d).event = c.event
  BY DEF Ok, Deliver

LEMMA WithEndOk ==
    ASSUME NEW c, NEW up, Ok(c, up), NEW s, Good(s),
           s.state \in Transfer => c.s.state \in Transfer
    PROVE  /\ Ok([c EXCEPT !.s = s], up)
           /\ [c EXCEPT !.s = s].s = s
           /\ [c EXCEPT !.s = s].event = c.event
  BY DEF Ok

LEMMA AwaitOk ==
    ASSUME NEW c, NEW up, Ok(c, up), NEW type,
           NEW state \in {"AWAITING_ESTABLISHMENT", "AWAITING_RELEASE"}
    PROVE  Ok(Await(c, state, type), up)
  <1> DEFINE r == [c.s EXCEPT !.state = state, !.retx = 0]
             s == Supervise(r)
  <1>a. Good(c.s) /\ c.s \in EndState
    BY DEF Ok, Good
  <1>b. r \in EndState /\ SameWindow(c.s, r) /\ r.state = state
    <2>1. state \in States
      BY DEF States
    <2> QED  BY <1>a, <2>1, ZeroTypes DEF EndState, SameWindow
  <1>1. Good(s) /\ s.state \notin Transfer
    BY <1>a, <1>b, SuperviseType, SameWindowGood DEF SameWindow, Transfer
  <1>2. Ok([c EXCEPT !.s = s], up)
    BY <1>1, WithEndOk
  <1> QED  BY <1>2, SayOk DEF Await

LEMMA ReestablishOk ==
    ASSUME NEW c, NEW up, Ok(c, up)
    PROVE  Ok(Reestablish(c), up)
  BY AwaitOk DEF Reestablish

LEMMA RejectOk ==
    ASSUME NEW c, NEW up, Ok(c, up)
    PROVE  Ok(Reject(c), up)
  BY SayOk, ReestablishOk DEF Reject

LEMMA DequeueOk ==
    ASSUME NEW c, NEW up, Ok(c, up), c.s.state \in Transfer,
           NEW n \in 0 .. Len(c.s.backlog), Outstanding(c.s) + n <= K
    PROVE  /\ Ok(Dequeue(c, n), up)
           /\ Dequeue(c, n).s.state = c.s.state
           /\ Dequeue(c, n).s.va = c.s.va
           /\ Dequeue(c, n).event = c.event
  <1> DEFINE s == c.s
             window == [i \in SeqNos |-> IF Ahead(s.vs, i) < n
                                         THEN s.backlog[Ahead(s.vs, i) + 1] ELSE s.window[i]]
             rest == SubSeq(s.backlog, n + 1, Len(s.backlog))
             r == [s EXCEPT !.window = window, !.vs = Plus(s.vs, n), !.backlog = rest]
             t == Supervise(r)
  <1>1. s \in EndState /\ Good(s)
    BY DEF Ok, Good
  <1>2. s.vs \in SeqNos /\ s.va \in SeqNos /\ s.backlog \in Seq(Data)
    BY <1>1 DEF EndState
  <1>3. window \in [SeqNos -> Info]
    <2> SUFFICES ASSUME NEW i \in SeqNos
                 PROVE  (IF Ahead(s.vs, i) < n THEN s.backlog[Ahead(s.vs, i) + 1]
                         ELSE s.window[i]) \in Info
      OBVIOUS
    <2>1. Ahead(s.vs, i) \in SeqNos /\ Ahead(s.vs, i) \in Nat
      <3>1. Ahead(s.vs, i) \in SeqNos
        BY <1>2, AheadType
      <3> QED  BY <3>1, WindowAssumption DEF SeqNos
    <2>2. s.window[i] \in Info
      BY <1>1 DEF EndState
    <2>3. ASSUME Ahead(s.vs, i) < n  PROVE s.backlog[Ahead(s.vs, i) + 1] \in Data
      BY <1>2, <2>1, <2>3
    <2> QED  BY <2>2, <2>3 DEF Info
  <1>4. rest \in Seq(Data) /\ Len(rest) = Len(s.backlog) - n
    BY <1>2
  <1>5. n \in Nat /\ n <= K /\ Outstanding(s) \in Nat /\ n \in 0 .. Mod
    <2>1. Outstanding(s) \in SeqNos
      BY <1>2, AheadType DEF Outstanding
    <2>2. n \in Nat
      BY <1>2
    <2> QED  BY <2>1, <2>2, WindowAssumption DEF SeqNos
  <1>6. Plus(s.vs, n) \in SeqNos
    BY <1>2, <1>5, PlusType
  <1>7. Ahead(s.va, Plus(s.vs, n)) = Ahead(s.va, s.vs) + n
    <2>1. Ahead(s.va, s.vs) + n < Mod
      BY <1>5, WindowAssumption DEF Outstanding
    <2> QED  BY <1>2, <1>5, <2>1, AheadPlus
  <1>8. r \in EndState /\ r.vs = Plus(s.vs, n) /\ r.va = s.va /\ r.backlog = rest
        /\ r.state = s.state
    <2> HIDE DEF window, rest
    <2> QED  BY <1>1, <1>3, <1>4, <1>6 DEF EndState
  <1>9. Good(t) /\ t.state = s.state /\ t.va = s.va
    <2> HIDE DEF r
    <2>1. t \in EndState /\ SameWindow(r, t) /\ t.state = s.state /\ TimersOf(t)
      BY <1>8, SuperviseType DEF Transfer
    <2>2. Len(t.backlog) <= BacklogCap
      BY <1>1, <1>2, <1>4, <1>8, <2>1, BacklogAssumption DEF Good, SameWindow
    <2>3. Outstanding(t) <= K
      BY <1>7, <1>8, <2>1 DEF Outstanding, SameWindow
    <2> QED  BY <1>8, <2>1, <2>2, <2>3 DEF Good, SameWindow
  <1>10. CASE n = 0
    BY <1>10 DEF Dequeue
  <1>11. CASE n # 0
    <2> DEFINE out == c.out \o [i \in 1 .. n |-> IFrame(Plus(s.vs, i - 1), s.vr, s.backlog[i])]
    <2>1. Dequeue(c, n) = [c EXCEPT !.s = t, !.out = out]
      BY <1>11 DEF Dequeue
    <2> QED  BY <1>8, <1>9, <2>1 DEF Ok
  <1> QED  BY <1>10, <1>11

\* lapf_process_backlog sends what the window has room for, never more.
LEMMA ProcessBacklogOk ==
    ASSUME NEW c, NEW up, Ok(c, up), c.s.state \in Transfer
    PROVE  /\ Ok(ProcessBacklog(c), up)
           /\ ProcessBacklog(c).s.state = c.s.state
           /\ ProcessBacklog(c).s.va = c.s.va
           /\ ProcessBacklog(c).event = c.event
  <1> DEFINE n == Sendable(c.s)
  <1>1. Good(c.s) /\ c.s \in EndState
    BY DEF Ok, Good
  <1>2. /\ Outstanding(c.s) \in Nat /\ Outstanding(c.s) <= K
        /\ Len(c.s.backlog) \in Nat /\ c.s.vk \in 1 .. K
    <2>1. c.s.vs \in SeqNos /\ c.s.va \in SeqNos /\ c.s.backlog \in Seq(Data) /\ c.s.vk \in 1 .. K
      BY <1>1 DEF EndState
    <2>2. Outstanding(c.s) \in SeqNos
      BY <2>1, AheadType DEF Outstanding
    <2>3. Outstanding(c.s) \in Nat
      BY <2>2, WindowAssumption DEF SeqNos
    <2> QED  BY <1>1, <2>1, <2>3 DEF Good
  <1>3. n \in 0 .. Len(c.s.backlog) /\ Outstanding(c.s) + n <= K
    <2> HIDE DEF Outstanding
    <2> QED  BY <1>2, WindowAssumption DEF Sendable
  <1> QED  BY <1>3, DequeueOk DEF ProcessBacklog

-----------------------------------------------------------------------------
(* Requests of layer 3. *)

LEMMA SendL3Ok ==
    ASSUME NEW s, NEW up, Good(s), s.state \in Transfer => up, NEW d \in Data
    PROVE  Ok(SendL3(s, d), up)
  <1>1. s \in EndState
    BY DEF Good
  <1>2. /\ s.vs \in SeqNos /\ s.va \in SeqNos /\ s.backlog \in Seq(Data)
        /\ s.vk \in 1 .. K /\ s.window \in [SeqNos -> Info]
    BY <1>1 DEF EndState
  <1>3. Outstanding(s) \in SeqNos
    BY <1>2, AheadType DEF Outstanding
  <1> DEFINE queued == [s EXCEPT !.backlog = Append(@, d)]
             r == [s EXCEPT !.window[s.vs] = d, !.vs = Plus(@, 1)]
             t == Supervise(r)
  <1>4. CASE s.state \notin Transfer
    BY <1>4, ContextOk DEF SendL3
  <1>5. CASE /\ s.state \in Transfer
             /\ Outstanding(s) >= s.vk \/ s.peerBusy
    <2>1. CASE Len(s.backlog) = BacklogCap
      BY <1>5, <2>1, ContextOk DEF SendL3
    <2>2. CASE Len(s.backlog) # BacklogCap
      <3>1. Append(s.backlog, d) \in Seq(Data) /\ Len(Append(s.backlog, d)) <= BacklogCap
        BY <1>2, <2>2, BacklogAssumption DEF Good
      <3>2. queued \in EndState
        BY <1>1, <3>1 DEF EndState
      <3>3. Good(queued) /\ queued.state = s.state
        BY <1>1, <3>1, <3>2 DEF Good, Outstanding, TimersOf, EndState
      <3> HIDE DEF queued
      <3>4. Ok(Context(queued), up)
        BY <3>3, ContextOk
      <3> QED  BY <1>5, <2>2, <3>4 DEF SendL3, queued
    <2> QED  BY <2>1, <2>2
  <1>6. CASE s.state \in Transfer /\ ~(Outstanding(s) >= s.vk \/ s.peerBusy)
    <2>1. Plus(s.vs, 1) \in SeqNos /\ d \in Info
      BY <1>2, PlusType, WindowAssumption DEF Info
    <2>2. [s.window EXCEPT ![s.vs] = d] \in [SeqNos -> Info]
      BY <1>2, <2>1
    <2>3. /\ r \in EndState /\ r.vs = Plus(s.vs, 1) /\ r.va = s.va
          /\ r.backlog = s.backlog /\ r.state = s.state
      BY <1>1, <2>1, <2>2 DEF EndState
    <2>4. Outstanding(s) + 1 <= K /\ Outstanding(s) + 1 < Mod
      BY <1>2, <1>3, <1>6, WindowAssumption DEF SeqNos
    <2>5. Ahead(s.va, Plus(s.vs, 1)) = Outstanding(s) + 1
      BY <1>2, <2>4, AheadPlus DEF Outstanding
    <2> HIDE DEF r
    <2>6. t \in EndState /\ SameWindow(r, t) /\ t.state = s.state /\ TimersOf(t)
      BY <1>6, <2>3, SuperviseType DEF Transfer
    <2>7. Good(t)
      BY <2>3, <2>4, <2>5, <2>6 DEF Good, Outstanding, SameWindow
    <2> HIDE DEF t
    <2>8. Ok(Context(t), up)
      BY <1>6, <2>6, <2>7, ContextOk
    <2>9. SendL3(s, d) = Say(Context(t), IFrame(s.vs, s.vr, d))
      BY <1>6 DEF SendL3, t, r
    <2> QED  BY <2>8, <2>9, SayOk
  <1> QED  BY <1>4, <1>5, <1>6

-----------------------------------------------------------------------------
(* Frames. *)

LEMMA OkState ==
    ASSUME NEW c, NEW up, Ok(c, up)
    PROVE  /\ Good(c.s) /\ c.s \in EndState /\ c.s.state \in States
           /\ TimersOf(c.s)
           /\ c.s.vs \in SeqNos /\ c.s.va \in SeqNos /\ c.s.vr \in SeqNos
           /\ c.s.backlog \in Seq(Data) /\ c.s.window \in [SeqNos -> Info]
           /\ c.s.vk \in 1 .. K /\ c.s.k \in 0 .. K /\ c.s.ia \in 0 .. NW - 1
  BY DEF Ok, Good, EndState

LEMMA OnMalformedOk ==
    ASSUME NEW c, NEW up, Ok(c, up), NEW f
    PROVE  Ok(OnMalformed(c, f), up)
  BY RejectOk DEF OnMalformed

\* A SABME empties the window and the backlog; whatever the state was,
\* layer 3 is told.
LEMMA OnSabmeOk ==
    ASSUME NEW c, NEW up, Ok(c, up), NEW f
    PROVE  Ok(OnSabme(c, f), up)
  <1> DEFINE r == [c.s EXCEPT !.state = "ESTABLISHED", !.vs = 0, !.vr = 0, !.va = 0,
                              !.peerBusy = FALSE, !.rejExc = FALSE, !.backlog = <<>>]
             t == Idle(r)
             d == [c EXCEPT !.s = t]
  <1>1. /\ r \in EndState /\ r.vs = 0 /\ r.va = 0 /\ r.backlog = <<>>
        /\ r.state = "ESTABLISHED"
    <2>1. "ESTABLISHED" \in States /\ <<>> \in Seq(Data)
      BY DEF States
    <2> QED  BY <2>1, OkState, ZeroTypes DEF EndState
  <1>2. Good(t)
    <2> HIDE DEF r
    <2>1. t \in EndState /\ SameWindow(r, t) /\ TimersOf(t)
      BY <1>1, IdleType DEF Transfer
    <2>2. Outstanding(t) = 0 /\ Len(t.backlog) = 0
      BY <1>1, <2>1, WindowAssumption DEF Outstanding, Ahead, SameWindow
    <2> QED  BY <2>1, <2>2, WindowAssumption, BacklogAssumption DEF Good
  <1> HIDE DEF t
  <1>3. /\ Say(d, Response("UA", 0, f.pf)).s = t
        /\ OnSabme(c, f) = [Say(d, Response("UA", 0, f.pf)) EXCEPT !.event = "ESTABLISHED"]
    BY DEF OnSabme, Tell, Say, t, Ok
  <1> QED  BY <1>2, <1>3 DEF Ok, Say

LEMMA OnDiscOk ==
    ASSUME NEW c, NEW up, Ok(c, up), NEW f
    PROVE  Ok(OnDisc(c, f), up)
  <1> DEFINE r == [c.s EXCEPT !.state = "TEI_ASSIGNED", !.t200 = FALSE, !.t203 = FALSE]
             answer == IF c.s.state = "TEI_ASSIGNED" THEN "DM" ELSE "UA"
             d == Say([c EXCEPT !.s = r], Response(answer, 0, f.pf))
  <1>1. r \in EndState /\ SameWindow(c.s, r) /\ r.state = "TEI_ASSIGNED" /\ ~r.t200 /\ ~r.t203
    <2>1. "TEI_ASSIGNED" \in States
      BY DEF States
    <2> QED  BY <2>1, OkState DEF EndState, SameWindow
  <1> HIDE DEF r
  <1>2. Good(r) /\ r.state \notin Transfer
    BY <1>1, OkState, SameWindowGood DEF TimersOf, Transfer
  <1>3. Ok(d, up) /\ d.s = r
    <2>1. Ok([c EXCEPT !.s = r], up) /\ [c EXCEPT !.s = r].s = r
      BY <1>2, WithEndOk
    <2> QED  BY <2>1, SayOk
  <1> HIDE DEF d
  <1>4. Ok([d EXCEPT !.event = "RELEASED"], up)
    BY <1>2, <1>3 DEF Ok
  <1>5. OnDisc(c, f) = IF c.s.state \in Transfer THEN [d EXCEPT !.event = "RELEASED"] ELSE d
    BY DEF OnDisc, Tell, d, r
  <1> QED  BY <1>3, <1>4, <1>5

LEMMA OnDisconnectedOk ==
    ASSUME NEW c, NEW up, Ok(c, up), NEW f
    PROVE  Ok(OnDisconnected(c, f), up)
  BY ReestablishOk, SayOk DEF OnDisconnected

LEMMA DisconnectOk ==
    ASSUME NEW c, NEW up, Ok(c, up),
           c.s.state \in {"AWAITING_ESTABLISHMENT", "AWAITING_RELEASE"}
    PROVE  Ok(Disconnect(c), up)
  <1> DEFINE r == [c.s EXCEPT !.state = "TEI_ASSIGNED", !.t200 = FALSE]
  <1>1. /\ r \in EndState /\ SameWindow(c.s, r)
        /\ r.state = "TEI_ASSIGNED" /\ ~r.t200 /\ r.t203 = c.s.t203
    <2>1. "TEI_ASSIGNED" \in States
      BY DEF States
    <2> QED  BY <2>1, OkState DEF EndState, SameWindow
  <1>2. ~c.s.t203
    BY OkState DEF TimersOf
  <1> HIDE DEF r
  <1>3. Good(r) /\ r.state \notin Transfer
    BY <1>1, <1>2, OkState, SameWindowGood DEF TimersOf, Transfer
  <1>4. Disconnect(c) = [c EXCEPT !.s = r]
    BY DEF Disconnect, r
  <1> QED  BY <1>3, <1>4, WithEndOk

\* A UA opens an empty window, then the backlog of the wait is sent.
LEMMA OnAwaitingEstablishmentOk ==
    ASSUME NEW c, NEW up, Ok(c, up), NEW f, c.s.state = "AWAITING_ESTABLISHMENT",
           c.event = "none"
    PROVE  Ok(OnAwaitingEstablishment(c, f), up)
  <1> DEFINE r == [c.s EXCEPT !.state = "ESTABLISHED", !.vs = 0, !.vr = 0,
                              !.va = 0, !.rejExc = FALSE]
             t == Idle(r)
             d == [c EXCEPT !.s = t]
  <1>1. CASE f.type = "UA" /\ f.pf
    <2>1. /\ r \in EndState /\ r.vs = 0 /\ r.va = 0 /\ r.backlog = c.s.backlog
          /\ r.state = "ESTABLISHED"
      <3>1. "ESTABLISHED" \in States
        BY DEF States
      <3> QED  BY <3>1, OkState, ZeroTypes DEF EndState
    <2>2. Good(t) /\ t.state = "ESTABLISHED"
      <3> HIDE DEF r
      <3>1. t \in EndState /\ SameWindow(r, t) /\ TimersOf(t) /\ t.state = "ESTABLISHED"
        BY <2>1, IdleType DEF Transfer
      <3>2. Outstanding(t) = 0 /\ t.backlog = c.s.backlog
        BY <2>1, <3>1, WindowAssumption DEF Outstanding, Ahead, SameWindow
      <3> QED  BY <3>1, <3>2, OkState, WindowAssumption DEF Good
    <2> HIDE DEF t
    <2>3. Ok(d, TRUE) /\ d.s = t
      BY <2>2, c.event = "none" DEF Ok, Transfer
    <2>4. Ok(ProcessBacklog(d), TRUE)
      BY <2>2, <2>3, ProcessBacklogOk DEF Transfer
    <2>5. OnAwaitingEstablishment(c, f) = [ProcessBacklog(d) EXCEPT !.event = "ESTABLISHED"]
      BY <1>1 DEF OnAwaitingEstablishment, Tell, t
    <2> QED  BY <2>4, <2>5 DEF Ok
  <1>2. CASE f.type = "DM" /\ f.pf
    BY <1>2, DisconnectOk DEF OnAwaitingEstablishment
  <1>3. CASE ~(f.type = "UA" /\ f.pf) /\ ~(f.type = "DM" /\ f.pf)
    BY <1>3 DEF OnAwaitingEstablishment
  <1> QED  BY <1>1, <1>2, <1>3

LEMMA OnAwaitingReleaseOk ==
    ASSUME NEW c, NEW up, Ok(c, up), NEW f, c.s.state = "AWAITING_RELEASE"
    PROVE  Ok(OnAwaitingRelease(c, f), up)
  BY DisconnectOk DEF OnAwaitingRelease

LEMMA OnXidOk ==
    ASSUME NEW c, NEW up, Ok(c, up), NEW f, f.k \in 0 .. K
    PROVE  Ok(OnXid(c, f), up)
  <1> DEFINE k == IF f.k < c.s.k THEN f.k ELSE c.s.k
             r == [c.s EXCEPT !.k = k]
             d == [c EXCEPT !.s = r]
  <1>1. k \in 0 .. K
    BY OkState
  <1> HIDE DEF k
  <1>2. /\ r \in EndState /\ SameWindow(c.s, r) /\ r.state = c.s.state
        /\ r.t200 = c.s.t200 /\ r.t203 = c.s.t203
    BY <1>1, OkState DEF EndState, SameWindow
  <1> HIDE DEF r
  <1>3. Good(r)
    BY <1>2, OkState, SameWindowGood DEF TimersOf
  <1>4. Ok(d, up)
    BY <1>2, <1>3, WithEndOk
  <1>5. \E g : OnXid(c, f) = IF f.cr = "cmd" THEN Say(d, g) ELSE d
    <2>1. [c EXCEPT !.s.k = IF f.k < @ THEN f.k ELSE @] = d
      BY DEF d, r, k, Ok
    <2> QED  BY <2>1 DEF OnXid
  <1> QED  BY <1>4, <1>5, SayOk

LEMMA OnUnnumberedOk ==
    ASSUME NEW c, NEW up, Ok(c, up), NEW f, f.k \in 0 .. K
    PROVE  Ok(OnUnnumbered(c, f), up)
  BY ReestablishOk, OnXidOk DEF OnUnnumbered

-----------------------------------------------------------------------------
(* Numbered frames on a link in transfer. *)

\* A change of timers alone, one of which still runs.
LEMMA TimerChangeOk ==
    ASSUME NEW c, NEW up, Ok(c, up), c.s.state \in Transfer,
           NEW a \in BOOLEAN, NEW b \in BOOLEAN, a \/ b
    PROVE  LET s == [c.s EXCEPT !.t200 = a, !.t203 = b]
           IN /\ Ok([c EXCEPT !.s = s], up)
              /\ s.state = c.s.state /\ s.va = c.s.va
  <1> DEFINE s == [c.s EXCEPT !.t200 = a, !.t203 = b]
  <1>1. /\ s \in EndState /\ SameWindow(c.s, s) /\ s.state = c.s.state
        /\ s.t200 = a /\ s.t203 = b
    BY OkState DEF EndState, SameWindow
  <1> HIDE DEF s
  <1>2. Good(s)
    BY <1>1, OkState, SameWindowGood DEF TimersOf, Transfer
  <1>3. Ok([c EXCEPT !.s = s], up)
    BY <1>1, <1>2, WithEndOk
  <1> QED  BY <1>1, <1>3 DEF SameWindow, s

\* An N(R) in range shrinks the window and steps it up.
LEMMA AcknowledgedGood ==
    ASSUME NEW c, NEW up, Ok(c, up), c.s.state \in Transfer,
           NEW nr \in SeqNos, InRange(nr, c.s.va, c.s.vs)
    PROVE  LET r == [c.s EXCEPT !.va = nr]
               u == StepUp(r, Ahead(c.s.va, nr))
           IN r \in EndState /\ Good(u) /\ u.state = c.s.state /\ u.va = nr
  <1> DEFINE acked == Ahead(c.s.va, nr)
             r == [c.s EXCEPT !.va = nr]
             u == StepUp(r, acked)
  <1>1. /\ r \in EndState /\ r.vs = c.s.vs /\ r.va = nr /\ r.backlog = c.s.backlog
        /\ r.state = c.s.state /\ r.t200 = c.s.t200 /\ r.t203 = c.s.t203
        /\ r.vk \in 1 .. K /\ r.k \in 0 .. K /\ r.ia \in 0 .. NW - 1
    BY OkState DEF EndState
  <1>2. acked \in Nat
    <2>1. acked \in SeqNos
      BY OkState, AheadType
    <2> QED  BY <2>1, WindowAssumption DEF SeqNos
  <1>3. Good(r)
    <2> HIDE DEF r
    <2>1. Ahead(nr, c.s.vs) <= Ahead(c.s.va, c.s.vs)
      BY OkState, AheadOfAck
    <2>2. /\ Ahead(nr, c.s.vs) \in SeqNos /\ Ahead(c.s.va, c.s.vs) \in SeqNos
      BY OkState, AheadType
    <2>3. Outstanding(r) = Ahead(nr, c.s.vs) /\ Outstanding(c.s) = Ahead(c.s.va, c.s.vs)
      BY <1>1 DEF Outstanding
    <2>4. Outstanding(c.s) <= K /\ Len(c.s.backlog) <= BacklogCap
      BY OkState DEF Good
    <2>5. Outstanding(r) <= K
      BY <2>1, <2>2, <2>3, <2>4, WindowAssumption DEF SeqNos
    <2>6. TimersOf(r)
      BY <1>1, OkState DEF TimersOf
    <2> QED  BY <1>1, <2>4, <2>5, <2>6 DEF Good
  <1>4. Good(u) /\ u.state = c.s.state /\ u.va = nr
    <2> HIDE DEF r, acked
    <2> DEFINE n == r.ia + acked
               vk == IF r.vk >= r.k THEN r.vk
                     ELSE IF r.vk + n \div NW <= r.k THEN r.vk + n \div NW ELSE r.k
               ia == n % NW
    <2>1. n \in Nat
      BY <1>1, <1>2, LimitAssumption
    <2>2. n \div NW \in Nat /\ ia \in 0 .. NW - 1
      BY <2>1, StepType
    <2>3. vk \in 1 .. K
      <3> HIDE DEF n
      <3> QED  BY <1>1, <2>2, WindowAssumption
    <2>4. u = [r EXCEPT !.vk = vk, !.ia = ia]
      BY <1>1 DEF StepUp, EndState
    <2> HIDE DEF vk, ia
    <2>5. Good([r EXCEPT !.vk = vk, !.ia = ia])
      BY <1>3, <2>2, <2>3, CountersGood
    <2>6. [r EXCEPT !.vk = vk, !.ia = ia].state = r.state
          /\ [r EXCEPT !.vk = vk, !.ia = ia].va = r.va
      BY <1>1 DEF EndState
    <2> HIDE DEF u
    <2> QED  BY <1>1, <2>4, <2>5, <2>6
  <1> QED  BY <1>1, <1>4

\* Acknowledging shrinks the window, then the backlog may fill it again.
LEMMA AcknowledgeOk ==
    ASSUME NEW c, NEW up, Ok(c, up), c.s.state \in Transfer,
           NEW nr \in SeqNos, InRange(nr, c.s.va, c.s.vs)
    PROVE  /\ Ok(Acknowledge(c, nr), up)
           /\ Acknowledge(c, nr).s.state = c.s.state
           /\ Acknowledge(c, nr).s.va = nr
           /\ Acknowledge(c, nr).event = c.event
  <1> DEFINE acked == Ahead(c.s.va, nr)
             r == [c.s EXCEPT !.va = nr]
             u == StepUp(r, acked)
             e == [c EXCEPT !.s = u]
             d == ProcessBacklog(e)
  <1>1. CASE nr = c.s.va
    BY <1>1 DEF Acknowledge
  <1>2. CASE nr # c.s.va
    <2>4. Good(u) /\ u.state = c.s.state /\ u.va = nr
      BY AcknowledgedGood
    <2> HIDE DEF u
    <2>5. Ok(e, up) /\ e.s = u /\ e.event = c.event
      BY <2>4, WithEndOk
    <2> HIDE DEF e
    <2>6. Ok(d, up) /\ d.s.state = c.s.state /\ d.s.va = nr /\ d.event = c.event
      BY <2>4, <2>5, ProcessBacklogOk
    <2> HIDE DEF d
    <2> DEFINE t == IF d.s.va = d.s.vs THEN Idle(d.s) ELSE [d.s EXCEPT !.t200 = TRUE]
    <2>7. Acknowledge(c, nr) = [d EXCEPT !.s = t]
      BY <1>2 DEF Acknowledge, d, e, u
    <2>8. Good(t) /\ t.state = d.s.state /\ t.va = d.s.va
      <3>1. CASE d.s.va = d.s.vs
        BY <2>6, <3>1, OkState, IdleType, SameWindowGood DEF SameWindow
      <3>2. CASE d.s.va # d.s.vs
        <4> DEFINE w == [d.s EXCEPT !.t200 = TRUE]
        <4>1. w \in EndState /\ SameWindow(d.s, w) /\ w.state = d.s.state /\ w.t200
          BY <2>6, OkState DEF EndState, SameWindow
        <4> HIDE DEF w
        <4>2. Good(w)
          BY <2>6, <4>1, OkState, SameWindowGood DEF TimersOf, Transfer
        <4>3. t = w
          BY <3>2 DEF w
        <4> QED  BY <4>1, <4>2, <4>3 DEF SameWindow
      <3> QED  BY <3>1, <3>2
    <2> HIDE DEF t
    <2>9. Ok([d EXCEPT !.s = t], up) /\ [d EXCEPT !.s = t].s = t /\ [d EXCEPT !.s = t].event = d.event
      BY <2>6, <2>8, WithEndOk
    <2> QED  BY <2>6, <2>7, <2>8, <2>9
  <1> QED  BY <1>1, <1>2

\* The flags of the peer and of the reject exception do not matter to Good.
Flags(s, busy, rej, vr) == [s EXCEPT !.peerBusy = busy, !.rejExc = rej, !.vr = vr]

LEMMA FlagsOk ==
    ASSUME NEW c, NEW up, Ok(c, up), NEW busy \in BOOLEAN, NEW rej \in BOOLEAN,
           NEW vr \in SeqNos
    PROVE  /\ Ok([c EXCEPT !.s = Flags(c.s, busy, rej, vr)], up)
           /\ Flags(c.s, busy, rej, vr).state = c.s.state
           /\ Flags(c.s, busy, rej, vr).va = c.s.va
  <1> DEFINE s == Flags(c.s, busy, rej, vr)
  <1>1. /\ s \in EndState /\ SameWindow(c.s, s) /\ s.state = c.s.state
        /\ s.t200 = c.s.t200 /\ s.t203 = c.s.t203
    BY OkState DEF EndState, SameWindow, Flags
  <1> HIDE DEF s
  <1>2. Good(s)
    BY <1>1, OkState, SameWindowGood DEF TimersOf
  <1>3. Ok([c EXCEPT !.s = s], up)
    BY <1>1, <1>2, WithEndOk
  <1> QED  BY <1>1, <1>3 DEF SameWindow, s

LEMMA RecoverOk ==
    ASSUME NEW c, NEW up, Ok(c, up), c.s.state \in Transfer
    PROVE  /\ Ok(Recover(c), up)
           /\ Recover(c).s.state = "ESTABLISHED"
           /\ SameWindow(c.s, Recover(c).s)
           /\ Recover(c).event = c.event
  <1> DEFINE r == [c.s EXCEPT !.state = "ESTABLISHED"]
             t == Idle(r)
  <1>1. r \in EndState /\ SameWindow(c.s, r) /\ r.state = "ESTABLISHED"
    <2>1. "ESTABLISHED" \in States
      BY DEF States
    <2> QED  BY <2>1, OkState DEF EndState, SameWindow
  <1> HIDE DEF r
  <1>2. /\ t \in EndState /\ SameWindow(c.s, t) /\ t.state = "ESTABLISHED"
        /\ TimersOf(t)
    BY <1>1, IdleType DEF SameWindow, Transfer
  <1> HIDE DEF t
  <1>3. Good(t)
    BY <1>2, OkState, SameWindowGood
  <1>4. Recover(c) = [c EXCEPT !.s = t]
    BY DEF Recover, t, r
  <1>5. Ok([c EXCEPT !.s = t], up) /\ [c EXCEPT !.s = t].s = t
        /\ [c EXCEPT !.s = t].event = c.event
    BY <1>2, <1>3, WithEndOk
  <1> QED  BY <1>2, <1>4, <1>5

LEMMA OnReadyOk ==
    ASSUME NEW c, NEW up, Ok(c, up), c.s.state \in Transfer, NEW f
    PROVE  Ok(OnReady(c, f), up)
  <1> DEFINE busy == f.type = "RNR"
             s == Flags(c.s, busy, c.s.rejExc, c.s.vr)
             d == [c EXCEPT !.s = s]
  <1>1. busy \in BOOLEAN /\ c.s.rejExc \in BOOLEAN /\ c.s.vr \in SeqNos
    BY OkState DEF EndState
  <1> HIDE DEF busy
  <1>2. Ok(d, up) /\ s.state = c.s.state
    BY <1>1, FlagsOk
  <1>3. [c EXCEPT !.s.peerBusy = busy] = d /\ d.s = s
    BY OkState DEF Ok, EndState, Flags
  <1> HIDE DEF s
  <1>4. d.s.state \in Transfer
    BY <1>2, <1>3
  <1> HIDE DEF d
  <1>5. Ok(Recover(d), up) /\ Ok(AnswerPoll(d), up)
    BY <1>2, <1>4, RecoverOk, SayOk DEF AnswerPoll
  <1>6. OnReady(c, f) \in {Recover(d), AnswerPoll(d), d}
    BY <1>3 DEF OnReady, busy
  <1> QED  BY <1>2, <1>5, <1>6

\* A loss leaves a window of at least one frame.
LEMMA OnLossOk ==
    ASSUME NEW s \in EndState
    PROVE  /\ OnLoss(s) \in EndState
           /\ SameWindow(s, OnLoss(s))
           /\ OnLoss(s).state = s.state
           /\ OnLoss(s).t200 = s.t200 /\ OnLoss(s).t203 = s.t203
           /\ OnLoss(s).retx = s.retx
  <1> DEFINE vk == IF s.vk > 4 THEN s.vk \div 4 ELSE 1
  <1>1. s.vk \in 1 .. K
    BY DEF EndState
  <1>2. vk \in 1 .. K
    BY <1>1, QuarterType, WindowAssumption
  <1>3. OnLoss(s) = [s EXCEPT !.vk = vk, !.ia = 0]
    BY DEF OnLoss, EndState
  <1> HIDE DEF vk
  <1> QED  BY <1>2, <1>3, ZeroTypes DEF EndState, SameWindow

LEMMA OnRejOk ==
    ASSUME NEW c, NEW up, Ok(c, up), c.s.state \in Transfer, NEW f
    PROVE  Ok(OnRej(c, f), up)
  <1> DEFINE state == IF PollAnswered(c, f) THEN "ESTABLISHED" ELSE c.s.state
             r == [c.s EXCEPT !.peerBusy = FALSE, !.state = state]
             s == OnLoss(r)
             t == Supervise(s)
  <1>1. state \in States /\ state \in Transfer
    BY OkState DEF States, Transfer
  <1> HIDE DEF state
  <1>2. r \in EndState /\ SameWindow(c.s, r) /\ r.state = state
    BY <1>1, OkState DEF EndState, SameWindow
  <1> HIDE DEF r
  <1>3. s \in EndState /\ SameWindow(c.s, s) /\ s.state = state
    BY <1>2, OnLossOk DEF SameWindow
  <1> HIDE DEF s
  <1>4. t \in EndState /\ SameWindow(c.s, t) /\ t.state = state /\ TimersOf(t)
    BY <1>1, <1>3, SuperviseType DEF SameWindow, Transfer
  <1> HIDE DEF t
  <1>5. Good(t)
    BY <1>4, OkState, SameWindowGood
  <1>6. \E out : OnRej(c, f) = [c EXCEPT !.s = t, !.out = out]
    BY DEF OnRej, t, s, r, state
  <1> QED  BY <1>1, <1>4, <1>5, <1>6 DEF Ok

\* Giving up the window leaves nothing outstanding, so one frame fits.
LEMMA RecoverByIOk ==
    ASSUME NEW c, NEW up, Ok(c, up), c.s.state \in Transfer,
           NEW nr \in SeqNos, c.s.va = nr
    PROVE  Ok(RecoverByI(c, nr), up)
  <1> DEFINE r == [c.s EXCEPT !.vs = nr, !.peerBusy = FALSE]
             e == [c EXCEPT !.s = r]
             d == Recover(e)
  <1>1. /\ r \in EndState /\ r.vs = nr /\ r.va = nr /\ r.backlog = c.s.backlog
        /\ r.state = c.s.state /\ r.t200 = c.s.t200 /\ r.t203 = c.s.t203
    BY OkState DEF EndState
  <1> HIDE DEF r
  <1>2. Outstanding(r) = 0
    BY <1>1, WindowAssumption DEF Outstanding, Ahead, SeqNos
  <1>3. Good(r)
    BY <1>1, <1>2, OkState, WindowAssumption DEF Good, TimersOf
  <1>4. Ok(e, up) /\ e.s = r
    BY <1>1, <1>3, WithEndOk
  <1> HIDE DEF e
  <1>5. Ok(d, up) /\ d.s.state = "ESTABLISHED" /\ SameWindow(r, d.s)
    BY <1>1, <1>4, RecoverOk
  <1>6. RecoverByI(c, nr) = IF d.s.backlog = <<>> THEN d ELSE Dequeue(d, 1)
    BY DEF RecoverByI, e, r
  <1> HIDE DEF d
  <1>7. CASE d.s.backlog = <<>>
    BY <1>5, <1>6, <1>7
  <1>8. CASE d.s.backlog # <<>>
    <2>1. d.s.backlog \in Seq(Data)
      BY <1>5, OkState
    <2>2. 1 \in 0 .. Len(d.s.backlog)
      BY <1>8, <2>1
    <2>3. Outstanding(d.s) + 1 <= K
      BY <1>2, <1>5, WindowAssumption DEF SameWindow, Outstanding
    <2>4. Ok(Dequeue(d, 1), up)
      BY <1>5, <2>2, <2>3, DequeueOk DEF Transfer
    <2> QED  BY <1>6, <1>8, <2>4
  <1> QED  BY <1>7, <1>8

LEMMA InSequenceOk ==
    ASSUME NEW c, NEW up, Ok(c, up), c.s.state \in Transfer, NEW f,
           f.nr \in SeqNos, c.s.va = f.nr
    PROVE  Ok(InSequence(c, f), up)
  <1> DEFINE next == Plus(c.s.vr, 1)
             s == Flags(c.s, c.s.peerBusy, FALSE, next)
             e == [c EXCEPT !.s = s]
             d == Deliver(e, f.data)
  <1>1. next \in SeqNos /\ c.s.peerBusy \in BOOLEAN
    <2>1. c.s.vr \in SeqNos /\ c.s.peerBusy \in BOOLEAN /\ 1 \in 0 .. Mod
      BY OkState, WindowAssumption DEF EndState
    <2> QED  BY <2>1, PlusType
  <1>2. s = [c.s EXCEPT !.vr = Plus(@, 1), !.rejExc = FALSE]
    BY OkState DEF Flags, EndState
  <1> HIDE DEF next
  <1>3. Ok(e, up) /\ s.state = c.s.state /\ s.va = c.s.va /\ e.s = s
    <2>1. Ok(e, up) /\ s.state = c.s.state /\ s.va = c.s.va
      BY <1>1, FlagsOk
    <2>2. e.s = s
      <3> HIDE DEF s
      <3> QED  BY DEF Ok
    <2> QED  BY <2>1, <2>2
  <1> HIDE DEF s, e
  <1>4. Ok(d, up) /\ d.s.state \in Transfer /\ d.s.va = f.nr
    BY <1>3, DeliverOk
  <1> HIDE DEF d
  <1>5. \A g : Ok(Say(d, g), up)
    BY <1>4, SayOk
  <1>6. Ok(RecoverByI(d, f.nr), up)
    BY <1>4, RecoverByIOk
  <1>7. \/ \E g : InSequence(c, f) = Say(d, g)
        \/ InSequence(c, f) = RecoverByI(d, f.nr)
        \/ InSequence(c, f) = d
    <2>1. d = Deliver([c EXCEPT !.s = [c.s EXCEPT !.vr = Plus(@, 1), !.rejExc = FALSE]], f.data)
      BY <1>2 DEF d, e
    <2>2. CASE f.cr = "cmd" /\ f.pf
      <3>1. InSequence(c, f) = AnswerPoll(d)
        BY <2>1, <2>2 DEF InSequence, PollAnswered
      <3> QED  BY <3>1 DEF AnswerPoll
    <2>3. CASE f.cr = "cmd" /\ ~f.pf
      <3>1. InSequence(c, f) = Say(d, Response("RR", s.vr, FALSE))
        BY <1>2, <2>1, <2>3 DEF InSequence, PollAnswered
      <3> QED  BY <3>1
    <2>4. CASE f.cr # "cmd"
      BY <2>1, <2>4 DEF InSequence, PollAnswered
    <2> QED  BY <2>2, <2>3, <2>4
  <1> QED  BY <1>4, <1>5, <1>6, <1>7

LEMMA OutOfSequenceOk ==
    ASSUME NEW c, NEW up, Ok(c, up), c.s.state \in Transfer, NEW f
    PROVE  Ok(OutOfSequence(c, f), up)
  <1> DEFINE g == Response("REJ", c.s.vr, f.cr = "cmd" /\ f.pf)
             s == Flags(c.s, c.s.peerBusy, TRUE, c.s.vr)
             d == [c EXCEPT !.s = s]
  <1>1. c.s.peerBusy \in BOOLEAN /\ c.s.vr \in SeqNos
    BY OkState DEF EndState
  <1>2. Ok(d, up)
    BY <1>1, FlagsOk
  <1>3. [Say(c, g) EXCEPT !.s = [@ EXCEPT !.rejExc = TRUE]] = Say(d, g)
    <2>1. s = [c.s EXCEPT !.rejExc = TRUE]
      BY OkState DEF Flags, EndState
    <2> HIDE DEF s, g
    <2> QED  BY <2>1 DEF Say, Ok
  <1>4. OutOfSequence(c, f) = IF c.s.rejExc THEN c ELSE Say(d, g)
    BY <1>3 DEF OutOfSequence
  <1> HIDE DEF d, g
  <1> QED  BY <1>2, <1>4, SayOk

LEMMA OnIOk ==
    ASSUME NEW c, NEW up, Ok(c, up), c.s.state \in Transfer, NEW f,
           f.nr \in SeqNos, c.s.va = f.nr
    PROVE  Ok(OnI(c, f), up)
  BY RejectOk, InSequenceOk, OutOfSequenceOk DEF OnI

LEMMA OnNumberedOk ==
    ASSUME NEW c, NEW up, Ok(c, up), c.s.state \in Transfer, NEW f, f.nr \in SeqNos
    PROVE  Ok(OnNumbered(c, f), up)
  <1> DEFINE d == Acknowledge(c, f.nr)
  <1>1. CASE ~InRange(f.nr, c.s.va, c.s.vs)
    BY <1>1, RejectOk DEF OnNumbered
  <1>2. CASE InRange(f.nr, c.s.va, c.s.vs)
    <2>1. Ok(d, up) /\ d.s.state \in Transfer /\ d.s.va = f.nr
      BY <1>2, AcknowledgeOk
    <2>2. OnNumbered(c, f) \in {OnReady(d, f), OnRej(d, f), OnI(d, f), d}
      BY <1>2 DEF OnNumbered
    <2> HIDE DEF d
    <2>3. Ok(OnReady(d, f), up) /\ Ok(OnRej(d, f), up) /\ Ok(OnI(d, f), up)
      BY <2>1, OnReadyOk, OnRejOk, OnIOk
    <2> QED  BY <2>1, <2>2, <2>3
  <1> QED  BY <1>1, <1>2

LEMMA OnTransferOk ==
    ASSUME NEW c, NEW up, Ok(c, up), c.s.state \in Transfer, NEW f,
           f.nr \in SeqNos, f.k \in 0 .. K
    PROVE  Ok(OnTransfer(c, f), up)
  BY OnNumberedOk, OnUnnumberedOk DEF OnTransfer

LEMMA WatchIdleOk ==
    ASSUME NEW c, NEW up, Ok(c, up)
    PROVE  Ok(WatchIdle(c), up)
  <1>1. CASE c.s.state = "ESTABLISHED" /\ ~c.s.t200
    <2> DEFINE s == [c.s EXCEPT !.t200 = FALSE, !.t203 = TRUE]
    <2>1. Ok([c EXCEPT !.s = s], up)
      BY <1>1, TimerChangeOk DEF Transfer
    <2>2. s = [c.s EXCEPT !.t203 = TRUE]
      BY <1>1, OkState DEF EndState
    <2> QED  BY <1>1, <2>1, <2>2 DEF WatchIdle
  <1>2. CASE ~(c.s.state = "ESTABLISHED" /\ ~c.s.t200)
    BY <1>2 DEF WatchIdle
  <1> QED  BY <1>1, <1>2

LEMMA ByStateOk ==
    ASSUME NEW c, NEW up, Ok(c, up), c.event = "none", NEW f,
           f.nr \in SeqNos, f.k \in 0 .. K
    PROVE  Ok(ByState(c, f), up)
  <1>1. c.s.state \in {"TEI_ASSIGNED", "AWAITING_ESTABLISHMENT", "AWAITING_RELEASE"} \cup Transfer
    BY OkState DEF States, Transfer
  <1> QED  BY <1>1, OnDisconnectedOk, OnAwaitingEstablishmentOk, OnAwaitingReleaseOk,
              OnTransferOk DEF ByState, Transfer

LEMMA OnBecnGood ==
    ASSUME NEW s, Good(s)
    PROVE  Good(OnBecn(s)) /\ OnBecn(s).state = s.state
  <1> DEFINE vk == AtLeast1((s.vk * 5) \div 8)
  <1>1. s.vk \in 1 .. K /\ s \in EndState
    BY DEF Good, EndState
  <1>2. vk \in 1 .. K
    BY <1>1, ScaledType
  <1>3. OnBecn(s) = [s EXCEPT !.vk = vk]
    BY DEF OnBecn
  <1> HIDE DEF vk
  <1>4. s.ia \in 0 .. NW - 1
    BY <1>1 DEF EndState
  <1>5. Good([s EXCEPT !.vk = vk])
    BY <1>2, <1>4, CountersGood
  <1>6. [s EXCEPT !.vk = vk].state = s.state
    BY <1>1 DEF EndState
  <1> QED  BY <1>3, <1>5, <1>6

LEMMA HandleFrameOk ==
    ASSUME NEW s, NEW up, Good(s), s.state \in Transfer => up,
           NEW f, f.nr \in SeqNos, f.k \in 0 .. K
    PROVE  Ok(HandleFrame(s, f), up)
  <1> DEFINE c == Context(IF f.becn THEN OnBecn(s) ELSE s)
  <1>1. Ok(c, up) /\ c.event = "none"
    BY OnBecnGood, ContextOk
  <1>2. HandleFrame(s, f) \in
            {OnMalformed(c, f), OnUi(c, f), OnSabme(c, f), OnDisc(c, f), WatchIdle(ByState(c, f))}
    BY DEF HandleFrame
  <1> HIDE DEF c
  <1>3. Ok(WatchIdle(ByState(c, f)), up)
    BY <1>1, ByStateOk, WatchIdleOk
  <1>4. Ok(OnUi(c, f), up)
    BY <1>1, DeliverOk DEF OnUi
  <1> QED  BY <1>1, <1>2, <1>3, <1>4, OnMalformedOk, OnSabmeOk, OnDiscOk

-----------------------------------------------------------------------------
(* Timers. *)

\* An expiry of T200 either starts the wait for a UA over or leaves T200
\* running with one retransmission more.
LEMMA OnT200Ok ==
    ASSUME NEW c, NEW up, Ok(c, up), c.s.t200, c.s.state # "TEI_ASSIGNED"
    PROVE  Ok(OnT200(c), up) /\ (OnT200(c).s.t203 => c.s.t203)
  <1> DEFINE s == OnLoss(c.s)
             retx == c.s.retx + 1
             r == [s EXCEPT !.retx = retx]
             p == [s EXCEPT !.state = "TIMER_RECOVERY", !.retx = 0]
  <1>1. /\ s \in EndState /\ SameWindow(c.s, s) /\ s.state = c.s.state
        /\ s.t200 = c.s.t200 /\ s.t203 = c.s.t203 /\ s.retx = c.s.retx
    BY OkState, OnLossOk
  <1>2. Good(s)
    BY <1>1, OkState, SameWindowGood DEF TimersOf
  <1> HIDE DEF s
  <1>3. CASE retx >= N200
    <2>1. Ok([c EXCEPT !.s = s], up)
      BY <1>1, <1>2, WithEndOk
    <2>2. OnT200(c) = Reestablish([c EXCEPT !.s = s])
      BY <1>3 DEF OnT200, s
    <2>3. ~Reestablish([c EXCEPT !.s = s]).s.t203
      <3>1. \A e : Ok(e, up) => ~Reestablish(e).s.t203
        BY OkState DEF Reestablish, Await, Say, Supervise, Ok, EndState
      <3> QED  BY <2>1, <3>1
    <2> QED  BY <2>1, <2>2, <2>3, ReestablishOk
  <1>4. CASE ~(retx >= N200)
    <2>1. retx \in 0 .. N200 - 1
      BY <1>4, OkState, LimitAssumption DEF EndState
    <2>2. /\ r \in EndState /\ SameWindow(s, r) /\ r.state = s.state
          /\ r.t200 = s.t200 /\ r.t203 = s.t203
      <3> HIDE DEF retx
      <3> QED  BY <1>1, <2>1 DEF EndState, SameWindow
    <2>3. Good(r)
      BY <1>2, <2>2, OkState, <1>1, SameWindowGood DEF TimersOf
    <2>4. "TIMER_RECOVERY" \in States
      BY DEF States
    <2>5. /\ p \in EndState /\ SameWindow(s, p) /\ p.state = "TIMER_RECOVERY"
          /\ p.t200 = s.t200 /\ p.t203 = s.t203
      BY <1>1, <2>4, ZeroTypes DEF EndState, SameWindow
    <2>6. Good(p)
      BY <1>1, <1>2, <2>5, SameWindowGood DEF TimersOf, Transfer
    <2>7. \/ \E g : OnT200(c) = Say([c EXCEPT !.s = r], g)
          \/ s.state = "ESTABLISHED" /\ \E g : OnT200(c) = Say([c EXCEPT !.s = p], g)
      BY <1>4 DEF OnT200, s
    <2> HIDE DEF r, p
    <2>8. /\ Ok([c EXCEPT !.s = r], up) /\ [c EXCEPT !.s = r].s = r
      BY <1>1, <2>2, <2>3, WithEndOk
    <2>9. ASSUME s.state = "ESTABLISHED"
          PROVE  Ok([c EXCEPT !.s = p], up) /\ [c EXCEPT !.s = p].s = p
      BY <1>1, <2>5, <2>6, <2>9, WithEndOk DEF Transfer
    <2>10. \A g : Ok(Say([c EXCEPT !.s = r], g), up) /\ Say([c EXCEPT !.s = r], g).s = r
      BY <2>8, SayOk
    <2>11. ASSUME s.state = "ESTABLISHED"
           PROVE  \A g : Ok(Say([c EXCEPT !.s = p], g), up) /\ Say([c EXCEPT !.s = p], g).s = p
      BY <2>9, <2>11, SayOk
    <2> QED  BY <1>1, <2>2, <2>5, <2>7, <2>10, <2>11
  <1> QED  BY <1>3, <1>4

LEMMA OnT203Ok ==
    ASSUME NEW c, NEW up, Ok(c, up), c.s.state \in Transfer
    PROVE  Ok(OnT203(c), up)
  <1> DEFINE r == [c.s EXCEPT !.state = "TIMER_RECOVERY", !.retx = 0]
             t == Supervise(r)
  <1>1. r \in EndState /\ SameWindow(c.s, r) /\ r.state = "TIMER_RECOVERY"
    <2>1. "TIMER_RECOVERY" \in States
      BY DEF States
    <2> QED  BY <2>1, OkState, ZeroTypes DEF EndState, SameWindow
  <1> HIDE DEF r
  <1>2. t \in EndState /\ SameWindow(c.s, t) /\ t.state = "TIMER_RECOVERY" /\ TimersOf(t)
    BY <1>1, SuperviseType DEF SameWindow
  <1>3. \E g : OnT203(c) = Say([c EXCEPT !.s = t], g)
    BY DEF OnT203, t, r
  <1> HIDE DEF t
  <1>4. Good(t)
    BY <1>2, OkState, SameWindowGood
  <1>5. Ok([c EXCEPT !.s = t], up)
    BY <1>2, <1>4, WithEndOk
  <1> QED  BY <1>3, <1>5, SayOk

\* Where a timer runs, the state that its expiry expects holds.
LEMMA PollTimerOk ==
    ASSUME NEW s, NEW up, Good(s), s.state \in Transfer => up, NEW expired
    PROVE  Ok(PollTimer(s, expired), up)
  <1> DEFINE c == IF "T200" \in expired /\ s.t200 THEN OnT200(Context(s)) ELSE Context(s)
  <1>1. Ok(Context(s), up) /\ Context(s).s = s
    BY ContextOk
  <1>2. s.state \in States /\ s.t200 \in BOOLEAN /\ s.t203 \in BOOLEAN /\ TimersOf(s)
    BY DEF Good, EndState
  <1>3. s.t200 => s.state # "TEI_ASSIGNED"
    BY <1>2 DEF TimersOf
  <1>4. Ok(c, up) /\ (c.s.t203 => s.t203)
    BY <1>1, <1>3, OnT200Ok
  <1>5. PollTimer(s, expired) = IF "T203" \in expired /\ c.s.t203 THEN OnT203(c) ELSE c
    BY DEF PollTimer
  <1> HIDE DEF c
  <1>6. c.s.t203 => c.s.state \in Transfer
    BY <1>4, OkState DEF TimersOf, States, Transfer
  <1> QED  BY <1>4, <1>5, <1>6, OnT203Ok

LEMMA FreshGood == Good(Fresh)
  <1>1. NoData \in Info /\ [n \in SeqNos |-> NoData] \in [SeqNos -> Info]
    BY DEF Info
  <1>2. "TEI_ASSIGNED" \in States /\ <<>> \in Seq(Data) /\ K \in 0 .. K
    BY WindowAssumption DEF States
  <1>3. Fresh \in EndState
    BY <1>1, <1>2, ZeroTypes DEF Fresh, EndState
  <1>4. Outstanding(Fresh) = 0 /\ Len(Fresh.backlog) = 0
    BY DEF Outstanding, Ahead, Fresh
  <1>5. TimersOf(Fresh)
    BY DEF Fresh, TimersOf, Transfer
  <1> QED  BY <1>3, <1>4, <1>5, WindowAssumption, BacklogAssumption DEF Good
=============================================================================
