----------------------------- MODULE LapfProofs -----------------------------
(***************************************************************************)
(* Proofs about one LAPF entity facing an arbitrary peer, for every        *)
(* modulus, window, retransmission limit, backlog and set of messages.     *)
(***************************************************************************)
EXTENDS LapfEnd, LapfRoutines

-----------------------------------------------------------------------------
(* What is kept for retransmission. *)

\* The numbers and the store are those of s.
Held(s, t) == t.va = s.va /\ t.vs = s.vs /\ t.window = s.window

\* From number a on, t holds what s holds, and perhaps newer frames.
Extends(a, s, t) ==
    /\ t.va = a
    /\ Ahead(a, s.vs) <= Ahead(a, t.vs)
    /\ \A n \in SeqNos : Ahead(a, n) < Ahead(a, s.vs) => t.window[n] = s.window[n]

Acknowledged(s, t) == \E a \in SeqNos : InRange(a, s.va, s.vs) /\ Extends(a, s, t)

\* What a routine that finds the link in transfer may do to the store.
Kept(s, t) ==
    \/ t.state \notin Transfer
    \/ t.vs = 0 /\ t.va = 0 /\ t.vr = 0
    \/ s.state = "TIMER_RECOVERY" /\ t.state = "ESTABLISHED" /\ t.vr # s.vr
    \/ Acknowledged(s, t)

\* Neither a number nor the store is touched by timers, counters and flags.
LEMMA RoutineHeld ==
    ASSUME NEW s \in EndState
    PROVE  /\ Held(s, Supervise(s)) /\ Supervise(s).vr = s.vr
           /\ Held(s, Idle(s)) /\ Idle(s).vr = s.vr
           /\ Held(s, OnLoss(s)) /\ OnLoss(s).vr = s.vr
           /\ Held(s, OnBecn(s)) /\ OnBecn(s).vr = s.vr
           /\ \A n : Held(s, StepUp(s, n)) /\ StepUp(s, n).vr = s.vr
  BY DEF EndState, Held, Supervise, Idle, OnLoss, OnBecn, StepUp

LEMMA HeldExtends ==
    ASSUME NEW s \in EndState, NEW t, Held(s, t)
    PROVE  Extends(s.va, s, t)
  <1>1. Ahead(s.va, s.vs) \in SeqNos
    BY AheadType DEF EndState
  <1> QED  BY <1>1, WindowAssumption DEF Held, Extends, SeqNos

LEMMA ExtendsHeld ==
    ASSUME NEW a, NEW s, NEW t, Extends(a, s, t), NEW u, Held(t, u)
    PROVE  Extends(a, s, u)
  BY DEF Extends, Held

LEMMA ExtendsExtends ==
    ASSUME NEW s \in EndState, NEW t \in EndState, NEW u \in EndState, NEW a \in SeqNos,
           Extends(a, s, t), Extends(a, t, u)
    PROVE  Extends(a, s, u)
  <1>1. /\ Ahead(a, s.vs) \in SeqNos /\ Ahead(a, t.vs) \in SeqNos /\ Ahead(a, u.vs) \in SeqNos
        /\ \A n \in SeqNos : Ahead(a, n) \in SeqNos
    BY AheadType DEF EndState
  <1>2. \A n \in SeqNos : n \in Nat
    BY WindowAssumption DEF SeqNos
  <1>3. Ahead(a, s.vs) <= Ahead(a, u.vs)
    BY <1>1, <1>2 DEF Extends
  <1>4. ASSUME NEW n \in SeqNos, Ahead(a, n) < Ahead(a, s.vs)
        PROVE  u.window[n] = s.window[n]
    <2>1. Ahead(a, n) < Ahead(a, t.vs)
      BY <1>1, <1>2, <1>4 DEF Extends
    <2> QED  BY <1>4, <2>1 DEF Extends
  <1> QED  BY <1>3, <1>4 DEF Extends

\* The numbers the backlog takes are not those of frames still held.
LEMMA NewNumbers ==
    ASSUME NEW a \in SeqNos, NEW v \in SeqNos, NEW m \in SeqNos, NEW n \in Nat,
           Ahead(a, v) + n < Mod, Ahead(a, m) < Ahead(a, v)
    PROVE  ~(Ahead(v, m) < n)
  BY WindowAssumption DEF SeqNos, Ahead

LEMMA DequeueExtends ==
    ASSUME NEW c, NEW up, Ok(c, up), c.s.state \in Transfer,
           NEW n \in 0 .. Len(c.s.backlog), Outstanding(c.s) + n <= K
    PROVE  Extends(c.s.va, c.s, Dequeue(c, n).s) /\ Dequeue(c, n).s.vr = c.s.vr
  <1> DEFINE s == c.s
             window == [i \in SeqNos |-> IF Ahead(s.vs, i) < n
                                         THEN s.backlog[Ahead(s.vs, i) + 1] ELSE s.window[i]]
             rest == SubSeq(s.backlog, n + 1, Len(s.backlog))
             r == [s EXCEPT !.window = window, !.vs = Plus(s.vs, n), !.backlog = rest]
             t == Supervise(r)
             out == c.out \o [i \in 1 .. n |-> IFrame(Plus(s.vs, i - 1), s.vr, s.backlog[i])]
  <1>1. s \in EndState /\ s.vs \in SeqNos /\ s.va \in SeqNos /\ n \in Nat /\ Len(s.backlog) \in Nat
    BY OkState
  <1>2. Ahead(s.va, s.vs) \in Nat /\ Ahead(s.va, s.vs) + n < Mod
    <2>1. Ahead(s.va, s.vs) \in SeqNos
      BY <1>1, AheadType
    <2> QED  BY <1>1, <2>1, WindowAssumption DEF SeqNos, Outstanding
  <1>3. /\ t.va = s.va /\ t.vs = Plus(s.vs, n) /\ t.window = window /\ t.vr = s.vr
    <2> HIDE DEF window, rest
    <2> QED  BY <1>1 DEF EndState, Supervise
  <1> HIDE DEF t
  <1>4. Extends(s.va, s, t)
    <2>1. Ahead(s.va, t.vs) = Ahead(s.va, s.vs) + n
      BY <1>1, <1>2, <1>3, AheadPlus
    <2>2. ASSUME NEW m \in SeqNos, Ahead(s.va, m) < Ahead(s.va, s.vs)
          PROVE  t.window[m] = s.window[m]
      <3>1. ~(Ahead(s.vs, m) < n)
        BY <1>1, <1>2, <2>2, NewNumbers
      <3> QED  BY <1>3, <3>1
    <2>3. Ahead(s.va, s.vs) <= Ahead(s.va, t.vs)
      BY <1>1, <1>2, <2>1
    <2> QED  BY <1>3, <2>2, <2>3 DEF Extends
  <1>5. CASE n = 0
    <2>1. Dequeue(c, n) = c /\ Held(s, s)
      BY <1>5 DEF Dequeue, Held
    <2> QED  BY <1>1, <2>1, HeldExtends
  <1>6. CASE n # 0
    <2>1. Dequeue(c, n) = [c EXCEPT !.s = t, !.out = out]
      BY <1>6 DEF Dequeue, t
    <2> HIDE DEF out
    <2>2. Dequeue(c, n).s = t
      BY <2>1 DEF Ok
    <2> QED  BY <1>3, <1>4, <2>2
  <1> QED  BY <1>5, <1>6

LEMMA ProcessBacklogExtends ==
    ASSUME NEW c, NEW up, Ok(c, up), c.s.state \in Transfer
    PROVE  Extends(c.s.va, c.s, ProcessBacklog(c).s) /\ ProcessBacklog(c).s.vr = c.s.vr
  <1> DEFINE n == Sendable(c.s)
  <1>1. /\ Outstanding(c.s) \in SeqNos /\ Outstanding(c.s) <= K
        /\ Len(c.s.backlog) \in Nat /\ c.s.vk \in 1 .. K
    <2>1. c.s.vs \in SeqNos /\ c.s.va \in SeqNos /\ c.s.backlog \in Seq(Data) /\ c.s.vk \in 1 .. K /\ Good(c.s)
      BY OkState
    <2> QED  BY <2>1, AheadType DEF Outstanding, Good
  <1>2. n \in 0 .. Len(c.s.backlog) /\ Outstanding(c.s) + n <= K
    <2> HIDE DEF Outstanding
    <2> QED  BY <1>1, WindowAssumption DEF Sendable, SeqNos
  <1> QED  BY <1>2, DequeueExtends DEF ProcessBacklog

LEMMA AcknowledgeExtends ==
    ASSUME NEW c, NEW up, Ok(c, up), c.s.state \in Transfer,
           NEW nr \in SeqNos, InRange(nr, c.s.va, c.s.vs)
    PROVE  Extends(nr, c.s, Acknowledge(c, nr).s) /\ Acknowledge(c, nr).s.vr = c.s.vr
  <1> DEFINE r == [c.s EXCEPT !.va = nr]
             u == StepUp(r, Ahead(c.s.va, nr))
             e == [c EXCEPT !.s = u]
             d == ProcessBacklog(e)
             t == IF d.s.va = d.s.vs THEN Idle(d.s) ELSE [d.s EXCEPT !.t200 = TRUE]
  <1>1. CASE nr = c.s.va
    <2>1. Acknowledge(c, nr) = c /\ Held(c.s, c.s) /\ c.s \in EndState
      BY <1>1, OkState DEF Acknowledge, Held
    <2> QED  BY <1>1, <2>1, HeldExtends
  <1>2. CASE nr # c.s.va
    <2>1. Ok(e, up) /\ e.s = u /\ u.state = c.s.state
      <3>1. r \in EndState /\ Good(u) /\ u.state = c.s.state
        BY AcknowledgedGood
      <3> HIDE DEF u
      <3> QED  BY <3>1, WithEndOk
    <2>2. r \in EndState /\ r.va = nr /\ r.vs = c.s.vs /\ r.window = c.s.window /\ r.vr = c.s.vr
      BY OkState DEF EndState
    <2>3. Held(r, u) /\ u.vr = r.vr
      <3> HIDE DEF r
      <3> QED  BY <2>2, RoutineHeld
    <2> HIDE DEF u, r
    <2>4. Extends(u.va, u, d.s) /\ d.s.vr = u.vr /\ Ok(d, up)
      <3> HIDE DEF e
      <3> QED  BY <2>1, ProcessBacklogExtends, ProcessBacklogOk
    <2>5. Extends(nr, c.s, d.s) /\ d.s.vr = c.s.vr
      BY <2>2, <2>3, <2>4 DEF Extends, Held
    <2> HIDE DEF d
    <2>6. Held(d.s, t) /\ t.vr = d.s.vr
      <3>1. d.s \in EndState
        BY <2>4, OkState
      <3>2. Held(d.s, [d.s EXCEPT !.t200 = TRUE]) /\ [d.s EXCEPT !.t200 = TRUE].vr = d.s.vr
        BY <3>1 DEF EndState, Held
      <3> QED  BY <3>1, <3>2, RoutineHeld
    <2>7. Acknowledge(c, nr) = [d EXCEPT !.s = t]
      BY <1>2 DEF Acknowledge, d, e, u, r
    <2> HIDE DEF t
    <2>8. Acknowledge(c, nr).s = t
      BY <2>4, <2>7 DEF Ok
    <2> QED  BY <2>5, <2>6, <2>8, ExtendsHeld
  <1> QED  BY <1>1, <1>2

\* A request to wait, a reset and a release all leave the transfer states.
LEMMA AwaitLeaves ==
    ASSUME NEW c, NEW up, Ok(c, up), NEW type,
           NEW state \in {"AWAITING_ESTABLISHMENT", "AWAITING_RELEASE"}
    PROVE  Await(c, state, type).s.state \notin Transfer
  <1> DEFINE r == [c.s EXCEPT !.state = state, !.retx = 0]
             s == [r EXCEPT !.t200 = TRUE, !.t203 = FALSE]
  <1>1. s.state = state
    BY OkState DEF EndState
  <1>2. Await(c, state, type).s = s
    <2> HIDE DEF r
    <2> QED  BY DEF Await, Say, Supervise, Ok, r
  <1> QED  BY <1>1, <1>2 DEF Transfer

LEMMA RejectLeaves ==
    ASSUME NEW c, NEW up, Ok(c, up)
    PROVE  Reestablish(c).s.state \notin Transfer /\ Reject(c).s.state \notin Transfer
  <1>1. \A d : Ok(d, up) => Reestablish(d).s.state \notin Transfer
    BY AwaitLeaves DEF Reestablish
  <1> QED  BY <1>1, SayOk DEF Reject

LEMMA HeldKept ==
    ASSUME NEW s \in EndState, NEW t, Held(s, t)
    PROVE  Kept(s, t)
  <1>1. s.va \in SeqNos /\ s.vs \in SeqNos
    BY DEF EndState
  <1>2. InRange(s.va, s.va, s.vs)
    BY <1>1, WindowAssumption DEF InRange, SeqNos
  <1> QED  BY <1>1, <1>2, HeldExtends DEF Kept, Acknowledged

LEMMA SendL3Kept ==
    ASSUME NEW s, Good(s), s.state \in Transfer, NEW d \in Data
    PROVE  Kept(s, SendL3(s, d).s)
  <1> DEFINE queued == [s EXCEPT !.backlog = Append(@, d)]
             r == [s EXCEPT !.window[s.vs] = d, !.vs = Plus(@, 1)]
             t == Supervise(r)
  <1>1. s \in EndState /\ s.vs \in SeqNos /\ s.va \in SeqNos /\ s.vk \in 1 .. K /\ s.window \in [SeqNos -> Info]
    BY DEF Good, EndState
  <1>2. CASE Outstanding(s) >= s.vk \/ s.peerBusy
    <2>1. Held(s, s) /\ Held(s, queued)
      BY <1>1 DEF Held, EndState
    <2>2. SendL3(s, d).s \in {s, queued}
      BY <1>2 DEF SendL3, Context
    <2> QED  BY <1>1, <2>1, <2>2, HeldKept
  <1>3. CASE ~(Outstanding(s) >= s.vk \/ s.peerBusy)
    <2>1. SendL3(s, d).s = t
      BY <1>3 DEF SendL3, Context, Say
    <2>2. t.va = s.va /\ t.vs = Plus(s.vs, 1) /\ t.window = [s.window EXCEPT ![s.vs] = d]
      BY <1>1 DEF Supervise, EndState
    <2>3. Ahead(s.va, s.vs) \in Nat /\ Ahead(s.va, s.vs) + 1 < Mod
      <3>1. Ahead(s.va, s.vs) \in SeqNos
        BY <1>1, AheadType
      <3> QED  BY <1>1, <1>3, <3>1, WindowAssumption DEF SeqNos, Outstanding
    <2>4. Ahead(s.va, t.vs) = Ahead(s.va, s.vs) + 1
      BY <1>1, <2>2, <2>3, AheadPlus
    <2>5. \A n \in SeqNos : Ahead(s.va, n) < Ahead(s.va, s.vs) => t.window[n] = s.window[n]
      BY <1>1, <2>2, <2>3
    <2>6. InRange(s.va, s.va, s.vs)
      BY <1>1, WindowAssumption DEF InRange, SeqNos
    <2>7. Extends(s.va, s, t)
      BY <2>2, <2>3, <2>4, <2>5 DEF Extends
    <2> QED  BY <1>1, <2>1, <2>6, <2>7 DEF Kept, Acknowledged
  <1> QED  BY <1>2, <1>3

\* What a numbered frame does once its N(R) has been taken: c is the context
\* after the acknowledgement.
LEMMA OnReadyHeld ==
    ASSUME NEW c, NEW up, Ok(c, up), NEW f
    PROVE  Held(c.s, OnReady(c, f).s)
  <1> DEFINE busy == f.type = "RNR"
             s == [c.s EXCEPT !.peerBusy = busy]
             r == [s EXCEPT !.state = "ESTABLISHED"]
             d == [c EXCEPT !.s = s]
  <1>1. c.s \in EndState /\ "ESTABLISHED" \in States /\ busy \in BOOLEAN
    BY OkState DEF States
  <1> HIDE DEF busy
  <1>2. s \in EndState /\ Held(c.s, s) /\ r \in EndState /\ Held(c.s, r)
    BY <1>1 DEF Held, EndState
  <1>3. Held(c.s, Idle(r))
    <2> HIDE DEF r
    <2> QED  BY <1>2, RoutineHeld DEF Held
  <1>4. [c EXCEPT !.s.peerBusy = busy] = d /\ d.s = s
    BY DEF Ok
  <1>5. Recover(d).s = Idle(r) /\ AnswerPoll(d).s = s
    <2> HIDE DEF s
    <2> QED  BY DEF Recover, AnswerPoll, Say, Ok
  <1> HIDE DEF d
  <1>6. OnReady(c, f) \in {Recover(d), AnswerPoll(d), d}
    BY <1>4 DEF OnReady, busy
  <1> QED  BY <1>2, <1>3, <1>4, <1>5, <1>6

LEMMA OnRejHeld ==
    ASSUME NEW c, NEW up, Ok(c, up), NEW f
    PROVE  Held(c.s, OnRej(c, f).s)
  <1> DEFINE state == IF PollAnswered(c, f) THEN "ESTABLISHED" ELSE c.s.state
             r == [c.s EXCEPT !.peerBusy = FALSE, !.state = state]
             t == Supervise(OnLoss(r))
  <1>1. state \in States
    BY OkState DEF States
  <1> HIDE DEF state
  <1>2. r \in EndState /\ Held(c.s, r)
    BY <1>1, OkState DEF EndState, Held
  <1> HIDE DEF r
  <1>3. Held(c.s, t)
    BY <1>2, OnLossOk, RoutineHeld DEF Held
  <1>4. OnRej(c, f).s = t
    <2>1. \E out : OnRej(c, f) = [c EXCEPT !.s = t, !.out = out]
      BY DEF OnRej, t, r, state
    <2> HIDE DEF t
    <2> QED  BY <2>1 DEF Ok
  <1> QED  BY <1>3, <1>4

\* An I response that ends the recovery leaves ESTABLISHED and the next V(R).
LEMMA RecoverByIEnds ==
    ASSUME NEW c, NEW up, Ok(c, up), c.s.state \in Transfer, NEW nr \in SeqNos, c.s.va = nr
    PROVE  RecoverByI(c, nr).s.state = "ESTABLISHED" /\ RecoverByI(c, nr).s.vr = c.s.vr
  <1> DEFINE r == [c.s EXCEPT !.vs = nr, !.peerBusy = FALSE]
             e == [c EXCEPT !.s = r]
             d == Recover(e)
  <1>1. /\ r \in EndState /\ r.vs = nr /\ r.va = nr /\ r.backlog = c.s.backlog /\ r.vr = c.s.vr
        /\ r.state = c.s.state /\ r.t200 = c.s.t200 /\ r.t203 = c.s.t203
    BY OkState DEF EndState
  <1> HIDE DEF r
  <1>2. Outstanding(r) = 0
    BY <1>1, WindowAssumption DEF Outstanding, Ahead, SeqNos
  <1>3. Good(r)
    BY <1>1, <1>2, OkState, WindowAssumption DEF Good, TimersOf
  <1>4. Ok(e, up) /\ e.s = r
    BY <1>1, <1>3, WithEndOk
  <1> HIDE DEF e
  <1>5. Ok(d, up) /\ d.s.state = "ESTABLISHED" /\ SameWindow(r, d.s)
    BY <1>1, <1>4, RecoverOk
  <1>6. d.s.vr = c.s.vr
    <2> DEFINE x == [r EXCEPT !.state = "ESTABLISHED"]
    <2>1. x \in EndState /\ x.vr = r.vr
      BY <1>1 DEF EndState, States
    <2> HIDE DEF x
    <2>2. Idle(x).vr = x.vr
      BY <2>1, RoutineHeld
    <2>3. d.s = Idle(x)
      <3>1. d = [e EXCEPT !.s = Idle(x)]
        BY <1>4 DEF Recover, x
      <3> HIDE DEF d
      <3> QED  BY <1>4, <3>1 DEF Ok
    <2> QED  BY <1>1, <2>1, <2>2, <2>3
  <1>7. RecoverByI(c, nr) = IF d.s.backlog = <<>> THEN d ELSE Dequeue(d, 1)
    BY DEF RecoverByI, e, r
  <1> HIDE DEF d
  <1>8. CASE d.s.backlog = <<>>
    BY <1>5, <1>6, <1>7, <1>8
  <1>9. CASE d.s.backlog # <<>>
    <2>1. d.s.backlog \in Seq(Data)
      BY <1>5, OkState
    <2>2. 1 \in 0 .. Len(d.s.backlog)
      BY <1>9, <2>1
    <2>3. Outstanding(d.s) + 1 <= K
      BY <1>2, <1>5, WindowAssumption DEF SameWindow, Outstanding
    <2>4. Dequeue(d, 1).s.state = "ESTABLISHED" /\ Dequeue(d, 1).s.vr = d.s.vr
      BY <1>5, <2>2, <2>3, DequeueOk, DequeueExtends DEF Transfer
    <2> QED  BY <1>6, <1>7, <1>9, <2>4
  <1> QED  BY <1>8, <1>9

LEMMA OnIHeld ==
    ASSUME NEW c, NEW up, Ok(c, up), c.s.state \in Transfer, NEW f,
           f.nr \in SeqNos, c.s.va = f.nr
    PROVE  \/ OnI(c, f).s.state \notin Transfer
           \/ Held(c.s, OnI(c, f).s)
           \/ /\ c.s.state = "TIMER_RECOVERY"
              /\ OnI(c, f).s.state = "ESTABLISHED" /\ OnI(c, f).s.vr # c.s.vr
  <1> DEFINE next == Plus(c.s.vr, 1)
             s == [c.s EXCEPT !.vr = next, !.rejExc = FALSE]
             q == [c.s EXCEPT !.rejExc = TRUE]
             e == [c EXCEPT !.s = s]
             d == Deliver(e, f.data)
             g == Response("REJ", c.s.vr, f.cr = "cmd" /\ f.pf)
  <1>1. c.s \in EndState /\ c.s.peerBusy \in BOOLEAN /\ c.s.vr \in SeqNos
    BY OkState DEF EndState
  <1>2. next \in SeqNos /\ next # c.s.vr
    <2>1. 1 \in 0 .. Mod /\ Mod > 1
      BY WindowAssumption
    <2> QED  BY <1>1, <2>1, PlusType, WindowAssumption DEF SeqNos, Plus
  <1> HIDE DEF next
  <1>3. Held(c.s, s) /\ s.state = c.s.state /\ s.va = c.s.va /\ s.vr = next /\ Held(c.s, q) /\ Held(c.s, c.s)
    BY <1>1 DEF EndState, Held
  <1>4. Ok(e, up) /\ e.s = s
    <2>1. s = Flags(c.s, c.s.peerBusy, FALSE, next)
      BY <1>1 DEF Flags, EndState
    <2> HIDE DEF s
    <2>2. Ok([c EXCEPT !.s = Flags(c.s, c.s.peerBusy, FALSE, next)], up)
      BY <1>1, <1>2, FlagsOk
    <2> QED  BY <2>1, <2>2 DEF Ok
  <1>5. e = [c EXCEPT !.s = [c.s EXCEPT !.vr = Plus(@, 1), !.rejExc = FALSE]]
    BY <1>1 DEF next, EndState
  <1> HIDE DEF s, e
  <1>6. Ok(d, up) /\ d.s = s
    BY <1>4, DeliverOk
  <1>7. \/ InSequence(c, f).s = s
        \/ InSequence(c, f) = RecoverByI(d, f.nr) /\ PollAnswered(c, f)
    <2>1. \A h : Say(d, h).s = s
      BY <1>6 DEF Say, Ok
    <2>2. \/ \E h : InSequence(c, f) = Say(d, h)
          \/ InSequence(c, f) = RecoverByI(d, f.nr) /\ PollAnswered(c, f)
          \/ InSequence(c, f) = d
      <3>1. d = Deliver([c EXCEPT !.s = [c.s EXCEPT !.vr = Plus(@, 1), !.rejExc = FALSE]], f.data)
        BY <1>5 DEF d
      <3>2. PollAnswered(d, f) = PollAnswered(c, f)
        BY <1>3, <1>6 DEF PollAnswered
      <3> HIDE DEF d
      <3>3. CASE f.cr = "cmd" /\ f.pf
        <4>1. InSequence(c, f) = AnswerPoll(d)
          BY <3>1, <3>3 DEF InSequence, PollAnswered
        <4> QED  BY <4>1 DEF AnswerPoll
      <3>4. CASE f.cr = "cmd" /\ ~f.pf
        BY <3>1, <3>4 DEF InSequence, PollAnswered
      <3>5. CASE f.cr # "cmd"
        BY <3>1, <3>2, <3>5 DEF InSequence
      <3> QED  BY <3>3, <3>4, <3>5
    <2> QED  BY <1>6, <2>1, <2>2
  <1>8. PollAnswered(c, f) => c.s.state = "TIMER_RECOVERY"
    BY DEF PollAnswered
  <1>9. RecoverByI(d, f.nr).s.state = "ESTABLISHED" /\ RecoverByI(d, f.nr).s.vr = next
    <2> HIDE DEF d
    <2> QED  BY <1>3, <1>6, RecoverByIEnds
  <1>10. OutOfSequence(c, f).s \in {c.s, q}
    BY DEF OutOfSequence, Say, Ok
  <1> HIDE DEF d, q
  <1> QED  BY <1>2, <1>3, <1>7, <1>8, <1>9, <1>10, RejectLeaves DEF OnI

LEMMA OnNumberedKept ==
    ASSUME NEW c, NEW up, Ok(c, up), c.s.state \in Transfer, NEW f, f.nr \in SeqNos
    PROVE  Kept(c.s, OnNumbered(c, f).s)
  <1> DEFINE d == Acknowledge(c, f.nr)
  <1>1. CASE ~InRange(f.nr, c.s.va, c.s.vs)
    <2>1. OnNumbered(c, f) = Reject(c)
      BY <1>1 DEF OnNumbered
    <2> QED  BY <2>1, RejectLeaves DEF Kept
  <1>2. CASE InRange(f.nr, c.s.va, c.s.vs)
    <2>1. Ok(d, up) /\ d.s.state = c.s.state /\ d.s.va = f.nr
      BY <1>2, AcknowledgeOk
    <2>2. Extends(f.nr, c.s, d.s) /\ d.s.vr = c.s.vr
      BY <1>2, AcknowledgeExtends
    <2>3. OnNumbered(c, f) \in {OnReady(d, f), OnRej(d, f), OnI(d, f), d}
      BY <1>2 DEF OnNumbered
    <2> HIDE DEF d
    <2>4. Held(d.s, d.s) /\ Held(d.s, OnReady(d, f).s) /\ Held(d.s, OnRej(d, f).s)
      BY <2>1, OnReadyHeld, OnRejHeld DEF Held
    <2>5. \A t : Held(d.s, t) => Kept(c.s, t)
      BY <1>2, <2>2, ExtendsHeld DEF Kept, Acknowledged
    <2>6. Kept(c.s, OnI(d, f).s)
      BY <2>1, <2>2, <2>5, OnIHeld DEF Kept
    <2> QED  BY <2>3, <2>4, <2>5, <2>6
  <1> QED  BY <1>1, <1>2

LEMMA OnTransferKept ==
    ASSUME NEW c, NEW up, Ok(c, up), c.s.state \in Transfer, NEW f, f.nr \in SeqNos
    PROVE  Kept(c.s, OnTransfer(c, f).s)
  <1> DEFINE k == IF f.k < c.s.k THEN f.k ELSE c.s.k
             r == [c.s EXCEPT !.k = k]
             d == [c EXCEPT !.s = r]
  <1>1. Held(c.s, r) /\ Held(c.s, c.s) /\ c.s \in EndState
    <2> HIDE DEF k
    <2> QED  BY OkState DEF EndState, Held
  <1>2. OnXid(c, f).s = r
    <2>1. [c EXCEPT !.s.k = IF f.k < @ THEN f.k ELSE @] = d
      BY DEF d, r, k, Ok
    <2> HIDE DEF r
    <2>2. \A g : Say(d, g).s = r /\ d.s = r
      BY DEF Say, Ok
    <2> QED  BY <2>1, <2>2 DEF OnXid
  <1> HIDE DEF r
  <1>3. OnTransfer(c, f) \in {c, OnNumbered(c, f), Reestablish(c), OnXid(c, f)}
    BY DEF OnTransfer, OnUnnumbered
  <1>4. Kept(c.s, Reestablish(c).s)
    BY RejectLeaves DEF Kept
  <1> QED  BY <1>1, <1>2, <1>3, <1>4, HeldKept, OnNumberedKept

\* What a frame leaves of the store of a link in transfer.
LEMMA HandleFrameKept ==
    ASSUME NEW s, Good(s), s.state \in Transfer, NEW f, f.nr \in SeqNos, f.k \in 0 .. K
    PROVE  Kept(s, HandleFrame(s, f).s)
  <1> DEFINE b == IF f.becn THEN OnBecn(s) ELSE s
             c == Context(b)
  <1>1. s \in EndState
    BY DEF Good
  <1>2. Good(b) /\ b.state = s.state /\ Held(s, b) /\ b.vr = s.vr
    BY <1>1, OnBecnGood, RoutineHeld DEF Held
  <1>3. Ok(c, TRUE) /\ c.s = b /\ c.event = "none"
    <2> HIDE DEF b
    <2> QED  BY <1>2, ContextOk
  <1>4. HandleFrame(s, f) \in
            {OnMalformed(c, f), OnUi(c, f), OnSabme(c, f), OnDisc(c, f), WatchIdle(ByState(c, f))}
    BY DEF HandleFrame
  <1> HIDE DEF c, b
  <1>5. \A t : Kept(b, t) => Kept(s, t)
    BY <1>2 DEF Kept, Acknowledged, Extends, Held
  <1>6. b \in EndState /\ Kept(b, b)
    BY <1>2, HeldKept DEF Good, Held
  <1>7. Kept(b, OnMalformed(c, f).s)
    BY <1>3, <1>6, RejectLeaves DEF OnMalformed, Kept
  <1>8. Kept(b, OnUi(c, f).s)
    BY <1>3, <1>6, DeliverOk DEF OnUi
  <1>9. Kept(b, OnSabme(c, f).s)
    <2> DEFINE r == [c.s EXCEPT !.state = "ESTABLISHED", !.vs = 0, !.vr = 0, !.va = 0,
                                !.peerBusy = FALSE, !.rejExc = FALSE, !.backlog = <<>>]
    <2>1. Idle(r).vs = 0 /\ Idle(r).va = 0 /\ Idle(r).vr = 0
      BY <1>3, <1>6 DEF Idle, EndState
    <2>2. OnSabme(c, f).s = Idle(r)
      <3> HIDE DEF r
      <3> QED  BY <1>3 DEF OnSabme, Tell, Say, Ok, r
    <2> QED  BY <2>1, <2>2 DEF Kept
  <1>10. Kept(b, OnDisc(c, f).s)
    <2> DEFINE r == [c.s EXCEPT !.state = "TEI_ASSIGNED", !.t200 = FALSE, !.t203 = FALSE]
    <2>1. r.state = "TEI_ASSIGNED"
      BY <1>3, <1>6 DEF EndState
    <2>2. OnDisc(c, f).s = r
      <3> HIDE DEF r
      <3> QED  BY <1>3 DEF OnDisc, Tell, Say, Ok, r
    <2> QED  BY <2>1, <2>2 DEF Kept, Transfer
  <1>11. Kept(b, WatchIdle(ByState(c, f)).s)
    <2> DEFINE d == OnTransfer(c, f)
               w == [d.s EXCEPT !.t203 = TRUE]
    <2>1. ByState(c, f) = d
      BY <1>2, <1>3 DEF ByState, Transfer
    <2>2. Ok(d, TRUE) /\ Kept(b, d.s)
      BY <1>2, <1>3, OnTransferOk, OnTransferKept
    <2> HIDE DEF d
    <2>3. Held(d.s, w) /\ w.state = d.s.state /\ w.vr = d.s.vr
      BY <2>2, OkState DEF EndState, Held
    <2>4. WatchIdle(d).s \in {w, d.s}
      <3> HIDE DEF w
      <3> QED  BY <2>2 DEF WatchIdle, Ok, w
    <2>5. Kept(b, w)
      <3> HIDE DEF w
      <3> QED  BY <2>2, <2>3, ExtendsHeld DEF Kept, Acknowledged, Held
    <2> QED  BY <2>1, <2>2, <2>4, <2>5
  <1> QED  BY <1>4, <1>5, <1>7, <1>8, <1>9, <1>10, <1>11

LEMMA PollTimerKept ==
    ASSUME NEW s, Good(s), s.state \in Transfer, NEW expired
    PROVE  Kept(s, PollTimer(s, expired).s)
  <1> DEFINE o == Context(s)
             c == IF "T200" \in expired /\ s.t200 THEN OnT200(o) ELSE o
  <1>1. Ok(o, TRUE) /\ o.s = s
    BY ContextOk
  <1>2. s \in EndState /\ s.state # "TEI_ASSIGNED" /\ Held(s, s)
    BY DEF Good, Transfer, Held
  <1>3. Ok(c, TRUE)
    BY <1>1, <1>2, OnT200Ok
  <1>4. OnT200(o).s.state \notin Transfer \/ Held(s, OnT200(o).s)
    <2> DEFINE l == OnLoss(s)
               retx == s.retx + 1
               r == [l EXCEPT !.retx = retx]
               p == [l EXCEPT !.state = "TIMER_RECOVERY", !.retx = 0]
    <2>1. l \in EndState /\ Held(s, l) /\ SameWindow(s, l) /\ l.state = s.state
          /\ l.t200 = s.t200 /\ l.t203 = s.t203
      BY <1>2, OnLossOk, RoutineHeld
    <2> HIDE DEF l
    <2>2. Held(s, r) /\ Held(s, p)
      BY <2>1 DEF EndState, Held
    <2>3. Good(l)
      BY <2>1, SameWindowGood DEF Good, TimersOf
    <2>4. Ok([o EXCEPT !.s = l], TRUE)
      BY <1>1, <2>1, <2>3, WithEndOk
    <2>5. Reestablish([o EXCEPT !.s = l]).s.state \notin Transfer
      BY <2>4, RejectLeaves
    <2>6. \/ OnT200(o) = Reestablish([o EXCEPT !.s = l])
          \/ \E g : OnT200(o) = Say([o EXCEPT !.s = r], g)
          \/ \E g : OnT200(o) = Say([o EXCEPT !.s = p], g)
      BY <1>1 DEF OnT200, l
    <2> HIDE DEF r, p
    <2>7. \A g, t : Say([o EXCEPT !.s = t], g).s = t
      BY DEF Say, Context
    <2> QED  BY <2>2, <2>5, <2>6, <2>7
  <1>5. c.s.state \notin Transfer \/ Held(s, c.s)
    BY <1>1, <1>2, <1>4
  <1>6. PollTimer(s, expired) = IF "T203" \in expired /\ c.s.t203 THEN OnT203(c) ELSE c
    BY DEF PollTimer
  <1> HIDE DEF c
  <1>7. c.s.t203 => c.s.state \in Transfer
    BY <1>3, OkState DEF TimersOf, States, Transfer
  <1>8. Held(c.s, OnT203(c).s)
    <2> DEFINE r == [c.s EXCEPT !.state = "TIMER_RECOVERY", !.retx = 0]
               t == Supervise(r)
    <2>1. Held(c.s, t)
      BY <1>3, OkState DEF EndState, Supervise, Held
    <2>2. OnT203(c).s = t
      <3>1. \E g : OnT203(c) = Say([c EXCEPT !.s = t], g)
        BY DEF OnT203, t, r
      <3> HIDE DEF t
      <3> QED  BY <1>3, <3>1 DEF Say, Ok
    <2> QED  BY <2>1, <2>2
  <1>9. c.s.state \notin Transfer => Kept(s, c.s)
    BY DEF Kept
  <1>10. Held(s, c.s) => Held(s, OnT203(c).s)
    BY <1>8 DEF Held
  <1> QED  BY <1>2, <1>5, <1>6, <1>7, <1>9, <1>10, HeldKept

\* In the terms of the retransmission queue: what is left of it is its tail.
LEMMA AcknowledgedTail ==
    ASSUME NEW s \in EndState, NEW t \in EndState, Acknowledged(s, t)
    PROVE  LET acked == Ahead(s.va, t.va)
               rest == Outstanding(s) - acked
           IN /\ acked <= Outstanding(s)
              /\ rest <= Outstanding(t)
              /\ \A i \in 1 .. rest : Unacked(t)[i] = Unacked(s)[acked + i]
  <1> DEFINE a == t.va
             acked == Ahead(s.va, a)
             rest == Outstanding(s) - acked
  <1>1. /\ s.va \in SeqNos /\ s.vs \in SeqNos /\ t.vs \in SeqNos /\ a \in SeqNos
        /\ InRange(a, s.va, s.vs) /\ Extends(a, s, t)
    BY DEF EndState, Acknowledged, Extends
  <1> HIDE DEF a
  <1>2. acked \in Nat /\ Outstanding(s) \in Nat /\ Outstanding(t) \in Nat /\ Outstanding(s) < Mod
    <2>1. acked \in SeqNos /\ Outstanding(s) \in SeqNos /\ Ahead(t.va, t.vs) \in SeqNos
      BY <1>1, AheadType DEF Outstanding, a
    <2> QED  BY <2>1, WindowAssumption DEF SeqNos, Outstanding
  <1>3. acked + Ahead(a, s.vs) = Ahead(s.va, s.vs) /\ Ahead(a, s.vs) \in Nat
    BY <1>1, WindowAssumption DEF Ahead, InRange, SeqNos
  <1>4. rest = Ahead(a, s.vs) /\ rest \in Nat /\ acked <= Outstanding(s)
    BY <1>2, <1>3 DEF Outstanding
  <1>5. rest <= Outstanding(t)
    BY <1>1, <1>4 DEF Extends, Outstanding, a
  <1>6. ASSUME NEW i \in 1 .. rest
        PROVE  Unacked(t)[i] = Unacked(s)[acked + i]
    <2> HIDE DEF acked, rest
    <2>1. i \in 1 .. Outstanding(t) /\ acked + i \in 1 .. Outstanding(s) /\ i - 1 \in 0 .. Mod
          /\ (acked + i) - 1 \in 0 .. Mod
      BY <1>2, <1>3, <1>4, <1>5, WindowAssumption DEF rest
    <2> DEFINE n == Plus(a, i - 1)
    <2>2. n \in SeqNos
      BY <1>1, <2>1, PlusType
    <2>3. Plus(s.va, (acked + i) - 1) = n
      BY <1>1, <1>2, <1>4, <2>1, WindowAssumption DEF Plus, SeqNos, acked, Ahead, rest, Outstanding
    <2>4. Ahead(a, n) = i - 1
      BY <1>1, <2>1, <1>2, <1>4, WindowAssumption DEF Plus, SeqNos, Ahead, rest
    <2>5. Ahead(a, n) < Ahead(a, s.vs)
      BY <1>4, <2>1, <2>4
    <2>6. t.window[n] = s.window[n]
      BY <1>1, <2>2, <2>5 DEF Extends
    <2>7. Unacked(t)[i] = t.window[n]
      BY <2>1 DEF Unacked, a
    <2>8. Unacked(s)[acked + i] = s.window[Plus(s.va, (acked + i) - 1)]
      <3>1. \A j \in 1 .. Outstanding(s) : Unacked(s)[j] = s.window[Plus(s.va, j - 1)]
        BY DEF Unacked
      <3> QED  BY <2>1, <3>1
    <2> QED  BY <2>3, <2>6, <2>7, <2>8
  <1> QED  BY <1>4, <1>5, <1>6 DEF a

-----------------------------------------------------------------------------
(* The specification. *)

\* The inductive invariant: the entity is well formed, keeps to the window
\* and is watched by its timers, and layer 3 knows of a link in transfer.
IInv ==
    /\ Good(end)
    /\ l3up \in BOOLEAN
    /\ AnnouncedUp

LEMMA InitIInv == Init => IInv
  <1> SUFFICES ASSUME Init PROVE IInv
    OBVIOUS
  <1> QED  BY FreshGood DEF Init, IInv, AnnouncedUp, Fresh, Transfer

\* What a routine leaves is what the next one may start from.
LEMMA RunIInv ==
    ASSUME IInv, NEW c, Ok(c, l3up), Run(c)
    PROVE  IInv'
  BY DEF IInv, Ok, Run, AnnouncedUp

LEMMA NextIInv == IInv /\ [Next]_vars => IInv'
  <1> SUFFICES ASSUME IInv, [Next]_vars PROVE IInv'
    OBVIOUS
  <1>1. Good(end) /\ (end.state \in Transfer => l3up) /\ Ok(Context(end), l3up)
    BY ContextOk DEF IInv, AnnouncedUp
  <1>2. CASE Establish
    BY <1>1, <1>2, ReestablishOk, RunIInv DEF Establish, EstablishLink
  <1>3. CASE Release
    BY <1>1, <1>3, AwaitOk, RunIInv DEF Release, ReleaseLink
  <1>4. CASE Send
    BY <1>1, <1>4, SendL3Ok, RunIInv DEF Send
  <1>5. CASE Receive
    <2>1. PICK f \in Peer : Run(HandleFrame(end, f))
      BY <1>5 DEF Receive
    <2>2. f.nr \in SeqNos /\ f.k \in 0 .. K
      BY PeerAssumption DEF AnyFrame
    <2> QED  BY <1>1, <2>1, <2>2, HandleFrameOk, RunIInv
  <1>6. CASE Poll
    BY <1>1, <1>6, PollTimerOk, RunIInv DEF Poll
  <1>7. CASE UNCHANGED vars
    BY <1>7 DEF vars, IInv, AnnouncedUp
  <1> QED  BY <1>2, <1>3, <1>4, <1>5, <1>6, <1>7 DEF Next

LEMMA Invariance == Spec => []IInv
  BY InitIInv, NextIInv, PTL DEF Spec

\* The state of vfr_lapf_state_t keeps its shape and the backlog its size,
\* for every peer, modulus, window, limit and backlog.
THEOREM TypeCorrect == Spec => []TypeOK
  <1>1. IInv => TypeOK
    BY DEF IInv, Good, TypeOK
  <1> QED  BY <1>1, Invariance, PTL

\* lapf_send_l3 and lapf_process_backlog never open more than k frames,
\* whatever is acknowledged, rejected or negotiated in between.
THEOREM WindowIsBounded == Spec => []WindowBound
  <1>1. IInv => WindowBound
    BY DEF IInv, Good, WindowBound
  <1> QED  BY <1>1, Invariance, PTL

\* timer_set and timer_cancel keep a timer on every link that waits or
\* carries data, and none on a disconnected one.
THEOREM AlwaysSupervised == Spec => []Supervised
  <1>1. IInv => Supervised
    BY DEF IInv, Good, Supervised
  <1> QED  BY <1>1, Invariance, PTL

\* No path into ESTABLISHED or TIMER_RECOVERY leaves layer 3 unaware.
THEOREM AlwaysAnnounced == Spec => []AnnouncedUp
  <1>1. IInv => AnnouncedUp
    BY DEF IInv
  <1> QED  BY <1>1, Invariance, PTL

\* While a link stays up, what the window holds for retransmission loses its
\* oldest messages when they are acknowledged and nothing else, whatever the
\* peer sends: no REJ repeats a frame under another number.
THEOREM UnackedStay == Spec => UnackedKept
  <1>1. ASSUME IInv, Next, end.state \in Transfer, end'.state \in Transfer
        PROVE  \/ Restarted \/ GivenUp
               \/ LET acked == Ahead(end.va, end'.va)
                      rest == Outstanding(end) - acked
                  IN /\ acked <= Outstanding(end)
                     /\ rest <= Outstanding(end')
                     /\ \A i \in 1 .. rest : Unacked(end')[i] = Unacked(end)[acked + i]
    <2>1. Good(end) /\ Ok(Context(end), l3up)
      BY <1>1, ContextOk DEF IInv, AnnouncedUp
    <2>2. end \in EndState /\ end' \in EndState
      <3>1. IInv'
        BY <1>1, NextIInv
      <3> QED  BY <2>1, <3>1 DEF IInv, Good
    <2>3. Kept(end, end')
      <3>1. CASE Establish \/ Release
        BY <1>1, <2>1, <3>1, AwaitLeaves, RejectLeaves DEF Establish, EstablishLink, Release, ReleaseLink, Run
      <3>2. CASE Send
        BY <1>1, <2>1, <3>2, SendL3Kept DEF Send, Run
      <3>3. CASE Receive
        <4>1. PICK f \in Peer : end' = HandleFrame(end, f).s
          BY <3>3 DEF Receive, Run
        <4>2. f.nr \in SeqNos /\ f.k \in 0 .. K
          BY PeerAssumption DEF AnyFrame
        <4> QED  BY <1>1, <2>1, <4>1, <4>2, HandleFrameKept
      <3>4. CASE Poll
        BY <1>1, <2>1, <3>4, PollTimerKept DEF Poll, Run
      <3> QED  BY <1>1, <3>1, <3>2, <3>3, <3>4 DEF Next
    <2>4. CASE Acknowledged(end, end')
      BY <2>2, <2>4, AcknowledgedTail
    <2>5. CASE ~Acknowledged(end, end')
      BY <1>1, <2>3, <2>5 DEF Kept, Restarted, GivenUp
    <2> QED  BY <2>4, <2>5
  <1>2. IInv /\ [Next]_vars =>
            [end.state \in Transfer /\ end'.state \in Transfer =>
                \/ Restarted \/ GivenUp
                \/ LET acked == Ahead(end.va, end'.va)
                       rest == Outstanding(end) - acked
                   IN /\ acked <= Outstanding(end)
                      /\ rest <= Outstanding(end')
                      /\ \A i \in 1 .. rest : Unacked(end')[i] = Unacked(end)[acked + i]]_vars
    BY <1>1
  <1> QED  BY <1>2, Invariance, PTL DEF Spec, UnackedKept

=============================================================================
