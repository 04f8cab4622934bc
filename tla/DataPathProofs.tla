--------------------------- MODULE DataPathProofs ---------------------------
(***************************************************************************)
(* The policer on the way of a frame through the switch: an ideal bucket   *)
(* never falls behind the one of the code, except where both threads had   *)
(* read a bucket before one of them wrote it.  The ring between the two    *)
(* threads implements a bounded queue.  And what the contexts of ports,    *)
(* circuits and threads hold.                                              *)
(***************************************************************************)
EXTENDS DataPath, SequenceTheorems, TLAPS

-----------------------------------------------------------------------------
(***************************************************************************)
(* The ring.                                                               *)
(***************************************************************************)
Slots == Arrivals \cup {Empty}
Rings == [slot : [0 .. QueueSize - 1 -> Slots], head : 0 .. QueueSize - 1, tail : 0 .. QueueSize - 1]

Count(q) == (q.head - q.tail + QueueSize) % QueueSize
Contents(q) == [i \in 1 .. Count(q) |-> q.slot[(q.tail + i - 1) % QueueSize]]

\* What is inductive: the ring is one, and what is still to come on a line came
\* from its scenario.
Coming == \E c \in Scenarios :
    /\ DOMAIN line = Ports
    /\ \A p \in Ports : line[p] \in Seq(Range(c.line[p]))

RingInv == queue \in Rings /\ Coming

-----------------------------------------------------------------------------
\* Below twice the size a remainder is at most one subtraction.
LEMMA Remainder ==
    ASSUME NEW n \in 0 .. 2 * QueueSize - 1
    PROVE  n % QueueSize = IF n < QueueSize THEN n ELSE n - QueueSize
  BY DataPathAssumption

\* What the two indices count, and which counts they call empty and full.
LEMMA CountIs ==
    ASSUME NEW q \in Rings
    PROVE  /\ Count(q) = IF q.tail <= q.head THEN q.head - q.tail ELSE q.head - q.tail + QueueSize
           /\ Count(q) \in 0 .. QueueSize - 1
           /\ Drained(q) <=> Count(q) = 0
           /\ Full(q) <=> Count(q) = QueueSize - 1
  <1> DEFINE h == q.head
             t == q.tail
  <1>1. QueueSize \in Nat /\ QueueSize > 1 /\ h \in 0 .. QueueSize - 1 /\ t \in 0 .. QueueSize - 1
    BY DataPathAssumption DEF Rings
  <1>2. h - t + QueueSize \in 0 .. 2 * QueueSize - 1 /\ h + 1 \in 0 .. 2 * QueueSize - 1
    BY <1>1
  <1>3. Count(q) = IF h - t + QueueSize < QueueSize THEN h - t + QueueSize ELSE h - t
    BY <1>1, <1>2, Remainder DEF Count
  <1>4. (h + 1) % QueueSize = IF h + 1 < QueueSize THEN h + 1 ELSE h + 1 - QueueSize
    BY <1>1, <1>2, Remainder
  <1> HIDE DEF h, t
  <1>5. /\ Count(q) = IF t <= h THEN h - t ELSE h - t + QueueSize
        /\ Count(q) \in 0 .. QueueSize - 1
        /\ h = t <=> Count(q) = 0
    BY <1>1, <1>3
  <1>6. (h + 1) % QueueSize = t <=> Count(q) = QueueSize - 1
    BY <1>1, <1>4, <1>5
  <1>7. QED
    BY <1>5, <1>6 DEF h, t, Drained, Full

\* Where the n-th frame of the queue is, and where the next one goes.
LEMMA SlotOf ==
    ASSUME NEW q \in Rings, NEW i \in 1 .. QueueSize - 1
    PROVE  /\ (q.tail + i - 1) % QueueSize =
                  IF q.tail + i - 1 < QueueSize THEN q.tail + i - 1 ELSE q.tail + i - 1 - QueueSize
           /\ (q.tail + i - 1) % QueueSize \in 0 .. QueueSize - 1
           /\ (q.tail + i - 1) % QueueSize = q.head <=> i = Count(q) + 1
  <1> DEFINE h == q.head
             t == q.tail
             c == Count(q)
  <1>1. QueueSize \in Nat /\ QueueSize > 1 /\ h \in 0 .. QueueSize - 1 /\ t \in 0 .. QueueSize - 1
    BY DataPathAssumption DEF Rings
  <1>2. t + i - 1 \in 0 .. 2 * QueueSize - 1
    BY <1>1
  <1>3. (t + i - 1) % QueueSize = IF t + i - 1 < QueueSize THEN t + i - 1 ELSE t + i - 1 - QueueSize
    BY <1>1, <1>2, Remainder
  <1>4. c = IF t <= h THEN h - t ELSE h - t + QueueSize
    BY CountIs
  <1> HIDE DEF h, t, c
  <1>5. /\ (t + i - 1) % QueueSize \in 0 .. QueueSize - 1
        /\ (t + i - 1) % QueueSize = h <=> i = c + 1
    BY <1>1, <1>3, <1>4
  <1>6. QED
    BY <1>3, <1>5 DEF h, t, c

\* A push leaves a well-formed ring: it fills one slot and moves the head.
LEMMA PushSound ==
    ASSUME NEW q \in Rings, NEW x \in Slots
    PROVE  /\ Push(q, x) \in Rings
           /\ Push(q, x).tail = q.tail
           /\ Push(q, x).head = IF q.head + 1 < QueueSize THEN q.head + 1 ELSE 0
           /\ \A n \in 0 .. QueueSize - 1 : Push(q, x).slot[n] = IF n = q.head THEN x ELSE q.slot[n]
  <1>1. QueueSize \in Nat /\ QueueSize > 1 /\ q.head \in 0 .. QueueSize - 1
    BY DataPathAssumption DEF Rings
  <1>2. (q.head + 1) % QueueSize = IF q.head + 1 < QueueSize THEN q.head + 1 ELSE 0
    BY <1>1, Remainder
  <1>3. (q.head + 1) % QueueSize \in 0 .. QueueSize - 1
    BY <1>1, <1>2
  <1>4. QED
    BY <1>2, <1>3 DEF Rings, Push

\* A pop leaves a well-formed ring: it empties one slot and moves the tail.
LEMMA PopSound ==
    ASSUME NEW q \in Rings
    PROVE  /\ Pop(q) \in Rings
           /\ Pop(q).head = q.head
           /\ Pop(q).tail = IF q.tail + 1 < QueueSize THEN q.tail + 1 ELSE 0
           /\ \A n \in 0 .. QueueSize - 1 : n # q.tail => Pop(q).slot[n] = q.slot[n]
  <1>1. QueueSize \in Nat /\ QueueSize > 1 /\ q.tail \in 0 .. QueueSize - 1
    BY DataPathAssumption DEF Rings
  <1>2. (q.tail + 1) % QueueSize = IF q.tail + 1 < QueueSize THEN q.tail + 1 ELSE 0
    BY <1>1, Remainder
  <1>3. (q.tail + 1) % QueueSize \in 0 .. QueueSize - 1
    BY <1>1, <1>2
  <1>4. Empty \in Slots
    BY DEF Slots
  <1>5. QED
    BY <1>2, <1>3, <1>4 DEF Rings, Pop

\* The contents are a finite sequence.
LEMMA ContentsType ==
    ASSUME NEW q \in Rings
    PROVE  /\ Contents(q) \in Seq(Slots)
           /\ Count(q) \in Nat
           /\ Len(Contents(q)) = Count(q)
           /\ \A i \in 1 .. Count(q) : Contents(q)[i] = q.slot[(q.tail + i - 1) % QueueSize]
  <1>1. Count(q) \in 0 .. QueueSize - 1 /\ QueueSize \in Nat
    BY CountIs, DataPathAssumption
  <1>2. \A i \in 1 .. Count(q) : q.slot[(q.tail + i - 1) % QueueSize] \in Slots
    <2> SUFFICES ASSUME NEW i \in 1 .. Count(q)
                 PROVE  q.slot[(q.tail + i - 1) % QueueSize] \in Slots
      OBVIOUS
    <2>1. i \in 1 .. QueueSize - 1
      BY <1>1
    <2>2. (q.tail + i - 1) % QueueSize \in 0 .. QueueSize - 1
      BY <2>1, SlotOf
    <2>3. QED
      BY <2>2 DEF Rings
  <1>3. QED
    BY <1>1, <1>2 DEF Contents

\* A push appends.
LEMMA PushAppends ==
    ASSUME NEW q \in Rings, NEW x \in Slots, ~Full(q)
    PROVE  /\ Len(Contents(q)) < QueueSize - 1
           /\ Contents(Push(q, x)) = Append(Contents(q), x)
  <1> DEFINE p == Push(q, x)
             n == Count(q)
  <1>1. p \in Rings /\ p.tail = q.tail /\ p.head = IF q.head + 1 < QueueSize THEN q.head + 1 ELSE 0
    BY PushSound
  <1>2. n \in 0 .. QueueSize - 2 /\ QueueSize \in Nat
    <2>1. n \in 0 .. QueueSize - 1 /\ n # QueueSize - 1
      BY CountIs
    <2>2. QED
      BY <2>1, DataPathAssumption
  <1>3. Count(p) = n + 1
    <2>1. n = IF q.tail <= q.head THEN q.head - q.tail ELSE q.head - q.tail + QueueSize
      BY CountIs
    <2>2. Count(p) = IF p.tail <= p.head THEN p.head - p.tail ELSE p.head - p.tail + QueueSize
      BY <1>1, CountIs
    <2>3. q.head \in 0 .. QueueSize - 1 /\ q.tail \in 0 .. QueueSize - 1
      BY DEF Rings
    <2> HIDE DEF p, n
    <2>4. QED
      BY <1>1, <1>2, <2>1, <2>2, <2>3
  <1>4. \A i \in 1 .. n + 1 : Contents(p)[i] = IF i = n + 1 THEN x ELSE Contents(q)[i]
    <2> SUFFICES ASSUME NEW i \in 1 .. n + 1
                 PROVE  Contents(p)[i] = IF i = n + 1 THEN x ELSE Contents(q)[i]
      OBVIOUS
    <2>1. i \in 1 .. QueueSize - 1
      BY <1>2
    <2>2. /\ (q.tail + i - 1) % QueueSize \in 0 .. QueueSize - 1
          /\ (q.tail + i - 1) % QueueSize = q.head <=> i = n + 1
      BY <2>1, SlotOf
    <2>3. Contents(p)[i] = p.slot[(q.tail + i - 1) % QueueSize]
      BY <1>1, <1>3, ContentsType
    <2>4. p.slot[(q.tail + i - 1) % QueueSize] = IF i = n + 1 THEN x ELSE q.slot[(q.tail + i - 1) % QueueSize]
      BY <2>2, PushSound
    <2>5. i # n + 1 => Contents(q)[i] = q.slot[(q.tail + i - 1) % QueueSize]
      BY <1>2, ContentsType
    <2> HIDE DEF p, n
    <2>6. QED
      BY <2>3, <2>4, <2>5
  <1>5. /\ Contents(q) \in Seq(Slots) /\ Len(Contents(q)) = n
        /\ Contents(p) \in Seq(Slots) /\ Len(Contents(p)) = n + 1
    BY <1>1, <1>3, ContentsType
  <1> HIDE DEF p, n
  <1>6. Contents(p) = Append(Contents(q), x)
    BY <1>2, <1>4, <1>5
  <1>7. QED
    BY <1>2, <1>5, <1>6 DEF p, n

\* A pop takes the first frame away.
LEMMA PopRemoves ==
    ASSUME NEW q \in Rings, ~Drained(q)
    PROVE  /\ Contents(q) # <<>>
           /\ Contents(Pop(q)) = Tail(Contents(q))
  <1> DEFINE p == Pop(q)
             n == Count(q)
  <1>1. p \in Rings /\ p.head = q.head /\ p.tail = IF q.tail + 1 < QueueSize THEN q.tail + 1 ELSE 0
    BY PopSound
  <1>2. n \in 1 .. QueueSize - 1 /\ QueueSize \in Nat
    <2>1. n \in 0 .. QueueSize - 1 /\ n # 0
      BY CountIs
    <2>2. QED
      BY <2>1, DataPathAssumption
  <1>3. Count(p) = n - 1
    <2>1. n = IF q.tail <= q.head THEN q.head - q.tail ELSE q.head - q.tail + QueueSize
      BY CountIs
    <2>2. Count(p) = IF p.tail <= p.head THEN p.head - p.tail ELSE p.head - p.tail + QueueSize
      BY <1>1, CountIs
    <2>3. q.head \in 0 .. QueueSize - 1 /\ q.tail \in 0 .. QueueSize - 1
      BY DEF Rings
    <2> HIDE DEF p, n
    <2>4. QED
      BY <1>1, <1>2, <2>1, <2>2, <2>3
  <1>4. \A i \in 1 .. n - 1 : Contents(p)[i] = Contents(q)[i + 1]
    <2> SUFFICES ASSUME NEW i \in 1 .. n - 1
                 PROVE  Contents(p)[i] = Contents(q)[i + 1]
      OBVIOUS
    <2>1. i \in 1 .. QueueSize - 1 /\ i + 1 \in 1 .. QueueSize - 1 /\ i + 1 \in 1 .. n /\ i + 1 # 1
      BY <1>2
    <2>2. (p.tail + i - 1) % QueueSize = (q.tail + (i + 1) - 1) % QueueSize
      <3>1. (p.tail + i - 1) % QueueSize =
                IF p.tail + i - 1 < QueueSize THEN p.tail + i - 1 ELSE p.tail + i - 1 - QueueSize
        BY <1>1, <2>1, SlotOf
      <3>2. (q.tail + (i + 1) - 1) % QueueSize =
                IF q.tail + (i + 1) - 1 < QueueSize THEN q.tail + (i + 1) - 1 ELSE q.tail + (i + 1) - 1 - QueueSize
        BY <2>1, SlotOf
      <3>3. q.tail \in 0 .. QueueSize - 1 /\ p.tail \in 0 .. QueueSize - 1
        BY <1>1 DEF Rings
      <3> HIDE DEF p, n
      <3>4. QED
        BY <1>1, <1>2, <2>1, <3>1, <3>2, <3>3
    <2>3. (q.tail + (i + 1) - 1) % QueueSize \in 0 .. QueueSize - 1 /\ (q.tail + (i + 1) - 1) % QueueSize # q.tail
      <3>1. (q.tail + (i + 1) - 1) % QueueSize =
                IF q.tail + (i + 1) - 1 < QueueSize THEN q.tail + (i + 1) - 1 ELSE q.tail + (i + 1) - 1 - QueueSize
        BY <2>1, SlotOf
      <3>2. q.tail \in 0 .. QueueSize - 1
        BY DEF Rings
      <3> HIDE DEF p, n
      <3>3. QED
        BY <1>2, <2>1, <3>1, <3>2
    <2>4. Contents(p)[i] = p.slot[(p.tail + i - 1) % QueueSize]
      BY <1>1, <1>3, ContentsType
    <2>5. Contents(q)[i + 1] = q.slot[(q.tail + (i + 1) - 1) % QueueSize]
      BY <2>1, ContentsType
    <2>6. p.slot[(q.tail + (i + 1) - 1) % QueueSize] = q.slot[(q.tail + (i + 1) - 1) % QueueSize]
      BY <2>3, PopSound
    <2> HIDE DEF p, n
    <2>7. QED
      BY <2>2, <2>4, <2>5, <2>6
  <1>5. /\ Contents(q) \in Seq(Slots) /\ Len(Contents(q)) = n
        /\ Contents(p) \in Seq(Slots) /\ Len(Contents(p)) = n - 1
    BY <1>1, <1>3, ContentsType
  <1> HIDE DEF p, n
  <1>6. Contents(q) # <<>>
    BY <1>2, <1>5
  <1>7. Contents(p) = Tail(Contents(q))
    BY <1>2, <1>4, <1>5, <1>6
  <1>8. QED
    BY <1>6, <1>7 DEF p

-----------------------------------------------------------------------------
(* The state machine. *)

\* The refinement mapping is the contents of the ring.
LEMMA HeldIs == Held = Contents(queue)
  BY DEF Held, Contents, Count

\* The ring starts well formed and empty, with the lines of its scenario.
LEMMA InitRing == Init => RingInv /\ Queue!Init
  <1> SUFFICES ASSUME Init PROVE RingInv /\ Queue!Init
    OBVIOUS
  <1>1. 0 \in 0 .. QueueSize - 1 /\ QueueSize \in Nat /\ QueueSize > 1
    BY DataPathAssumption
  <1>2. queue \in Rings
    BY <1>1 DEF Init, QueueInit, Rings, Slots
  <1>3. Drained(queue)
    BY DEF Init, QueueInit, Drained
  <1>4. Contents(queue) = <<>>
    <2>1. Count(queue) = 0
      BY <1>2, <1>3, CountIs
    <2>2. QED
      BY <1>2, <2>1, ContentsType
  <1>5. Coming
    <2>1. PICK c \in Scenarios : conf = Configure(c)
      BY DEF Init
    <2>2. line = c.line
      BY <2>1 DEF Init, Configure
    <2>3. QED
      BY <2>2, LineAssumption DEF Coming
  <1>6. QED
    BY <1>2, <1>4, <1>5, HeldIs DEF RingInv, Queue!Init

\* A frame taken from a line leaves the others; it may go into the ring.
LEMMA TakenComes ==
    ASSUME Coming, NEW p \in Ports, line[p] # <<>>
    PROVE  /\ [port |-> p, frame |-> Head(line[p])] \in Arrivals
           /\ Received(p) => Coming'
  <1>1. PICK c \in Scenarios : /\ DOMAIN line = Ports
                               /\ \A q \in Ports : line[q] \in Seq(Range(c.line[q]))
    BY DEF Coming
  <1>2. Head(line[p]) \in Range(c.line[p]) /\ Tail(line[p]) \in Seq(Range(c.line[p]))
    BY <1>1, HeadTailProperties
  <1>3. [port |-> p, frame |-> Head(line[p])] \in Arrivals
    <2> DEFINE From(d) == {{[port |-> q, frame |-> f] : f \in Range(d.line[q])} : q \in Ports}
    <2>1. [port |-> p, frame |-> Head(line[p])] \in {[port |-> p, frame |-> f] : f \in Range(c.line[p])}
      BY <1>2
    <2>2. [port |-> p, frame |-> Head(line[p])] \in UNION From(c)
      BY <2>1, Zenon
    <2>3. UNION From(c) \in {UNION From(d) : d \in Scenarios}
      BY Zenon
    <2>4. Arrivals = UNION {UNION From(d) : d \in Scenarios}
      BY Zenon DEF Arrivals
    <2>5. QED
      BY <2>2, <2>3, <2>4, Zenon
  <1>4. ASSUME Received(p) PROVE Coming'
    <2>1. DOMAIN line' = Ports /\ \A q \in Ports : line'[q] = IF q = p THEN Tail(line[q]) ELSE line[q]
      BY <1>1, <1>4 DEF Received
    <2>2. QED
      BY <1>1, <1>2, <2>1 DEF Coming
  <1>5. QED
    BY <1>3, <1>4

\* A step leaves the ring, puts in a frame that came, or takes one out.
LEMMA RingStep ==
    ASSUME RingInv, [Next]_vars
    PROVE  /\ RingInv'
           /\ [Queue!Put \/ Queue!Get]_Held
  <1>1. ASSUME UNCHANGED queue, Coming' PROVE RingInv' /\ UNCHANGED Held
    BY <1>1 DEF RingInv, Held
  <1>2. ASSUME UNCHANGED <<queue, line>> PROVE RingInv' /\ UNCHANGED Held
    BY <1>1, <1>2 DEF RingInv, Coming
  <1>3. ASSUME NEW p \in Ports, FastReceive(p) PROVE RingInv' /\ [Queue!Put]_Held
    <2> DEFINE x == [port |-> p, frame |-> Head(line[p])]
    <2>1. line[p] # <<>> /\ Received(p) /\ x \in Arrivals /\ Coming'
      BY <1>3, TakenComes DEF FastReceive, RingInv
    <2>2. CASE UNCHANGED queue
      BY <1>1, <2>1, <2>2
    <2>3. CASE ~Full(queue) /\ queue' = Push(queue, x)
      <3>1. x \in Slots /\ queue \in Rings
        BY <2>1 DEF Slots, RingInv
      <3>2. queue' \in Rings
        BY <2>3, <3>1, PushSound
      <3>3. Held' = Append(Held, x) /\ Len(Held) < QueueSize - 1
        BY <2>3, <3>1, PushAppends, HeldIs, HeldIs' DEF Held, Contents, Count
      <3>4. QED
        BY <2>1, <3>2, <3>3 DEF RingInv, Queue!Put
    <2>4. QED
      BY <1>3, <2>2, <2>3 DEF FastReceive
  <1>4. ASSUME SlowReceive PROVE RingInv' /\ [Queue!Get]_Held
    <2>1. ~Drained(queue) /\ queue' = Pop(queue) /\ UNCHANGED line
      BY <1>4 DEF SlowReceive
    <2>2. queue' \in Rings
      BY <2>1, PopSound DEF RingInv
    <2>3. Held # <<>> /\ Held' = Tail(Held)
      BY <2>1, PopRemoves, HeldIs DEF RingInv, Held, Contents, Count
    <2>4. Coming'
      BY <2>1 DEF RingInv, Coming
    <2>5. QED
      BY <2>2, <2>3, <2>4 DEF RingInv, Queue!Get
  <1>5. ASSUME NEW t \in Threads, Join(t) \/ Forward(t) \/ Number(t) \/ Transmit(t) \/ Replicate(t)
        PROVE  UNCHANGED <<queue, line>>
    BY <1>5 DEF Join, Forward, Number, Transmit, Replicate, Polices
  <1>6. ASSUME NEW p \in Ports, Poll(p) \/ Flap(p) PROVE UNCHANGED <<queue, line>>
    BY <1>6 DEF Poll, Flap
  <1>7. ASSUME Tick PROVE UNCHANGED <<queue, line>>
    BY <1>7 DEF Tick
  <1>8. ASSUME NEW p \in Ports, Lose(p) PROVE RingInv' /\ UNCHANGED Held
    <2>1. UNCHANGED queue /\ Coming'
      BY <1>8, TakenComes DEF Lose, RingInv
    <2>2. QED
      BY <1>1, <2>1
  <1>9. CASE UNCHANGED vars
    BY <1>2, <1>9 DEF vars
  <1>10. QED
    BY <1>2, <1>3, <1>4, <1>5, <1>6, <1>7, <1>8, <1>9 DEF Next

\* The ring with its two indices (port_queue.c) is a queue that keeps the order
\* and holds one frame less than it has slots, for every number of slots,
\* whatever the two threads do around it.
THEOREM RingIsQueue == Spec => QueueIsFifo
  <1>1. Init => RingInv /\ Queue!Init
    BY InitRing
  <1>2. RingInv /\ [Next]_vars => RingInv' /\ [Queue!Put \/ Queue!Get]_Held
    BY RingStep
  <1>3. QED
    BY <1>1, <1>2, PTL DEF Spec, QueueIsFifo, Queue!Spec

-----------------------------------------------------------------------------
(***************************************************************************)
(* The buckets.                                                            *)
(***************************************************************************)
\* A token bucket; one without a rate (cgst_dlci_tb_init) has no Bc.
TokenBuckets ==
    {tb \in [cir : Nat, bc : Nat, be : Nat, tokens : Nat, age : 0 .. MaxIdle] :
        tb.tokens <= Size(tb) /\ (tb.cir = 0 => tb.bc = 0)}

\* What a frame that comes now may take.
Available(tb) == TbUpdate(tb).tokens

-----------------------------------------------------------------------------
(* Token buckets. *)

LEMMA ProductIsNatural ==
    ASSUME NEW a \in Nat, NEW b \in Nat
    PROVE  a * b \in Nat /\ (a + 1) * b = a * b + b /\ 0 * b = 0
  OBVIOUS

\* A bucket that is set up is full.
LEMMA BucketStarts ==
    ASSUME NEW q \in [cir : Nat, bc : Nat, be : Nat]
    PROVE  Bucket(q) \in TokenBuckets /\ Bucket(q).tokens = Size(Bucket(q))
  BY PolicerAssumption DEF Bucket, Size, TokenBuckets

LEMMA GroupBucketStarts ==
    ASSUME NEW q \in [cir : Nat, bc : Nat, be : Nat]
    PROVE  GroupBucket(q) \in TokenBuckets /\ GroupBucket(q).tokens = Size(GroupBucket(q))
  <1>1. CASE q.cir > 0
    BY <1>1, BucketStarts DEF GroupBucket
  <1>2. CASE ~(q.cir > 0)
    BY <1>2, PolicerAssumption DEF GroupBucket, Size, TokenBuckets
  <1>3. QED
    BY <1>1, <1>2

\* Bringing a bucket up to date gives it what is available, never too much.
LEMMA UpdateIs ==
    ASSUME NEW tb \in TokenBuckets
    PROVE  /\ TbUpdate(tb) \in TokenBuckets
           /\ Available(tb) = IF tb.tokens + tb.age * tb.cir < Size(tb) THEN tb.tokens + tb.age * tb.cir ELSE Size(tb)
           /\ Available(TbUpdate(tb)) = Available(tb)
           /\ TbUpdate(tb).cir = tb.cir /\ TbUpdate(tb).bc = tb.bc /\ TbUpdate(tb).be = tb.be
  <1> DEFINE gain == tb.age * tb.cir
             max == tb.bc + tb.be
             held == IF tb.tokens + gain < max THEN tb.tokens + gain ELSE max
  <1>1. /\ tb = [cir |-> tb.cir, bc |-> tb.bc, be |-> tb.be, tokens |-> tb.tokens, age |-> tb.age]
        /\ tb.cir \in Nat /\ tb.bc \in Nat /\ tb.be \in Nat /\ tb.tokens \in Nat /\ tb.age \in Nat
        /\ tb.age \in 0 .. MaxIdle
        /\ tb.tokens <= max /\ (tb.cir = 0 => tb.bc = 0)
    BY PolicerAssumption DEF TokenBuckets, Size
  <1>2. gain \in Nat /\ (tb.cir = 0 => gain = 0)
    BY <1>1, ProductIsNatural
  <1>3. 0 \in 0 .. MaxIdle
    BY PolicerAssumption
  <1>4. TbUpdate(tb) = IF tb.cir = 0 THEN tb ELSE [tb EXCEPT !.tokens = held, !.age = 0]
    BY DEF TbUpdate, Size
  <1>5. held \in Nat /\ held <= max /\ held >= tb.tokens /\ (tb.cir = 0 => held = tb.tokens)
    <2> HIDE DEF gain
    <2> QED  BY <1>1, <1>2
  <1> HIDE DEF gain, held
  <1>6. TbUpdate(tb).tokens = held /\ Size(tb) = max
    BY <1>1, <1>4, <1>5 DEF Size
  <1>7. TbUpdate(tb) \in TokenBuckets
    BY <1>1, <1>3, <1>4, <1>5 DEF TokenBuckets, Size
  <1>8. Available(TbUpdate(tb)) = held
    <2>1. CASE tb.cir = 0
      BY <2>1, <1>1, <1>4, <1>5 DEF Available, TbUpdate
    <2>2. CASE tb.cir # 0
      <3> DEFINE u == TbUpdate(tb)
      <3>1. u.cir = tb.cir /\ u.tokens = held /\ u.age = 0 /\ u.bc = tb.bc /\ u.be = tb.be
            /\ u = [cir |-> tb.cir, bc |-> tb.bc, be |-> tb.be, tokens |-> held, age |-> 0]
        BY <1>1, <1>4, <2>2
      <3>2. u.age * u.cir = 0
        BY <1>1, <3>1, ProductIsNatural
      <3> HIDE DEF u
      <3>3. TbUpdate(u).tokens = IF held + 0 < tb.bc + tb.be THEN held + 0 ELSE tb.bc + tb.be
        BY <2>2, <3>1, <3>2 DEF TbUpdate, Size
      <3> QED  BY <1>1, <1>5, <3>3 DEF u, Available
    <2> QED  BY <2>1, <2>2
  <1>9. QED
    BY <1>1, <1>4, <1>6, <1>7, <1>8 DEF Available, gain, held

\* A second makes at most one second's rate more available.
LEMMA OlderIs ==
    ASSUME NEW tb \in TokenBuckets
    PROVE  /\ Older(tb) \in TokenBuckets
           /\ Available(Older(tb)) <= Available(tb) + tb.cir
           /\ Available(Older(tb)) <= Size(tb)
           /\ Older(tb).cir = tb.cir /\ Older(tb).bc = tb.bc /\ Older(tb).be = tb.be
  <1> DEFINE gain == tb.age * tb.cir
             later == (tb.age + 1) * tb.cir
  <1>1. /\ tb = [cir |-> tb.cir, bc |-> tb.bc, be |-> tb.be, tokens |-> tb.tokens, age |-> tb.age]
        /\ tb.cir \in Nat /\ tb.bc \in Nat /\ tb.be \in Nat /\ tb.tokens \in Nat /\ tb.age \in Nat
        /\ tb.age \in 0 .. MaxIdle /\ MaxIdle \in Nat
        /\ tb.tokens <= tb.bc + tb.be /\ (tb.cir = 0 => tb.bc = 0)
    BY PolicerAssumption DEF TokenBuckets, Size
  <1>2. gain \in Nat /\ later = gain + tb.cir
    BY <1>1, ProductIsNatural
  <1> HIDE DEF gain, later
  <1>3. Available(tb) = IF tb.tokens + gain < tb.bc + tb.be THEN tb.tokens + gain ELSE tb.bc + tb.be
    BY UpdateIs DEF gain, Size
  <1>4. CASE tb.tokens = Size(tb) \/ tb.age = MaxIdle
    <2>1. Older(tb) = tb
      BY <1>1, <1>4 DEF Older
    <2> QED  BY <1>1, <1>2, <1>3, <2>1 DEF Size
  <1>5. CASE ~(tb.tokens = Size(tb) \/ tb.age = MaxIdle)
    <2> DEFINE o == Older(tb)
    <2>1. /\ o = [cir |-> tb.cir, bc |-> tb.bc, be |-> tb.be, tokens |-> tb.tokens, age |-> tb.age + 1]
          /\ o.cir = tb.cir /\ o.bc = tb.bc /\ o.be = tb.be /\ o.tokens = tb.tokens /\ o.age = tb.age + 1
      BY <1>1, <1>5 DEF Older
    <2>2. tb.age + 1 \in 0 .. MaxIdle
      BY <1>1, <1>5
    <2>3. o \in TokenBuckets
      BY <1>1, <2>1, <2>2 DEF TokenBuckets, Size
    <2>4. o.age * o.cir = later
      BY <2>1 DEF later
    <2> HIDE DEF o
    <2>5. Available(o) = IF tb.tokens + later < tb.bc + tb.be THEN tb.tokens + later ELSE tb.bc + tb.be
      BY <2>1, <2>3, <2>4, UpdateIs DEF Size
    <2>6. Available(o) <= Available(tb) + tb.cir /\ Available(o) <= Size(tb)
      BY <1>1, <1>2, <1>3, <2>5 DEF Size
    <2> QED  BY <2>1, <2>3, <2>6 DEF o
  <1>6. QED
    BY <1>4, <1>5

\* What the policer does with a bucket that is up to date: what passes has paid,
\* and what passes as committed leaves Be untouched.
LEMMA PoliceIs ==
    ASSUME NEW tb \in TokenBuckets, NEW n \in Nat, NEW de \in BOOLEAN, NEW congested \in BOOLEAN
    PROVE  LET v == Police(TbUpdate(tb), n, de, congested)
           IN /\ v.tb \in TokenBuckets
              /\ v.tb.cir = tb.cir /\ v.tb.bc = tb.bc /\ v.tb.be = tb.be
              /\ Available(v.tb) <= Available(tb)
              /\ v.how # "discard" /\ ~BestEffort(tb) =>
                    /\ n <= Available(tb) /\ Available(v.tb) <= Available(tb) - n
                    /\ v.how = "committed" => Available(tb) >= tb.be + n
  <1> DEFINE u == TbUpdate(tb)
             v == Police(u, n, de, congested)
             paid == [u EXCEPT !.tokens = @ - n]
  <1>1. /\ u \in TokenBuckets /\ u.tokens = Available(tb)
        /\ u.cir = tb.cir /\ u.bc = tb.bc /\ u.be = tb.be /\ Available(u) = u.tokens
    BY UpdateIs DEF Available
  <1>2. /\ u = [cir |-> u.cir, bc |-> u.bc, be |-> u.be, tokens |-> u.tokens, age |-> u.age]
        /\ u.cir \in Nat /\ u.bc \in Nat /\ u.be \in Nat /\ u.tokens \in Nat /\ u.age \in 0 .. MaxIdle
        /\ u.tokens <= u.bc + u.be /\ (u.cir = 0 => u.bc = 0)
        /\ (u.cir # 0 => u.age = 0)
    <2>1. u.cir # 0 => u.age = 0
      BY <1>1 DEF TbUpdate, TokenBuckets
    <2> QED  BY <1>1, <2>1 DEF TokenBuckets, Size
  <1>3. /\ v.how \in {"discard", "excess", "committed"}
        /\ \/ v.tb = u /\ (BestEffort(u) \/ v.how = "discard")
           \/ /\ ~BestEffort(u) /\ u.cir # 0 /\ n <= u.tokens /\ v.tb = paid
              /\ v.how = "committed" => u.tokens - n >= u.be
    <2> HIDE DEF u
    <2>1. BestEffort(u) \/ u.cir # 0
      BY <1>2 DEF BestEffort
    <2> QED  BY <1>2, <2>1 DEF Police, WithinBc
  <1>4. ASSUME n <= u.tokens, u.cir # 0
        PROVE  /\ paid \in TokenBuckets
               /\ paid.cir = tb.cir /\ paid.bc = tb.bc /\ paid.be = tb.be
               /\ Available(paid) = u.tokens - n
    <2>1. /\ paid = [cir |-> u.cir, bc |-> u.bc, be |-> u.be, tokens |-> u.tokens - n, age |-> u.age]
          /\ paid.cir = tb.cir /\ paid.bc = tb.bc /\ paid.be = tb.be
          /\ paid.tokens = u.tokens - n /\ paid.age = 0
      BY <1>1, <1>2, <1>4
    <2>2. paid \in TokenBuckets
      BY <1>1, <1>2, <1>4, <2>1 DEF TokenBuckets, Size
    <2>3. paid.age * paid.cir = 0
      BY <1>1, <1>2, <2>1, ProductIsNatural
    <2> HIDE DEF paid
    <2>4. Available(paid) = IF paid.tokens + 0 < u.bc + u.be THEN paid.tokens + 0 ELSE u.bc + u.be
      BY <1>1, <2>1, <2>2, <2>3, UpdateIs DEF Size
    <2> QED  BY <1>2, <1>4, <2>1, <2>2, <2>4
  <1>5. BestEffort(u) <=> BestEffort(tb)
    BY <1>1 DEF BestEffort
  <1> HIDE DEF u, v, paid
  <1>6. Available(tb) \in Nat
    BY <1>1, <1>2
  <1>7. /\ v.tb \in TokenBuckets
        /\ v.tb.cir = tb.cir /\ v.tb.bc = tb.bc /\ v.tb.be = tb.be
        /\ Available(v.tb) <= Available(tb)
        /\ v.how # "discard" /\ ~BestEffort(tb) =>
              /\ n <= Available(tb) /\ Available(v.tb) <= Available(tb) - n
              /\ v.how = "committed" => Available(tb) >= tb.be + n
    BY <1>1, <1>2, <1>3, <1>4, <1>5, <1>6
  <1>8. QED
    BY <1>7 DEF u, v

-----------------------------------------------------------------------------
(* Groups and the loops over their ends. *)

EndStep(S, left, y) == IF y \in S THEN left ELSE Append(left, y)
Ends == INSTANCE FoldProofs WITH Step <- EndStep

ReportStep(env, c, i) ==
    [c EXCEPT ![env.ports[i]] = IF i \in env.lost THEN WriteFailure(@) ELSE WriteSuccess(@)]
Reports == INSTANCE FoldProofs WITH Step <- ReportStep

LEMMA WithoutIsFold == \A ends, S : Without(ends, S) = Ends!Fold(S, <<>>, ends)
  BY Zenon DEF Without, EndStep, FoldLeft, MapThenFoldSet, Max,
           Ends!Fold, Ends!FoldLeft, Ends!MapThenFoldSet, Ends!Max

LEMMA ReportedIsFold ==
    \A c, env : Reported(c, env.ports, env.lost) = Reports!Fold(env, c, [i \in DOMAIN env.ports |-> i])
  BY Zenon DEF Reported, ReportStep, FoldLeftDomain, FoldLeft, MapThenFoldSet, Max,
           Reports!Fold, Reports!FoldLeft, Reports!MapThenFoldSet, Reports!Max

\* The copies go to a finite sequence of ends.
LEMMA WithoutType ==
    ASSUME NEW S, NEW X, NEW ends \in Seq(X)
    PROVE  Without(ends, S) \in Seq(X)
  <1>1. \A left \in Seq(X), y \in X : EndStep(S, left, y) \in Seq(X)
    BY DEF EndStep
  <1>2. <<>> \in Seq(X)
    OBVIOUS
  <1>3. Ends!Fold(S, <<>>, ends) \in Seq(X)
    BY <1>1, <1>2, Ends!FoldInvariant
  <1>4. QED
    BY <1>3, WithoutIsFold

\* The group of an end is one of the groups, and its root is an end of a group.
LEMMA GroupIs ==
    ASSUME NEW groups, groups \in Seq(Range(groups)), NEW x, IsGroupEnd(groups, x)
    PROVE  /\ GroupAt(groups, x) \in Range(groups)
           /\ IsGroupEnd(groups, GroupAt(groups, x).root)
  <1> DEFINE At(y) == {i \in 1 .. Len(groups) : groups[i] # NoGroup /\ y \in EndsOf(groups[i])}
  <1>1. Len(groups) \in Nat /\ DOMAIN groups = 1 .. Len(groups)
    OBVIOUS
  <1>2. \A y : GroupAt(groups, y) = LET i == IF At(y) # {} THEN Min(At(y)) ELSE 0
                                    IN IF i = 0 THEN NoGroup ELSE groups[i]
    BY Zenon DEF GroupAt, SelectInSeq
  <1>3. ASSUME NEW y, At(y) # {} PROVE Min(At(y)) \in At(y)
    <2>1. At(y) \in SUBSET Nat
      BY <1>1
    <2>2. \E m \in At(y) : \A k \in At(y) : m <= k
      <3> HIDE DEF At
      <3> QED  BY <1>3, <2>1, Ends!LeastNatural
    <2> HIDE DEF At
    <2> QED  BY <2>2 DEF Min
  <1>4. ASSUME NEW y, At(y) # {} PROVE \E i \in At(y) : i # 0 /\ GroupAt(groups, y) = groups[i]
    <2>1. Min(At(y)) \in At(y) /\ Min(At(y)) # 0
      <3>1. At(y) \subseteq 1 .. Len(groups)
        OBVIOUS
      <3> HIDE DEF At
      <3>2. Min(At(y)) \in At(y)
        BY <1>3, <1>4
      <3> QED  BY <1>1, <3>1, <3>2
    <2> HIDE DEF At
    <2> QED  BY <1>2, <1>4, <2>1
  <1>5. At(x) # {}
    <2> HIDE DEF At
    <2> QED  BY <1>2 DEF IsGroupEnd
  <1>6. PICK i \in At(x) : GroupAt(groups, x) = groups[i]
    BY <1>4, <1>5
  <1>7. groups[i] # NoGroup /\ groups[i].root \in EndsOf(groups[i]) /\ groups[i] \in Range(groups)
    BY <1>1, <1>6 DEF EndsOf, Range
  <1>8. At(groups[i].root) # {}
    BY <1>6, <1>7
  <1>9. PICK j \in At(groups[i].root) : GroupAt(groups, groups[i].root) = groups[j]
    BY <1>4, <1>8
  <1>10. QED
    BY <1>6, <1>7, <1>9 DEF IsGroupEnd

\* A copy goes to the ends of the group.
LEMMA CopiesType ==
    ASSUME NEW g, g.members \in Seq(Range(g.members)), NEW x, NEW off
    PROVE  \E n \in Nat : DOMAIN Copies(g, x, off) = 1 .. n
  <1> DEFINE X == EndsOf(g)
  <1>1. Range(g.members) \subseteq X /\ g.root \in X
    BY DEF EndsOf
  <1>2. g.members \in Seq(X) /\ <<g.root>> \in Seq(X) /\ <<>> \in Seq(X)
    <2> HIDE DEF X
    <2> QED  BY <1>1
  <1>3. <<g.root>> \o g.members \in Seq(X)
    <2> HIDE DEF X
    <2> QED  BY <1>2
  <1> HIDE DEF X
  <1>4. Copies(g, x, off) \in Seq(X)
    BY <1>2, <1>3, WithoutType DEF Copies
  <1>5. QED
    BY <1>4

-----------------------------------------------------------------------------
(* The congestion state of a port. *)

CongestionStates ==
    {s \in [rate : Nat, limit : Nat, cllm : BOOLEAN, congested : BOOLEAN,
            frames : Nat, age : Nat, fails : Nat, wait : Nat] : s.fails <= s.limit}

\* What happens to a port keeps its state one.
LEMMA CongestionKept ==
    ASSUME NEW s \in CongestionStates
    PROVE  /\ Counted(s) \in CongestionStates
           /\ RateCheck(s) \in CongestionStates
           /\ WriteFailure(s) \in CongestionStates
           /\ WriteSuccess(s) \in CongestionStates
           /\ \A some \in BOOLEAN : CllmTimer(s, some) \in CongestionStates
           /\ CongestionOlder(s) \in CongestionStates
  <1>1. CllmEvery \in Nat
    BY PolicerAssumption
  <1>2. /\ s \in [rate : Nat, limit : Nat, cllm : BOOLEAN, congested : BOOLEAN,
                  frames : Nat, age : Nat, fails : Nat, wait : Nat]
        /\ s.fails <= s.limit
        /\ s.rate \in Nat /\ s.limit \in Nat /\ s.frames \in Nat /\ s.age \in Nat /\ s.fails \in Nat /\ s.wait \in Nat
        /\ s.congested \in BOOLEAN /\ s.cllm \in BOOLEAN
    BY DEF CongestionStates
  <1>3. Counted(s) \in CongestionStates
    BY <1>2 DEF Counted, CongestionStates
  <1>4. RateCheck(s) \in CongestionStates
    <2> DEFINE fps == s.frames \div s.age
               now == IF s.congested THEN fps >= s.rate \div 2 ELSE fps > s.rate
    <2>1. RateCheck(s) = IF s.rate = 0 \/ s.age = 0 THEN s
                         ELSE [s EXCEPT !.congested = now, !.frames = 0, !.age = 0]
      BY DEF RateCheck
    <2>2. now \in BOOLEAN
      <3>1. CASE s.congested
        BY <3>1
      <3>2. CASE ~s.congested
        BY <3>2
      <3> QED  BY <3>1, <3>2
    <2> HIDE DEF now
    <2> DEFINE checked == [s EXCEPT !.congested = now, !.frames = 0, !.age = 0]
    <2>3. /\ checked \in [rate : Nat, limit : Nat, cllm : BOOLEAN, congested : BOOLEAN,
                           frames : Nat, age : Nat, fails : Nat, wait : Nat]
          /\ checked.fails = s.fails /\ checked.limit = s.limit
      BY <1>2, <2>2
    <2> HIDE DEF checked
    <2>4. checked \in CongestionStates
      BY <1>2, <2>3 DEF CongestionStates
    <2> QED  BY <2>1, <2>4 DEF checked
  <1>5. WriteFailure(s) \in CongestionStates
    <2> DEFINE n == IF s.fails < s.limit THEN s.fails + 1 ELSE s.fails
               now == s.congested \/ n >= s.limit
    <2>1. WriteFailure(s) = IF s.limit = 0 THEN s ELSE [s EXCEPT !.fails = n, !.congested = now]
      BY DEF WriteFailure
    <2>2. n \in Nat /\ n <= s.limit
      BY <1>2
    <2>3. now \in BOOLEAN
      BY Zenon
    <2> HIDE DEF n, now
    <2> QED  BY <1>2, <2>1, <2>2, <2>3 DEF CongestionStates
  <1>6. WriteSuccess(s) \in CongestionStates
    <2> DEFINE clear == FALSE
    <2>1. WriteSuccess(s) = IF s.limit = 0 \/ s.fails = 0 THEN s ELSE [s EXCEPT !.fails = 0, !.congested = clear]
      BY DEF WriteSuccess
    <2>2. clear \in BOOLEAN
      OBVIOUS
    <2> HIDE DEF clear
    <2> DEFINE done == [s EXCEPT !.fails = 0, !.congested = clear]
    <2>3. /\ done \in [rate : Nat, limit : Nat, cllm : BOOLEAN, congested : BOOLEAN,
                        frames : Nat, age : Nat, fails : Nat, wait : Nat]
          /\ done.fails = 0 /\ done.limit = s.limit
      BY <1>2, <2>2
    <2> HIDE DEF done
    <2>4. done \in CongestionStates
      BY <1>2, <2>3 DEF CongestionStates
    <2> QED  BY <2>1, <2>4 DEF done
  <1>7. \A some \in BOOLEAN : CllmTimer(s, some) \in CongestionStates
    BY <1>1, <1>2 DEF CllmTimer, CongestionStates
  <1>8. CongestionOlder(s) \in CongestionStates
    <2> DEFINE age == IF s.rate = 0 \/ s.age = 2 THEN s.age ELSE s.age + 1
               wait == IF s.wait = 0 THEN 0 ELSE s.wait - 1
    <2>1. CongestionOlder(s) = [s EXCEPT !.age = age, !.wait = wait]
      BY DEF CongestionOlder
    <2>2. age \in Nat /\ wait \in Nat
      BY <1>2
    <2> HIDE DEF age, wait
    <2> QED  BY <1>2, <2>1, <2>2 DEF CongestionStates
  <1>9. QED
    BY <1>3, <1>4, <1>5, <1>6, <1>7, <1>8

\* So do the reports of a number of writes.
LEMMA ReportedType ==
    ASSUME NEW c \in [Ports -> CongestionStates], NEW ports, NEW n \in Nat, DOMAIN ports = 1 .. n, NEW lost
    PROVE  Reported(c, ports, lost) \in [Ports -> CongestionStates]
  <1> DEFINE env == [ports |-> ports, lost |-> lost]
             sq == [i \in DOMAIN ports |-> i]
  <1>1. sq \in Seq(Nat)
    OBVIOUS
  <1>2. \A done \in [Ports -> CongestionStates], i \in Nat : ReportStep(env, done, i) \in [Ports -> CongestionStates]
    BY CongestionKept DEF ReportStep
  <1>3. Reports!Fold(env, c, sq) \in [Ports -> CongestionStates]
    <2> HIDE DEF env, sq
    <2> QED  BY <1>1, <1>2, Reports!FoldInvariant
  <1>4. env.ports = ports /\ env.lost = lost
    OBVIOUS
  <1> HIDE DEF env
  <1>5. Reported(c, env.ports, env.lost) = Reports!Fold(env, c, sq)
    BY <1>4, ReportedIsFold
  <1>6. QED
    BY <1>3, <1>4, <1>5

-----------------------------------------------------------------------------
(* Frames and reassembly. *)

SizedFrames == {f \in Frames : Len(f.body) <= MaxPieces}

Contexts ==
    {c \in [busy : BOOLEAN, frame : SizedFrames \cup {NoFrame}, expected : 0 .. FragMod - 1, age : Nat] :
        c.busy => c.frame \in SizedFrames}

LEMMA NumberIs ==
    ASSUME NEW n \in Nat
    PROVE  n % FragMod \in 0 .. FragMod - 1 /\ NextSeq(n) \in 0 .. FragMod - 1
  BY FragmentAssumption DEF NextSeq

LEMMA BluntedIs ==
    ASSUME NEW s \in Seq(Nat \X Nat)
    PROVE  Blunted(s) \in Seq(Nat \X Nat) /\ Len(Blunted(s)) = Len(s)
  <1> DEFINE n == Len(s)
  <1>1. n \in Nat /\ DOMAIN s = 1 .. n /\ \A i \in 1 .. n : s[i] \in Nat \X Nat
    OBVIOUS
  <1> HIDE DEF n
  <1>2. Blunted(s) \in [1 .. n -> Nat \X Nat]
    BY <1>1 DEF Blunted
  <1>3. Blunted(s) \in Seq(Nat \X Nat) /\ Len(Blunted(s)) = n
    BY <1>1, <1>2
  <1>4. QED
    BY <1>3 DEF n

\* The reassembly gives back a frame that fits, and keeps a context.
LEMMA ReassembleIs ==
    ASSUME NEW ctx0 \in Contexts, NEW f \in SizedFrames
    PROVE  Reassemble(ctx0, f).ctx \in Contexts /\ Reassemble(ctx0, f).frame \in SizedFrames
  <1> DEFINE h == f.head
             ctx == IF TimedOut(ctx0) THEN NoReasm ELSE ctx0
             bare == Opened(f)
             whole == [ctx.frame EXCEPT !.body = @ \o bare.body]
  <1>1. FragMod \in Nat \ {0}
    BY FragmentAssumption
  <1>2. NoReasm \in Contexts
    BY <1>1 DEF NoReasm, Contexts
  <1>3. ctx \in Contexts
    BY <1>2
  <1>4. h.seq \in Nat
    BY DEF SizedFrames, Frames
  <1>5. bare \in SizedFrames
    <2> DEFINE body == IF f.part THEN f.body ELSE Blunted(f.body)
    <2>1. NoHead \in [b : BOOLEAN, e : BOOLEAN, seq : Nat]
      BY <1>1 DEF NoHead
    <2>2. body \in Seq(Nat \X Nat) /\ Len(body) = Len(f.body)
      BY BluntedIs DEF SizedFrames, Frames
    <2>3. bare = [f EXCEPT !.part = FALSE, !.head = NoHead, !.body = body]
      BY DEF Opened
    <2> HIDE DEF body, bare
    <2> QED  BY <2>1, <2>2, <2>3 DEF SizedFrames, Frames
  <1>6. ASSUME ctx.busy, Len(whole.body) <= MaxPieces PROVE whole \in SizedFrames
    <2>1. ctx.frame \in SizedFrames
      BY <1>3, <1>6 DEF Contexts
    <2> HIDE DEF ctx, bare
    <2>2. ctx.frame.body \o bare.body \in Seq(Nat \X Nat)
      BY <1>5, <2>1 DEF SizedFrames, Frames
    <2> QED  BY <1>6, <2>1, <2>2 DEF SizedFrames, Frames
  <1>7. ASSUME NEW g \in SizedFrames PROVE Collecting(g, h) \in Contexts
    <2>1. NextSeq(h.seq) \in 0 .. FragMod - 1
      BY <1>4, NumberIs
    <2> QED  BY <2>1 DEF Collecting, Contexts
  <1> HIDE DEF h, ctx, whole, bare
  <1>8. \/ Reassemble(ctx0, f) = [ctx |-> NoReasm, how |-> "complete", frame |-> bare]
        \/ Reassemble(ctx0, f) = [ctx |-> Collecting(bare, h), how |-> "kept", frame |-> f]
        \/ Reassemble(ctx0, f) = [ctx |-> ctx, how |-> "refused", frame |-> f]
        \/ Reassemble(ctx0, f) = [ctx |-> NoReasm, how |-> "refused", frame |-> f]
        \/ /\ ctx.busy /\ ~(Len(whole.body) > MaxPieces)
           /\ \/ Reassemble(ctx0, f) = [ctx |-> NoReasm, how |-> "complete", frame |-> whole]
              \/ Reassemble(ctx0, f) = [ctx |-> Collecting(whole, h), how |-> "kept", frame |-> f]
    BY DEF Reassemble, h, ctx, whole, bare
  <1>9. ASSUME ctx.busy, ~(Len(whole.body) > MaxPieces) PROVE whole \in SizedFrames
    <2>1. ctx.frame \in SizedFrames
      BY <1>3, <1>9 DEF Contexts
    <2>2. Len(whole.body) \in Nat /\ MaxPieces \in Nat
      BY <1>5, <2>1, FragmentAssumption DEF SizedFrames, Frames, whole
    <2> QED  BY <1>6, <1>9, <2>2
  <1>10. QED
    BY <1>2, <1>3, <1>5, <1>7, <1>8, <1>9

-----------------------------------------------------------------------------
(* The inductive invariant. *)

\* An ideal bucket would let pass what the bucket has available, and of Bc what
\* that is more than Be.
Covered(k) ==
    /\ credit[k].total >= Available(bucket[k])
    /\ credit[k].committed + bucket[k].be >= Available(bucket[k])

BucketInv ==
    /\ bucket \in [Buckets -> TokenBuckets]
    /\ credit \in [Buckets -> [committed : Nat, total : Nat]]
    /\ over \subseteq Buckets /\ torn \subseteq Buckets
    /\ \A k \in Buckets \ torn : k \notin over /\ Covered(k)

\* A thread that is to police a frame has its own of a group, whose bucket it has
\* still to read, or one of a circuit, whose bucket it has read.
OfCircuit(t) == job[t].step = "police" /\ ~IsGroupEnd(conf.groups, job[t].at)

\* What the work in hand is made of.
Work(j) ==
    /\ j.step \in {"join", "police"} => j.frame \in SizedFrames /\ j.at[1] \in Ports
    /\ j.step = "join" => j.at \in Entries /\ j.ctx \in Contexts
    /\ j.step = "cut" => j.at \in Entries /\ j.frames[Len(j.frames)].head.seq \in Nat

Working(t) ==
    /\ Work(job[t])
    /\ OfCircuit(t) => job[t].at \in Entries /\ \E tb \in TokenBuckets : job[t].tb = TbUpdate(tb)

\* What it read still holds, and it is the only one to have read it, unless the
\* bucket is torn.
JobInv ==
    /\ job = [t \in Threads |-> job[t]]
    /\ \A t \in Threads : Working(t)
    /\ \A t \in Threads : OfCircuit(t) /\ job[t].at \notin torn => job[t].tb = TbUpdate(bucket[job[t].at])
    /\ \A t, u \in Threads : t # u /\ OfCircuit(t) /\ OfCircuit(u) /\ job[t].at = job[u].at => job[t].at \in torn

PortInv ==
    /\ cg \in [Ports -> CongestionStates]
    /\ reasm \in [Entries -> Contexts]
    /\ \A y \in DOMAIN peer : peer[y] \in 0 .. Quiet
    /\ number \in [Entries -> 0 .. FragMod - 1]
    /\ down \subseteq Ports

Configured ==
    /\ Entries \subseteq Buckets
    /\ conf.groups \in Seq(Range(conf.groups))
    /\ \A g \in Range(conf.groups) : g.root \in Buckets /\ g.members \in Seq(Range(g.members))
    /\ \A x \in Entries : conf.lut[x][1] \in Ports
    /\ \A k \in Buckets : conf.tb[k] \in [cir : Nat, bc : Nat, be : Nat]
    /\ conf.outSize \in [Ports -> Nat]
    /\ conf.cg \in [Ports -> [rate : Nat, limit : Nat, cllm : BOOLEAN]]
    /\ conf.flaps \subseteq Ports

QueueInv == RingInv /\ Held \in Seq(Arrivals)

DataInv == Configured /\ QueueInv /\ BucketInv /\ JobInv /\ PortInv

-----------------------------------------------------------------------------
(* Frames from the lines and from the queue. *)

LEMMA ScenarioFrames ==
    ASSUME NEW c \in Scenarios, NEW p \in Ports, NEW f \in Range(c.line[p])
    PROVE  f \in SizedFrames
  BY LineAssumption DEF SizedFrames

LEMMA LineFrame ==
    ASSUME Coming, NEW p \in Ports, line[p] # <<>>
    PROVE  Head(line[p]) \in SizedFrames
  <1>1. PICK c \in Scenarios : line[p] \in Seq(Range(c.line[p]))
    BY DEF Coming
  <1>2. Head(line[p]) \in Range(c.line[p])
    BY <1>1
  <1>3. QED
    BY <1>2, ScenarioFrames

LEMMA ArrivalIs ==
    ASSUME NEW a \in Arrivals
    PROVE  a.port \in Ports /\ a.frame \in SizedFrames
  <1>1. PICK c \in Scenarios : a \in UNION {{[port |-> p, frame |-> f] : f \in Range(c.line[p])} : p \in Ports}
    BY Zenon DEF Arrivals
  <1>2. PICK p \in Ports : a \in {[port |-> p, frame |-> f] : f \in Range(c.line[p])}
    BY <1>1, Zenon
  <1>3. PICK f \in Range(c.line[p]) : a = [port |-> p, frame |-> f]
    BY <1>2
  <1>4. QED
    BY <1>3, ScenarioFrames

LEMMA QueuedFrame ==
    ASSUME QueueInv, ~Drained(queue)
    PROVE  First(queue).port \in Ports /\ First(queue).frame \in SizedFrames
  <1>1. queue \in Rings
    BY DEF QueueInv, RingInv
  <1>2. /\ Count(queue) \in 0 .. QueueSize - 1 /\ Count(queue) # 0
        /\ queue.tail \in 0 .. QueueSize - 1 /\ QueueSize \in Nat /\ QueueSize > 1
    BY <1>1, CountIs, DataPathAssumption DEF Rings
  <1>3. 1 \in 1 .. Count(queue) /\ 1 \in 1 .. QueueSize - 1
    BY <1>2
  <1>4. Contents(queue)[1] = queue.slot[(queue.tail + 1 - 1) % QueueSize] /\ Len(Contents(queue)) = Count(queue)
    BY <1>1, <1>3, ContentsType
  <1>5. (queue.tail + 1 - 1) % QueueSize = queue.tail
    <2>1. (queue.tail + 1 - 1) % QueueSize =
              IF queue.tail + 1 - 1 < QueueSize THEN queue.tail + 1 - 1 ELSE queue.tail + 1 - 1 - QueueSize
      BY <1>1, <1>3, SlotOf
    <2> QED  BY <1>2, <2>1
  <1>6. Contents(queue) \in Seq(Arrivals)
    BY HeldIs DEF QueueInv
  <1>7. First(queue) \in Arrivals
    <2> HIDE DEF Contents, Count
    <2> QED  BY <1>3, <1>4, <1>5, <1>6 DEF First
  <1>8. QED
    BY <1>7, ArrivalIs

LEMMA QueueStep ==
    ASSUME QueueInv, [Next]_vars
    PROVE  QueueInv'
  <1>1. RingInv' /\ [Queue!Put \/ Queue!Get]_Held /\ Held \in Seq(Arrivals)
    BY RingStep DEF QueueInv
  <1>2. Held' \in Seq(Arrivals)
    <2>1. CASE UNCHANGED Held
      BY <1>1, <2>1
    <2>2. CASE Queue!Put
      BY <1>1, <2>2 DEF Queue!Put
    <2>3. CASE Queue!Get
      BY <1>1, <2>3 DEF Queue!Get
    <2> QED  BY <1>1, <2>1, <2>2, <2>3
  <1>3. QED
    BY <1>1, <1>2 DEF QueueInv

-----------------------------------------------------------------------------
(* From the line to the bucket. *)

\* A thread that takes up work other than policing, or none, leaves the others at
\* what they do.  It writes at most the bucket of k, which no circuit's frame of
\* another thread was judged by.
LEMMA TurnsTo ==
    ASSUME DataInv, NEW t \in Threads, NEW j, job' = [job EXCEPT ![t] = j], UNCHANGED <<conf, torn>>,
           j.step # "police", Work(j), NEW k,
           \A b \in Buckets : b # k => bucket'[b] = bucket[b],
           \A u \in Threads \ {t} : OfCircuit(u) /\ job[u].at \notin torn => job[u].at # k
    PROVE  JobInv'
  <1>1. job = [u \in Threads |-> job[u]]
    BY DEF DataInv, JobInv
  <1>2. job' = [u \in Threads |-> job'[u]] /\ job'[t] = j /\ \A u \in Threads \ {t} : job'[u] = job[u]
    BY <1>1
  <1>3. ~OfCircuit(t)' /\ \A u \in Threads \ {t} : OfCircuit(u)' <=> OfCircuit(u)
    BY <1>1, <1>2 DEF OfCircuit
  <1>4. \A u \in Threads : OfCircuit(u) => job[u].at \in Buckets
    BY DEF DataInv, JobInv, Working, Configured
  <1>5. Work(j)'
    BY DEF Work, Entries
  <1>6. \A u \in Threads : Working(u)'
    <2> SUFFICES ASSUME NEW u \in Threads PROVE Working(u)'
      OBVIOUS
    <2>1. CASE u = t
      BY <1>2, <1>3, <1>5, <2>1 DEF Working, Work, Entries
    <2>2. CASE u # t
      BY <1>2, <1>3, <2>2 DEF DataInv, JobInv, Working, Work, Entries
    <2> QED  BY <2>1, <2>2
  <1>7. \A u \in Threads : OfCircuit(u)' /\ job'[u].at \notin torn' => job'[u].tb = TbUpdate(bucket'[job'[u].at])
    <2> SUFFICES ASSUME NEW u \in Threads, OfCircuit(u)', job'[u].at \notin torn'
                 PROVE  job'[u].tb = TbUpdate(bucket'[job'[u].at])
      OBVIOUS
    <2>1. u # t /\ OfCircuit(u) /\ job'[u] = job[u] /\ job[u].at \notin torn
      BY <1>2, <1>3
    <2>2. bucket'[job[u].at] = bucket[job[u].at]
      BY <1>4, <2>1
    <2> QED  BY <2>1, <2>2 DEF DataInv, JobInv
  <1>8. \A u, w \in Threads : u # w /\ OfCircuit(u)' /\ OfCircuit(w)' /\ job'[u].at = job'[w].at => job'[u].at \in torn'
    BY <1>2, <1>3 DEF DataInv, JobInv
  <1>9. QED
    BY <1>2, <1>6, <1>7, <1>8 DEF JobInv

\* The same, where no bucket is written.
LEMMA TurnsAside ==
    ASSUME DataInv, NEW t \in Threads, NEW j, job' = [job EXCEPT ![t] = j], UNCHANGED <<conf, torn, bucket, credit, over>>,
           j.step # "police", Work(j)
    PROVE  BucketInv' /\ JobInv'
  <1>1. BucketInv'
    BY DEF DataInv, BucketInv, Covered, Buckets
  <1>2. PICK k : k \notin Buckets
    <2>1. {b \in Buckets : b \notin b} \notin Buckets
      OBVIOUS
    <2> QED  BY <2>1
  <1>3. \A u \in Threads : OfCircuit(u) => job[u].at # k
    BY <1>2 DEF DataInv, JobInv, Working, Configured
  <1>4. QED
    BY <1>1, <1>3, TurnsTo

\* No work at all.
LEMMA NoWork == Idle.step # "police" /\ Work(Idle)
  BY DEF Idle, Work

\* A frame is looked up by a thread that has not read its bucket yet.
LEMMA LookupStep ==
    ASSUME DataInv, NEW t \in Threads, job[t].step # "police", NEW x, x[1] \in Ports, NEW f \in SizedFrames, NEW late,
           Lookup(t, x, f, late), UNCHANGED <<conf, bucket, credit, over>>
    PROVE  BucketInv' /\ JobInv' /\ \A y \in DOMAIN peer' : peer'[y] \in 0 .. Quiet
  <1> DEFINE g == GroupAt(conf.groups, x)
             reads == [step |-> "police", at |-> x, frame |-> f,
                       tb |-> IF g # NoGroup THEN bucket[g.root] ELSE TbUpdate(bucket[x])]
             meets == \E u \in Threads \ {t} : job[u].at = x /\ job[u].step = "police"
  <1>1. \A y \in DOMAIN peer' : peer'[y] \in 0 .. Quiet
    BY DataPathAssumption DEF Lookup, DataInv, PortInv, Quiet
  <1>2. \/ job' = [job EXCEPT ![t] = Idle] /\ UNCHANGED torn
        \/ /\ job' = [job EXCEPT ![t] = reads]
           /\ g = NoGroup => x \in Entries
           /\ torn' = IF g = NoGroup /\ meets THEN torn \cup {x} ELSE torn
    BY DEF Lookup, Meets
  <1>3. CASE job' = [job EXCEPT ![t] = Idle] /\ UNCHANGED torn
    BY <1>1, <1>3, NoWork, TurnsAside
  <1>4. CASE /\ job' = [job EXCEPT ![t] = reads]
             /\ g = NoGroup => x \in Entries
             /\ torn' = IF g = NoGroup /\ meets THEN torn \cup {x} ELSE torn
    <2>1. job = [u \in Threads |-> job[u]]
      BY DEF DataInv, JobInv
    <2>2. job' = [u \in Threads |-> job'[u]] /\ job'[t] = reads /\ \A u \in Threads \ {t} : job'[u] = job[u]
      BY <1>4, <2>1
    <2>3. reads.step = "police" /\ reads.at = x /\ reads.frame = f /\ (g = NoGroup => reads.tb = TbUpdate(bucket[x]))
      OBVIOUS
    <2>4. torn \subseteq torn' /\ torn' \subseteq Buckets
      BY <1>4 DEF DataInv, Configured, BucketInv
    <2>5. g = NoGroup => bucket[x] \in TokenBuckets
      BY <1>4 DEF DataInv, BucketInv, Configured
    <2>6. ~IsGroupEnd(conf.groups, x) <=> g = NoGroup
      BY DEF IsGroupEnd
    <2> HIDE DEF reads, g
    <2>7. \A u \in Threads \ {t} : OfCircuit(u)' <=> OfCircuit(u)
      BY <2>2 DEF OfCircuit
    <2>8. OfCircuit(t)' => g = NoGroup
      BY <2>2, <2>3, <2>6 DEF OfCircuit
    <2>9. BucketInv'
      BY <2>4 DEF DataInv, BucketInv, Covered, Buckets
    <2>10. \A u \in Threads : Working(u)'
      <3> SUFFICES ASSUME NEW u \in Threads PROVE Working(u)'
        OBVIOUS
      <3>1. CASE u = t
        <4>1. Work(job[t])'
          BY <2>2, <2>3 DEF Work
        <4>2. OfCircuit(t)' => x \in Entries' /\ bucket[x] \in TokenBuckets /\ reads.tb = TbUpdate(bucket[x])
          BY <1>4, <2>3, <2>5, <2>8 DEF Entries
        <4>3. OfCircuit(t)' => job'[t].at \in Entries' /\ \E tb \in TokenBuckets : job'[t].tb = TbUpdate(tb)
          BY <2>2, <2>3, <4>2
        <4> QED  BY <3>1, <4>1, <4>3 DEF Working
      <3>2. CASE u # t
        BY <2>2, <2>7, <3>2 DEF DataInv, JobInv, Working, Work, Entries
      <3> QED  BY <3>1, <3>2
    <2>11. \A u \in Threads : OfCircuit(u)' /\ job'[u].at \notin torn' => job'[u].tb = TbUpdate(bucket'[job'[u].at])
      <3> SUFFICES ASSUME NEW u \in Threads, OfCircuit(u)', job'[u].at \notin torn'
                   PROVE  job'[u].tb = TbUpdate(bucket'[job'[u].at])
        OBVIOUS
      <3>1. CASE u = t
        BY <2>2, <2>3, <2>8, <3>1
      <3>2. CASE u # t
        BY <2>2, <2>4, <2>7, <3>2 DEF DataInv, JobInv
      <3> QED  BY <3>1, <3>2
    <2>12. ASSUME NEW u \in Threads \ {t}, OfCircuit(t)', OfCircuit(u)', job'[t].at = job'[u].at
           PROVE  job'[t].at \in torn'
      <3>1. job[u].at = x /\ job[u].step = "police"
        BY <2>2, <2>3, <2>7, <2>12 DEF OfCircuit
      <3> QED  BY <1>4, <2>2, <2>3, <2>8, <2>12, <3>1
    <2>13. ASSUME NEW u \in Threads, NEW w \in Threads, u # w, OfCircuit(u)', OfCircuit(w)', job'[u].at = job'[w].at
           PROVE  job'[u].at \in torn'
      <3>1. CASE u = t
        BY <2>12, <2>13, <3>1
      <3>2. CASE w = t
        BY <2>12, <2>13, <3>2
      <3>3. CASE u # t /\ w # t
        BY <2>2, <2>4, <2>7, <2>13, <3>3 DEF DataInv, JobInv
      <3> QED  BY <3>1, <3>2, <3>3
    <2> QED  BY <1>1, <2>2, <2>9, <2>10, <2>11, <2>13 DEF JobInv
  <1>5. QED
    BY <1>2, <1>3, <1>4

\* A user frame comes to an idle thread.
LEMMA UserFrameStep ==
    ASSUME DataInv, NEW t \in Threads, job[t] = Idle, NEW x, x[1] \in Ports, NEW f \in SizedFrames,
           UserFrame(t, x, f), UNCHANGED <<conf, reasm, bucket, credit, over, cg, number, down>>
    PROVE  BucketInv' /\ JobInv' /\ PortInv'
  <1> DEFINE joins == [step |-> "join", at |-> x, frame |-> f, ctx |-> reasm[x]]
  <1>1. reasm \in [Entries -> Contexts] /\ job[t].step # "police"
    BY NoWork DEF DataInv, PortInv
  <1>2. \A y \in DOMAIN peer : peer[y] \in 0 .. Quiet
    BY DEF DataInv, PortInv
  <1>3. ASSUME BucketInv', JobInv', \A y \in DOMAIN peer' : peer'[y] \in 0 .. Quiet
        PROVE  BucketInv' /\ JobInv' /\ PortInv'
    BY <1>3 DEF DataInv, PortInv, Entries, Quiet
  <1>4. CASE UNCHANGED <<peer, job, torn>>
    <2>1. BucketInv' /\ JobInv'
      BY <1>4 DEF DataInv, BucketInv, JobInv, Working, Work, OfCircuit, Covered, Entries, Buckets
    <2> QED  BY <1>2, <1>3, <1>4, <2>1 DEF Quiet
  <1>5. CASE Lookup(t, x, f, {})
    BY <1>1, <1>3, <1>5, LookupStep
  <1>6. CASE x \in Entries /\ job' = [job EXCEPT ![t] = joins] /\ UNCHANGED <<peer, torn>>
    <2>1. joins.step # "police" /\ Work(joins)
      BY <1>1, <1>6 DEF Work
    <2> HIDE DEF joins
    <2>2. BucketInv' /\ JobInv'
      BY <1>6, <2>1, TurnsAside
    <2> QED  BY <1>2, <1>3, <1>6, <2>2 DEF Quiet
  <1>7. QED
    BY <1>4, <1>5, <1>6 DEF UserFrame, ReadAsPart

\* The reassembly's result is written.
LEMMA JoinStep ==
    ASSUME DataInv, NEW t \in Threads, Join(t)
    PROVE  BucketInv' /\ JobInv' /\ PortInv'
  <1> DEFINE x == job[t].at
             ctx == job[t].ctx
             f == job[t].frame
             r == Reassemble(ctx, f)
             late == IF TimedOut(ctx) THEN {Id(ctx.frame)} ELSE {}
  <1>1. /\ job[t].step = "join" /\ reasm' = [reasm EXCEPT ![x] = r.ctx]
        /\ UNCHANGED <<conf, number, bucket, cg, down, credit, over>>
        /\ \/ job' = [job EXCEPT ![t] = Idle] /\ UNCHANGED <<peer, torn>>
           \/ Lookup(t, x, r.frame, late)
    BY Zenon DEF Join
  <1>2. x \in Entries /\ x[1] \in Ports /\ ctx \in Contexts /\ f \in SizedFrames
    BY <1>1 DEF DataInv, JobInv, Working, Work
  <1> HIDE DEF x, ctx, f, late
  <1>3. r.ctx \in Contexts /\ r.frame \in SizedFrames
    BY <1>2, ReassembleIs
  <1> HIDE DEF r
  <1>4. reasm' \in [Entries -> Contexts]
    BY <1>1, <1>2, <1>3 DEF DataInv, PortInv
  <1>5. /\ \A y \in DOMAIN peer' : peer'[y] \in 0 .. Quiet
        /\ BucketInv' /\ JobInv'
    <2>1. CASE job' = [job EXCEPT ![t] = Idle] /\ UNCHANGED <<peer, torn>>
      <3>1. BucketInv' /\ JobInv'
        BY <1>1, <2>1, NoWork, TurnsAside
      <3> QED  BY <2>1, <3>1 DEF DataInv, PortInv, Quiet
    <2>2. CASE Lookup(t, x, r.frame, late)
      BY <1>1, <1>2, <1>3, <2>2, LookupStep
    <2> QED  BY <1>1, <2>1, <2>2
  <1>6. QED
    BY <1>1, <1>4, <1>5 DEF DataInv, PortInv, Entries, Quiet

-----------------------------------------------------------------------------
(* From the bucket to the lines. *)

\* A frame of n pieces is judged by what was read of bucket k, which is written.
LEMMA ChargeStep ==
    ASSUME BucketInv, NEW k \in Buckets, NEW tb \in TokenBuckets, NEW n \in Nat, NEW de \in BOOLEAN,
           NEW congested \in BOOLEAN, k \notin torn => TbUpdate(tb) = TbUpdate(bucket[k]),
           bucket' = [bucket EXCEPT ![k] = Police(TbUpdate(tb), n, de, congested).tb],
           Charge(k, n, Police(TbUpdate(tb), n, de, congested).how), UNCHANGED <<conf, torn>>
    PROVE  BucketInv'
  <1> DEFINE v == Police(TbUpdate(tb), n, de, congested)
             c == credit[k]
             b == bucket[k]
             Less(m) == IF m >= n THEN m - n ELSE 0
             short == c.total < n \/ (v.how = "committed" /\ c.committed < n)
             paid == [committed |-> IF v.how = "committed" THEN Less(c.committed) ELSE c.committed,
                      total |-> Less(c.total)]
  <1>1. /\ b \in TokenBuckets /\ c \in [committed : Nat, total : Nat]
        /\ c.committed \in Nat /\ c.total \in Nat
    BY DEF BucketInv
  <1>2. /\ v.tb \in TokenBuckets
        /\ v.tb.cir = tb.cir /\ v.tb.bc = tb.bc /\ v.tb.be = tb.be
        /\ Available(v.tb) <= Available(tb)
        /\ v.how # "discard" /\ ~BestEffort(tb) =>
              /\ n <= Available(tb) /\ Available(v.tb) <= Available(tb) - n
              /\ v.how = "committed" => Available(tb) >= tb.be + n
    BY PoliceIs
  <1>3. Buckets' = Buckets /\ torn' = torn
    BY DEF Buckets
  <1>4. /\ bucket' = [bucket EXCEPT ![k] = v.tb]
        /\ \/ (v.how = "discard" \/ BestEffort(b)) /\ UNCHANGED <<credit, over>>
           \/ /\ ~(v.how = "discard" \/ BestEffort(b))
              /\ credit' = [credit EXCEPT ![k] = paid]
              /\ over' = IF short THEN over \cup {k} ELSE over
    BY DEF Charge
  <1>5. paid \in [committed : Nat, total : Nat]
    BY <1>1
  <1> HIDE DEF v, paid, short
  <1>6. bucket' \in [Buckets -> TokenBuckets] /\ bucket'[k] = v.tb /\ \A j \in Buckets \ {k} : bucket'[j] = bucket[j]
    BY <1>2, <1>4 DEF BucketInv
  <1>7. /\ credit' \in [Buckets -> [committed : Nat, total : Nat]]
        /\ \A j \in Buckets \ {k} : credit'[j] = credit[j]
        /\ over' \subseteq Buckets /\ over' \subseteq over \cup {k}
    BY <1>4, <1>5 DEF BucketInv
  <1>8. ASSUME k \notin torn PROVE k \notin over' /\ Covered(k)'
    <2>1. /\ TbUpdate(tb) = TbUpdate(b) /\ Available(tb) = Available(b)
          /\ tb.cir = b.cir /\ tb.bc = b.bc /\ tb.be = b.be
      BY <1>1, <1>8, UpdateIs DEF Available
    <2>2. BestEffort(tb) <=> BestEffort(b)
      BY <2>1 DEF BestEffort
    <2>3. Available(b) \in Nat /\ Available(v.tb) \in Nat /\ b.be \in Nat
      BY <1>1, <1>2, UpdateIs DEF Available, TokenBuckets
    <2>4. c.total >= Available(b) /\ c.committed + b.be >= Available(b) /\ k \notin over
      BY <1>8 DEF BucketInv, Covered
    <2>5. CASE v.how = "discard" \/ BestEffort(b)
      <3>1. credit'[k] = c /\ over' = over
        BY <1>4, <2>5
      <3>2. Available(v.tb) <= Available(b) /\ v.tb.be = b.be
        BY <1>2, <2>1
      <3> HIDE DEF b, c
      <3>3. c.total >= Available(v.tb) /\ c.committed + v.tb.be >= Available(v.tb)
        BY <1>1, <2>3, <2>4, <3>2
      <3> QED  BY <1>6, <2>4, <3>1, <3>3 DEF Covered
    <2>6. CASE ~(v.how = "discard" \/ BestEffort(b))
      <3>1. /\ n <= Available(b) /\ Available(v.tb) <= Available(b) - n /\ v.tb.be = b.be
            /\ v.how = "committed" => Available(b) >= b.be + n
        BY <1>2, <2>1, <2>2, <2>6
      <3>2. credit'[k] = paid /\ over' = IF short THEN over \cup {k} ELSE over
        BY <1>4, <2>6 DEF BucketInv
      <3> HIDE DEF b
      <3>3. v.how = "committed" => c.committed >= n
        BY <1>1, <2>3, <2>4, <3>1
      <3>4. ~short
        BY <1>1, <2>3, <2>4, <3>1, <3>3 DEF short
      <3>5. /\ paid.total = c.total - n
            /\ paid.committed = IF v.how = "committed" THEN c.committed - n ELSE c.committed
        BY <1>1, <2>3, <2>4, <3>1, <3>3 DEF paid
      <3> HIDE DEF c
      <3>6. paid.total >= Available(v.tb) /\ paid.committed + v.tb.be >= Available(v.tb)
        BY <1>1, <2>3, <2>4, <3>1, <3>5
      <3> QED  BY <1>6, <2>4, <3>2, <3>4, <3>6 DEF Covered
    <2> QED  BY <2>5, <2>6
  <1>9. ASSUME NEW j \in Buckets \ torn PROVE j \notin over' /\ Covered(j)'
    <2>1. CASE j = k
      BY <1>8, <1>9, <2>1
    <2>2. CASE j # k
      BY <1>6, <1>7, <1>9, <2>2 DEF BucketInv, Covered
    <2> QED  BY <2>1, <2>2
  <1>10. torn \subseteq Buckets
    BY DEF BucketInv
  <1>11. QED
    BY <1>3, <1>6, <1>7, <1>9, <1>10 DEF BucketInv

\* A frame that is cut up has a last fragment, with a number.
LEMMA LastFragment ==
    ASSUME NEW f, Len(f.body) \in Nat, NEW size \in Nat, size > 0, Len(f.body) > size, NEW seq \in Nat,
           NEW frames, frames = CutUp(f, size, seq), NEW part, part = frames[Len(frames)]
    PROVE  part.head.seq \in Nat
  <1> DEFINE len == Len(f.body)
             needed == (len + size - 1) \div size
             most == IF needed < MaxFragments THEN needed ELSE MaxFragments
             Chunk(i) == SubSeq(f.body, (i - 1) * size + 1, IF i * size < len THEN i * size ELSE len)
             Fragment(i) == [f EXCEPT !.body = Chunk(i), !.part = TRUE,
                                      !.head = [b |-> i = 1, e |-> i = needed, seq |-> (seq + i - 1) % FragMod]]
  <1>1. frames = [i \in 1 .. most |-> Fragment(i)]
    BY DEF CutUp
  <1>2. most \in Nat /\ most >= 1
    <2>1. needed \in Nat /\ needed >= 1
      <3> HIDE DEF len
      <3>1. len + size - 1 \in Nat /\ size \in Nat \ {0} /\ len + size - 1 >= size /\ len \in Nat
        BY DEF len
      <3> DEFINE a == len + size - 1
      <3> HIDE DEF a
      <3>2. a \in Nat /\ a >= size /\ size \in Nat \ {0}
        BY <3>1 DEF a
      <3>3. a \div size \in Nat /\ a \div size >= 1
        BY <3>2
      <3> QED  BY <3>3 DEF a
    <2> HIDE DEF needed
    <2> QED  BY <2>1, FragmentAssumption
  <1> HIDE DEF most, Fragment
  <1>3. Len(frames) = most /\ frames[most] = Fragment(most)
    BY <1>1, <1>2
  <1>4. Fragment(most).head.seq = (seq + most - 1) % FragMod
    BY DEF Fragment
  <1>5. (seq + most - 1) % FragMod \in Nat
    <2>1. seq + most - 1 \in Nat
      BY <1>2
    <2> QED  BY <2>1, NumberIs
  <1>6. QED
    BY <1>3, <1>4, <1>5

LEMMA CountedType ==
    ASSUME PortInv, NEW p \in Ports
    PROVE  [cg EXCEPT ![p] = Counted(@)] \in [Ports -> CongestionStates]
  BY CongestionKept DEF PortInv

LEMMA ForwardStep ==
    ASSUME DataInv, NEW t \in Threads, Forward(t)
    PROVE  BucketInv' /\ JobInv' /\ PortInv'
  <1> DEFINE x == job[t].at
             f == job[t].frame
             y == conf.lut[x]
             v == Police(job[t].tb, Len(f.body), f.de, cg[x[1]].congested)
             counted == [cg EXCEPT ![x[1]] = Counted(@)]
             frame == Rewritten(f, y, v.how = "excess")
             frames == CutUp(frame, conf.outSize[y[1]], number[x])
             cuts == [step |-> "cut", at |-> x, frames |-> frames]
  <1>1. /\ OfCircuit(t)
        /\ bucket' = [bucket EXCEPT ![x] = v.tb]
        /\ Charge(x, Len(f.body), v.how)
        /\ UNCHANGED <<conf, torn, reasm, peer, down, number>>
    BY DEF Forward, Polices, OfCircuit
  <1>2. x \in Entries /\ x \in Buckets /\ x[1] \in Ports /\ f \in SizedFrames /\ y[1] \in Ports
    BY <1>1 DEF DataInv, JobInv, Working, Work, Configured, OfCircuit
  <1>3. PICK tb \in TokenBuckets : job[t].tb = TbUpdate(tb)
    BY <1>1 DEF DataInv, JobInv, Working
  <1>4. Len(f.body) \in Nat /\ f.de \in BOOLEAN /\ cg[x[1]].congested \in BOOLEAN
    <2> HIDE DEF x, f
    <2>1. Len(f.body) \in Nat /\ f.de \in BOOLEAN
      BY <1>2 DEF SizedFrames, Frames
    <2>2. cg[x[1]] \in CongestionStates
      BY <1>2 DEF DataInv, PortInv
    <2>3. cg[x[1]].congested \in BOOLEAN
      BY <2>2 DEF CongestionStates
    <2> QED  BY <2>1, <2>3
  <1>5. x \notin torn => TbUpdate(tb) = TbUpdate(bucket[x])
    BY <1>1, <1>3 DEF DataInv, JobInv
  <1>6. BucketInv'
    <2> DEFINE n == Len(f.body)
               de == f.de
               congested == cg[x[1]].congested
    <2>1. /\ n \in Nat /\ de \in BOOLEAN /\ congested \in BOOLEAN
          /\ bucket' = [bucket EXCEPT ![x] = Police(TbUpdate(tb), n, de, congested).tb]
          /\ Charge(x, n, Police(TbUpdate(tb), n, de, congested).how)
      BY <1>1, <1>3, <1>4
    <2> HIDE DEF n, de, congested, x, f, v
    <2> QED  BY <1>1, <1>2, <1>5, <2>1, ChargeStep DEF DataInv
  <1>7. \/ job' = [job EXCEPT ![t] = Idle] /\ (cg' = counted \/ \E lost : cg' = Reported(counted, <<y[1]>>, lost))
        \/ IsCut(f, y) /\ job' = [job EXCEPT ![t] = cuts] /\ cg' = counted
    BY Zenon DEF Forward, Finished
  <1>8. IsCut(f, y) => Work(cuts)
    <2> SUFFICES ASSUME IsCut(f, y) PROVE Work(cuts)
      OBVIOUS
    <2> DEFINE size == conf.outSize[y[1]]
               seq == number[x]
               part == frames[Len(frames)]
    <2>1. size \in Nat /\ size > 0 /\ Len(f.body) > size
      BY <1>2 DEF IsCut, DataInv, Configured
    <2>2. frame.body = f.body
      BY <1>2 DEF Rewritten, SizedFrames, Frames
    <2>3. seq \in Nat
      BY <1>2, FragmentAssumption DEF DataInv, PortInv
    <2>4. part.head.seq \in Nat
      <3> DEFINE g == frame
                 fs == frames
      <3>1. Len(g.body) \in Nat /\ Len(g.body) > size /\ fs = CutUp(g, size, seq) /\ part = fs[Len(fs)]
        BY <1>4, <2>1, <2>2
      <3> HIDE DEF g, fs, size, seq, part
      <3> QED  BY <2>1, <2>3, <3>1, LastFragment
    <2>5. cuts.step = "cut" /\ cuts.at = x /\ cuts.frames = frames
      OBVIOUS
    <2> HIDE DEF cuts, frames, frame, x
    <2> QED  BY <1>2, <2>4, <2>5 DEF Work
  <1>9. JobInv'
    <2>1. \A u \in Threads \ {t} : OfCircuit(u) /\ job[u].at \notin torn => job[u].at # x
      BY <1>1 DEF DataInv, JobInv
    <2>2. \A j \in Buckets : j # x => bucket'[j] = bucket[j]
      BY <1>1 DEF DataInv, BucketInv
    <2>3. PICK j : job' = [job EXCEPT ![t] = j] /\ j.step # "police" /\ Work(j)
      <3>1. cuts.step # "police"
        OBVIOUS
      <3> HIDE DEF cuts
      <3> QED  BY <1>7, <1>8, <3>1, NoWork
    <2>4. DataInv /\ UNCHANGED <<conf, torn>>
      BY <1>1
    <2> HIDE DEF x, f, y, v, counted, frame, frames, cuts
    <2> QED  BY <2>1, <2>2, <2>3, <2>4, TurnsTo
  <1>10. counted \in [Ports -> CongestionStates]
    BY <1>2, CountedType DEF DataInv
  <1>11. cg' \in [Ports -> CongestionStates]
    <2>1. 1 \in Nat /\ DOMAIN <<y[1]>> = 1 .. 1
      OBVIOUS
    <2> HIDE DEF counted, y, cuts
    <2>2. \A lost : Reported(counted, <<y[1]>>, lost) \in [Ports -> CongestionStates]
      BY <1>10, <2>1, ReportedType
    <2> QED  BY <1>7, <1>10, <2>2
  <1>12. PortInv'
    BY <1>1, <1>11 DEF DataInv, PortInv, Entries, Quiet
  <1>13. QED
    BY <1>6, <1>9, <1>12

LEMMA NumberStep ==
    ASSUME DataInv, NEW t \in Threads, Number(t)
    PROVE  BucketInv' /\ JobInv' /\ PortInv'
  <1> DEFINE j == [job[t] EXCEPT !.step = "send"]
             part == job[t].frames[Len(job[t].frames)]
  <1>1. /\ job[t].step = "cut" /\ number' = [number EXCEPT ![job[t].at] = NextSeq(part.head.seq)]
        /\ job' = [job EXCEPT ![t] = j]
        /\ UNCHANGED <<conf, torn, reasm, bucket, cg, peer, down, credit, over>>
    BY DEF Number
  <1>2. job[t].at \in Entries /\ part.head.seq \in Nat
    BY <1>1 DEF DataInv, JobInv, Working, Work
  <1>3. BucketInv' /\ JobInv'
    <2>1. j.step \notin {"police", "join", "cut"}
      BY DEF j
    <2>2. Work(j)
      BY <2>1 DEF Work
    <2> HIDE DEF j
    <2> QED  BY <1>1, <2>1, <2>2, TurnsAside
  <1>4. number' \in [Entries -> 0 .. FragMod - 1]
    <2> HIDE DEF part
    <2>1. NextSeq(part.head.seq) \in 0 .. FragMod - 1
      BY <1>2, NumberIs
    <2> QED  BY <1>1, <1>2, <2>1 DEF DataInv, PortInv
  <1>5. QED
    BY <1>1, <1>3, <1>4 DEF DataInv, PortInv, Entries, Quiet

LEMMA TransmitStep ==
    ASSUME DataInv, NEW t \in Threads, Transmit(t)
    PROVE  BucketInv' /\ JobInv' /\ PortInv'
  <1> DEFINE j == [job[t] EXCEPT !.frames = Tail(@)]
             to == conf.lut[job[t].at][1]
  <1>1. /\ job[t].step = "send"
        /\ UNCHANGED <<conf, torn, reasm, number, bucket, peer, down, credit, over>>
        /\ \/ job' = [job EXCEPT ![t] = j] /\ UNCHANGED cg
           \/ job' = [job EXCEPT ![t] = Idle] /\ cg' = Reported(cg, <<to>>, {})
    BY DEF Transmit, Finished
  <1>2. j.step = "send"
    BY <1>1
  <1>3. j.step # "police" /\ Work(j)
    BY <1>2 DEF Work
  <1>4. cg' \in [Ports -> CongestionStates]
    <2>1. cg \in [Ports -> CongestionStates]
      BY DEF DataInv, PortInv
    <2>2. 1 \in Nat /\ DOMAIN <<to>> = 1 .. 1
      OBVIOUS
    <2> HIDE DEF to
    <2>3. Reported(cg, <<to>>, {}) \in [Ports -> CongestionStates]
      BY <2>1, <2>2, ReportedType
    <2> QED  BY <1>1, <2>1, <2>3
  <1>5. BucketInv' /\ JobInv'
    <2> HIDE DEF j
    <2> QED  BY <1>1, <1>3, NoWork, TurnsAside
  <1>6. QED
    BY <1>1, <1>4, <1>5 DEF DataInv, PortInv, Entries, Quiet

LEMMA ReplicateStep ==
    ASSUME DataInv, NEW t \in Threads, Replicate(t)
    PROVE  BucketInv' /\ JobInv' /\ PortInv'
  <1> DEFINE x == job[t].at
             f == job[t].frame
             g == GroupAt(conf.groups, x)
             v == Police(TbUpdate(bucket[g.root]), Len(f.body), f.de, cg[x[1]].congested)
             counted == [cg EXCEPT ![x[1]] = Counted(@)]
             ends == Copies(g, x, down)
             to == [i \in DOMAIN ends |-> ends[i][1]]
  <1>1. /\ job[t].step = "police" /\ IsGroupEnd(conf.groups, x) /\ job' = [job EXCEPT ![t] = Idle]
        /\ UNCHANGED <<conf, torn, reasm, peer, down, number>>
    BY DEF Replicate, Finished, Polices
  <1>2. \/ UNCHANGED <<bucket, cg, credit, over>>
        \/ /\ bucket' = [bucket EXCEPT ![g.root] = v.tb]
           /\ Charge(g.root, Len(f.body), v.how)
           /\ cg' = counted \/ \E lost : cg' = Reported(counted, to, lost)
    BY Zenon DEF Replicate
  <1>3. g \in Range(conf.groups) /\ IsGroupEnd(conf.groups, g.root) /\ g.root \in Buckets /\ g.members \in Seq(Range(g.members))
    BY <1>1, GroupIs DEF DataInv, Configured
  <1>4. x[1] \in Ports /\ f \in SizedFrames
    BY <1>1 DEF DataInv, JobInv, Working, Work
  <1>5. Len(f.body) \in Nat /\ f.de \in BOOLEAN /\ cg[x[1]].congested \in BOOLEAN /\ bucket[g.root] \in TokenBuckets
    BY <1>3, <1>4 DEF DataInv, PortInv, BucketInv, CongestionStates, SizedFrames, Frames
  <1>6. BucketInv'
    <2>1. CASE UNCHANGED <<bucket, cg, credit, over>>
      BY <1>1, <2>1 DEF DataInv, BucketInv, Covered, Buckets
    <2>2. CASE bucket' = [bucket EXCEPT ![g.root] = v.tb] /\ Charge(g.root, Len(f.body), v.how)
      <3> DEFINE n == Len(f.body)
                 de == f.de
                 congested == cg[x[1]].congested
                 k == g.root
                 tb == bucket[k]
      <3>1. /\ n \in Nat /\ de \in BOOLEAN /\ congested \in BOOLEAN /\ k \in Buckets /\ tb \in TokenBuckets
            /\ bucket' = [bucket EXCEPT ![k] = Police(TbUpdate(tb), n, de, congested).tb]
            /\ Charge(k, n, Police(TbUpdate(tb), n, de, congested).how)
            /\ TbUpdate(tb) = TbUpdate(bucket[k])
        BY <1>3, <1>5, <2>2
      <3> HIDE DEF n, de, congested, k, tb
      <3> QED  BY <1>1, <3>1, ChargeStep DEF DataInv
    <2> QED  BY <1>2, <2>1, <2>2
  <1>7. JobInv'
    <2> DEFINE k == g.root
    <2>1. \A u \in Threads \ {t} : OfCircuit(u) /\ job[u].at \notin torn => job[u].at # k
      BY <1>3 DEF OfCircuit
    <2>2. \A j \in Buckets : j # k => bucket'[j] = bucket[j]
      BY <1>2 DEF DataInv, BucketInv
    <2>3. Idle.step # "police" /\ Work(Idle)
      BY NoWork
    <2>4. job' = [job EXCEPT ![t] = Idle] /\ UNCHANGED <<conf, torn>>
      BY <1>1
    <2> HIDE DEF k
    <2> QED  BY <2>1, <2>2, <2>3, <2>4, TurnsTo
  <1>8. cg' \in [Ports -> CongestionStates]
    <2>1. cg \in [Ports -> CongestionStates] /\ counted \in [Ports -> CongestionStates]
      BY <1>4, CountedType DEF DataInv, PortInv
    <2>2. PICK n \in Nat : DOMAIN ends = 1 .. n
      BY <1>3, CopiesType
    <2>3. DOMAIN to = 1 .. n
      BY <2>2
    <2> HIDE DEF counted, to
    <2>4. \A lost : Reported(counted, to, lost) \in [Ports -> CongestionStates]
      BY <2>1, <2>3, ReportedType
    <2> QED  BY <1>2, <2>1, <2>4
  <1>9. PortInv'
    BY <1>1, <1>8 DEF DataInv, PortInv, Entries, Quiet
  <1>10. QED
    BY <1>6, <1>7, <1>9

-----------------------------------------------------------------------------
(* The other steps, and what follows. *)

LEMMA FastReceiveStep ==
    ASSUME DataInv, NEW p \in Ports, FastReceive(p)
    PROVE  BucketInv' /\ JobInv' /\ PortInv'
  <1> DEFINE f == Head(line[p])
             x == <<p, f.dlci>>
  <1>1. /\ job["fast"] = Idle /\ "fast" \in Threads /\ x[1] \in Ports
        /\ UNCHANGED <<conf, reasm, bucket, credit, over, cg, number, down>>
        /\ UNCHANGED <<peer, job, torn>> \/ UserFrame("fast", x, f)
    BY DEF FastReceive, Threads
  <1>2. f \in SizedFrames
    BY LineFrame DEF DataInv, QueueInv, RingInv, FastReceive
  <1> HIDE DEF f, x
  <1>3. CASE UNCHANGED <<peer, job, torn>>
    BY <1>1, <1>3 DEF DataInv, BucketInv, JobInv, PortInv, Working, Work, OfCircuit, Covered, Entries, Buckets, Quiet
  <1>4. CASE UserFrame("fast", x, f)
    BY <1>1, <1>2, <1>4, UserFrameStep
  <1>5. QED
    BY <1>1, <1>3, <1>4

LEMMA SlowReceiveStep ==
    ASSUME DataInv, SlowReceive
    PROVE  BucketInv' /\ JobInv' /\ PortInv'
  <1> DEFINE p == First(queue).port
             f == First(queue).frame
             x == <<p, f.dlci>>
  <1>1. /\ job["slow"] = Idle /\ "slow" \in Threads
        /\ UNCHANGED <<conf, reasm, bucket, credit, over, cg, number, down>>
        /\ \/ /\ MarkPeers(p, f.list) \/ UNCHANGED peer
              /\ UNCHANGED <<job, torn>>
           \/ UserFrame("slow", x, f)
    BY DEF SlowReceive, Threads
  <1>2. p \in Ports /\ f \in SizedFrames
    BY QueuedFrame DEF DataInv, SlowReceive
  <1>3. x[1] \in Ports
    BY <1>2
  <1>4. ASSUME MarkPeers(p, f.list) \/ UNCHANGED peer
        PROVE  \A y \in DOMAIN peer' : peer'[y] \in 0 .. Quiet
    <2>1. CASE UNCHANGED peer
      BY <2>1 DEF DataInv, PortInv, Quiet
    <2>2. CASE MarkPeers(p, f.list)
      <3>1. 0 \in 0 .. Quiet /\ Quiet \in 0 .. Quiet
        BY DataPathAssumption DEF Quiet
      <3> QED  BY <2>2, <3>1 DEF MarkPeers, DataInv, PortInv
    <2> QED  BY <1>4, <2>1, <2>2
  <1> HIDE DEF p, f, x
  <1>5. CASE (MarkPeers(p, f.list) \/ UNCHANGED peer) /\ UNCHANGED <<job, torn>>
    BY <1>1, <1>4, <1>5 DEF DataInv, BucketInv, JobInv, PortInv, Working, Work, OfCircuit, Covered, Entries, Buckets, Quiet
  <1>6. CASE UserFrame("slow", x, f)
    BY <1>1, <1>2, <1>3, <1>6, UserFrameStep
  <1>7. QED
    BY <1>1, <1>5, <1>6

\* In a second an ideal bucket gains as much as a bucket can.
LEMMA TickStep ==
    ASSUME DataInv, Tick
    PROVE  BucketInv' /\ JobInv' /\ PortInv'
  <1> DEFINE Refill(m, cir, max) == IF m + cir < max THEN m + cir ELSE max
             After(k) == [committed |-> Refill(credit[k].committed, bucket[k].cir, bucket[k].bc),
                          total |-> Refill(credit[k].total, bucket[k].cir, Size(bucket[k]))]
  <1>1. /\ UNCHANGED <<conf, job, down, number, over, torn>>
        /\ \A t \in Threads : job[t] = Idle
        /\ bucket' = [k \in Buckets |-> Older(bucket[k])]
        /\ credit' = [k \in Buckets |-> After(k)]
        /\ reasm' = [x \in Entries |-> ReasmOlder(reasm[x])]
        /\ cg' = [p \in Ports |-> CongestionOlder(cg[p])]
        /\ peer' = [y \in DOMAIN peer |-> IF peer[y] <= CllmLife THEN peer[y] + 1 ELSE peer[y]]
    <2>1. DOMAIN bucket = Buckets /\ DOMAIN credit = Buckets
      BY DEF DataInv, BucketInv
    <2> QED  BY <2>1 DEF Tick
  <1>2. ASSUME NEW k \in Buckets
        PROVE  /\ Older(bucket[k]) \in TokenBuckets /\ After(k) \in [committed : Nat, total : Nat]
               /\ Covered(k) => /\ After(k).total >= Available(Older(bucket[k]))
                                /\ After(k).committed + Older(bucket[k]).be >= Available(Older(bucket[k]))
    <2> DEFINE b == bucket[k]
               c == credit[k]
               o == Older(b)
    <2>1. b \in TokenBuckets /\ c \in [committed : Nat, total : Nat]
      BY DEF DataInv, BucketInv
    <2>2. b.cir \in Nat /\ b.bc \in Nat /\ b.be \in Nat /\ c.committed \in Nat /\ c.total \in Nat
      BY <2>1 DEF TokenBuckets
    <2>3. /\ o \in TokenBuckets /\ o.be = b.be
          /\ Available(o) <= Available(b) + b.cir /\ Available(o) <= b.bc + b.be
      BY <2>1, OlderIs DEF Size
    <2>4. Available(o) \in Nat /\ Available(b) \in Nat
      BY <2>1, <2>3, UpdateIs DEF Available, TokenBuckets
    <2>5. /\ After(k).committed = Refill(c.committed, b.cir, b.bc)
          /\ After(k).total = Refill(c.total, b.cir, b.bc + b.be)
      BY DEF Size
    <2>6. After(k) \in [committed : Nat, total : Nat]
      BY <2>2 DEF Size
    <2>7. Covered(k) => c.total >= Available(b) /\ c.committed + b.be >= Available(b)
      BY DEF Covered
    <2> HIDE DEF b, c, o, After
    <2>8. ASSUME c.total >= Available(b), c.committed + b.be >= Available(b)
          PROVE  After(k).total >= Available(o) /\ After(k).committed + o.be >= Available(o)
      BY <2>2, <2>3, <2>4, <2>5, <2>8
    <2> QED  BY <2>3, <2>6, <2>7, <2>8 DEF o, b
  <1> HIDE DEF After
  <1>3. BucketInv'
    <2>1. Buckets' = Buckets
      BY <1>1 DEF Buckets
    <2>2. bucket' \in [Buckets -> TokenBuckets] /\ credit' \in [Buckets -> [committed : Nat, total : Nat]]
      BY <1>1, <1>2
    <2>3. \A k \in Buckets \ torn : k \notin over /\ Covered(k)'
      BY <1>1, <1>2 DEF DataInv, BucketInv, Covered
    <2> QED  BY <1>1, <2>1, <2>2, <2>3 DEF DataInv, BucketInv
  <1>4. JobInv'
    BY <1>1 DEF DataInv, JobInv, Working, Work, OfCircuit, Idle
  <1>5. PortInv'
    <2>1. cg' \in [Ports -> CongestionStates]
      BY <1>1, CongestionKept DEF DataInv, PortInv
    <2>2. \A c \in Contexts : ReasmOlder(c) \in Contexts
      <3> SUFFICES ASSUME NEW c \in Contexts PROVE ReasmOlder(c) \in Contexts
        OBVIOUS
      <3> DEFINE age == IF c.busy /\ c.age <= ReasmLife THEN c.age + 1 ELSE c.age
      <3>1. ReasmOlder(c) = [c EXCEPT !.age = age]
        BY DEF ReasmOlder
      <3>2. age \in Nat
        BY DEF Contexts
      <3> HIDE DEF age
      <3> QED  BY <3>1, <3>2 DEF Contexts
    <2>3. reasm' \in [Entries -> Contexts]
      BY <1>1, <2>2 DEF DataInv, PortInv
    <2>4. \A y \in DOMAIN peer' : peer'[y] \in 0 .. Quiet
      BY <1>1, DataPathAssumption DEF DataInv, PortInv, Quiet
    <2> QED  BY <1>1, <2>1, <2>3, <2>4 DEF DataInv, PortInv, Entries, Quiet
  <1>6. QED
    BY <1>3, <1>4, <1>5

LEMMA PollStep ==
    ASSUME DataInv, NEW p \in Ports, Poll(p)
    PROVE  BucketInv' /\ JobInv' /\ PortInv'
  <1> DEFINE checked == RateCheck(cg[p])
             some == AtPort(p) # {}
  <1>1. /\ UNCHANGED <<conf, job, reasm, bucket, down, number, credit, over, torn>>
        /\ cg' = [cg EXCEPT ![p] = CllmTimer(checked, some)]
        /\ peer' = [y \in DOMAIN peer |-> IF y \in Expired(p) THEN Quiet ELSE peer[y]]
    BY DEF Poll
  <1>2. CllmTimer(checked, some) \in CongestionStates
    <2>1. checked \in CongestionStates /\ some \in BOOLEAN
      BY CongestionKept DEF DataInv, PortInv
    <2> HIDE DEF checked, some
    <2> QED  BY <2>1, CongestionKept
  <1> HIDE DEF checked, some
  <1>3. cg' \in [Ports -> CongestionStates]
    BY <1>1, <1>2 DEF DataInv, PortInv
  <1>4. \A y \in DOMAIN peer' : peer'[y] \in 0 .. Quiet
    BY <1>1, DataPathAssumption DEF DataInv, PortInv, Quiet
  <1>5. BucketInv' /\ JobInv'
    BY <1>1 DEF DataInv, BucketInv, JobInv, Working, Work, OfCircuit, Covered, Entries, Buckets
  <1>6. PortInv'
    BY <1>1, <1>3, <1>4 DEF DataInv, PortInv, Entries, Quiet
  <1>7. QED
    BY <1>5, <1>6

LEMMA InvariantStarts == Init => DataInv
  <1> SUFFICES ASSUME Init PROVE DataInv
    OBVIOUS
  <1>1. conf \in {Configure(c) : c \in Scenarios}
    BY DEF Init
  <1>2. Configured
    BY <1>1, ScenarioAssumption DEF Configured, Entries, Buckets
  <1>3. QueueInv
    BY InitRing DEF QueueInv, Queue!Init
  <1>4. BucketInv
    <2>1. /\ bucket = [k \in Buckets |-> IF k \in Roots THEN GroupBucket(conf.tb[k]) ELSE Bucket(conf.tb[k])]
          /\ credit = [k \in Buckets |-> [committed |-> bucket[k].bc, total |-> Size(bucket[k])]]
          /\ over = {} /\ torn = {}
      BY DEF Init, Buckets
    <2>2. ASSUME NEW k \in Buckets
          PROVE  /\ bucket[k] \in TokenBuckets /\ bucket[k].tokens = Size(bucket[k])
                 /\ credit[k] \in [committed : Nat, total : Nat] /\ Covered(k)
      <3>1. bucket[k] \in TokenBuckets /\ bucket[k].tokens = Size(bucket[k])
        <4>1. conf.tb[k] \in [cir : Nat, bc : Nat, be : Nat]
          BY <1>2 DEF Configured
        <4>2. bucket[k] = GroupBucket(conf.tb[k]) \/ bucket[k] = Bucket(conf.tb[k])
          BY <2>1
        <4> QED  BY <4>1, <4>2, BucketStarts, GroupBucketStarts
      <3> DEFINE b == bucket[k]
      <3>2. b.bc \in Nat /\ b.be \in Nat /\ b.tokens \in Nat /\ credit[k].committed = b.bc /\ credit[k].total = b.bc + b.be
        BY <2>1, <3>1 DEF TokenBuckets, Size
      <3>3. credit[k] \in [committed : Nat, total : Nat]
        BY <2>1, <3>2 DEF Size
      <3>4. Available(b) \in Nat /\ Available(b) <= b.bc + b.be
        BY <3>1, UpdateIs DEF Available, TokenBuckets, Size
      <3> HIDE DEF b
      <3>5. credit[k].total >= Available(b) /\ credit[k].committed + b.be >= Available(b)
        BY <3>2, <3>4
      <3> QED  BY <3>1, <3>3, <3>5 DEF Covered, b
    <2>3. bucket \in [Buckets -> TokenBuckets] /\ credit \in [Buckets -> [committed : Nat, total : Nat]]
      BY <2>1, <2>2
    <2> QED  BY <2>1, <2>2, <2>3 DEF BucketInv
  <1>5. JobInv
    BY NoWork DEF Init, JobInv, Working, OfCircuit
  <1>6. PortInv
    <2>1. \A p \in Ports : CongestionInit(conf.cg[p]) \in CongestionStates
      BY <1>2 DEF Configured, CongestionInit, CongestionStates
    <2>2. NoReasm \in Contexts
      BY FragmentAssumption DEF NoReasm, Contexts
    <2>3. 0 \in 0 .. FragMod - 1 /\ Quiet \in 0 .. Quiet
      BY FragmentAssumption, DataPathAssumption DEF Quiet
    <2> QED  BY <2>1, <2>2, <2>3 DEF Init, PortInv
  <1>7. QED
    BY <1>2, <1>3, <1>4, <1>5, <1>6 DEF DataInv

LEMMA InvariantKept == DataInv /\ [Next]_vars => DataInv'
  <1> SUFFICES ASSUME DataInv, [Next]_vars PROVE DataInv'
    OBVIOUS
  <1>1. QueueInv'
    BY QueueStep DEF DataInv
  <1>2. ASSUME UNCHANGED <<job, reasm, number, bucket, cg, peer, credit, over, torn, conf>>, down' \subseteq Ports
        PROVE  BucketInv' /\ JobInv' /\ PortInv'
    BY <1>2 DEF DataInv, BucketInv, JobInv, PortInv, Working, Work, OfCircuit, Covered, Entries, Buckets, Quiet
  <1>3. ASSUME NEW p \in Ports, Lose(p) PROVE BucketInv' /\ JobInv' /\ PortInv'
    BY <1>2, <1>3 DEF Lose, DataInv, PortInv
  <1>4. ASSUME NEW p \in Ports, Flap(p) PROVE BucketInv' /\ JobInv' /\ PortInv'
    <2>1. down' \subseteq Ports
      BY <1>4 DEF Flap, DataInv, PortInv
    <2> QED  BY <1>2, <1>4, <2>1 DEF Flap
  <1>5. ASSUME UNCHANGED vars PROVE BucketInv' /\ JobInv' /\ PortInv'
    BY <1>2, <1>5 DEF vars, DataInv, PortInv
  <1>6. BucketInv' /\ JobInv' /\ PortInv'
    <2>1. CASE Next
      BY <1>3, <1>4, <2>1, FastReceiveStep, SlowReceiveStep, JoinStep, ForwardStep, NumberStep,
         TransmitStep, ReplicateStep, TickStep, PollStep DEF Next
    <2> QED  BY <1>5, <2>1
  <1>7. UNCHANGED conf
    BY DEF Next, vars, FastReceive, SlowReceive, Join, Forward, Number, Transmit, Replicate, Polices, Poll, Tick, Lose, Flap
  <1>8. Configured'
    BY <1>7 DEF DataInv, Configured, Entries, Buckets
  <1>9. QED
    BY <1>1, <1>6, <1>8 DEF DataInv

\* What the ports, the circuits and the threads hold has its type: no bucket has
\* more than Bc + Be, no reassembled frame is longer than the buffer, a count of
\* failed writes stops at its limit, whatever comes in and however long.
THEOREM TypeCorrect == Spec => []TypeOK
  <1>1. DataInv => TypeOK
    <2> SUFFICES ASSUME DataInv PROVE TypeOK
      OBVIOUS
    <2>1. \A p \in Ports : cg[p].frames \in Nat /\ cg[p].congested \in BOOLEAN /\ cg[p].fails \in 0 .. cg[p].limit
      BY DEF DataInv, PortInv, CongestionStates
    <2>2. \A k \in Buckets : bucket[k].tokens \in 0 .. Size(bucket[k]) /\ bucket[k].age \in 0 .. MaxIdle
      BY DEF DataInv, BucketInv, TokenBuckets, Size
    <2>3. queue.head \in 0 .. QueueSize - 1 /\ queue.tail \in 0 .. QueueSize - 1
      BY DEF DataInv, QueueInv, RingInv, Rings
    <2>4. \A x \in Entries : reasm[x].expected \in 0 .. FragMod - 1 /\ Len(reasm[x].frame.body) <= MaxPieces
      <3>1. Len(NoFrame.body) <= MaxPieces
        BY FragmentAssumption DEF NoFrame
      <3> QED  BY <3>1 DEF DataInv, PortInv, Contexts, SizedFrames
    <2> QED  BY <2>1, <2>2, <2>3, <2>4 DEF TypeOK, DataInv, PortInv, BucketInv
  <1>2. QED
    BY <1>1, InvariantStarts, InvariantKept, PTL DEF Spec

\* A circuit or a group never passes more than an ideal bucket with its Bc, Be
\* and CIR would, nor more without DE than one of Bc and CIR, as long as no two
\* threads have its bucket in hand at once (cgst_mgnt.c).
THEOREM BucketsConform == Spec => []Conforms
  <1>1. DataInv => Conforms
    BY DEF DataInv, BucketInv, Conforms
  <1>2. QED
    BY <1>1, InvariantStarts, InvariantKept, PTL DEF Spec
=============================================================================
