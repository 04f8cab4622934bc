----------------------------- MODULE LmiProofs ------------------------------
(***************************************************************************)
(* Proofs about two LMI ends, for every width of the sequence numbers,     *)
(* every interval, any circuits and any number of faults.                  *)
(***************************************************************************)
EXTENDS LmiLink, FiniteSetTheorems, SequenceTheorems, TLAPS

Windows == [1 .. N393 -> BOOLEAN]
Indices == {1} \cup 1 .. Cardinality(Circuits)
PortType ==
    [dceDown : BOOLEAN, dceErrors : Windows, dceSend : Numbers, dceLastFull : BOOLEAN,
     segment : BOOLEAN, index : Indices,
     dteOn : BOOLEAN, dteDown : BOOLEAN, dteErrors : Windows, dteSend : Numbers, dteEcho : Numbers,
     dteEvents : Int, answered : BOOLEAN, lastFull : BOOLEAN,
     psf : 0 .. N391, report : {"full", "liv", "cont", "async"},
     t391 : 0 .. T391Off, t392 : 0 .. T392,
     table : SUBSET Circuits,
     new : [Circuits -> BOOLEAN], txsn : [Circuits -> Numbers],
     active : [Circuits -> BOOLEAN], reported : [Circuits -> BOOLEAN]]

Message(m) ==
    /\ m.type \in {"enquiry", "status"} /\ m.report \in {"full", "liv", "cont", "async"}
    /\ m.send \in Numbers /\ m.recv \in Numbers

\* A finite sequence of messages.
Queue(q) == \E S : q \in Seq(S) /\ \A m \in S : Message(m)

LEMMA PowerType == 2 ^ Width \in Nat /\ 2 ^ Width >= 4
  <1>1. Width = 2 => 2 ^ Width = 4
    OBVIOUS
  <1>2. Width = 3 => 2 ^ Width = 8
    OBVIOUS
  <1>3. Width = 4 => 2 ^ Width = 16
    OBVIOUS
  <1>4. Width = 5 => 2 ^ Width = 32
    OBVIOUS
  <1>5. Width = 6 => 2 ^ Width = 64
    OBVIOUS
  <1>6. Width = 7 => 2 ^ Width = 128
    OBVIOUS
  <1>7. Width = 8 => 2 ^ Width = 256
    OBVIOUS
  <1> DEFINE p == 2 ^ Width
  <1>8. p \in {4, 8, 16, 32, 64, 128, 256}
    BY <1>1, <1>2, <1>3, <1>4, <1>5, <1>6, <1>7, LmiAssumption
  <1> HIDE DEF p
  <1>9. p \in Nat /\ p >= 4
    BY <1>8
  <1>10. QED
    BY <1>9 DEF p

LEMMA NumberTypes ==
    /\ SeqMax \in Nat /\ SeqMax >= 3
    /\ 0 \in Numbers /\ 1 \in Numbers
    /\ \A n \in Numbers : Inc(n) \in Numbers
  <1>1. SeqMax \in Nat /\ SeqMax >= 3
    BY PowerType DEF SeqMax
  <1>2. QED
    BY <1>1 DEF Numbers, Inc

LEMMA ConstantTypes ==
    /\ N391 \in Nat /\ N391 >= 1 /\ N392 \in Nat /\ N392 >= 1 /\ N393 \in Nat /\ N393 >= 1
    /\ T391 \in Nat /\ T391 >= 1 /\ T392 \in Nat /\ T392 >= 1
    /\ T391Off = T391 + 1
    /\ AllErrors \in Windows
  BY LmiAssumption DEF T391Off, AllErrors, Windows

-----------------------------------------------------------------------------
(* The window of events. *)

LEMMA RecordType ==
    ASSUME NEW errors \in Windows, NEW err \in BOOLEAN
    PROVE  /\ Record(errors, err) \in Windows
           /\ Record(errors, err)[1] = err
           /\ \A i \in 2 .. N393 : Record(errors, err)[i] = errors[i - 1]
  <1> DEFINE q == SubSeq(errors, 1, N393 - 1)
  <1>1. errors \in Seq(BOOLEAN) /\ Len(errors) = N393
    BY ConstantTypes DEF Windows
  <1>2. q \in Seq(BOOLEAN) /\ Len(q) = N393 - 1 /\ \A i \in 1 .. N393 - 1 : q[i] = errors[i]
    BY <1>1, ConstantTypes
  <1> HIDE DEF q
  <1>3. <<err>> \in Seq(BOOLEAN) /\ Len(<<err>>) = 1 /\ <<err>>[1] = err
    OBVIOUS
  <1> DEFINE r == <<err>> \o q
  <1>4. r \in Seq(BOOLEAN) /\ Len(r) = N393 /\ r[1] = err /\ \A i \in 2 .. N393 : r[i] = q[i - 1]
    BY <1>2, <1>3, ConstantTypes
  <1> HIDE DEF r
  <1>5. r \in Windows /\ r[1] = err /\ \A i \in 2 .. N393 : r[i] = errors[i - 1]
    BY <1>2, <1>4, ConstantTypes DEF Windows
  <1>6. QED
    BY <1>5 DEF Record, r, q

\* How many of the N393 events were errors is at least a run of errors and
\* at most what a run without errors leaves.
LEMMA CountErrors ==
    ASSUME NEW errors \in Windows, NEW n \in 0 .. N393
    PROVE  LET bad == {i \in 1 .. N393 : errors[i]}
           IN /\ Cardinality(bad) \in Nat
              /\ (\A i \in 1 .. N393 : i <= n => errors[i]) => Cardinality(bad) >= n
              /\ (\A i \in 1 .. N393 : i <= n => ~errors[i]) => Cardinality(bad) <= N393 - n
  <1> DEFINE bad == {i \in 1 .. N393 : errors[i]}
  <1>0. n \in Nat /\ n <= N393 /\ n \in Int /\ N393 \in Int /\ 1 \in Int /\ n + 1 \in Int
    BY ConstantTypes
  <1>1. IsFiniteSet(1 .. N393) /\ bad \in SUBSET (1 .. N393)
    BY <1>0, FS_Interval
  <1>2. IsFiniteSet(bad) /\ Cardinality(bad) \in Nat
    BY <1>1, FS_Subset, FS_CardinalityType
  <1>3. ASSUME \A i \in 1 .. N393 : i <= n => errors[i] PROVE Cardinality(bad) >= n
    <2>1. 1 .. n \in SUBSET bad
      BY <1>0, <1>3
    <2>2. Cardinality(1 .. n) = n
      BY <1>0, FS_Interval
    <2>3. Cardinality(1 .. n) <= Cardinality(bad)
      BY <1>2, <2>1, FS_Subset
    <2> QED  BY <1>2, <2>2, <2>3
  <1>4. ASSUME \A i \in 1 .. N393 : i <= n => ~errors[i] PROVE Cardinality(bad) <= N393 - n
    <2>1. bad \in SUBSET (n + 1 .. N393)
      BY <1>0, <1>4
    <2>2. IsFiniteSet(n + 1 .. N393) /\ Cardinality(n + 1 .. N393) = N393 - n
      <3> DEFINE m == n + 1
      <3>1. m \in Int /\ IsFiniteSet(m .. N393)
            /\ Cardinality(m .. N393) = IF m > N393 THEN 0 ELSE N393 - m + 1
        <4>1. m \in Int
          BY <1>0
        <4> HIDE DEF m
        <4> QED  BY <1>0, <4>1, FS_Interval
      <3>2. (IF m > N393 THEN 0 ELSE N393 - m + 1) = N393 - n
        BY <1>0
      <3> QED  BY <3>1, <3>2
    <2>3. Cardinality(bad) <= Cardinality(n + 1 .. N393)
      BY <2>1, <2>2, FS_Subset
    <2> QED  BY <1>2, <2>2, <2>3
  <1>5. QED
    BY <1>2, <1>3, <1>4

\* What a role made of the events so far: the newest of its N393 bits are the
\* streak, and a streak of N392 has settled whether the role is down.
Follows(errors, n, down) ==
    /\ n \in -N392 .. N392
    /\ n > 0 => \A i \in 1 .. N393 : i <= n => ~errors[i]
    /\ n < 0 => \A i \in 1 .. N393 : i <= -n => errors[i]
    /\ n = N392 => ~down
    /\ n = -N392 => down

\* N392 errors fit the window, and N392 good events leave no room for as many.
Sensible == N392 <= N393 /\ N393 < 2 * N392

LEMMA MaxOfTwo ==
    ASSUME NEW a \in Int, NEW b \in Int
    PROVE  Max({a, b}) = IF a >= b THEN a ELSE b
  <1>1. \A x \in {a, b} : (\A y \in {a, b} : x >= y) <=> x = IF a >= b THEN a ELSE b
    OBVIOUS
  <1>2. (IF a >= b THEN a ELSE b) \in {a, b}
    OBVIOUS
  <1>3. QED
    BY <1>1, <1>2 DEF Max

LEMMA MinOfTwo ==
    ASSUME NEW a \in Int, NEW b \in Int
    PROVE  Min({a, b}) = IF a <= b THEN a ELSE b
  <1>1. \A x \in {a, b} : (\A y \in {a, b} : x <= y) <=> x = IF a <= b THEN a ELSE b
    OBVIOUS
  <1>2. (IF a <= b THEN a ELSE b) \in {a, b}
    OBVIOUS
  <1>3. QED
    BY <1>1, <1>2 DEF Min

LEMMA ExtendType ==
    ASSUME NEW n \in -N392 .. N392, NEW err \in BOOLEAN
    PROVE  /\ Extend(n, err) \in -N392 .. N392
           /\ err => Extend(n, err) < 0 /\ (n >= 0 => Extend(n, err) = -1)
                     /\ (n < 0 => Extend(n, err) \in {n, n - 1} /\ Extend(n, err) >= n - 1)
           /\ ~err => Extend(n, err) > 0 /\ (n <= 0 => Extend(n, err) = 1)
                      /\ (n > 0 => Extend(n, err) \in {n, n + 1})
  <1> DEFINE m == IF n > 0 THEN -1 ELSE n - 1
             p == IF n < 0 THEN 1 ELSE n + 1
  <1>1. m \in Int /\ p \in Int /\ -N392 \in Int /\ N392 \in Int
    BY ConstantTypes
  <1>3. /\ Max({-N392, m}) = IF -N392 >= m THEN -N392 ELSE m
        /\ Min({N392, p}) = IF N392 <= p THEN N392 ELSE p
    <2> HIDE DEF m, p
    <2> QED  BY <1>1, MaxOfTwo, MinOfTwo
  <1>4. Extend(n, err) = IF err THEN IF -N392 >= m THEN -N392 ELSE m
                                ELSE IF N392 <= p THEN N392 ELSE p
    BY <1>3 DEF Extend
  <1>5. QED
    BY <1>4, ConstantTypes

\* One more event makes the streak and the newest bits agree again.
LEMMA RunOfEvents ==
    ASSUME NEW errors \in Windows, NEW n, NEW down, Follows(errors, n, down), NEW err \in BOOLEAN,
           N392 <= N393
    PROVE  LET r == Record(errors, err)
               k == Extend(n, err)
           IN /\ err  => k < 0 /\ \A i \in 1 .. N393 : i <= -k => r[i]
              /\ ~err => k > 0 /\ \A i \in 1 .. N393 : i <= k => ~r[i]
              /\ k \in -N392 .. N392
  <1> DEFINE r == Record(errors, err)
             k == Extend(n, err)
  <1>1. r[1] = err /\ \A i \in 2 .. N393 : r[i] = errors[i - 1]
    BY RecordType
  <1>2. /\ n \in -N392 .. N392
        /\ n > 0 => \A i \in 1 .. N393 : i <= n => ~errors[i]
        /\ n < 0 => \A i \in 1 .. N393 : i <= -n => errors[i]
    BY DEF Follows
  <1>3. /\ k \in -N392 .. N392
        /\ err => k < 0 /\ (n >= 0 => k = -1) /\ (n < 0 => k \in {n, n - 1} /\ k >= n - 1)
        /\ ~err => k > 0 /\ (n <= 0 => k = 1) /\ (n > 0 => k \in {n, n + 1})
    BY <1>2, ExtendType
  <1> HIDE DEF r, k
  <1>4. ASSUME err, NEW i \in 1 .. N393, i <= -k PROVE r[i]
    <2>1. CASE i = 1
      BY <1>1, <1>4, <2>1
    <2>2. CASE i # 1
      <3>1. i \in 2 .. N393 /\ i - 1 \in 1 .. N393 /\ r[i] = errors[i - 1]
        BY <1>1, <2>2, ConstantTypes
      <3>2. n < 0 /\ i - 1 <= -n
        BY <1>2, <1>3, <1>4, <2>2, ConstantTypes
      <3> QED  BY <1>2, <3>1, <3>2
    <2> QED  BY <2>1, <2>2
  <1>5. ASSUME ~err, NEW i \in 1 .. N393, i <= k PROVE ~r[i]
    <2>1. CASE i = 1
      BY <1>1, <1>5, <2>1
    <2>2. CASE i # 1
      <3>1. i \in 2 .. N393 /\ i - 1 \in 1 .. N393 /\ r[i] = errors[i - 1]
        BY <1>1, <2>2, ConstantTypes
      <3>2. n > 0 /\ i - 1 <= n
        BY <1>2, <1>3, <1>5, <2>2, ConstantTypes
      <3> QED  BY <1>2, <3>1, <3>2
    <2> QED  BY <2>1, <2>2
  <1>6. QED
    BY <1>3, <1>4, <1>5 DEF r, k

LEMMA JudgeFollows ==
    ASSUME NEW errors \in Windows, NEW n, NEW down, Follows(errors, n, down), NEW err \in BOOLEAN,
           Sensible
    PROVE  LET r == Record(errors, err)
           IN Follows(r, Extend(n, err), Judge(down, r))
  <1> DEFINE r == Record(errors, err)
             k == Extend(n, err)
             bad == {i \in 1 .. N393 : r[i]}
  <1>1. N392 <= N393 /\ N393 < 2 * N392 /\ N392 \in 0 .. N393
    BY ConstantTypes DEF Sensible
  <1>2. r \in Windows
    BY RecordType
  <1>3. /\ err  => k < 0 /\ \A i \in 1 .. N393 : i <= -k => r[i]
        /\ ~err => k > 0 /\ \A i \in 1 .. N393 : i <= k => ~r[i]
        /\ k \in -N392 .. N392
    BY <1>1, RunOfEvents
  <1>4. /\ Cardinality(bad) \in Nat
        /\ (\A i \in 1 .. N393 : i <= N392 => r[i]) => Cardinality(bad) >= N392
        /\ (\A i \in 1 .. N393 : i <= N392 => ~r[i]) => Cardinality(bad) <= N393 - N392
    <2> HIDE DEF r
    <2> QED  BY <1>1, <1>2, CountErrors
  <1>b. Bad(r) <=> Cardinality(bad) >= N392
    BY DEF Bad
  <1> HIDE DEF r, k, bad
  <1>5. ASSUME k = N392 PROVE ~Judge(down, r)
    <2>1. ~err /\ \A i \in 1 .. N393 : i <= N392 => ~r[i]
      BY <1>3, <1>5, ConstantTypes
    <2>2. ~Bad(r)
      BY <1>1, <1>4, <1>b, <2>1, ConstantTypes
    <2>3. Clean(r)
      BY <2>1 DEF Clean
    <2> QED  BY <2>2, <2>3 DEF Judge
  <1>6. ASSUME k = -N392 PROVE Judge(down, r)
    <2>1. err /\ \A i \in 1 .. N393 : i <= N392 => r[i]
      <3>1. err /\ -k = N392
        BY <1>3, <1>6, ConstantTypes
      <3> QED  BY <1>3, <3>1
    <2>2. Bad(r)
      BY <1>4, <1>b, <2>1
    <2> QED  BY <2>2 DEF Judge
  <1>7. (k > 0 => ~err) /\ (k < 0 => err)
    BY <1>3, ConstantTypes
  <1>8. Follows(r, k, Judge(down, r))
    BY <1>3, <1>5, <1>6, <1>7 DEF Follows
  <1>9. QED
    BY <1>8 DEF r, k

\* T392 expired: an error that takes the role down fills the window.
LEMMA ExpiryFollows ==
    ASSUME NEW errors \in Windows, NEW n, NEW down, Follows(errors, n, down), Sensible
    PROVE  LET r == Record(errors, TRUE)
           IN /\ Follows(AllErrors, Extend(n, TRUE), TRUE)
              /\ ~Bad(r) => Follows(r, Extend(n, TRUE), down)
  <1> DEFINE r == Record(errors, TRUE)
             k == Extend(n, TRUE)
  <1>1. Follows(r, k, Judge(down, r))
    BY JudgeFollows
  <1>2. k \in -N392 .. N392 /\ k < 0
    BY ExtendType DEF Follows
  <1>3. r \in Windows
    BY RecordType
  <1>4. Follows(AllErrors, k, TRUE)
    <2> HIDE DEF k
    <2> QED  BY <1>2, ConstantTypes DEF Follows, AllErrors
  <1>5. ~Bad(r) => k # -N392
    <2>1. N392 \in 0 .. N393
      BY ConstantTypes DEF Sensible
    <2>2. k = -N392 => \A i \in 1 .. N393 : i <= N392 => r[i]
      <3> HIDE DEF r, k
      <3>1. k = -N392 => k < 0 /\ -k = N392
        BY ConstantTypes
      <3> QED  BY <1>1, <3>1 DEF Follows
    <2>3. k = -N392 => Bad(r)
      <3> HIDE DEF r, k
      <3> QED  BY <1>3, <2>1, <2>2, CountErrors DEF Bad
    <2> QED  BY <2>3
  <1>6. ~Bad(r) => Follows(r, k, down)
    <2> HIDE DEF r, k
    <2> QED  BY <1>1, <1>2, <1>5, ConstantTypes DEF Follows
  <1>7. QED
    BY <1>4, <1>6

-----------------------------------------------------------------------------
(* Messages. *)

LEMMA QueueEmpty == Queue(<<>>)
  <1> DEFINE S == {m \in {} : Message(m)}
             q == <<>>
  <1>1. q \in Seq(S) /\ \A k \in S : Message(k)
    OBVIOUS
  <1> HIDE DEF S, q
  <1>2. Queue(q)
    BY <1>1 DEF Queue
  <1>3. QED
    BY <1>2 DEF q

LEMMA QueueOne ==
    ASSUME NEW m, Message(m)
    PROVE  Queue(<<m>>)
  <1> DEFINE S == {m}
             q == <<m>>
  <1>1. q \in Seq(S) /\ \A k \in S : Message(k)
    OBVIOUS
  <1> HIDE DEF S, q
  <1>2. Queue(q)
    BY <1>1 DEF Queue
  <1>3. QED
    BY <1>2 DEF q

LEMMA QueueConcat ==
    ASSUME NEW q, NEW r, Queue(q), Queue(r)
    PROVE  Queue(q \o r)
  <1>1. PICK S : q \in Seq(S) /\ \A m \in S : Message(m)
    BY DEF Queue
  <1>2. PICK T : r \in Seq(T) /\ \A m \in T : Message(m)
    BY DEF Queue
  <1>3. q \in Seq(S \cup T) /\ r \in Seq(S \cup T)
    BY <1>1, <1>2
  <1>4. q \o r \in Seq(S \cup T)
    BY <1>3
  <1>5. \A m \in S \cup T : Message(m)
    BY <1>1, <1>2
  <1>6. QED
    BY <1>4, <1>5 DEF Queue

LEMMA QueueTail ==
    ASSUME NEW q, Queue(q), q # <<>>
    PROVE  Message(Head(q)) /\ Queue(Tail(q))
  <1>1. PICK S : q \in Seq(S) /\ \A m \in S : Message(m)
    BY DEF Queue
  <1>2. Head(q) \in S /\ Tail(q) \in Seq(S)
    BY <1>1
  <1>3. QED
    BY <1>1, <1>2 DEF Queue

LEMMA QueueNumbers ==
    ASSUME NEW q, Queue(q)
    PROVE  \A i \in DOMAIN q : {q[i].send, q[i].recv} \subseteq Numbers
  <1>1. PICK S : q \in Seq(S) /\ \A m \in S : Message(m)
    BY DEF Queue
  <1>2. \A i \in DOMAIN q : q[i] \in S
    BY <1>1
  <1>3. QED
    BY <1>1, <1>2 DEF Message

LEMMA EnquiryIsMessage ==
    ASSUME NEW l \in PortType, NEW report \in {"full", "liv", "cont"}
    PROVE  Message(Enquiry(l, report))
  BY DEF Message, Enquiry, PortType

LEMMA StatusIsMessage ==
    ASSUME NEW report \in {"full", "liv", "cont", "async"}, NEW send \in Numbers, NEW recv \in Numbers, NEW items
    PROVE  Message(Status(report, send, recv, items))
  BY DEF Message, Status

-----------------------------------------------------------------------------
(* The network role. *)

\* What the streaks of a port with this context are compared with.
SameDce(l, k) == k.dceErrors = l.dceErrors /\ k.dceDown = l.dceDown
SameDte(l, k) == k.dteErrors = l.dteErrors /\ k.dteDown = l.dteDown /\ k.dteEvents = l.dteEvents /\ k.answered = l.answered /\ k.t391 = l.t391

LEMMA JudgeType ==
    ASSUME NEW down \in BOOLEAN, NEW errors
    PROVE  Judge(down, errors) \in BOOLEAN
  BY DEF Judge

LEMMA OnT392Type ==
    ASSUME NEW l \in PortType
    PROVE  LET errors == Record(l.dceErrors, TRUE)
               k == OnT392(l)
           IN /\ k \in PortType /\ SameDte(l, k)
              /\ Bad(errors) => k.dceErrors = AllErrors /\ k.dceDown = TRUE
              /\ ~Bad(errors) => k.dceErrors = errors /\ k.dceDown = l.dceDown
  <1> DEFINE errors == Record(l.dceErrors, TRUE)
  <1>1. errors \in Windows
    BY RecordType DEF PortType
  <1> HIDE DEF errors
  <1>2. 0 \in 0 .. N391 /\ 1 \in Indices /\ T392 \in 0 .. T392
    BY ConstantTypes DEF Indices
  <1>3. CASE Bad(errors)
    <2>1. OnT392(l) = ResetDce([l EXCEPT !.dceDown = TRUE])
      BY <1>3 DEF OnT392, errors
    <2> QED  BY <1>2, <1>3, <2>1, ConstantTypes DEF ResetDce, PortType, SameDte, errors
  <1>4. CASE ~Bad(errors)
    <2>1. OnT392(l) = [l EXCEPT !.dceErrors = errors, !.t392 = T392]
      BY <1>4 DEF OnT392, errors
    <2> QED  BY <1>1, <1>2, <1>4, <2>1 DEF PortType, SameDte, errors
  <1>5. QED
    BY <1>3, <1>4

LEMMA PlacesInTable ==
    ASSUME NEW table \in SUBSET Circuits
    PROVE  Cardinality(table) \in Nat /\ Cardinality(table) <= Cardinality(Circuits)
           /\ Cardinality(Circuits) \in Nat
  BY LmiAssumption, FS_Subset, FS_CardinalityType

LEMMA BuildStatusOk ==
    ASSUME NEW l \in PortType, NEW full \in BOOLEAN, NEW recv \in Numbers, NEW reachable
    PROVE  LET o == BuildStatus(l, full, recv, reachable)
           IN o.l \in PortType /\ SameDce(l, o.l) /\ SameDte(l, o.l) /\ Queue(o.out)
  <1> DEFINE send == Inc(l.dceSend)
             first == IF l.segment THEN l.index ELSE 1
             count == Cardinality(l.table)
             last == Min({first + Room - 1, count})
             more == last < count
             stamped == {c \in l.table : Place(l.table, c) \in first .. last + 1}
             named == {c \in l.table : Place(l.table, c) \in first .. last}
             items == {Item(c, LinkUp(l) /\ reachable[c], l.new[c]) : c \in named}
             sent == [l EXCEPT !.dceSend = send, !.dceLastFull = full]
             txsn == [c \in Circuits |-> IF l.new[c] /\ c \in stamped THEN send ELSE l.txsn[c]]
             index == IF more THEN last + 1 ELSE 1
             k == [sent EXCEPT !.txsn = txsn, !.segment = more, !.index = index]
             m == Status(IF more THEN "cont" ELSE "full", send, recv, items)
             liv == Status("liv", send, recv, {})
  <1>1. BuildStatus(l, full, recv, reachable) = IF ~full THEN Outcome(sent, <<liv>>) ELSE Outcome(k, <<m>>)
    BY DEF BuildStatus, PortType
  <1>2. send \in Numbers
    BY NumberTypes DEF PortType
  <1>3. Queue(<<liv>>) /\ Queue(<<m>>)
    <2> HIDE DEF send, items, more
    <2>1. Message(liv) /\ Message(m)
      BY <1>2, StatusIsMessage
    <2> HIDE DEF liv, m
    <2> QED  BY <2>1, QueueOne
  <1>4. index \in Indices
    <2>1. first \in Nat /\ first >= 1 /\ Room \in Nat /\ Room >= 1
      BY LmiAssumption, PlacesInTable DEF PortType, Indices
    <2>2. count \in Nat /\ count <= Cardinality(Circuits) /\ Cardinality(Circuits) \in Nat
      BY PlacesInTable DEF PortType
    <2> HIDE DEF first, count
    <2> DEFINE a == first + Room - 1
    <2>3. last = IF a <= count THEN a ELSE count
      <3>1. a \in Int /\ count \in Int
        BY <2>1, <2>2
      <3> HIDE DEF a
      <3> QED  BY <3>1, MinOfTwo DEF a
    <2>4. QED
      BY <2>1, <2>2, <2>3 DEF Indices
  <1>5. txsn \in [Circuits -> Numbers]
    BY <1>2 DEF PortType
  <1>6. more \in BOOLEAN
    OBVIOUS
  <1> HIDE DEF send, more, index, txsn, m, liv
  <1>7. sent \in PortType /\ SameDce(l, sent) /\ SameDte(l, sent)
    BY <1>2 DEF PortType, SameDce, SameDte
  <1>8. k \in PortType /\ SameDce(l, k) /\ SameDte(l, k)
    <2> HIDE DEF sent
    <2>1. k \in PortType /\ SameDce(sent, k) /\ SameDte(sent, k)
      BY <1>4, <1>5, <1>6, <1>7 DEF PortType, SameDce, SameDte
    <2> HIDE DEF k
    <2> QED  BY <1>7, <2>1 DEF SameDce, SameDte
  <1> HIDE DEF sent, k
  <1>9. QED
    BY <1>1, <1>3, <1>7, <1>8 DEF Outcome

LEMMA AcknowledgeOk ==
    ASSUME NEW l \in PortType, NEW n \in Numbers
    PROVE  Acknowledge(l, n) \in PortType /\ SameDce(l, Acknowledge(l, n)) /\ SameDte(l, Acknowledge(l, n))
  <1> DEFINE new == [c \in Circuits |-> l.new[c] /\ ~(n # 0 /\ l.txsn[c] = n)]
  <1>1. new \in [Circuits -> BOOLEAN]
    BY DEF PortType
  <1>2. Acknowledge(l, n) = [l EXCEPT !.new = new]
    BY DEF Acknowledge, PortType
  <1> HIDE DEF new
  <1>3. QED
    BY <1>1, <1>2 DEF PortType, SameDce, SameDte

LEMMA OnEnquiryOk ==
    ASSUME NEW l \in PortType, NEW m, Message(m), NEW reachable
    PROVE  LET o == OnEnquiry(l, m, reachable)
               errors == Record(l.dceErrors, Mismatch(l, m))
           IN /\ o.l \in PortType /\ SameDte(l, o.l) /\ Queue(o.out)
              /\ o.l.dceErrors = errors /\ o.l.dceDown = Judge(l.dceDown, errors)
  <1> DEFINE err == Mismatch(l, m)
             errors == Record(l.dceErrors, err)
             a == Acknowledge(l, m.recv)
             judged == [a EXCEPT !.report = m.report, !.dceErrors = errors,
                                 !.dceDown = Judge(@, errors), !.t392 = T392]
             fresh == IF m.report = "full" THEN [judged EXCEPT !.segment = FALSE, !.index = 1] ELSE judged
             full == m.report \in {"full", "cont"} \/ (err /\ l.dceLastFull)
             o == BuildStatus(fresh, full, m.send, reachable)
  <1>1. err \in BOOLEAN /\ full \in BOOLEAN
    BY DEF Mismatch
  <1>2. errors \in Windows
    BY <1>1, RecordType DEF PortType
  <1>3. a \in PortType /\ SameDce(l, a) /\ SameDte(l, a)
    BY AcknowledgeOk DEF Message
  <1>4. Judge(a.dceDown, errors) \in BOOLEAN /\ Judge(a.dceDown, errors) = Judge(l.dceDown, errors)
    BY <1>3, JudgeType DEF PortType, SameDce
  <1> HIDE DEF err, errors, a
  <1>5. judged \in PortType /\ SameDte(a, judged)
        /\ judged.dceErrors = errors /\ judged.dceDown = Judge(l.dceDown, errors)
    <2> DEFINE down == Judge(a.dceDown, errors)
    <2>1. judged = [a EXCEPT !.report = m.report, !.dceErrors = errors, !.dceDown = down, !.t392 = T392]
      BY <1>3 DEF PortType
    <2>2. down \in BOOLEAN /\ down = Judge(l.dceDown, errors)
      BY <1>4
    <2>3. T392 \in 0 .. T392 /\ m.report \in {"full", "liv", "cont", "async"}
      BY ConstantTypes DEF Message
    <2> HIDE DEF down, judged
    <2>4. judged \in PortType
      BY <1>2, <1>3, <2>1, <2>2, <2>3 DEF PortType
    <2>5. SameDte(a, judged) /\ judged.dceErrors = errors /\ judged.dceDown = down
      BY <1>3, <2>1 DEF PortType, SameDte
    <2> QED  BY <2>2, <2>4, <2>5
  <1> HIDE DEF judged, full
  <1>6. fresh \in PortType /\ SameDte(judged, fresh) /\ SameDce(judged, fresh)
    BY <1>5 DEF PortType, SameDte, SameDce, Indices
  <1> HIDE DEF fresh
  <1>7. o.l \in PortType /\ SameDce(fresh, o.l) /\ SameDte(fresh, o.l) /\ Queue(o.out)
    BY <1>1, <1>6, BuildStatusOk DEF Message
  <1>8. OnEnquiry(l, m, reachable) = o
    BY DEF OnEnquiry, err, errors, a, judged, fresh, full
  <1> HIDE DEF o
  <1>9. SameDte(l, o.l) /\ o.l.dceErrors = errors /\ o.l.dceDown = Judge(l.dceDown, errors)
    BY <1>3, <1>5, <1>6, <1>7 DEF SameDte, SameDce
  <1>10. QED
    BY <1>7, <1>8, <1>9 DEF errors, err

LEMMA AsyncStatusOk ==
    ASSUME NEW l, NEW c, NEW act
    PROVE  Queue(AsyncStatus(l, c, act))
  <1>1. Message(Status("async", 0, 0, {Item(c, act, FALSE)}))
    BY StatusIsMessage, NumberTypes
  <1>2. QED
    BY <1>1, QueueOne, QueueEmpty DEF AsyncStatus

LEMMA AddCircuitOk ==
    ASSUME NEW l \in PortType, NEW c \in Circuits
    PROVE  LET o == AddCircuit(l, c)
           IN o.l \in PortType /\ SameDce(l, o.l) /\ SameDte(l, o.l) /\ Queue(o.out)
  BY QueueEmpty, NumberTypes DEF AddCircuit, Outcome, PortType, SameDce, SameDte

LEMMA DeleteCircuitOk ==
    ASSUME NEW l \in PortType, NEW c \in Circuits
    PROVE  LET o == DeleteCircuit(l, c)
           IN o.l \in PortType /\ SameDce(l, o.l) /\ SameDte(l, o.l) /\ Queue(o.out)
  BY AsyncStatusOk, NumberTypes DEF DeleteCircuit, Outcome, PortType, SameDce, SameDte

-----------------------------------------------------------------------------
(* The user role. *)

LEMMA SuperviseOk ==
    ASSUME NEW l \in PortType
    PROVE  LET k == Supervise(l)
               errors == Record(l.dteErrors, ~l.answered)
           IN /\ k \in PortType /\ SameDce(l, k)
              /\ l.dteEvents = 0 => k = l
              /\ l.dteEvents # 0 => k.dteErrors = errors /\ k.dteDown = Judge(l.dteDown, errors)
  <1> DEFINE errors == Record(l.dteErrors, ~l.answered)
             down == Judge(l.dteDown, errors)
             judged == [l EXCEPT !.dteErrors = errors, !.dteDown = down]
             psf == IF l.psf = 0 THEN N391 ELSE l.psf
             again == [judged EXCEPT !.psf = psf, !.report = "full"]
  <1>1. errors \in Windows
    BY RecordType DEF PortType
  <1>2. down \in BOOLEAN
    BY JudgeType DEF PortType
  <1>3. psf \in 0 .. N391
    BY ConstantTypes DEF PortType
  <1>4. Supervise(l) = CASE l.dteEvents = 0 -> l
                         [] l.dteEvents # 0 /\ l.answered -> judged
                         [] OTHER -> again
    BY DEF Supervise, PortType
  <1> HIDE DEF errors, down, psf
  <1>5. judged \in PortType /\ SameDce(l, judged) /\ judged.dteErrors = errors /\ judged.dteDown = down
    BY <1>1, <1>2 DEF PortType, SameDce
  <1>6. again \in PortType /\ SameDce(l, again) /\ again.dteErrors = errors /\ again.dteDown = down
    BY <1>1, <1>2, <1>3 DEF PortType, SameDce
  <1> HIDE DEF judged, again
  <1>7. SameDce(l, l)
    BY DEF SameDce
  <1>8. Supervise(l) = IF l.dteEvents = 0 THEN l ELSE IF l.answered THEN judged ELSE again
    BY <1>4
  <1>9. QED
    BY <1>5, <1>6, <1>7, <1>8 DEF errors, down

LEMMA PollOk ==
    ASSUME NEW l \in PortType
    PROVE  LET o == Poll(l)
           IN /\ o.l \in PortType /\ SameDce(l, o.l) /\ Queue(o.out)
              /\ o.l.dteErrors = l.dteErrors /\ o.l.dteDown = l.dteDown
  <1> DEFINE full == l.psf >= N391
             events == (l.dteEvents + 1) % 2 ^ Width
             reported == IF full THEN [c \in Circuits |-> FALSE] ELSE l.reported
             psf == IF full THEN 0 ELSE l.psf + 1
             send == Inc(l.dteSend)
             polled == [l EXCEPT !.answered = FALSE, !.dteEvents = events, !.lastFull = full,
                                 !.dteSend = send, !.reported = reported, !.t391 = T391, !.psf = psf]
             report == IF l.report = "cont" THEN "cont" ELSE IF full THEN "full" ELSE "liv"
  <1>1. Poll(l) = Outcome(polled, <<Enquiry(polled, report)>>)
    BY DEF Poll, PortType
  <1>2. full \in BOOLEAN /\ report \in {"full", "liv", "cont"} /\ T391 \in 0 .. T391Off
    BY ConstantTypes
  <1>3. events \in Int
    <2> DEFINE w == 2 ^ Width
    <2>1. w \in Nat /\ w >= 4
      BY PowerType
    <2> HIDE DEF w
    <2>2. (l.dteEvents + 1) % w \in Int
      BY <2>1 DEF PortType
    <2> QED  BY <2>2 DEF w
  <1>4. reported \in [Circuits -> BOOLEAN]
    BY DEF PortType
  <1>5. psf \in 0 .. N391
    BY ConstantTypes DEF PortType
  <1>6. send \in Numbers
    BY NumberTypes DEF PortType
  <1> HIDE DEF full, events, reported, psf, send, report
  <1>7. polled \in PortType /\ SameDce(l, polled) /\ polled.dteErrors = l.dteErrors /\ polled.dteDown = l.dteDown
    BY <1>2, <1>3, <1>4, <1>5, <1>6 DEF PortType, SameDce
  <1> HIDE DEF polled
  <1>8. Queue(<<Enquiry(polled, report)>>)
    BY <1>2, <1>7, EnquiryIsMessage, QueueOne
  <1>9. QED
    BY <1>1, <1>7, <1>8 DEF Outcome

\* A visit of the timer loop: at most one event for each role.
LEMMA PollTimerOk ==
    ASSUME NEW l \in PortType
    PROVE  LET o == PollTimer(l)
               dce == Record(l.dceErrors, TRUE)
               dte == Record(l.dteErrors, ~l.answered)
           IN /\ o.l \in PortType /\ Queue(o.out)
              /\ l.t392 = 0 /\ Bad(dce) => o.l.dceErrors = AllErrors /\ o.l.dceDown = TRUE
              /\ l.t392 = 0 /\ ~Bad(dce) => o.l.dceErrors = dce /\ o.l.dceDown = l.dceDown
              /\ l.t392 # 0 => SameDce(l, o.l)
              /\ l.t391 = 0 /\ l.dteEvents # 0
                    => o.l.dteErrors = dte /\ o.l.dteDown = Judge(l.dteDown, dte)
              /\ ~(l.t391 = 0 /\ l.dteEvents # 0) => o.l.dteErrors = l.dteErrors /\ o.l.dteDown = l.dteDown
  <1> DEFINE dce == Record(l.dceErrors, TRUE)
             watched == IF l.t392 = 0 THEN OnT392(l) ELSE l
             judged == Supervise(watched)
             dte == Record(watched.dteErrors, ~watched.answered)
             polled == Poll(judged)
             o == PollTimer(l)
  <1>1. /\ watched \in PortType /\ SameDte(l, watched)
        /\ l.t392 = 0 /\ Bad(dce) => watched.dceErrors = AllErrors /\ watched.dceDown = TRUE
        /\ l.t392 = 0 /\ ~Bad(dce) => watched.dceErrors = dce /\ watched.dceDown = l.dceDown
        /\ l.t392 # 0 => SameDce(l, watched)
    BY OnT392Type DEF SameDte, SameDce
  <1>2. o = IF watched.t391 = 0 THEN polled ELSE Outcome(watched, <<>>)
    BY DEF PollTimer
  <1> HIDE DEF watched, dce
  <1>3. /\ judged \in PortType /\ SameDce(watched, judged)
        /\ watched.dteEvents = 0 => judged = watched
        /\ watched.dteEvents # 0 => judged.dteErrors = dte /\ judged.dteDown = Judge(watched.dteDown, dte)
    BY <1>1, SuperviseOk
  <1> HIDE DEF judged
  <1>4. /\ polled.l \in PortType /\ SameDce(judged, polled.l) /\ Queue(polled.out)
        /\ polled.l.dteErrors = judged.dteErrors /\ polled.l.dteDown = judged.dteDown
    BY <1>3, PollOk
  <1> HIDE DEF polled, o
  <1>5. watched.t391 = l.t391 /\ watched.dteEvents = l.dteEvents /\ watched.dteErrors = l.dteErrors
        /\ watched.dteDown = l.dteDown /\ watched.answered = l.answered
    BY <1>1 DEF SameDte
  <1>6. o.l \in PortType /\ Queue(o.out) /\ SameDce(watched, o.l)
    <2>1. CASE watched.t391 = 0
      BY <1>2, <1>3, <1>4, <2>1 DEF SameDce
    <2>2. CASE watched.t391 # 0
      BY <1>1, <1>2, <2>2, QueueEmpty DEF SameDce, Outcome
    <2> QED  BY <2>1, <2>2
  <1>7. l.t391 = 0 /\ l.dteEvents # 0 => o.l.dteErrors = dte /\ o.l.dteDown = Judge(l.dteDown, dte)
    BY <1>2, <1>3, <1>4, <1>5
  <1>8. ~(l.t391 = 0 /\ l.dteEvents # 0) => o.l.dteErrors = l.dteErrors /\ o.l.dteDown = l.dteDown
    BY <1>2, <1>3, <1>4, <1>5 DEF Outcome
  <1>9. dte = Record(l.dteErrors, ~l.answered)
    BY <1>5
  <1> HIDE DEF dte
  <1>10. /\ l.t392 = 0 /\ Bad(dce) => o.l.dceErrors = AllErrors /\ o.l.dceDown = TRUE
         /\ l.t392 = 0 /\ ~Bad(dce) => o.l.dceErrors = dce /\ o.l.dceDown = l.dceDown
         /\ l.t392 # 0 => SameDce(l, o.l)
    BY <1>1, <1>6 DEF SameDce
  <1>11. QED
    BY <1>6, <1>7, <1>8, <1>9, <1>10 DEF o, dce

SameRoles(l, k) ==
    SameDce(l, k) /\ k.dteErrors = l.dteErrors /\ k.dteDown = l.dteDown

LEMMA LearnOk ==
    ASSUME NEW l \in PortType, NEW m, Message(m)
    PROVE  Learn(l, m) \in PortType /\ SameRoles(l, Learn(l, m))
  <1> DEFINE said(c) == {i \in m.items : i.dlci = c /\ c \in l.table}
             active == [c \in Circuits |-> IF said(c) = {} THEN l.active[c] ELSE \E i \in said(c) : i.active]
             reported == [c \in Circuits |-> l.reported[c] \/ said(c) # {}]
  <1>1. active \in [Circuits -> BOOLEAN] /\ reported \in [Circuits -> BOOLEAN]
    <2> HIDE DEF said
    <2> QED  BY DEF PortType
  <1>2. Learn(l, m) = [l EXCEPT !.report = m.report, !.active = active, !.reported = reported]
    BY DEF Learn, PortType
  <1> HIDE DEF active, reported
  <1>3. QED
    BY <1>1, <1>2 DEF PortType, SameRoles, SameDce, Message

LEMMA AcceptOk ==
    ASSUME NEW l \in PortType, NEW m, Message(m)
    PROVE  Accept(l, m) \in PortType /\ SameRoles(l, Accept(l, m))
  <1> DEFINE active == [c \in Circuits |-> l.active[c] /\ (c \in Due(m) => l.reported[c])]
  <1>1. active \in [Circuits -> BOOLEAN]
    <2> HIDE DEF Due
    <2> QED  BY DEF PortType
  <1>2. Accept(l, m) = [l EXCEPT !.dteEcho = m.send, !.answered = TRUE, !.active = active]
    BY DEF Accept, PortType
  <1> HIDE DEF active
  <1>3. QED
    BY <1>1, <1>2 DEF PortType, SameRoles, SameDce, Message

LEMMA OnStatusOk ==
    ASSUME NEW l \in PortType, NEW m, Message(m)
    PROVE  LET o == OnStatus(l, m)
           IN o.l \in PortType /\ SameRoles(l, o.l) /\ Queue(o.out)
  <1> DEFINE learnt == Learn(l, m)
             accepted == Accept(learnt, m)
             send == Inc(accepted.dteSend)
             continued == [accepted EXCEPT !.dteSend = send, !.lastFull = TRUE, !.t391 = T391]
             o == OnStatus(l, m)
  <1>1. learnt \in PortType /\ SameRoles(l, learnt)
    BY LearnOk
  <1>2. o \in {Outcome(learnt, <<>>), Outcome(accepted, <<>>),
               Outcome(continued, <<Enquiry(continued, "cont")>>)}
    <2>1. accepted \in PortType
      BY <1>1, AcceptOk
    <2> HIDE DEF accepted, learnt
    <2>2. continued = [accepted EXCEPT !.dteSend = Inc(@), !.lastFull = TRUE, !.t391 = T391]
      BY <2>1 DEF PortType
    <2> HIDE DEF continued
    <2> QED  BY <2>2 DEF OnStatus, accepted, learnt
  <1> HIDE DEF learnt, o
  <1>3. accepted \in PortType /\ SameRoles(l, accepted)
    BY <1>1, AcceptOk DEF SameRoles, SameDce
  <1> HIDE DEF accepted
  <1>4. send \in Numbers
    BY <1>3, NumberTypes DEF PortType
  <1> HIDE DEF send
  <1>t. T391 \in 0 .. T391Off
    BY ConstantTypes
  <1>5. continued \in PortType /\ SameRoles(l, continued)
    <2>1. continued \in PortType
      BY <1>3, <1>4, <1>t DEF PortType
    <2>2. SameRoles(accepted, continued)
      BY <1>3 DEF PortType, SameRoles, SameDce
    <2> HIDE DEF continued
    <2> QED  BY <1>3, <2>1, <2>2 DEF SameRoles, SameDce
  <1> HIDE DEF continued
  <1>6. Queue(<<Enquiry(continued, "cont")>>)
    BY <1>5, EnquiryIsMessage, QueueOne
  <1>7. QED
    BY <1>1, <1>2, <1>3, <1>5, <1>6, QueueEmpty DEF Outcome, o

-----------------------------------------------------------------------------
(* The state: its type. *)

Ports == lmi \in [Ends -> PortType]
Wires == wire = [e \in Ends |-> wire[e]] /\ \A e \in Ends : Queue(wire[e])
Streaks == streak \in [Ends -> [Roles -> -N392 .. N392]]

TypeInv == Ports /\ Wires /\ Streaks

LEMMA TypeInvImplies == TypeInv => TypeOK
  <1> SUFFICES ASSUME TypeInv PROVE TypeOK
    OBVIOUS
  <1>1. ASSUME NEW e \in Ends
        PROVE  /\ {lmi[e].dceSend, lmi[e].dteSend, lmi[e].dteEcho} \subseteq Numbers
               /\ \A c \in Circuits : lmi[e].txsn[c] \in Numbers
               /\ lmi[e].dceErrors \in [1 .. N393 -> BOOLEAN] /\ lmi[e].dteErrors \in [1 .. N393 -> BOOLEAN]
               /\ lmi[e].psf \in 0 .. N391 /\ lmi[e].index \in {1} \cup 1 .. Cardinality(Circuits)
               /\ lmi[e].t391 \in 0 .. T391Off /\ lmi[e].t392 \in 0 .. T392
    <2>1. lmi[e] \in PortType
      BY DEF TypeInv, Ports
    <2> QED  BY <2>1 DEF PortType, Windows, Indices
  <1>2. \A e \in Ends : \A i \in DOMAIN wire[e] : {wire[e][i].send, wire[e][i].recv} \subseteq Numbers
    BY QueueNumbers DEF TypeInv, Wires
  <1>3. QED
    BY <1>1, <1>2 DEF TypeOK, TypeInv, Streaks

LEMMA InitEndType ==
    ASSUME NEW e \in Ends
    PROVE  /\ InitEnd(e) \in PortType
           /\ InitEnd(e).dceErrors = AllErrors /\ InitEnd(e).dceDown = TRUE
           /\ InitEnd(e).dteErrors = AllErrors /\ InitEnd(e).dteDown = TRUE
  <1>1. Configured[e] \in SUBSET Circuits
    BY LmiLinkAssumption
  <1>2. N391 \in 0 .. N391 /\ T391 \in 0 .. T391Off /\ T391Off \in 0 .. T391Off /\ T392 \in 0 .. T392
    BY ConstantTypes
  <1>3. QED
    BY <1>1, <1>2, ConstantTypes, NumberTypes DEF InitEnd, InitState, PortType, Indices

LEMMA OtherEnd ==
    ASSUME NEW e \in Ends
    PROVE  Other(e) \in Ends /\ Other(e) # e
  <1>1. \E f \in Ends : f # e
    <2>1. Ends # {e}
      BY FS_Singleton, LmiLinkAssumption
    <2> QED  BY <2>1
  <1>2. QED
    BY <1>1 DEF Other

LEMMA RunOk ==
    ASSUME Ports, Wires, NEW e \in Ends, NEW o, NEW rest, Run(e, o, rest),
           o.l \in PortType, Queue(o.out), Queue(rest)
    PROVE  Ports' /\ Wires' /\ lmi' = [lmi EXCEPT ![e] = o.l]
  <1>1. lmi' = [lmi EXCEPT ![e] = o.l]
    BY DEF Run
  <1>2. Ports'
    BY <1>1 DEF Ports
  <1> DEFINE mid == [wire EXCEPT ![e] = rest]
             f == Other(e)
  <1>3. wire' = [mid EXCEPT ![f] = mid[f] \o o.out]
    BY OtherEnd DEF Run, Wires
  <1>4. DOMAIN mid = Ends /\ \A d \in Ends : Queue(mid[d])
    BY DEF Wires
  <1> HIDE DEF mid, f
  <1>5. \A d \in Ends : Queue(wire'[d])
    <2> SUFFICES ASSUME NEW d \in Ends PROVE Queue(wire'[d])
      OBVIOUS
    <2>1. CASE d = f
      BY <1>3, <1>4, <2>1, QueueConcat
    <2>2. CASE d # f
      BY <1>3, <1>4, <2>2
    <2> QED  BY <2>1, <2>2
  <1>6. wire' = [d \in Ends |-> wire'[d]]
    BY <1>3, <1>4
  <1>7. QED
    BY <1>1, <1>2, <1>5, <1>6 DEF Wires

LEMMA HandleFrameOk ==
    ASSUME NEW l \in PortType, NEW m, Message(m), NEW reachable
    PROVE  LET o == HandleFrame(l, m, reachable) IN o.l \in PortType /\ Queue(o.out)
  BY OnEnquiryOk, OnStatusOk DEF HandleFrame

LEMMA InitType == Init => TypeInv
  <1> SUFFICES ASSUME Init PROVE TypeInv
    OBVIOUS
  <1>1. Ports
    BY InitEndType DEF Init, Ports
  <1>2. Wires
    BY QueueEmpty DEF Init, Wires
  <1>3. Streaks
    BY ConstantTypes DEF Init, Streaks
  <1>4. QED
    BY <1>1, <1>2, <1>3 DEF TypeInv

LEMMA TimerType ==
    ASSUME TypeInv, NEW e \in Ends, Timer(e)
    PROVE  TypeInv' /\ lmi' = [lmi EXCEPT ![e] = PollTimer(lmi[e]).l]
  <1> DEFINE l == lmi[e]
             counted == [r \in Roles |->
                           CASE r = "dce" /\ l.t392 = 0 -> Extend(streak[e][r], TRUE)
                             [] r = "dte" /\ l.t391 = 0 /\ l.dteEvents # 0 -> Extend(streak[e][r], ~l.answered)
                             [] OTHER -> streak[e][r]]
  <1>1. l \in PortType
    BY DEF TypeInv, Ports
  <1>2. Run(e, PollTimer(l), wire[e])
    BY DEF Timer
  <1>3. Ports' /\ Wires' /\ lmi' = [lmi EXCEPT ![e] = PollTimer(l).l]
    <2>1. PollTimer(l).l \in PortType /\ Queue(PollTimer(l).out) /\ Queue(wire[e])
      BY <1>1, PollTimerOk DEF TypeInv, Wires
    <2> HIDE DEF l
    <2> QED  BY <1>2, <2>1, RunOk DEF TypeInv
  <1>4. counted \in [Roles -> -N392 .. N392]
    <2>1. \A r \in Roles : streak[e][r] \in -N392 .. N392
      BY DEF TypeInv, Streaks
    <2>2. \A r \in Roles : Extend(streak[e][r], TRUE) \in -N392 .. N392
                           /\ Extend(streak[e][r], ~l.answered) \in -N392 .. N392
      BY <2>1, ExtendType
    <2> HIDE DEF l
    <2> QED  BY <2>1, <2>2
  <1>5. streak' = [streak EXCEPT ![e] = counted]
    BY DEF Timer
  <1>6. Streaks'
    <2> HIDE DEF counted
    <2> QED  BY <1>4, <1>5 DEF Streaks, TypeInv
  <1>7. QED
    BY <1>3, <1>6 DEF TypeInv

LEMMA ReceiveType ==
    ASSUME TypeInv, NEW e \in Ends, Receive(e)
    PROVE  /\ TypeInv' /\ Message(Head(wire[e]))
           /\ lmi' = [lmi EXCEPT ![e] = HandleFrame(lmi[e], Head(wire[e]), dest[e]).l]
  <1> DEFINE l == lmi[e]
             m == Head(wire[e])
             o == HandleFrame(l, m, dest[e])
  <1>1. l \in PortType
    BY DEF TypeInv, Ports
  <1>2. Message(m) /\ Queue(Tail(wire[e]))
    BY QueueTail DEF TypeInv, Wires, Receive
  <1>3. Run(e, o, Tail(wire[e]))
    BY DEF Receive
  <1>4. Ports' /\ Wires' /\ lmi' = [lmi EXCEPT ![e] = o.l]
    <2>1. o.l \in PortType /\ Queue(o.out)
      <3> HIDE DEF l, m
      <3> QED  BY <1>1, <1>2, HandleFrameOk
    <2> HIDE DEF o
    <2> QED  BY <1>2, <1>3, <2>1, RunOk DEF TypeInv
  <1>5. Streaks'
    <2>1. streak[e]["dce"] \in -N392 .. N392 /\ Mismatch(l, m) \in BOOLEAN
      BY DEF TypeInv, Streaks, Roles, Mismatch
    <2> DEFINE k == Extend(streak[e]["dce"], Mismatch(l, m))
    <2>2. k \in -N392 .. N392
      BY <2>1, ExtendType
    <2>3. streak' = [streak EXCEPT ![e]["dce"] = k] \/ streak' = streak
      BY DEF Receive
    <2> HIDE DEF k
    <2> QED  BY <2>2, <2>3 DEF Streaks, Roles, TypeInv
  <1>6. QED
    BY <1>2, <1>4, <1>5 DEF TypeInv

LEMMA RestartType ==
    ASSUME TypeInv, NEW e \in Ends, Restart(e)
    PROVE  TypeInv'
  <1>1. InitEnd(e) \in PortType
    BY InitEndType
  <1>2. Ports' /\ Wires'
    BY <1>1 DEF Restart, TypeInv, Ports, Wires
  <1>3. Streaks'
    <2>1. [r \in Roles |-> 0] \in [Roles -> -N392 .. N392]
      BY ConstantTypes
    <2> QED  BY <2>1 DEF Restart, TypeInv, Streaks
  <1>4. QED
    BY <1>2, <1>3 DEF TypeInv

\* The console's commands and a destination that fails: what an end's roles
\* made of the events is left alone.
LEMMA ConsoleType ==
    ASSUME TypeInv, NEW e \in Ends, NEW c \in Circuits,
           Destination(e, c) \/ Add(e, c) \/ Delete(e, c)
    PROVE  /\ TypeInv' /\ streak' = streak
           /\ \E k \in PortType : SameRoles(lmi[e], k) /\ lmi' = [lmi EXCEPT ![e] = k]
  <1>1. lmi[e] \in PortType /\ Queue(wire[e])
    BY DEF TypeInv, Ports, Wires
  <1>2. PICK o : /\ o.l \in PortType /\ SameRoles(lmi[e], o.l) /\ Queue(o.out)
                 /\ Run(e, o, wire[e])
    <2>1. CASE Destination(e, c)
      <3> DEFINE o == Outcome(lmi[e], AsyncStatus(lmi[e], c, LinkUp(lmi[e]) /\ dest'[e][c]))
      <3>1. Run(e, o, wire[e])
        BY <2>1 DEF Destination
      <3>2. o.l = lmi[e] /\ Queue(o.out)
        BY AsyncStatusOk DEF Outcome
      <3> HIDE DEF o
      <3> QED  BY <1>1, <3>1, <3>2 DEF SameRoles, SameDce
    <2>2. CASE Add(e, c)
      <3> DEFINE o == AddCircuit(lmi[e], c)
      <3>1. Run(e, o, wire[e])
        BY <2>2 DEF Add
      <3>2. o.l \in PortType /\ SameDce(lmi[e], o.l) /\ SameDte(lmi[e], o.l) /\ Queue(o.out)
        BY <1>1, AddCircuitOk
      <3> HIDE DEF o
      <3> QED  BY <3>1, <3>2 DEF SameRoles, SameDte
    <2>3. CASE Delete(e, c)
      <3> DEFINE o == DeleteCircuit(lmi[e], c)
      <3>1. Run(e, o, wire[e])
        BY <2>3 DEF Delete
      <3>2. o.l \in PortType /\ SameDce(lmi[e], o.l) /\ SameDte(lmi[e], o.l) /\ Queue(o.out)
        BY <1>1, DeleteCircuitOk
      <3> HIDE DEF o
      <3> QED  BY <3>1, <3>2 DEF SameRoles, SameDte
    <2> QED  BY <2>1, <2>2, <2>3
  <1>3. Ports' /\ Wires' /\ lmi' = [lmi EXCEPT ![e] = o.l]
    BY <1>1, <1>2, RunOk DEF TypeInv
  <1>4. streak' = streak
    BY DEF Destination, Add, Delete
  <1>5. QED
    BY <1>2, <1>3, <1>4 DEF TypeInv, Streaks

LEMMA TickType ==
    ASSUME TypeInv, Tick
    PROVE  /\ TypeInv' /\ streak' = streak
           /\ \A e \in Ends : SameRoles(lmi[e], lmi'[e])
  <1>1. ASSUME NEW e \in Ends PROVE lmi'[e] \in PortType /\ SameRoles(lmi[e], lmi'[e])
    <2> DEFINE l == lmi[e]
               t1 == Down(l.t391)
               t2 == l.t392 - 1
    <2>1. l \in PortType /\ l.t391 # 0 /\ l.t392 # 0
      BY DEF TypeInv, Ports, Tick, Expired
    <2>2. t1 \in 0 .. T391Off /\ t2 \in 0 .. T392
      BY <2>1, ConstantTypes DEF PortType, Down
    <2>3. lmi'[e] = [l EXCEPT !.t391 = t1, !.t392 = t2]
      BY <2>1 DEF Tick, PortType
    <2> HIDE DEF l, t1, t2
    <2>4. lmi'[e] \in PortType /\ SameRoles(l, lmi'[e])
      BY <2>1, <2>2, <2>3 DEF PortType, SameRoles, SameDce
    <2> QED  BY <2>4 DEF l
  <1>2. lmi' = [e \in Ends |-> lmi'[e]]
    BY DEF Tick
  <1>3. Ports'
    BY <1>1, <1>2 DEF Ports
  <1>4. QED
    BY <1>1, <1>3 DEF Tick, TypeInv, Wires, Streaks

LEMMA LoseType ==
    ASSUME TypeInv, NEW e \in Ends, Lose(e)
    PROVE  TypeInv'
  <1>1. Queue(Tail(wire[e])) /\ wire' = [wire EXCEPT ![e] = Tail(wire[e])]
    BY QueueTail DEF TypeInv, Wires, Lose
  <1>2. Wires'
    BY <1>1 DEF TypeInv, Wires
  <1>3. QED
    BY <1>2 DEF Lose, TypeInv, Ports, Streaks

LEMMA NextType == TypeInv /\ [Next]_vars => TypeInv'
  <1> SUFFICES ASSUME TypeInv, [Next]_vars PROVE TypeInv'
    OBVIOUS
  <1>1. ASSUME NEW e \in Ends, Timer(e) PROVE TypeInv'
    BY <1>1, TimerType
  <1>2. ASSUME NEW e \in Ends, Receive(e) PROVE TypeInv'
    BY <1>2, ReceiveType
  <1>3. ASSUME NEW e \in Ends, Lose(e) PROVE TypeInv'
    BY <1>3, LoseType
  <1>4. ASSUME NEW e \in Ends, Restart(e) PROVE TypeInv'
    BY <1>4, RestartType
  <1>5. ASSUME NEW e \in Ends, NEW c \in Circuits, Destination(e, c) \/ Add(e, c) \/ Delete(e, c)
        PROVE  TypeInv'
    BY <1>5, ConsoleType
  <1>6. CASE Tick
    BY <1>6, TickType
  <1>7. CASE UNCHANGED vars
    BY <1>7 DEF vars, TypeInv, Ports, Wires, Streaks
  <1>8. QED
    BY <1>1, <1>2, <1>3, <1>4, <1>5, <1>6, <1>7 DEF Next

\* Whatever is lost, restarted, added or deleted, both ends' contexts keep
\* their shape: counters of Width bits, windows of N393 events, a report that
\* goes on at a circuit there may be, timers within their intervals; and no
\* message carries a number out of range.
THEOREM TypeCorrect == Spec => []TypeOK
  <1>1. Spec => []TypeInv
    BY InitType, NextType, PTL DEF Spec
  <1>2. QED
    BY <1>1, TypeInvImplies, PTL

-----------------------------------------------------------------------------
(* The state: streaks and links. *)

\* Both roles of an end with this context made of the events what `n` says.
RolesFollow(l, n) ==
    Follows(l.dceErrors, n["dce"], l.dceDown) /\ Follows(l.dteErrors, n["dte"], l.dteDown)

Linked == \A e \in Ends : RolesFollow(lmi[e], streak[e])

\* The inductive invariant.
IInv == TypeInv /\ Linked

LEMMA LinkedImplies == IInv => LinkFollowsEvents
  BY DEF IInv, Linked, RolesFollow, Follows, LinkFollowsEvents, GoodEventsRecover

LEMMA FreshFollows == Follows(AllErrors, 0, TRUE)
  BY ConstantTypes DEF Follows

LEMMA SameRolesFollow ==
    ASSUME NEW l, NEW n, RolesFollow(l, n), NEW k, SameRoles(l, k)
    PROVE  RolesFollow(k, n)
  BY DEF RolesFollow, SameRoles, SameDce

LEMMA TimerLinked ==
    ASSUME Sensible, IInv, NEW e \in Ends, Timer(e)
    PROVE  Linked'
  <1> DEFINE l == lmi[e]
             k == PollTimer(l).l
             dce == Record(l.dceErrors, TRUE)
             dte == Record(l.dteErrors, ~l.answered)
             n == streak'[e]
  <1>1. l \in PortType /\ RolesFollow(l, streak[e])
    BY DEF IInv, TypeInv, Ports, Linked
  <1>2. lmi' = [lmi EXCEPT ![e] = k] /\ DOMAIN lmi = Ends
    BY TimerType DEF IInv, TypeInv, Ports
  <1>3. /\ n["dce"] = IF l.t392 = 0 THEN Extend(streak[e]["dce"], TRUE) ELSE streak[e]["dce"]
        /\ n["dte"] = IF l.t391 = 0 /\ l.dteEvents # 0 THEN Extend(streak[e]["dte"], ~l.answered)
                      ELSE streak[e]["dte"]
        /\ \A d \in Ends \ {e} : streak'[d] = streak[d]
    BY DEF Timer, Roles, IInv, TypeInv, Streaks
  <1>4. /\ l.t392 = 0 /\ Bad(dce) => k.dceErrors = AllErrors /\ k.dceDown = TRUE
        /\ l.t392 = 0 /\ ~Bad(dce) => k.dceErrors = dce /\ k.dceDown = l.dceDown
        /\ l.t392 # 0 => SameDce(l, k)
        /\ l.t391 = 0 /\ l.dteEvents # 0 => k.dteErrors = dte /\ k.dteDown = Judge(l.dteDown, dte)
        /\ ~(l.t391 = 0 /\ l.dteEvents # 0) => k.dteErrors = l.dteErrors /\ k.dteDown = l.dteDown
    <2> HIDE DEF l
    <2> QED  BY <1>1, PollTimerOk
  <1> HIDE DEF l, k, n
  <1>5. l.dceErrors \in Windows /\ l.dteErrors \in Windows /\ l.answered \in BOOLEAN
    BY <1>1 DEF PortType
  <1>6. Follows(k.dceErrors, n["dce"], k.dceDown)
    <2>1. CASE l.t392 = 0
      <3>1. /\ Follows(AllErrors, n["dce"], TRUE)
            /\ ~Bad(dce) => Follows(dce, n["dce"], l.dceDown)
        BY <1>1, <1>3, <1>5, <2>1, ExpiryFollows DEF RolesFollow
      <3> QED  BY <1>4, <2>1, <3>1
    <2>2. CASE l.t392 # 0
      BY <1>1, <1>3, <1>4, <2>2 DEF RolesFollow, SameDce
    <2> QED  BY <2>1, <2>2
  <1>7. Follows(k.dteErrors, n["dte"], k.dteDown)
    <2>1. CASE l.t391 = 0 /\ l.dteEvents # 0
      <3>1. Follows(dte, n["dte"], Judge(l.dteDown, dte))
        <4>1. (~l.answered) \in BOOLEAN
          OBVIOUS
        <4> QED  BY <1>1, <1>3, <1>5, <2>1, <4>1, JudgeFollows DEF RolesFollow
      <3> QED  BY <1>4, <2>1, <3>1
    <2>2. CASE ~(l.t391 = 0 /\ l.dteEvents # 0)
      BY <1>1, <1>3, <1>4, <2>2 DEF RolesFollow
    <2> QED  BY <2>1, <2>2
  <1>8. ASSUME NEW d \in Ends PROVE RolesFollow(lmi'[d], streak'[d])
    <2>1. CASE d = e
      BY <1>2, <1>6, <1>7, <2>1 DEF RolesFollow, n
    <2>2. CASE d # e
      BY <1>2, <1>3, <2>2 DEF IInv, Linked
    <2> QED  BY <2>1, <2>2
  <1>9. QED
    BY <1>8 DEF Linked

LEMMA ReceiveLinked ==
    ASSUME Sensible, IInv, NEW e \in Ends, Receive(e)
    PROVE  Linked'
  <1> DEFINE l == lmi[e]
             m == Head(wire[e])
             k == HandleFrame(l, m, dest[e]).l
             n == streak'[e]
             errors == Record(l.dceErrors, Mismatch(l, m))
  <1>1. l \in PortType /\ RolesFollow(l, streak[e])
    BY DEF IInv, TypeInv, Ports, Linked
  <1>2. lmi' = [lmi EXCEPT ![e] = k] /\ DOMAIN lmi = Ends /\ Message(m)
    BY ReceiveType DEF IInv, TypeInv, Ports
  <1>3. /\ n["dce"] = IF m.type = "enquiry" THEN Extend(streak[e]["dce"], Mismatch(l, m)) ELSE streak[e]["dce"]
        /\ n["dte"] = streak[e]["dte"]
        /\ \A d \in Ends \ {e} : streak'[d] = streak[d]
    <2>1. streak' = IF m.type = "enquiry" THEN [streak EXCEPT ![e]["dce"] = Extend(@, Mismatch(l, m))] ELSE streak
      BY DEF Receive
    <2> HIDE DEF l, m
    <2> QED  BY <2>1 DEF Roles, IInv, TypeInv, Streaks
  <1>4. /\ m.type = "enquiry" => k.dceErrors = errors /\ k.dceDown = Judge(l.dceDown, errors)
        /\ m.type # "enquiry" => SameDce(l, k)
        /\ k.dteErrors = l.dteErrors /\ k.dteDown = l.dteDown
    <2> HIDE DEF l, m
    <2> QED  BY <1>1, <1>2, OnEnquiryOk, OnStatusOk DEF HandleFrame, SameDte, SameRoles
  <1> HIDE DEF l, m, k, n
  <1>5. l.dceErrors \in Windows /\ Mismatch(l, m) \in BOOLEAN
    BY <1>1 DEF PortType, Mismatch
  <1>6. Follows(k.dceErrors, n["dce"], k.dceDown)
    <2>1. CASE m.type = "enquiry"
      <3>1. Follows(errors, n["dce"], Judge(l.dceDown, errors))
        BY <1>1, <1>3, <1>5, <2>1, JudgeFollows DEF RolesFollow
      <3> QED  BY <1>4, <2>1, <3>1
    <2>2. CASE m.type # "enquiry"
      BY <1>1, <1>3, <1>4, <2>2 DEF RolesFollow, SameDce
    <2> QED  BY <2>1, <2>2
  <1>7. Follows(k.dteErrors, n["dte"], k.dteDown)
    BY <1>1, <1>3, <1>4 DEF RolesFollow
  <1>8. ASSUME NEW d \in Ends PROVE RolesFollow(lmi'[d], streak'[d])
    <2>1. CASE d = e
      BY <1>2, <1>6, <1>7, <2>1 DEF RolesFollow, n
    <2>2. CASE d # e
      BY <1>2, <1>3, <2>2 DEF IInv, Linked
    <2> QED  BY <2>1, <2>2
  <1>9. QED
    BY <1>8 DEF Linked

LEMMA RestartLinked ==
    ASSUME IInv, NEW e \in Ends, Restart(e)
    PROVE  Linked'
  <1>1. /\ lmi'[e] = InitEnd(e) /\ streak'[e] = [r \in Roles |-> 0]
        /\ \A d \in Ends \ {e} : lmi'[d] = lmi[d] /\ streak'[d] = streak[d]
    BY DEF Restart, IInv, TypeInv, Ports, Streaks
  <1>2. RolesFollow(lmi'[e], streak'[e])
    BY <1>1, InitEndType, FreshFollows DEF RolesFollow, Roles
  <1>3. QED
    BY <1>1, <1>2 DEF IInv, Linked

LEMMA ConsoleLinked ==
    ASSUME IInv, NEW e \in Ends, NEW c \in Circuits,
           Destination(e, c) \/ Add(e, c) \/ Delete(e, c)
    PROVE  Linked'
  <1>1. PICK k \in PortType : SameRoles(lmi[e], k) /\ lmi' = [lmi EXCEPT ![e] = k]
    BY ConsoleType DEF IInv
  <1>2. streak' = streak
    BY ConsoleType DEF IInv
  <1>3. DOMAIN lmi = Ends
    BY DEF IInv, TypeInv, Ports
  <1>4. ASSUME NEW d \in Ends PROVE RolesFollow(lmi'[d], streak'[d])
    <2>1. SameRoles(lmi[d], lmi'[d])
      BY <1>1, <1>3 DEF SameRoles, SameDce
    <2>2. RolesFollow(lmi[d], streak[d])
      BY DEF IInv, Linked
    <2> QED  BY <1>2, <2>1, <2>2, SameRolesFollow
  <1>5. QED
    BY <1>4 DEF Linked

LEMMA NextIInv == Sensible /\ IInv /\ [Next]_vars => IInv'
  <1> SUFFICES ASSUME Sensible, IInv, [Next]_vars PROVE Linked'
    BY NextType DEF IInv
  <1>1. ASSUME NEW e \in Ends, Timer(e) PROVE Linked'
    BY <1>1, TimerLinked
  <1>2. ASSUME NEW e \in Ends, Receive(e) PROVE Linked'
    BY <1>2, ReceiveLinked
  <1>3. ASSUME NEW e \in Ends, Lose(e) PROVE Linked'
    BY <1>3 DEF Lose, IInv, Linked
  <1>4. ASSUME NEW e \in Ends, Restart(e) PROVE Linked'
    BY <1>4, RestartLinked
  <1>5. ASSUME NEW e \in Ends, NEW c \in Circuits, Destination(e, c) \/ Add(e, c) \/ Delete(e, c)
        PROVE  Linked'
    BY <1>5, ConsoleLinked
  <1>6. CASE Tick
    BY <1>6, TickType, SameRolesFollow DEF IInv, Linked
  <1>7. CASE UNCHANGED vars
    BY <1>7 DEF vars, IInv, Linked
  <1>8. QED
    BY <1>1, <1>2, <1>3, <1>4, <1>5, <1>6, <1>7 DEF Next

LEMMA InitIInv == Init => IInv
  <1> SUFFICES ASSUME Init PROVE Linked
    BY InitType DEF IInv
  <1>1. ASSUME NEW e \in Ends PROVE RolesFollow(lmi[e], streak[e])
    BY InitEndType, FreshFollows DEF Init, RolesFollow, Roles
  <1>2. QED
    BY <1>1 DEF Linked

\* N392 good events in a row bring a role up and N392 errors in a row take it
\* down, whatever came before them and whichever of T392, an enquiry or a poll
\* left unanswered they were, if N392 errors fit the window and N392 good
\* events leave no room in it for as many errors.
THEOREM LinkFollows ==
    ASSUME N392 <= N393, N393 < 2 * N392
    PROVE  Spec => []LinkFollowsEvents
  <1>1. Sensible
    BY DEF Sensible
  <1>2. IInv /\ [Next]_vars => IInv'
    BY <1>1, NextIInv
  <1>3. QED
    BY <1>2, InitIInv, LinkedImplies, PTL DEF Spec
=============================================================================
