----------------------------- MODULE LinkProofs -----------------------------
(***************************************************************************)
(* Two LAPF entities facing each other never reject a frame of each other, *)
(* for every modulus, window, limit, backlog and set of messages.          *)
(*                                                                         *)
(* The invariant has two halves.  The control half says which frames may   *)
(* be under way for each pair of phases of the ends.  The numbers half     *)
(* says that the numbers on the wires fit the variables of the ends, also  *)
(* those an end will have once it has read the SABME or UA before them.    *)
(***************************************************************************)
EXTENDS LapfLink, LapfRoutines, FiniteSetTheorems

-----------------------------------------------------------------------------
(* The frames of the link, and sequence numbers. *)

\* The frames two entities of this code exchange.
LinkFrames ==
    {f \in [type : {"I", "RR", "REJ", "SABME", "DISC", "UA", "DM"}, cr : {"cmd", "rsp"},
            pf : BOOLEAN, nr : SeqNos, ns : SeqNos, data : Info, size : {"ok"}, k : {K},
            becn : {FALSE}] :
        /\ f.type \in {"SABME", "DISC"} => f.cr = "cmd" /\ f.pf
        /\ f.type = "I" => f.cr = "cmd" /\ ~f.pf
        /\ f.type \in {"UA", "DM", "REJ"} => f.cr = "rsp"
        /\ f.type = "UA" => f.pf
        /\ f.type = "REJ" => ~f.pf
        /\ f.type = "RR" /\ f.cr = "cmd" => f.pf}

Numbered(f) == f.type \in {"I", "RR", "REJ"}

LEMMA LinkFrameType ==
    ASSUME NEW f \in LinkFrames
    PROVE  f.nr \in SeqNos /\ f.ns \in SeqNos /\ f.type # "FRMR"
  BY DEF LinkFrames

-----------------------------------------------------------------------------
(* Sequence numbers. *)

LEMMA AheadNat ==
    ASSUME NEW m \in SeqNos, NEW n \in SeqNos
    PROVE  Ahead(m, n) \in Nat /\ Ahead(m, n) < Mod
  BY WindowAssumption DEF SeqNos, Ahead

LEMMA AheadSame ==
    ASSUME NEW a \in SeqNos, NEW m \in SeqNos, NEW n \in SeqNos
    PROVE  /\ Ahead(a, a) = 0
           /\ Ahead(a, m) = Ahead(a, n) <=> m = n
           /\ Ahead(a, m) = 0 <=> m = a
  BY WindowAssumption DEF SeqNos, Ahead

LEMMA AheadZero ==
    ASSUME NEW n \in SeqNos
    PROVE  0 \in SeqNos /\ Ahead(0, n) = n
  BY WindowAssumption DEF SeqNos, Ahead

\* Counting from n, inside the stretch from a to s.
LEMMA AheadFrom ==
    ASSUME NEW a \in SeqNos, NEW n \in SeqNos, NEW s \in SeqNos, Ahead(a, n) <= Ahead(a, s)
    PROVE  Ahead(n, s) = Ahead(a, s) - Ahead(a, n)
  BY WindowAssumption DEF SeqNos, Ahead

LEMMA InRangeAhead ==
    ASSUME NEW a \in SeqNos, NEW n \in SeqNos, NEW s \in SeqNos
    PROVE  InRange(n, a, s) <=> Ahead(a, n) <= Ahead(a, s)
  BY WindowAssumption DEF SeqNos, Ahead, InRange

LEMMA PlusOne ==
    ASSUME NEW r \in SeqNos, NEW n \in SeqNos, n # r
    PROVE  /\ Plus(r, 1) \in SeqNos
           /\ Ahead(Plus(r, 1), n) = Ahead(r, n) - 1
  BY WindowAssumption DEF SeqNos, Ahead, Plus

LEMMA NumbersOf ==
    ASSUME NEW va \in SeqNos, NEW w \in Seq(LinkFrames), NEW i \in 1 .. Len(w)
    PROVE  /\ w[i] \in LinkFrames /\ w[i].nr \in SeqNos /\ w[i].ns \in SeqNos
           /\ Ahead(va, w[i].nr) \in Nat /\ Ahead(va, w[i].ns) \in Nat
  <1>1. w[i] \in LinkFrames
    OBVIOUS
  <1>2. w[i].nr \in SeqNos /\ w[i].ns \in SeqNos
    BY <1>1, LinkFrameType
  <1> QED  BY <1>1, <1>2, AheadNat

LEMMA CatIndex ==
    ASSUME NEW S, NEW w \in Seq(S), NEW q \in Seq(S), NEW i \in 1 .. Len(w \o q)
    PROVE  /\ w \o q \in Seq(S) /\ Len(w \o q) = Len(w) + Len(q)
           /\ Len(w) \in Nat /\ Len(q) \in Nat
           /\ \/ i \in 1 .. Len(w) /\ (w \o q)[i] = w[i]
              \/ i > Len(w) /\ i - Len(w) \in 1 .. Len(q) /\ (w \o q)[i] = q[i - Len(w)]
  OBVIOUS

LEMMA TailIndex ==
    ASSUME NEW S, NEW w \in Seq(S), w # <<>>
    PROVE  /\ Tail(w) \in Seq(S) /\ Len(w) \in Nat /\ Len(Tail(w)) = Len(w) - 1 /\ Len(w) >= 1
           /\ \A i \in 1 .. Len(Tail(w)) : i + 1 \in 1 .. Len(w) /\ Tail(w)[i] = w[i + 1]
           /\ Head(w) = w[1] /\ 1 \in 1 .. Len(w) /\ w[1] \in S
  OBVIOUS

-----------------------------------------------------------------------------
(* Acknowledgements on their way to the owner of the window va .. vs; r is  *)
(* the receive variable of the end that sends them.                         *)

Window(va, vs, w) ==
    /\ \A i \in 1 .. Len(w) : Numbered(w[i]) => Ahead(va, w[i].nr) <= Ahead(va, vs)
    /\ \A i, j \in 1 .. Len(w) :
         i < j /\ Numbered(w[i]) /\ Numbered(w[j]) => Ahead(va, w[i].nr) <= Ahead(va, w[j].nr)

Heard(va, vs, r, w) ==
    /\ Ahead(va, r) <= Ahead(va, vs)
    /\ \A i \in 1 .. Len(w) : Numbered(w[i]) => Ahead(va, w[i].nr) <= Ahead(va, r)

LEMMA WindowTail ==
    ASSUME NEW va, NEW vs, NEW r, NEW w \in Seq(LinkFrames), w # <<>>
    PROVE  /\ Window(va, vs, w) => Window(va, vs, Tail(w))
           /\ Heard(va, vs, r, w) => Heard(va, vs, r, Tail(w))
  BY TailIndex DEF Window, Heard

\* The first N(R) is accepted and becomes V(A).
LEMMA WindowAcked ==
    ASSUME NEW va \in SeqNos, NEW vs \in SeqNos, NEW w \in Seq(LinkFrames), w # <<>>,
           Numbered(Head(w)), Window(va, vs, w)
    PROVE  /\ InRange(Head(w).nr, va, vs)
           /\ Ahead(va, Head(w).nr) <= Ahead(va, vs)
           /\ Window(Head(w).nr, vs, Tail(w))
           /\ \A r \in SeqNos : Heard(va, vs, r, w) => Heard(Head(w).nr, vs, r, Tail(w))
  <1> DEFINE n == Head(w).nr
  <1>1. n \in SeqNos /\ Numbered(w[1]) /\ n = w[1].nr
    BY TailIndex, LinkFrameType
  <1>2. Ahead(va, n) <= Ahead(va, vs)
    BY <1>1, TailIndex DEF Window
  <1>3. ASSUME NEW i \in 1 .. Len(Tail(w)), Numbered(Tail(w)[i])
        PROVE  /\ Tail(w)[i].nr \in SeqNos
               /\ Ahead(va, n) <= Ahead(va, Tail(w)[i].nr)
               /\ Ahead(va, Tail(w)[i].nr) <= Ahead(va, vs)
    <2>1. i + 1 \in 1 .. Len(w) /\ Tail(w)[i] = w[i + 1] /\ 1 \in 1 .. Len(w) /\ 1 < i + 1
      BY TailIndex
    <2>2. w[i + 1] \in LinkFrames
      BY <2>1
    <2> QED  BY <1>1, <1>3, <2>1, <2>2, LinkFrameType DEF Window
  <1>4. \A m \in SeqNos : Ahead(va, m) \in Nat
    BY AheadNat
  <1>5. ASSUME NEW m \in SeqNos, Ahead(va, n) <= Ahead(va, m)
        PROVE  Ahead(n, m) = Ahead(va, m) - Ahead(va, n)
    BY <1>1, <1>5, AheadFrom
  <1> HIDE DEF n
  <1>6. Window(n, vs, Tail(w))
    <2>1. ASSUME NEW i \in 1 .. Len(Tail(w)), Numbered(Tail(w)[i])
          PROVE  Ahead(n, Tail(w)[i].nr) <= Ahead(n, vs)
      BY <1>1, <1>2, <1>3, <1>4, <1>5, <2>1
    <2>2. ASSUME NEW i \in 1 .. Len(Tail(w)), NEW j \in 1 .. Len(Tail(w)), i < j,
                 Numbered(Tail(w)[i]), Numbered(Tail(w)[j])
          PROVE  Ahead(n, Tail(w)[i].nr) <= Ahead(n, Tail(w)[j].nr)
      <3>1. Ahead(va, Tail(w)[i].nr) <= Ahead(va, Tail(w)[j].nr)
        BY <2>2, TailIndex DEF Window
      <3> QED  BY <1>1, <1>3, <1>4, <1>5, <2>2, <3>1
    <2> QED  BY <2>1, <2>2 DEF Window
  <1>7. ASSUME NEW r \in SeqNos, Heard(va, vs, r, w)
        PROVE  Heard(n, vs, r, Tail(w))
    <2>1. Ahead(va, r) <= Ahead(va, vs) /\ Ahead(va, n) <= Ahead(va, r)
      BY <1>1, <1>7, TailIndex DEF Heard
    <2>2. ASSUME NEW i \in 1 .. Len(Tail(w)), Numbered(Tail(w)[i])
          PROVE  Ahead(va, Tail(w)[i].nr) <= Ahead(va, r)
      BY <1>7, <2>2, TailIndex DEF Heard
    <2>3. ASSUME NEW i \in 1 .. Len(Tail(w)), Numbered(Tail(w)[i])
          PROVE  Ahead(n, Tail(w)[i].nr) <= Ahead(n, r)
      BY <1>1, <1>3, <1>4, <1>5, <2>1, <2>2, <2>3
    <2> QED  BY <1>2, <1>4, <1>5, <1>1, <2>1, <2>3 DEF Heard
  <1> QED  BY <1>1, <1>2, <1>6, <1>7, InRangeAhead DEF n

\* More frames are sent.
LEMMA WindowWider ==
    ASSUME NEW va \in SeqNos, NEW vs \in SeqNos, NEW n \in Nat, Ahead(va, vs) + n < Mod,
           NEW r \in SeqNos, NEW w \in Seq(LinkFrames)
    PROVE  /\ Window(va, vs, w) => Window(va, Plus(vs, n), w)
           /\ Heard(va, vs, r, w) => Heard(va, Plus(vs, n), r, w)
  <1>1. Ahead(va, Plus(vs, n)) = Ahead(va, vs) + n /\ Ahead(va, vs) \in Nat
    BY AheadPlus, AheadNat
  <1>2. \A i \in 1 .. Len(w) : Ahead(va, w[i].nr) \in Nat
    BY NumbersOf
  <1>3. Ahead(va, r) \in Nat
    BY AheadNat
  <1> QED  BY <1>1, <1>2, <1>3 DEF Window, Heard

\* Frames are appended: none numbered, or all with the N(R) of the sender.
LEMMA WindowOther ==
    ASSUME NEW va, NEW vs, NEW r, NEW w \in Seq(LinkFrames), NEW q \in Seq(LinkFrames),
           \A i \in 1 .. Len(q) : ~Numbered(q[i])
    PROVE  /\ Window(va, vs, w) => Window(va, vs, w \o q)
           /\ Heard(va, vs, r, w) => Heard(va, vs, r, w \o q)
  <1>1. ASSUME NEW i \in 1 .. Len(w \o q), Numbered((w \o q)[i])
        PROVE  i \in 1 .. Len(w) /\ (w \o q)[i] = w[i]
    BY <1>1, CatIndex
  <1> QED  BY <1>1 DEF Window, Heard

LEMMA WindowAppended ==
    ASSUME NEW va \in SeqNos, NEW vs \in SeqNos, NEW r \in SeqNos, NEW w \in Seq(LinkFrames),
           NEW q \in Seq(LinkFrames), \A i \in 1 .. Len(q) : q[i].nr = r,
           Window(va, vs, w), Heard(va, vs, r, w)
    PROVE  Window(va, vs, w \o q) /\ Heard(va, vs, r, w \o q)
  <1>1. ASSUME NEW i \in 1 .. Len(w \o q), Numbered((w \o q)[i])
        PROVE  Ahead(va, (w \o q)[i].nr) <= Ahead(va, r)
    <2>1. CASE i \in 1 .. Len(w) /\ (w \o q)[i] = w[i]
      BY <1>1, <2>1 DEF Heard
    <2>2. CASE i - Len(w) \in 1 .. Len(q) /\ (w \o q)[i] = q[i - Len(w)]
      <3>1. (w \o q)[i].nr = r /\ Ahead(va, r) \in Nat
        BY <2>2, AheadNat
      <3> QED  BY <3>1
    <2> QED  BY <2>1, <2>2, CatIndex
  <1>2. Ahead(va, r) <= Ahead(va, vs) /\ Ahead(va, r) \in Nat /\ Ahead(va, vs) \in Nat
    BY AheadNat DEF Heard
  <1>3. ASSUME NEW i \in 1 .. Len(w \o q)
        PROVE  Ahead(va, (w \o q)[i].nr) \in Nat
    <2>1. w \o q \in Seq(LinkFrames)
      BY CatIndex
    <2> QED  BY <2>1, NumbersOf
  <1>4. ASSUME NEW i \in 1 .. Len(w \o q), NEW j \in 1 .. Len(w \o q), i < j,
               Numbered((w \o q)[i]), Numbered((w \o q)[j])
        PROVE  Ahead(va, (w \o q)[i].nr) <= Ahead(va, (w \o q)[j].nr)
    <2>1. CASE j \in 1 .. Len(w) /\ (w \o q)[j] = w[j]
      <3>1. i \in 1 .. Len(w) /\ (w \o q)[i] = w[i]
        BY <1>4, <2>1, CatIndex
      <3> QED  BY <1>4, <2>1, <3>1 DEF Window
    <2>2. CASE j - Len(w) \in 1 .. Len(q) /\ (w \o q)[j] = q[j - Len(w)]
      <3>1. (w \o q)[j].nr = r
        BY <2>2
      <3> QED  BY <1>1, <1>4, <3>1
    <2> QED  BY <2>1, <2>2, CatIndex
  <1>5. \A i \in 1 .. Len(w \o q) : Numbered((w \o q)[i]) => Ahead(va, (w \o q)[i].nr) <= Ahead(va, vs)
    <2> SUFFICES ASSUME NEW i \in 1 .. Len(w \o q), Numbered((w \o q)[i])
                 PROVE  Ahead(va, (w \o q)[i].nr) <= Ahead(va, vs)
      OBVIOUS
    <2>1. Ahead(va, (w \o q)[i].nr) <= Ahead(va, r) /\ Ahead(va, (w \o q)[i].nr) \in Nat
      BY <1>1, <1>3
    <2> QED  BY <1>2, <2>1
  <1> QED  BY <1>1, <1>2, <1>4, <1>5 DEF Window, Heard

\* The sender of the acknowledgements takes one more frame.
LEMMA HeardMore ==
    ASSUME NEW va \in SeqNos, NEW vs \in SeqNos, NEW r \in SeqNos, NEW w \in Seq(LinkFrames),
           Heard(va, vs, r, w), r # vs
    PROVE  Heard(va, vs, Plus(r, 1), w)
  <1>1. /\ Ahead(va, r) \in Nat /\ Ahead(va, vs) \in Nat /\ Ahead(va, r) <= Ahead(va, vs)
        /\ Ahead(va, r) # Ahead(va, vs) /\ Ahead(va, vs) < Mod
    BY AheadNat, AheadSame DEF Heard
  <1>2. Ahead(va, Plus(r, 1)) = Ahead(va, r) + 1
    BY <1>1, AheadPlus, WindowAssumption
  <1>3. \A i \in 1 .. Len(w) : Ahead(va, w[i].nr) \in Nat
    BY NumbersOf
  <1> QED  BY <1>1, <1>2, <1>3 DEF Heard

-----------------------------------------------------------------------------
(* Information frames on their way: vs is the send variable of the end that *)
(* sends them on u, r and rej the receive variable and the reject exception *)
(* of the end that receives them and answers on w.                          *)

IsI(f) == f.type = "I"
IsRej(f) == f.type = "REJ"

Flow(vs, r, rej, u, w) ==
    /\ \A i \in 1 .. Len(u) : IsI(u[i]) => Ahead(r, u[i].ns) < Ahead(r, vs)
    /\ \A i, j \in 1 .. Len(u) :
         /\ i < j /\ IsI(u[i]) /\ IsI(u[j])
         /\ ~rej \/ \E h \in 1 .. Len(u) : h <= i /\ IsI(u[h]) /\ u[h].ns = r
         => Ahead(r, u[i].ns) < Ahead(r, u[j].ns)
    /\ \A i \in 1 .. Len(w) :
         IsRej(w[i]) => rej /\ w[i].nr = r /\ \A j \in 1 .. Len(u) : IsI(u[j]) => u[j].ns # r
    /\ \A i, j \in 1 .. Len(w) : IsRej(w[i]) /\ IsRej(w[j]) => i = j
    /\ rej => r # vs

\* n information frames, numbered from m on, with N(R) = r.
RunOf(q, m, n, r) ==
    /\ q \in Seq(LinkFrames) /\ Len(q) = n
    /\ \A i \in 1 .. n : IsI(q[i]) /\ q[i].ns = Plus(m, i - 1) /\ q[i].nr = r

LEMMA FlowTailU ==
    ASSUME NEW vs, NEW r, NEW rej, NEW u \in Seq(LinkFrames), NEW w, u # <<>>,
           Flow(vs, r, rej, u, w)
    PROVE  Flow(vs, r, rej, Tail(u), w)
  <1>1. ASSUME NEW i \in 1 .. Len(Tail(u))
        PROVE  i + 1 \in 1 .. Len(u) /\ Tail(u)[i] = u[i + 1]
    BY TailIndex
  <1>2. \A i \in 1 .. Len(Tail(u)) : IsI(Tail(u)[i]) => Ahead(r, Tail(u)[i].ns) < Ahead(r, vs)
    BY <1>1 DEF Flow
  <1>3. ASSUME NEW i \in 1 .. Len(Tail(u)), NEW j \in 1 .. Len(Tail(u)),
               i < j, IsI(Tail(u)[i]), IsI(Tail(u)[j]),
               ~rej \/ \E h \in 1 .. Len(Tail(u)) : h <= i /\ IsI(Tail(u)[h]) /\ Tail(u)[h].ns = r
        PROVE  Ahead(r, Tail(u)[i].ns) < Ahead(r, Tail(u)[j].ns)
    <2>1. ~rej \/ \E h \in 1 .. Len(u) : h <= i + 1 /\ IsI(u[h]) /\ u[h].ns = r
      BY <1>1, <1>3
    <2>2. i + 1 \in 1 .. Len(u) /\ j + 1 \in 1 .. Len(u) /\ i + 1 < j + 1 /\ IsI(u[i + 1]) /\ IsI(u[j + 1])
      BY <1>1, <1>3
    <2>3. Ahead(r, u[i + 1].ns) < Ahead(r, u[j + 1].ns)
      BY <2>1, <2>2 DEF Flow
    <2> QED  BY <1>1, <2>3
  <1>4. \A i \in 1 .. Len(w) :
          IsRej(w[i]) => rej /\ w[i].nr = r
                         /\ \A j \in 1 .. Len(Tail(u)) : IsI(Tail(u)[j]) => Tail(u)[j].ns # r
    BY <1>1 DEF Flow
  <1> QED  BY <1>2, <1>3, <1>4 DEF Flow

LEMMA FlowTailW ==
    ASSUME NEW vs, NEW r, NEW rej, NEW u, NEW w \in Seq(LinkFrames), w # <<>>,
           Flow(vs, r, rej, u, w)
    PROVE  Flow(vs, r, rej, u, Tail(w))
  <1>1. ASSUME NEW i \in 1 .. Len(Tail(w))
        PROVE  i + 1 \in 1 .. Len(w) /\ Tail(w)[i] = w[i + 1]
    BY TailIndex
  <1>2. ASSUME NEW i \in 1 .. Len(Tail(w)), NEW j \in 1 .. Len(Tail(w)),
               IsRej(Tail(w)[i]), IsRej(Tail(w)[j])
        PROVE  i = j
    <2>1. i + 1 = j + 1
      BY <1>1, <1>2 DEF Flow
    <2> QED  BY <2>1
  <1> QED  BY <1>1, <1>2 DEF Flow

LEMMA FlowOtherU ==
    ASSUME NEW vs, NEW r, NEW rej, NEW u \in Seq(LinkFrames), NEW w, NEW q \in Seq(LinkFrames),
           \A i \in 1 .. Len(q) : ~IsI(q[i]), Flow(vs, r, rej, u, w)
    PROVE  Flow(vs, r, rej, u \o q, w)
  <1>1. ASSUME NEW i \in 1 .. Len(u \o q), IsI((u \o q)[i])
        PROVE  i \in 1 .. Len(u) /\ (u \o q)[i] = u[i]
    BY <1>1, CatIndex
  <1>2. ASSUME NEW i \in 1 .. Len(u \o q), NEW j \in 1 .. Len(u \o q),
               i < j, IsI((u \o q)[i]), IsI((u \o q)[j]),
               ~rej \/ \E h \in 1 .. Len(u \o q) : h <= i /\ IsI((u \o q)[h]) /\ (u \o q)[h].ns = r
        PROVE  Ahead(r, (u \o q)[i].ns) < Ahead(r, (u \o q)[j].ns)
    <2>1. ~rej \/ \E h \in 1 .. Len(u) : h <= i /\ IsI(u[h]) /\ u[h].ns = r
      BY <1>1, <1>2
    <2> QED  BY <1>1, <1>2, <2>1 DEF Flow
  <1> QED  BY <1>1, <1>2 DEF Flow

LEMMA FlowOtherW ==
    ASSUME NEW vs, NEW r, NEW rej, NEW u, NEW w \in Seq(LinkFrames), NEW q \in Seq(LinkFrames),
           \A i \in 1 .. Len(q) : ~IsRej(q[i]), Flow(vs, r, rej, u, w)
    PROVE  Flow(vs, r, rej, u, w \o q)
  <1>1. ASSUME NEW i \in 1 .. Len(w \o q), IsRej((w \o q)[i])
        PROVE  i \in 1 .. Len(w) /\ (w \o q)[i] = w[i]
    BY <1>1, CatIndex
  <1> QED  BY <1>1 DEF Flow

\* Where the frames of a run are, seen from r.
LEMMA RunAhead ==
    ASSUME NEW r \in SeqNos, NEW m \in SeqNos, NEW n \in Nat, NEW nr, NEW q,
           RunOf(q, m, n, nr), Ahead(r, m) + n <= Mod, NEW i \in 1 .. n
    PROVE  Ahead(r, q[i].ns) = Ahead(r, m) + (i - 1) /\ Ahead(r, m) \in Nat
  <1>1. Ahead(r, m) \in Nat
    BY AheadNat
  <1>2. i - 1 \in Nat /\ Ahead(r, m) + (i - 1) < Mod
    BY <1>1, WindowAssumption
  <1>3. Ahead(r, Plus(m, i - 1)) = Ahead(r, m) + (i - 1)
    BY <1>2, AheadPlus
  <1> QED  BY <1>1, <1>3 DEF RunOf

\* New frames follow the old ones.
LEMMA FlowSent ==
    ASSUME NEW vs \in SeqNos, NEW r \in SeqNos, NEW rej, NEW u \in Seq(LinkFrames), NEW w,
           NEW n \in Nat, Ahead(r, vs) + n < Mod, NEW q, NEW nr, RunOf(q, vs, n, nr),
           Flow(vs, r, rej, u, w)
    PROVE  Flow(Plus(vs, n), r, rej, u \o q, w)
  <1> DEFINE v == u \o q
  <1>a. /\ q \in Seq(LinkFrames) /\ Len(q) = n
        /\ \A i \in 1 .. n : q[i].ns \in SeqNos /\ Ahead(r, q[i].ns) \in Nat
    BY NumbersOf DEF RunOf
  <1>b. Ahead(r, Plus(vs, n)) = Ahead(r, vs) + n /\ Ahead(r, vs) \in Nat
    BY AheadPlus, AheadNat
  <1>1. ASSUME NEW i \in 1 .. Len(v), IsI(v[i])
        PROVE  \/ /\ i \in 1 .. Len(u) /\ v[i] = u[i] /\ IsI(u[i])
                  /\ Ahead(r, v[i].ns) \in Nat /\ Ahead(r, v[i].ns) < Ahead(r, vs)
               \/ /\ i > Len(u) /\ i - Len(u) \in 1 .. n
                  /\ Ahead(r, v[i].ns) = Ahead(r, vs) + (i - Len(u) - 1)
    <2>1. CASE i \in 1 .. Len(u) /\ v[i] = u[i]
      BY <1>1, <2>1, NumbersOf DEF Flow
    <2>2. CASE i > Len(u) /\ i - Len(u) \in 1 .. Len(q) /\ v[i] = q[i - Len(u)]
      <3>0. i - Len(u) \in 1 .. n /\ Ahead(r, vs) + n <= Mod
        BY <1>a, <1>b, <2>2, WindowAssumption
      <3>1. Ahead(r, q[i - Len(u)].ns) = Ahead(r, vs) + (i - Len(u) - 1)
        BY <3>0, RunAhead
      <3> QED  BY <1>a, <2>2, <3>1
    <2> QED  BY <1>a, <2>1, <2>2, CatIndex
  <1>l. Len(u) \in Nat
    OBVIOUS
  <1> HIDE DEF v
  <1>2. ASSUME NEW i \in 1 .. Len(v), IsI(v[i])
        PROVE  Ahead(r, v[i].ns) < Ahead(r, Plus(vs, n))
    BY <1>b, <1>1, <1>2, <1>l
  <1>3. ASSUME NEW i \in 1 .. Len(v), NEW j \in 1 .. Len(v), i < j, IsI(v[i]), IsI(v[j]),
               ~rej \/ \E h \in 1 .. Len(v) : h <= i /\ IsI(v[h]) /\ v[h].ns = r
        PROVE  Ahead(r, v[i].ns) < Ahead(r, v[j].ns)
    <2>1. CASE j \in 1 .. Len(u)
      <3>1. i \in 1 .. Len(u) /\ v[i] = u[i] /\ v[j] = u[j] /\ IsI(u[i]) /\ IsI(u[j])
        BY <1>1, <1>3, <1>l, <2>1
      <3>2. ~rej \/ \E h \in 1 .. Len(u) : h <= i /\ IsI(u[h]) /\ u[h].ns = r
        <4> SUFFICES ASSUME NEW h \in 1 .. Len(v), h <= i, IsI(v[h]), v[h].ns = r
                     PROVE  h \in 1 .. Len(u) /\ IsI(u[h]) /\ u[h].ns = r
          BY <1>3
        <4> QED  BY <1>1, <1>l, <3>1
      <3>3. Ahead(r, u[i].ns) < Ahead(r, u[j].ns)
        BY <1>3, <2>1, <3>1, <3>2 DEF Flow
      <3> QED  BY <3>1, <3>3
    <2>2. CASE i \in 1 .. Len(u) /\ j \notin 1 .. Len(u)
      <3>1. Ahead(r, v[i].ns) \in Nat /\ Ahead(r, v[i].ns) < Ahead(r, vs)
        BY <1>1, <1>3, <1>l, <2>2
      <3>2. j - Len(u) \in 1 .. n /\ Ahead(r, v[j].ns) = Ahead(r, vs) + (j - Len(u) - 1)
        BY <1>1, <1>3, <2>2
      <3> QED  BY <1>b, <3>1, <3>2
    <2>3. CASE i \notin 1 .. Len(u) /\ j \notin 1 .. Len(u)
      <3>1. i - Len(u) \in 1 .. n /\ Ahead(r, v[i].ns) = Ahead(r, vs) + (i - Len(u) - 1)
        BY <1>1, <1>3, <2>3
      <3>2. j - Len(u) \in 1 .. n /\ Ahead(r, v[j].ns) = Ahead(r, vs) + (j - Len(u) - 1)
        BY <1>1, <1>3, <2>3
      <3> QED  BY <1>b, <1>3, <1>l, <3>1, <3>2
    <2> QED  BY <1>3, <1>l, <2>1, <2>2, <2>3
  <1>4. rej => Ahead(r, vs) > 0
    <2>1. rej => r # vs
      BY DEF Flow
    <2> QED  BY <1>b, <2>1, AheadSame
  <1>5. rej => r # Plus(vs, n)
    <2>1. Ahead(r, r) = 0
      BY AheadSame
    <2> QED  BY <1>4, <1>b, <2>1
  <1>6. ASSUME NEW i \in 1 .. Len(w), IsRej(w[i])
        PROVE  rej /\ w[i].nr = r /\ \A j \in 1 .. Len(v) : IsI(v[j]) => v[j].ns # r
    <2>1. rej /\ w[i].nr = r /\ \A j \in 1 .. Len(u) : IsI(u[j]) => u[j].ns # r
      BY <1>6 DEF Flow
    <2>2. ASSUME NEW j \in 1 .. Len(v), IsI(v[j]), v[j].ns = r
          PROVE  FALSE
      <3>1. CASE j \in 1 .. Len(u)
        BY <1>1, <1>l, <2>1, <2>2, <3>1
      <3>2. CASE j \notin 1 .. Len(u)
        <4>1. Ahead(r, v[j].ns) > 0
          BY <1>1, <1>4, <1>b, <2>1, <2>2, <3>2
        <4> QED  BY <2>2, <4>1, AheadSame
      <3> QED  BY <3>1, <3>2
    <2> QED  BY <2>1, <2>2
  <1> QED  BY <1>2, <1>3, <1>5, <1>6 DEF Flow, v

\* A REJ is answered: everything from r on is sent again.
LEMMA FlowAgain ==
    ASSUME NEW vs \in SeqNos, NEW r \in SeqNos, NEW rej, NEW u \in Seq(LinkFrames),
           NEW w \in Seq(LinkFrames), w # <<>>, IsRej(Head(w)),
           NEW q, NEW nr, RunOf(q, r, Ahead(r, vs), nr), Flow(vs, r, rej, u, w)
    PROVE  Flow(vs, r, rej, u \o q, Tail(w))
  <1> DEFINE v == u \o q
             n == Ahead(r, vs)
  <1>a. /\ q \in Seq(LinkFrames) /\ Len(q) = n /\ n \in Nat /\ n < Mod /\ Len(u) \in Nat
        /\ Ahead(r, r) = 0 /\ RunOf(q, r, n, nr)
    BY AheadNat, AheadSame DEF RunOf
  <1> HIDE DEF n
  <1>b. rej /\ r # vs /\ \A j \in 1 .. Len(u) : IsI(u[j]) => u[j].ns # r
    BY TailIndex DEF Flow
  <1>c. \A i \in 1 .. Len(u) : IsI(u[i]) => Ahead(r, u[i].ns) < n
    BY DEF Flow, n
  <1>1. ASSUME NEW i \in 1 .. Len(v), IsI(v[i])
        PROVE  \/ i \in 1 .. Len(u) /\ v[i].ns # r /\ Ahead(r, v[i].ns) < n
               \/ i > Len(u) /\ i - Len(u) \in 1 .. n /\ Ahead(r, v[i].ns) = i - Len(u) - 1
    <2>1. CASE i \in 1 .. Len(u) /\ v[i] = u[i]
      BY <1>1, <1>b, <1>c, <2>1
    <2>2. CASE i > Len(u) /\ i - Len(u) \in 1 .. Len(q) /\ v[i] = q[i - Len(u)]
      <3>1. i - Len(u) \in 1 .. n /\ Ahead(r, r) + n <= Mod
        BY <1>a, <2>2, WindowAssumption
      <3>0. n \in Nat /\ RunOf(q, r, n, nr) /\ Ahead(r, r) + n <= Mod
        BY <1>a, <3>1
      <3>2. ASSUME NEW k \in 1 .. n  PROVE Ahead(r, q[k].ns) = Ahead(r, r) + (k - 1)
        BY <3>0, RunAhead
      <3>3. Ahead(r, q[i - Len(u)].ns) = i - Len(u) - 1
        BY <1>a, <3>1, <3>2
      <3> QED  BY <1>a, <2>2, <3>1, <3>3
    <2> QED  BY <1>a, <2>1, <2>2, CatIndex
  <1> HIDE DEF v
  <1>2. ASSUME NEW i \in 1 .. Len(v), IsI(v[i])
        PROVE  Ahead(r, v[i].ns) < n
    BY <1>1, <1>2, <1>a
  <1>3. ASSUME NEW i \in 1 .. Len(v), NEW j \in 1 .. Len(v), i < j, IsI(v[i]), IsI(v[j]),
               \E h \in 1 .. Len(v) : h <= i /\ IsI(v[h]) /\ v[h].ns = r
        PROVE  Ahead(r, v[i].ns) < Ahead(r, v[j].ns)
    <2>1. PICK h \in 1 .. Len(v) : h <= i /\ IsI(v[h]) /\ v[h].ns = r
      BY <1>3
    <2>2. h > Len(u)
      BY <1>1, <2>1
    <2>3. i > Len(u) /\ j > Len(u)
      BY <1>3, <1>a, <2>1, <2>2
    <2>4. Ahead(r, v[i].ns) = i - Len(u) - 1 /\ Ahead(r, v[j].ns) = j - Len(u) - 1
      BY <1>1, <1>3, <1>a, <2>3
    <2> QED  BY <1>3, <1>a, <2>4
  <1>4. ASSUME NEW i \in 1 .. Len(Tail(w))
        PROVE  ~IsRej(Tail(w)[i])
    <2>1. i + 1 \in 1 .. Len(w) /\ Tail(w)[i] = w[i + 1] /\ 1 \in 1 .. Len(w) /\ IsRej(w[1])
      BY TailIndex
    <2>2. IsRej(w[i + 1]) => i + 1 = 1
      BY <2>1 DEF Flow
    <2> QED  BY <2>1, <2>2
  <1> QED  BY <1>2, <1>3, <1>4, <1>b DEF Flow, v, n

\* The expected frame arrives.
LEMMA FlowAccept ==
    ASSUME NEW vs \in SeqNos, NEW r \in SeqNos, NEW rej, NEW u \in Seq(LinkFrames), u # <<>>,
           NEW w, IsI(Head(u)), Head(u).ns = r, Flow(vs, r, rej, u, w)
    PROVE  r # vs /\ Flow(vs, Plus(r, 1), FALSE, Tail(u), w)
  <1>1. u[1].ns = r /\ IsI(u[1]) /\ 1 \in 1 .. Len(u) /\ Ahead(r, r) = 0
    BY TailIndex, AheadSame
  <1>2. Ahead(r, vs) > 0 /\ r # vs /\ Ahead(r, vs) \in Nat
    BY <1>1, AheadNat DEF Flow
  <1>3. ASSUME NEW i \in 1 .. Len(Tail(u)), IsI(Tail(u)[i])
        PROVE  /\ i + 1 \in 1 .. Len(u) /\ Tail(u)[i] = u[i + 1] /\ IsI(u[i + 1])
               /\ Ahead(r, Tail(u)[i].ns) \in Nat /\ Ahead(r, Tail(u)[i].ns) < Ahead(r, vs)
               /\ Ahead(Plus(r, 1), Tail(u)[i].ns) = Ahead(r, Tail(u)[i].ns) - 1
    <2>1. i + 1 \in 1 .. Len(u) /\ Tail(u)[i] = u[i + 1] /\ 1 < i + 1
      BY TailIndex
    <2>2. u[i + 1].ns \in SeqNos /\ Ahead(r, u[i + 1].ns) \in Nat
      BY <2>1, NumbersOf
    <2>3. Ahead(r, u[1].ns) < Ahead(r, u[i + 1].ns)
      BY <1>1, <1>3, <2>1 DEF Flow
    <2>4. Ahead(r, u[i + 1].ns) < Ahead(r, vs)
      BY <1>3, <2>1 DEF Flow
    <2>5. u[i + 1].ns # r
      BY <1>1, <2>2, <2>3
    <2>6. Ahead(Plus(r, 1), u[i + 1].ns) = Ahead(r, u[i + 1].ns) - 1
      BY <2>2, <2>5, PlusOne
    <2> QED  BY <1>3, <2>1, <2>2, <2>4, <2>6
  <1>4. Ahead(Plus(r, 1), vs) = Ahead(r, vs) - 1
    BY <1>2, PlusOne
  <1>5. \A i \in 1 .. Len(Tail(u)) :
          IsI(Tail(u)[i]) => Ahead(Plus(r, 1), Tail(u)[i].ns) < Ahead(Plus(r, 1), vs)
    BY <1>2, <1>3, <1>4
  <1>6. ASSUME NEW i \in 1 .. Len(Tail(u)), NEW j \in 1 .. Len(Tail(u)), i < j,
               IsI(Tail(u)[i]), IsI(Tail(u)[j])
        PROVE  Ahead(Plus(r, 1), Tail(u)[i].ns) < Ahead(Plus(r, 1), Tail(u)[j].ns)
    <2>1. i + 1 < j + 1 /\ 1 <= i + 1
      BY <1>6
    <2>2. Ahead(r, u[i + 1].ns) < Ahead(r, u[j + 1].ns)
      BY <1>1, <1>3, <1>6, <2>1 DEF Flow
    <2> QED  BY <1>3, <1>6, <2>2
  <1>7. \A i \in 1 .. Len(w) : ~IsRej(w[i])
    BY <1>1 DEF Flow
  <1> QED  BY <1>2, <1>5, <1>6, <1>7 DEF Flow

\* Another frame arrives, and a REJ is sent.
LEMMA FlowRefuse ==
    ASSUME NEW vs \in SeqNos, NEW r \in SeqNos, NEW u \in Seq(LinkFrames), u # <<>>,
           NEW w \in Seq(LinkFrames), NEW q \in Seq(LinkFrames), Len(q) = 1, IsRej(q[1]), q[1].nr = r,
           IsI(Head(u)), Head(u).ns # r, Flow(vs, r, FALSE, u, w)
    PROVE  Flow(vs, r, TRUE, Tail(u), w \o q)
  <1>1. /\ u[1].ns # r /\ IsI(u[1]) /\ 1 \in 1 .. Len(u) /\ Ahead(r, r) = 0
        /\ Ahead(r, u[1].ns) \in Nat /\ Ahead(r, vs) \in Nat /\ u[1].ns \in SeqNos
    BY TailIndex, AheadSame, NumbersOf, AheadNat
  <1>2. Ahead(r, u[1].ns) > 0 /\ Ahead(r, u[1].ns) < Ahead(r, vs)
    <2>1. Ahead(r, u[1].ns) # 0
      BY <1>1, AheadSame
    <2> QED  BY <1>1, <2>1 DEF Flow
  <1>3. r # vs
    BY <1>1, <1>2
  <1>4. ASSUME NEW i \in 1 .. Len(Tail(u)), IsI(Tail(u)[i])
        PROVE  /\ i + 1 \in 1 .. Len(u) /\ Tail(u)[i] = u[i + 1] /\ IsI(u[i + 1])
               /\ Tail(u)[i].ns # r /\ Ahead(r, Tail(u)[i].ns) < Ahead(r, vs)
    <2>1. i + 1 \in 1 .. Len(u) /\ Tail(u)[i] = u[i + 1] /\ 1 < i + 1
      BY TailIndex
    <2>2. Ahead(r, u[1].ns) < Ahead(r, u[i + 1].ns) /\ Ahead(r, u[i + 1].ns) < Ahead(r, vs)
      BY <1>1, <1>4, <2>1 DEF Flow
    <2>3. u[i + 1].ns # r
      BY <1>1, <1>2, <2>2
    <2> QED  BY <1>4, <2>1, <2>2, <2>3
  <1>5. ASSUME NEW i \in 1 .. Len(w \o q), IsRej((w \o q)[i])
        PROVE  i = Len(w) + 1 /\ (w \o q)[i] = q[1]
    <2>1. CASE i \in 1 .. Len(w) /\ (w \o q)[i] = w[i]
      BY <1>5, <2>1 DEF Flow
    <2>2. CASE i > Len(w) /\ i - Len(w) \in 1 .. Len(q) /\ (w \o q)[i] = q[i - Len(w)]
      BY <2>2
    <2>3. \/ i \in 1 .. Len(w) /\ (w \o q)[i] = w[i]
          \/ i > Len(w) /\ i - Len(w) \in 1 .. Len(q) /\ (w \o q)[i] = q[i - Len(w)]
      BY CatIndex
    <2> QED  BY <2>1, <2>2, <2>3
  <1>6. ASSUME NEW i \in 1 .. Len(w \o q), NEW j \in 1 .. Len(w \o q),
               IsRej((w \o q)[i]), IsRej((w \o q)[j])
        PROVE  i = j
    BY <1>5, <1>6
  <1> QED  BY <1>3, <1>4, <1>5, <1>6 DEF Flow

-----------------------------------------------------------------------------
(* The control part.  e is the phase of the end that sends on u and reads  *)
(* w, p the phase of the other.  Control says which kinds of frames may be *)
(* under way, and in which order, for each pair of phases: without it a    *)
(* late UA or DM would set V(S) and V(R) back under the frames behind it.  *)

\* What a frame does to a link: a DM with F = 0 asks for one, a DM with
\* F = 1 answers; an RR command polls.
Kind(f) ==
    IF f.type \in {"SABME", "DISC", "UA"} THEN f.type
    ELSE IF f.type = "DM" THEN IF f.pf THEN "DMF" ELSE "DM"
    ELSE IF f.type = "RR" /\ f.cr = "cmd" THEN "POLL" ELSE "NUM"

Has(w, a) == \E i \in 1 .. Len(w) : Kind(w[i]) = a
Before(w, a, b) == \E i, j \in 1 .. Len(w) : i < j /\ Kind(w[i]) = a /\ Kind(w[j]) = b
Third(w, a, b, c) ==
    \E i, j, k \in 1 .. Len(w) : i < j /\ j < k /\ Kind(w[i]) = a /\ Kind(w[j]) = b /\ Kind(w[k]) = c
Newest(w, a) == w # <<>> /\ Kind(w[Len(w)]) = a

Kinds == {"SABME", "DISC", "UA", "DMF", "DM", "NUM", "POLL"}
Phases == {"down", "calling", "leaving", "up"}

\* The newest frame an end has sent tells its phase.
LastFits(e, p, u) ==
    /\ Newest(u, "SABME") => e = "calling" \/ (e = "down" /\ p \in {"down", "calling"})
    /\ Newest(u, "DISC") => e = "leaving" \/ (e = "down" /\ p # "calling")
    /\ Newest(u, "UA") => e = "up" \/ (e = "down" /\ p # "calling")
    /\ Newest(u, "DMF") \/ Newest(u, "DM") => e = "down"
    /\ Newest(u, "NUM") \/ Newest(u, "POLL") => e = "up"

\* What may be on a wire at all.
Present(e, p, u) ==
    /\ Has(u, "SABME") => e = "calling" \/ p \in {"down", "calling"} \/ (e = "down" /\ p = "leaving")
    /\ Has(u, "UA") \/ Has(u, "NUM") \/ Has(u, "POLL") =>
         (e = "down" => p # "calling") /\ (e = "calling" => p = "down")
    /\ Has(u, "DISC") => (e = "down" => p # "calling") /\ (e = "calling" => p = "down") /\ (e = "up" => p = "calling")
    /\ Has(u, "DMF") \/ Has(u, "DM") => e = "down" \/ p = "calling" \/ (e = "calling" /\ p = "down")

\* What no end ever sends after what.
Never(u) ==
    /\ \A b \in {"SABME", "DMF", "DM", "POLL"} : ~Before(u, "SABME", b)
    /\ \A a \in {"DISC", "UA", "DMF", "DM", "NUM", "POLL"} : ~Before(u, a, "POLL")
    /\ \A a \in {"DISC", "UA", "DMF"} : ~Third(u, a, "DISC", "DISC")
    /\ \A a \in {"DISC", "UA"} : ~Third(u, a, "DISC", "NUM")
    /\ \A a \in {"DMF", "DM"} : ~Third(u, "DM", "DMF", a)

\* What may be on a wire behind what.
Order(e, p, u) ==
    /\ Before(u, "SABME", "NUM") => e \in {"leaving", "up"} /\ p \in {"down", "calling"}
    /\ Before(u, "SABME", "DISC") => e = "leaving" /\ p \in {"down", "calling"}
    /\ Before(u, "DISC", "SABME") \/ Before(u, "NUM", "SABME") => e = "calling" /\ p = "down"
    /\ Before(u, "UA", "SABME") => e \in {"down", "calling"} /\ p = "down"
    /\ Before(u, "POLL", "SABME") => p = "calling"
    /\ Before(u, "DISC", "DISC") => (e = "down" /\ p \in {"leaving", "up"}) \/ (e = "leaving" /\ p # "down")
    /\ Before(u, "DISC", "NUM") => (e = "down" /\ p \in {"leaving", "up"}) \/ (e \in {"leaving", "up"} /\ p # "down")
    /\ \A a \in {"DMF", "DM"} : /\ Before(u, a, "UA") \/ Before(u, a, "NUM") => e \in {"leaving", "up"} /\ p = "calling"
                                /\ Before(u, a, "DISC") => e = "leaving" /\ p = "calling"
    /\ \A a \in {"DISC", "UA", "NUM"}, b \in {"DMF", "DM"} :
         Before(u, a, b) => (e = "down" /\ p # "calling") \/ (e = "calling" /\ p = "down")
    /\ Before(u, "UA", "UA") \/ Before(u, "DMF", "DM") => (e = "down" /\ p # "calling") \/ (e = "calling" /\ p = "down")
    /\ Before(u, "DMF", "DMF") => (e = "down" /\ p \in {"down", "leaving"}) \/ (e = "calling" /\ p = "down")
    /\ Before(u, "DM", "DMF") => (e = "down" /\ p # "up") \/ (e = "calling" /\ p = "down") \/ p = "calling"

\* What may be on the two wires at once.
Crossing(e, p, u, w) ==
    /\ Has(u, "SABME") /\ Has(w, "SABME") => {e, p} \subseteq {"down", "calling"}
    /\ ~(Has(u, "SABME") /\ Has(w, "UA"))
    /\ Has(u, "SABME") /\ Has(w, "NUM") => e = "calling" /\ p \in {"leaving", "up"}
    /\ Has(u, "SABME") /\ Has(w, "POLL") => e = "calling" /\ p \in {"down", "calling"}
    /\ (Has(u, "UA") \/ Has(u, "NUM")) /\ Has(w, "UA") => e # "calling" /\ p # "calling"
    /\ ~(Has(u, "POLL") /\ Has(w, "UA"))
    /\ Newest(u, "SABME") /\ Has(w, "DISC") => e = "calling" /\ p = "leaving"
    /\ \A a \in {"DMF", "DM"} : /\ Newest(u, "SABME") /\ Has(w, a) => e = "calling" /\ p \in {"down", "calling"}
                                /\ Newest(u, a) /\ Has(w, "SABME") => e = "down" /\ p = "calling"
                                /\ ~(Newest(u, a) /\ Has(w, "POLL"))
    /\ Newest(u, "DISC") /\ Has(w, "SABME") => e = "leaving" /\ p = "calling"
    /\ Newest(u, "DMF") /\ Has(w, "DISC") => e = "down" /\ p \in {"down", "leaving"}
    /\ Newest(u, "DMF") /\ Has(w, "NUM") => e = "down" /\ p # "calling"
    /\ ~(Before(u, "DM", "DMF") /\ (Has(w, "DISC") \/ Has(w, "NUM")))
    /\ ~(Before(u, "SABME", "NUM") /\ Has(w, "SABME"))
    /\ ~(Before(u, "DISC", "DISC") /\ Has(w, "SABME"))

Control(e, p, u, w) ==
    LastFits(e, p, u) /\ Present(e, p, u) /\ Never(u) /\ Order(e, p, u) /\ Crossing(e, p, u, w)

Ctl(e, p, u, w) == Control(e, p, u, w) /\ Control(p, e, w, u)

\* How these patterns depend on each other.
Shape(u) ==
    /\ \A a : Newest(u, a) => Has(u, a)
    /\ \A a, b : Before(u, a, b) => Has(u, a) /\ Has(u, b)
    /\ \A a, b, c : Third(u, a, b, c) => Before(u, a, b) /\ Before(u, b, c) /\ Before(u, a, c)
    /\ \A a : Has(u, a) => \E b \in Kinds : Newest(u, b) /\ (a = b \/ Before(u, a, b))
    /\ \A a, b : Before(u, a, b) => \E c \in Kinds : Newest(u, c) /\ (c = b \/ Third(u, a, b, c))

\* u2 is u and frames of kind k behind it, one unless they are numbered.
Grown(u, u2, k) ==
    /\ Shape(u2)
    /\ \A a : Has(u2, a) => Has(u, a) \/ a = k
    /\ \A a, b : Before(u2, a, b) => Before(u, a, b) \/ (b = k /\ (Has(u, a) \/ (a = k /\ k = "NUM")))
    /\ \A a, b, c : Third(u2, a, b, c) =>
         Third(u, a, b, c) \/ (c = k /\ (Before(u, a, b) \/ (b = k /\ k = "NUM")))
    /\ \A a : Newest(u2, a) => a = k

\* w2 is w without its first frame, of kind k.
Shorter(w, w2, k) ==
    /\ Shape(w2)
    /\ Has(w, k)
    /\ \A a : Has(w2, a) => Has(w, a) /\ Before(w, k, a)
    /\ \A a, b : Before(w2, a, b) => Before(w, a, b) /\ Third(w, k, a, b)
    /\ \A a, b, c : Third(w2, a, b, c) => Third(w, a, b, c)
    /\ \A a : Newest(w2, a) => Newest(w, a)

\* A SABME is read in any phase.
LEMMA ReadSabme ==
    ASSUME NEW e \in Phases, NEW p \in Phases, NEW u, NEW w, NEW u2, NEW w2,
           Ctl(e, p, u, w), Shape(u), Shape(w),
           Shorter(w, w2, "SABME"), Grown(u, u2, "UA")
    PROVE  Ctl("up", p, u2, w2)
  <1>1. Control("up", p, u2, w2)
    BY SMTT(60) DEF Phases, Kinds, Shape, Ctl, Control, LastFits, Present, Never, Order, Crossing, Shorter, Grown
  <1>2. Control(p, "up", w2, u2)
    BY SMTT(60) DEF Phases, Kinds, Shape, Ctl, Control, LastFits, Present, Never, Order, Crossing, Shorter, Grown
  <1> QED BY <1>1, <1>2 DEF Ctl

\* A DISC is read by an end that has a link.
LEMMA ReadDisc ==
    ASSUME NEW e \in Phases, NEW p \in Phases, NEW u, NEW w, NEW u2, NEW w2,
           Ctl(e, p, u, w), Shape(u), Shape(w),
           e # "down", Shorter(w, w2, "DISC"), Grown(u, u2, "UA")
    PROVE  Ctl("down", p, u2, w2)
  <1>1. Control("down", p, u2, w2)
    BY SMTT(60) DEF Phases, Kinds, Shape, Ctl, Control, LastFits, Present, Never, Order, Crossing, Shorter, Grown
  <1>2. Control(p, "down", w2, u2)
    BY SMTT(60) DEF Phases, Kinds, Shape, Ctl, Control, LastFits, Present, Never, Order, Crossing, Shorter, Grown
  <1> QED BY <1>1, <1>2 DEF Ctl

\* A DISC is read by an end that has none.
LEMMA DownDisc ==
    ASSUME NEW e \in Phases, NEW p \in Phases, NEW u, NEW w, NEW u2, NEW w2,
           Ctl(e, p, u, w), Shape(u), Shape(w),
           e = "down", Shorter(w, w2, "DISC"), Grown(u, u2, "DMF")
    PROVE  Ctl("down", p, u2, w2)
  <1>1. Control("down", p, u2, w2)
    BY SMTT(60) DEF Phases, Kinds, Shape, Ctl, Control, LastFits, Present, Never, Order, Crossing, Shorter, Grown
  <1>2. Control(p, "down", w2, u2)
    BY SMTT(60) DEF Phases, Kinds, Shape, Ctl, Control, LastFits, Present, Never, Order, Crossing, Shorter, Grown
  <1> QED BY <1>1, <1>2 DEF Ctl

\* A frame is read, or lost, and changes no phase.
LEMMA ReadOnly ==
    ASSUME NEW e \in Phases, NEW p \in Phases, NEW u, NEW w, NEW w2,
           Ctl(e, p, u, w), Shape(u), Shape(w),
           NEW k \in Kinds, Shorter(w, w2, k)
    PROVE  Ctl(e, p, u, w2)
  <1>1. Control(e, p, u, w2)
    BY SMTT(60) DEF Phases, Kinds, Shape, Ctl, Control, LastFits, Present, Never, Order, Crossing, Shorter, Grown
  <1>2. Control(p, e, w2, u)
    BY SMTT(60) DEF Phases, Kinds, Shape, Ctl, Control, LastFits, Present, Never, Order, Crossing, Shorter, Grown
  <1> QED BY <1>1, <1>2 DEF Ctl

\* A DM with F = 0 asks a disconnected end for a link.
LEMMA DownDm ==
    ASSUME NEW e \in Phases, NEW p \in Phases, NEW u, NEW w, NEW u2, NEW w2,
           Ctl(e, p, u, w), Shape(u), Shape(w),
           e = "down", Shorter(w, w2, "DM"), Grown(u, u2, "SABME")
    PROVE  Ctl("calling", p, u2, w2)
  <1>1. Control("calling", p, u2, w2)
    BY SMTT(60) DEF Phases, Kinds, Shape, Ctl, Control, LastFits, Present, Never, Order, Crossing, Shorter, Grown
  <1>2. Control(p, "calling", w2, u2)
    BY SMTT(60) DEF Phases, Kinds, Shape, Ctl, Control, LastFits, Present, Never, Order, Crossing, Shorter, Grown
  <1> QED BY <1>1, <1>2 DEF Ctl

\* A disconnected end answers an information frame.
LEMMA DownNum ==
    ASSUME NEW e \in Phases, NEW p \in Phases, NEW u, NEW w, NEW u2, NEW w2,
           Ctl(e, p, u, w), Shape(u), Shape(w),
           e = "down", Shorter(w, w2, "NUM"), Grown(u, u2, "DM")
    PROVE  Ctl("down", p, u2, w2)
  <1>1. Control("down", p, u2, w2)
    BY SMTT(60) DEF Phases, Kinds, Shape, Ctl, Control, LastFits, Present, Never, Order, Crossing, Shorter, Grown
  <1>2. Control(p, "down", w2, u2)
    BY SMTT(60) DEF Phases, Kinds, Shape, Ctl, Control, LastFits, Present, Never, Order, Crossing, Shorter, Grown
  <1> QED BY <1>1, <1>2 DEF Ctl

\* A disconnected end is polled.
LEMMA DownPoll ==
    ASSUME NEW e \in Phases, NEW p \in Phases, NEW u, NEW w, NEW u2, NEW w2,
           Ctl(e, p, u, w), Shape(u), Shape(w),
           e = "down", Shorter(w, w2, "POLL"), Grown(u, u2, "DMF")
    PROVE  Ctl("down", p, u2, w2)
  <1>1. Control("down", p, u2, w2)
    BY SMTT(60) DEF Phases, Kinds, Shape, Ctl, Control, LastFits, Present, Never, Order, Crossing, Shorter, Grown
  <1>2. Control(p, "down", w2, u2)
    BY SMTT(60) DEF Phases, Kinds, Shape, Ctl, Control, LastFits, Present, Never, Order, Crossing, Shorter, Grown
  <1> QED BY <1>1, <1>2 DEF Ctl

\* A caller has its UA and nothing to send.
LEMMA CallingUa0 ==
    ASSUME NEW e \in Phases, NEW p \in Phases, NEW u, NEW w, NEW w2,
           Ctl(e, p, u, w), Shape(u), Shape(w),
           e = "calling", Shorter(w, w2, "UA")
    PROVE  Ctl("up", p, u, w2)
  <1>1. Control("up", p, u, w2)
    BY SMTT(60) DEF Phases, Kinds, Shape, Ctl, Control, LastFits, Present, Never, Order, Crossing, Shorter, Grown
  <1>2. Control(p, "up", w2, u)
    BY SMTT(60) DEF Phases, Kinds, Shape, Ctl, Control, LastFits, Present, Never, Order, Crossing, Shorter, Grown
  <1> QED BY <1>1, <1>2 DEF Ctl

\* A caller has its UA and sends its backlog.
LEMMA CallingUa1 ==
    ASSUME NEW e \in Phases, NEW p \in Phases, NEW u, NEW w, NEW u2, NEW w2,
           Ctl(e, p, u, w), Shape(u), Shape(w),
           e = "calling", Shorter(w, w2, "UA"), Grown(u, u2, "NUM")
    PROVE  Ctl("up", p, u2, w2)
  <1>1. Control("up", p, u2, w2)
    BY SMTT(60) DEF Phases, Kinds, Shape, Ctl, Control, LastFits, Present, Never, Order, Crossing, Shorter, Grown
  <1>2. Control(p, "up", w2, u2)
    BY SMTT(60) DEF Phases, Kinds, Shape, Ctl, Control, LastFits, Present, Never, Order, Crossing, Shorter, Grown
  <1> QED BY <1>1, <1>2 DEF Ctl

\* A caller is refused.
LEMMA CallingDmf ==
    ASSUME NEW e \in Phases, NEW p \in Phases, NEW u, NEW w, NEW w2,
           Ctl(e, p, u, w), Shape(u), Shape(w),
           e = "calling", Shorter(w, w2, "DMF")
    PROVE  Ctl("down", p, u, w2)
  <1>1. Control("down", p, u, w2)
    BY SMTT(60) DEF Phases, Kinds, Shape, Ctl, Control, LastFits, Present, Never, Order, Crossing, Shorter, Grown
  <1>2. Control(p, "down", w2, u)
    BY SMTT(60) DEF Phases, Kinds, Shape, Ctl, Control, LastFits, Present, Never, Order, Crossing, Shorter, Grown
  <1> QED BY <1>1, <1>2 DEF Ctl

\* A DISC is answered.
LEMMA LeavingDone ==
    ASSUME NEW e \in Phases, NEW p \in Phases, NEW u, NEW w, NEW w2,
           Ctl(e, p, u, w), Shape(u), Shape(w),
           e = "leaving", NEW k \in {"UA", "DMF"}, Shorter(w, w2, k)
    PROVE  Ctl("down", p, u, w2)
  <1>1. Control("down", p, u, w2)
    BY SMTT(60) DEF Phases, Kinds, Shape, Ctl, Control, LastFits, Present, Never, Order, Crossing, Shorter, Grown
  <1>2. Control(p, "down", w2, u)
    BY SMTT(60) DEF Phases, Kinds, Shape, Ctl, Control, LastFits, Present, Never, Order, Crossing, Shorter, Grown
  <1> QED BY <1>1, <1>2 DEF Ctl

\* The other end has no link: it is called again.
LEMMA UpDm ==
    ASSUME NEW e \in Phases, NEW p \in Phases, NEW u, NEW w, NEW u2, NEW w2,
           Ctl(e, p, u, w), Shape(u), Shape(w),
           e = "up", NEW k \in {"DM", "DMF"}, Shorter(w, w2, k), Grown(u, u2, "SABME")
    PROVE  Ctl("calling", p, u2, w2)
  <1>1. Control("calling", p, u2, w2)
    BY SMTT(60) DEF Phases, Kinds, Shape, Ctl, Control, LastFits, Present, Never, Order, Crossing, Shorter, Grown
  <1>2. Control(p, "calling", w2, u2)
    BY SMTT(60) DEF Phases, Kinds, Shape, Ctl, Control, LastFits, Present, Never, Order, Crossing, Shorter, Grown
  <1> QED BY <1>1, <1>2 DEF Ctl

\* A numbered frame is answered.
LEMMA UpNum ==
    ASSUME NEW e \in Phases, NEW p \in Phases, NEW u, NEW w, NEW u2, NEW w2,
           Ctl(e, p, u, w), Shape(u), Shape(w),
           e = "up", NEW k \in {"NUM", "POLL"}, Shorter(w, w2, k), Grown(u, u2, "NUM")
    PROVE  Ctl("up", p, u2, w2)
  <1>1. Control("up", p, u2, w2)
    BY SMTT(60) DEF Phases, Kinds, Shape, Ctl, Control, LastFits, Present, Never, Order, Crossing, Shorter, Grown
  <1>2. Control(p, "up", w2, u2)
    BY SMTT(60) DEF Phases, Kinds, Shape, Ctl, Control, LastFits, Present, Never, Order, Crossing, Shorter, Grown
  <1> QED BY <1>1, <1>2 DEF Ctl

\* Layer 3 asks for the link.
LEMMA AskUp ==
    ASSUME NEW e \in Phases, NEW p \in Phases, NEW u, NEW w, NEW u2,
           Ctl(e, p, u, w), Shape(u), Shape(w),
           e = "down", \A a : ~Has(u, a), \A a : Has(w, a) => a = "SABME", Grown(u, u2, "SABME")
    PROVE  Ctl("calling", p, u2, w)
  <1>1. Control("calling", p, u2, w)
    BY SMTT(60) DEF Phases, Kinds, Shape, Ctl, Control, LastFits, Present, Never, Order, Crossing, Shorter, Grown
  <1>2. Control(p, "calling", w, u2)
    BY SMTT(60) DEF Phases, Kinds, Shape, Ctl, Control, LastFits, Present, Never, Order, Crossing, Shorter, Grown
  <1> QED BY <1>1, <1>2 DEF Ctl

\* Layer 3 gives the link up.
LEMMA AskDown ==
    ASSUME NEW e \in Phases, NEW p \in Phases, NEW u, NEW w, NEW u2,
           Ctl(e, p, u, w), Shape(u), Shape(w),
           e = "up", Grown(u, u2, "DISC")
    PROVE  Ctl("leaving", p, u2, w)
  <1>1. Control("leaving", p, u2, w)
    BY SMTT(60) DEF Phases, Kinds, Shape, Ctl, Control, LastFits, Present, Never, Order, Crossing, Shorter, Grown
  <1>2. Control(p, "leaving", w, u2)
    BY SMTT(60) DEF Phases, Kinds, Shape, Ctl, Control, LastFits, Present, Never, Order, Crossing, Shorter, Grown
  <1> QED BY <1>1, <1>2 DEF Ctl

\* Information frames are sent.
LEMMA SendNum ==
    ASSUME NEW e \in Phases, NEW p \in Phases, NEW u, NEW w, NEW u2,
           Ctl(e, p, u, w), Shape(u), Shape(w),
           e = "up", Grown(u, u2, "NUM")
    PROVE  Ctl("up", p, u2, w)
  <1>1. Control("up", p, u2, w)
    BY SMTT(60) DEF Phases, Kinds, Shape, Ctl, Control, LastFits, Present, Never, Order, Crossing, Shorter, Grown
  <1>2. Control(p, "up", w, u2)
    BY SMTT(60) DEF Phases, Kinds, Shape, Ctl, Control, LastFits, Present, Never, Order, Crossing, Shorter, Grown
  <1> QED BY <1>1, <1>2 DEF Ctl

\* A timer calls the other end, again or anew.
LEMMA QuietCall ==
    ASSUME NEW e \in Phases, NEW p \in Phases, NEW u, NEW w, NEW u2,
           Ctl(e, p, u, w), Shape(u), Shape(w),
           e # "down", \A a : ~Has(u, a) /\ ~Has(w, a), Grown(u, u2, "SABME")
    PROVE  Ctl("calling", p, u2, w)
  <1>1. Control("calling", p, u2, w)
    BY SMTT(60) DEF Phases, Kinds, Shape, Ctl, Control, LastFits, Present, Never, Order, Crossing, Shorter, Grown
  <1>2. Control(p, "calling", w, u2)
    BY SMTT(60) DEF Phases, Kinds, Shape, Ctl, Control, LastFits, Present, Never, Order, Crossing, Shorter, Grown
  <1> QED BY <1>1, <1>2 DEF Ctl

\* A timer repeats the DISC.
LEMMA QuietLeave ==
    ASSUME NEW e \in Phases, NEW p \in Phases, NEW u, NEW w, NEW u2,
           Ctl(e, p, u, w), Shape(u), Shape(w),
           e = "leaving", \A a : ~Has(u, a) /\ ~Has(w, a), Grown(u, u2, "DISC")
    PROVE  Ctl("leaving", p, u2, w)
  <1>1. Control("leaving", p, u2, w)
    BY SMTT(60) DEF Phases, Kinds, Shape, Ctl, Control, LastFits, Present, Never, Order, Crossing, Shorter, Grown
  <1>2. Control(p, "leaving", w, u2)
    BY SMTT(60) DEF Phases, Kinds, Shape, Ctl, Control, LastFits, Present, Never, Order, Crossing, Shorter, Grown
  <1> QED BY <1>1, <1>2 DEF Ctl

\* A timer polls the other end.
LEMMA QuietPoll ==
    ASSUME NEW e \in Phases, NEW p \in Phases, NEW u, NEW w, NEW u2,
           Ctl(e, p, u, w), Shape(u), Shape(w),
           e = "up", \A a : ~Has(u, a) /\ ~Has(w, a), Grown(u, u2, "POLL")
    PROVE  Ctl("up", p, u2, w)
  <1>1. Control("up", p, u2, w)
    BY SMTT(60) DEF Phases, Kinds, Shape, Ctl, Control, LastFits, Present, Never, Order, Crossing, Shorter, Grown
  <1>2. Control(p, "up", w, u2)
    BY SMTT(60) DEF Phases, Kinds, Shape, Ctl, Control, LastFits, Present, Never, Order, Crossing, Shorter, Grown
  <1> QED BY <1>1, <1>2 DEF Ctl

-----------------------------------------------------------------------------
(* The patterns of a wire that grows or is read. *)

LEMMA KindType ==
    ASSUME NEW f \in LinkFrames
    PROVE  Kind(f) \in Kinds /\ (Numbered(f) <=> Kind(f) \in {"NUM", "POLL"})
  BY DEF LinkFrames, Kind, Kinds, Numbered

LEMMA ShapeOf ==
    ASSUME NEW w \in Seq(LinkFrames)
    PROVE  Shape(w)
  <1>1. ASSUME NEW a, Newest(w, a)  PROVE Has(w, a)
    <2>1. Len(w) \in 1 .. Len(w)
      BY <1>1 DEF Newest
    <2> QED  BY <1>1, <2>1 DEF Newest, Has
  <1>2. ASSUME NEW a, NEW b, Before(w, a, b)  PROVE Has(w, a) /\ Has(w, b)
    BY <1>2 DEF Before, Has
  <1>3. ASSUME NEW a, NEW b, NEW c, Third(w, a, b, c)
        PROVE  Before(w, a, b) /\ Before(w, b, c) /\ Before(w, a, c)
    <2>1. PICK i, j, k \in 1 .. Len(w) :
            i < j /\ j < k /\ Kind(w[i]) = a /\ Kind(w[j]) = b /\ Kind(w[k]) = c
      BY <1>3 DEF Third
    <2>2. i < k
      BY <2>1
    <2> QED  BY <2>1, <2>2 DEF Before
  <1>4. ASSUME w # <<>>
        PROVE  Len(w) \in 1 .. Len(w) /\ Kind(w[Len(w)]) \in Kinds /\ Newest(w, Kind(w[Len(w)]))
    <2>1. Len(w) \in 1 .. Len(w)
      BY <1>4
    <2> QED  BY <1>4, <2>1, KindType DEF Newest
  <1>5. ASSUME NEW a, Has(w, a)
        PROVE  \E b \in Kinds : Newest(w, b) /\ (a = b \/ Before(w, a, b))
    <2>1. PICK i \in 1 .. Len(w) : Kind(w[i]) = a
      BY <1>5 DEF Has
    <2>2. w # <<>>
      BY <2>1
    <2>3. a = Kind(w[Len(w)]) \/ Before(w, a, Kind(w[Len(w)]))
      <3>1. i = Len(w) \/ i < Len(w)
        BY <2>1
      <3> QED  BY <1>4, <2>1, <2>2, <3>1 DEF Before
    <2> QED  BY <1>4, <2>2, <2>3
  <1>6. ASSUME NEW a, NEW b, Before(w, a, b)
        PROVE  \E c \in Kinds : Newest(w, c) /\ (c = b \/ Third(w, a, b, c))
    <2>1. PICK i, j \in 1 .. Len(w) : i < j /\ Kind(w[i]) = a /\ Kind(w[j]) = b
      BY <1>6 DEF Before
    <2>2. w # <<>>
      BY <2>1
    <2>3. b = Kind(w[Len(w)]) \/ Third(w, a, b, Kind(w[Len(w)]))
      <3>1. j = Len(w) \/ j < Len(w)
        BY <2>1
      <3> QED  BY <1>4, <2>1, <2>2, <3>1 DEF Third
    <2> QED  BY <1>4, <2>2, <2>3
  <1> QED  BY <1>1, <1>2, <1>3, <1>5, <1>6 DEF Shape

LEMMA ShorterTail ==
    ASSUME NEW w \in Seq(LinkFrames), w # <<>>
    PROVE  Shorter(w, Tail(w), Kind(Head(w))) /\ Kind(Head(w)) \in Kinds
  <1> DEFINE k == Kind(Head(w))
  <1>0. Shape(Tail(w)) /\ k \in Kinds
    BY TailIndex, ShapeOf, KindType
  <1>1. 1 \in 1 .. Len(w) /\ Kind(w[1]) = k
    BY TailIndex
  <1>2. ASSUME NEW i \in 1 .. Len(Tail(w))
        PROVE  i + 1 \in 1 .. Len(w) /\ Tail(w)[i] = w[i + 1] /\ 1 < i + 1
    BY TailIndex
  <1> HIDE DEF k
  <1>3. Has(w, k)
    BY <1>1 DEF Has
  <1>4. ASSUME NEW a, Has(Tail(w), a)  PROVE Has(w, a) /\ Before(w, k, a)
    <2>1. PICK i \in 1 .. Len(Tail(w)) : Kind(Tail(w)[i]) = a
      BY <1>4 DEF Has
    <2> QED  BY <1>1, <1>2, <2>1 DEF Has, Before
  <1>5. ASSUME NEW a, NEW b, Before(Tail(w), a, b)
        PROVE  Before(w, a, b) /\ Third(w, k, a, b)
    <2>1. PICK i, j \in 1 .. Len(Tail(w)) : i < j /\ Kind(Tail(w)[i]) = a /\ Kind(Tail(w)[j]) = b
      BY <1>5 DEF Before
    <2>2. i + 1 < j + 1
      BY <2>1
    <2> QED  BY <1>1, <1>2, <2>1, <2>2 DEF Before, Third
  <1>6. ASSUME NEW a, NEW b, NEW c, Third(Tail(w), a, b, c)  PROVE Third(w, a, b, c)
    <2>1. PICK i, j, h \in 1 .. Len(Tail(w)) : /\ i < j /\ j < h /\ Kind(Tail(w)[i]) = a
                                               /\ Kind(Tail(w)[j]) = b /\ Kind(Tail(w)[h]) = c
      BY <1>6 DEF Third
    <2>2. i + 1 < j + 1 /\ j + 1 < h + 1
      BY <2>1
    <2> QED  BY <1>2, <2>1, <2>2 DEF Third
  <1>7. ASSUME NEW a, Newest(Tail(w), a)  PROVE Newest(w, a)
    <2>1. Tail(w) # <<>> /\ Kind(Tail(w)[Len(Tail(w))]) = a
      BY <1>7 DEF Newest
    <2>2. Len(Tail(w)) \in 1 .. Len(Tail(w)) /\ Len(Tail(w)) + 1 = Len(w)
      BY <2>1, TailIndex
    <2> QED  BY <1>2, <2>1, <2>2 DEF Newest
  <1> QED  BY <1>0, <1>3, <1>4, <1>5, <1>6, <1>7 DEF Shorter, k

\* One frame, or several numbered ones, behind the others.
LEMMA GrownBy ==
    ASSUME NEW u \in Seq(LinkFrames), NEW q \in Seq(LinkFrames), q # <<>>, NEW k,
           \A i \in 1 .. Len(q) : Kind(q[i]) = k, Len(q) = 1 \/ k = "NUM"
    PROVE  Grown(u, u \o q, k)
  <1> DEFINE v == u \o q
  <1>0. Shape(v) /\ Len(q) \in Nat /\ Len(q) >= 1 /\ v \in Seq(LinkFrames)
        /\ Len(v) = Len(u) + Len(q) /\ Len(u) \in Nat
    <2>1. v \in Seq(LinkFrames) /\ Len(v) = Len(u) + Len(q)
      OBVIOUS
    <2>2. Len(q) \in Nat /\ Len(q) >= 1 /\ Len(u) \in Nat
      OBVIOUS
    <2> QED  BY <2>1, <2>2, ShapeOf
  <1>1. ASSUME NEW i \in 1 .. Len(v)
        PROVE  \/ i \in 1 .. Len(u) /\ v[i] = u[i]
               \/ i > Len(u) /\ Kind(v[i]) = k /\ (Len(q) = 1 => i = Len(u) + 1)
    BY CatIndex
  <1> HIDE DEF v
  <1>2. ASSUME NEW a, Has(v, a)  PROVE Has(u, a) \/ a = k
    BY <1>1, <1>2 DEF Has
  <1>3. ASSUME NEW a, NEW b, Before(v, a, b)
        PROVE  Before(u, a, b) \/ (b = k /\ (Has(u, a) \/ (a = k /\ k = "NUM")))
    <2>1. PICK i, j \in 1 .. Len(v) : i < j /\ Kind(v[i]) = a /\ Kind(v[j]) = b
      BY <1>3 DEF Before
    <2>2. CASE j \in 1 .. Len(u) /\ v[j] = u[j]
      <3>1. i \in 1 .. Len(u) /\ v[i] = u[i]
        BY <1>0, <1>1, <2>1, <2>2
      <3> QED  BY <2>1, <2>2, <3>1 DEF Before
    <2>3. CASE j > Len(u) /\ Kind(v[j]) = k /\ (Len(q) = 1 => j = Len(u) + 1)
      <3>1. CASE i \in 1 .. Len(u) /\ v[i] = u[i]
        BY <2>1, <2>3, <3>1 DEF Has
      <3>2. CASE i > Len(u) /\ Kind(v[i]) = k
        BY <1>0, <2>1, <2>3, <3>2
      <3> QED  BY <1>1, <3>1, <3>2
    <2> QED  BY <1>1, <2>2, <2>3
  <1>4. ASSUME NEW a, NEW b, NEW c, Third(v, a, b, c)
        PROVE  Third(u, a, b, c) \/ (c = k /\ (Before(u, a, b) \/ (b = k /\ k = "NUM")))
    <2>1. PICK i, j, h \in 1 .. Len(v) :
            i < j /\ j < h /\ Kind(v[i]) = a /\ Kind(v[j]) = b /\ Kind(v[h]) = c
      BY <1>4 DEF Third
    <2>2. CASE h \in 1 .. Len(u) /\ v[h] = u[h]
      <3>1. i \in 1 .. Len(u) /\ v[i] = u[i] /\ j \in 1 .. Len(u) /\ v[j] = u[j]
        BY <1>0, <1>1, <2>1, <2>2
      <3> QED  BY <2>1, <2>2, <3>1 DEF Third
    <2>3. CASE h > Len(u) /\ Kind(v[h]) = k /\ (Len(q) = 1 => h = Len(u) + 1)
      <3>1. CASE j \in 1 .. Len(u) /\ v[j] = u[j]
        <4>1. i \in 1 .. Len(u) /\ v[i] = u[i]
          BY <1>0, <1>1, <2>1, <3>1
        <4> QED  BY <2>1, <2>3, <3>1, <4>1 DEF Before
      <3>2. CASE j > Len(u) /\ Kind(v[j]) = k
        BY <1>0, <2>1, <2>3, <3>2
      <3> QED  BY <1>1, <3>1, <3>2
    <2> QED  BY <1>1, <2>2, <2>3
  <1>5. ASSUME NEW a, Newest(v, a)  PROVE a = k
    <2>1. Len(v) \in 1 .. Len(v) /\ Len(v) > Len(u)
      BY <1>0
    <2> QED  BY <1>1, <1>5, <2>1 DEF Newest
  <1> QED  BY <1>0, <1>2, <1>3, <1>4, <1>5 DEF Grown, v

\* From the patterns back to the frames.
LEMMA NoneNumbered ==
    ASSUME NEW w \in Seq(LinkFrames), ~Has(w, "NUM"), ~Has(w, "POLL")
    PROVE  \A i \in 1 .. Len(w) : ~Numbered(w[i]) /\ ~IsI(w[i]) /\ ~IsRej(w[i])
  <1> SUFFICES ASSUME NEW i \in 1 .. Len(w), Numbered(w[i])
               PROVE  FALSE
    BY DEF Numbered, IsI, IsRej
  <1>1. Kind(w[i]) \in {"NUM", "POLL"}
    BY KindType
  <1> QED  BY <1>1 DEF Has

\* Frames behind one of kind a, a SABME or the UA awaited: the end that
\* reads it starts counting at 0.
Clean(a, w) ==
    \A i, j \in 1 .. Len(w) :
        i < j /\ Kind(w[i]) = a /\ Numbered(w[j]) => w[j].nr = 0 /\ ~IsRej(w[j])

CleanRun(a, vs, w) ==
    /\ \A h, i \in 1 .. Len(w) : h < i /\ Kind(w[h]) = a /\ IsI(w[i]) => w[i].ns < vs
    /\ \A h, i, j \in 1 .. Len(w) :
         h < i /\ i < j /\ Kind(w[h]) = a /\ IsI(w[i]) /\ IsI(w[j]) => w[i].ns < w[j].ns

LEMMA CleanTail ==
    ASSUME NEW a, NEW vs, NEW w \in Seq(LinkFrames), w # <<>>
    PROVE  /\ Clean(a, w) => Clean(a, Tail(w))
           /\ CleanRun(a, vs, w) => CleanRun(a, vs, Tail(w))
  <1>1. ASSUME NEW i \in 1 .. Len(Tail(w))
        PROVE  i + 1 \in 1 .. Len(w) /\ Tail(w)[i] = w[i + 1]
    BY TailIndex
  <1>2. ASSUME Clean(a, w), NEW i \in 1 .. Len(Tail(w)), NEW j \in 1 .. Len(Tail(w)), i < j,
               Kind(Tail(w)[i]) = a, Numbered(Tail(w)[j])
        PROVE  Tail(w)[j].nr = 0 /\ ~IsRej(Tail(w)[j])
    <2>1. i + 1 < j + 1
      BY <1>2
    <2> QED  BY <1>1, <1>2, <2>1 DEF Clean
  <1>3. ASSUME CleanRun(a, vs, w), NEW h \in 1 .. Len(Tail(w)), NEW i \in 1 .. Len(Tail(w)),
               h < i, Kind(Tail(w)[h]) = a, IsI(Tail(w)[i])
        PROVE  Tail(w)[i].ns < vs
    <2>1. h + 1 < i + 1
      BY <1>3
    <2> QED  BY <1>1, <1>3, <2>1 DEF CleanRun
  <1>4. ASSUME CleanRun(a, vs, w), NEW h \in 1 .. Len(Tail(w)), NEW i \in 1 .. Len(Tail(w)),
               NEW j \in 1 .. Len(Tail(w)), h < i, i < j,
               Kind(Tail(w)[h]) = a, IsI(Tail(w)[i]), IsI(Tail(w)[j])
        PROVE  Tail(w)[i].ns < Tail(w)[j].ns
    <2>1. h + 1 < i + 1 /\ i + 1 < j + 1
      BY <1>4
    <2> QED  BY <1>1, <1>4, <2>1 DEF CleanRun
  <1> QED  BY <1>2, <1>3, <1>4 DEF Clean, CleanRun

\* The frame awaited is the first one: every frame behind it is fresh.
LEMMA CleanRead ==
    ASSUME NEW w \in Seq(LinkFrames), w # <<>>, NEW vs, Clean(Kind(Head(w)), w)
    PROVE  /\ \A i \in 1 .. Len(Tail(w)) :
                Numbered(Tail(w)[i]) => Tail(w)[i].nr = 0 /\ ~IsRej(Tail(w)[i])
           /\ CleanRun(Kind(Head(w)), vs, w) =>
                /\ \A i \in 1 .. Len(Tail(w)) : IsI(Tail(w)[i]) => Tail(w)[i].ns < vs
                /\ \A i, j \in 1 .. Len(Tail(w)) :
                     i < j /\ IsI(Tail(w)[i]) /\ IsI(Tail(w)[j]) => Tail(w)[i].ns < Tail(w)[j].ns
  <1> DEFINE k == Kind(Head(w))
  <1>1. 1 \in 1 .. Len(w) /\ Kind(w[1]) = k
    BY TailIndex
  <1>2. ASSUME NEW i \in 1 .. Len(Tail(w))
        PROVE  i + 1 \in 1 .. Len(w) /\ Tail(w)[i] = w[i + 1] /\ 1 < i + 1
    BY TailIndex
  <1> HIDE DEF k
  <1>3. ASSUME NEW i \in 1 .. Len(Tail(w)), Numbered(Tail(w)[i])
        PROVE  Tail(w)[i].nr = 0 /\ ~IsRej(Tail(w)[i])
    BY <1>1, <1>2, <1>3 DEF Clean, k
  <1>4. ASSUME CleanRun(k, vs, w), NEW i \in 1 .. Len(Tail(w)), IsI(Tail(w)[i])
        PROVE  Tail(w)[i].ns < vs
    BY <1>1, <1>2, <1>4 DEF CleanRun
  <1>5. ASSUME CleanRun(k, vs, w), NEW i \in 1 .. Len(Tail(w)), NEW j \in 1 .. Len(Tail(w)),
               i < j, IsI(Tail(w)[i]), IsI(Tail(w)[j])
        PROVE  Tail(w)[i].ns < Tail(w)[j].ns
    <2>1. i + 1 < j + 1
      BY <1>5
    <2> QED  BY <1>1, <1>2, <1>5, <2>1 DEF CleanRun
  <1> QED  BY <1>3, <1>4, <1>5 DEF k

LEMMA CleanAppended ==
    ASSUME NEW a, NEW w \in Seq(LinkFrames), NEW q \in Seq(LinkFrames), NEW vs,
           \A i \in 1 .. Len(q) : Numbered(q[i]) => q[i].nr = 0 /\ ~IsRej(q[i]),
           a # "NUM", a # "POLL", \A i \in 1 .. Len(q) : Numbered(q[i]) \/ Len(q) = 1
    PROVE  /\ Clean(a, w) => Clean(a, w \o q)
           /\ (\A i \in 1 .. Len(q) : ~IsI(q[i])) =>
                (CleanRun(a, vs, w) => CleanRun(a, vs, w \o q))
  <1> DEFINE v == w \o q
  <1>1. ASSUME NEW i \in 1 .. Len(v)
        PROVE  \/ i \in 1 .. Len(w) /\ v[i] = w[i]
               \/ i > Len(w) /\ i - Len(w) \in 1 .. Len(q) /\ v[i] = q[i - Len(w)]
    BY CatIndex
  <1>l. Len(w) \in Nat
    OBVIOUS
  <1> HIDE DEF v
  <1>2. ASSUME Clean(a, w), NEW i \in 1 .. Len(v), NEW j \in 1 .. Len(v), i < j,
               Kind(v[i]) = a, Numbered(v[j])
        PROVE  v[j].nr = 0 /\ ~IsRej(v[j])
    <2>1. CASE j \in 1 .. Len(w) /\ v[j] = w[j]
      <3>1. i \in 1 .. Len(w) /\ v[i] = w[i]
        BY <1>1, <1>2, <1>l, <2>1
      <3> QED  BY <1>2, <2>1, <3>1 DEF Clean
    <2>2. CASE j - Len(w) \in 1 .. Len(q) /\ v[j] = q[j - Len(w)]
      BY <1>2, <2>2
    <2> QED  BY <1>1, <2>1, <2>2
  <1>3. ASSUME CleanRun(a, vs, w), \A i \in 1 .. Len(q) : ~IsI(q[i])
        PROVE  CleanRun(a, vs, v)
    <2>1. ASSUME NEW i \in 1 .. Len(v), IsI(v[i])
          PROVE  i \in 1 .. Len(w) /\ v[i] = w[i] /\ \A h \in 1 .. i : h \in 1 .. Len(w) /\ v[h] = w[h]
      <3>1. i \in 1 .. Len(w) /\ v[i] = w[i]
        BY <1>1, <1>3, <2>1
      <3>2. ASSUME NEW h \in 1 .. i  PROVE h \in 1 .. Len(w) /\ v[h] = w[h]
        <4>1. h \in 1 .. Len(v) /\ h <= Len(w)
          BY <1>l, <3>1
        <4> QED  BY <1>1, <1>l, <4>1
      <3> QED  BY <3>1, <3>2
    <2>2. ASSUME NEW h \in 1 .. Len(v), NEW i \in 1 .. Len(v), h < i, Kind(v[h]) = a, IsI(v[i])
          PROVE  v[i].ns < vs
      <3>1. h \in 1 .. i
        BY <2>2
      <3> QED  BY <1>3, <2>1, <2>2, <3>1 DEF CleanRun
    <2>3. ASSUME NEW h \in 1 .. Len(v), NEW i \in 1 .. Len(v), NEW j \in 1 .. Len(v),
                 h < i, i < j, Kind(v[h]) = a, IsI(v[i]), IsI(v[j])
          PROVE  v[i].ns < v[j].ns
      <3>1. h \in 1 .. i
        BY <2>3
      <3> QED  BY <1>3, <2>1, <2>3, <3>1 DEF CleanRun
    <2> QED  BY <2>2, <2>3 DEF CleanRun
  <1> QED  BY <1>2, <1>3 DEF Clean, v

\* A frame that starts a link has nothing behind it.
LEMMA CleanLast ==
    ASSUME NEW a, NEW vs, NEW w \in Seq(LinkFrames), NEW q \in Seq(LinkFrames), Len(q) = 1,
           ~Has(w, a)
    PROVE  Clean(a, w \o q) /\ CleanRun(a, vs, w \o q)
  <1> DEFINE v == w \o q
  <1>1. ASSUME NEW i \in 1 .. Len(v)
        PROVE  \/ i \in 1 .. Len(w) /\ v[i] = w[i]
               \/ i = Len(w) + 1
    BY CatIndex
  <1>2. \A i \in 1 .. Len(v) : i <= Len(w) + 1
    BY <1>1
  <1> HIDE DEF v
  <1>3. Len(w) \in Nat
    OBVIOUS
  <1>4. ASSUME NEW i \in 1 .. Len(v), NEW j \in 1 .. Len(v), i < j, Kind(v[i]) = a
        PROVE  FALSE
    BY <1>1, <1>2, <1>3, <1>4 DEF Has
  <1> QED  BY <1>4 DEF Clean, CleanRun, v

\* A new frame of the end that has read nothing on this link yet.
LEMMA CleanSent ==
    ASSUME NEW a, NEW vs \in Nat, NEW w \in Seq(LinkFrames), NEW q \in Seq(LinkFrames),
           Len(q) = 1, IsI(q[1]), q[1].ns = vs, a # "NUM", CleanRun(a, vs, w)
    PROVE  CleanRun(a, vs + 1, w \o q)
  <1> DEFINE v == w \o q
  <1>1. ASSUME NEW i \in 1 .. Len(v)
        PROVE  \/ i \in 1 .. Len(w) /\ v[i] = w[i] /\ v[i].ns \in Nat
               \/ i = Len(w) + 1 /\ v[i] = q[1]
    <2>1. CASE i \in 1 .. Len(w) /\ v[i] = w[i]
      <3>1. w[i].ns \in SeqNos
        BY <2>1, NumbersOf, AheadZero, WindowAssumption DEF SeqNos
      <3> QED  BY <2>1, <3>1 DEF SeqNos
    <2>2. CASE i > Len(w) /\ i - Len(w) \in 1 .. Len(q) /\ v[i] = q[i - Len(w)]
      BY <2>2
    <2> QED  BY <2>1, <2>2, CatIndex
  <1>l. Len(w) \in Nat
    OBVIOUS
  <1> HIDE DEF v
  <1>2. ASSUME NEW h \in 1 .. Len(v), NEW i \in 1 .. Len(v), h < i, Kind(v[h]) = a, IsI(v[i])
        PROVE  v[i].ns < vs + 1
    <2>1. CASE i \in 1 .. Len(w) /\ v[i] = w[i] /\ v[i].ns \in Nat
      <3>1. h \in 1 .. Len(w) /\ v[h] = w[h]
        BY <1>1, <1>2, <1>l, <2>1
      <3>2. w[i].ns < vs
        BY <1>2, <2>1, <3>1 DEF CleanRun
      <3> QED  BY <2>1, <3>2
    <2>2. CASE i = Len(w) + 1 /\ v[i] = q[1]
      BY <2>2
    <2> QED  BY <1>1, <2>1, <2>2
  <1>3. ASSUME NEW h \in 1 .. Len(v), NEW i \in 1 .. Len(v), NEW j \in 1 .. Len(v),
               h < i, i < j, Kind(v[h]) = a, IsI(v[i]), IsI(v[j])
        PROVE  v[i].ns < v[j].ns
    <2>1. i \in 1 .. Len(w) /\ v[i] = w[i] /\ h \in 1 .. Len(w) /\ v[h] = w[h]
      BY <1>1, <1>3, <1>l
    <2>2. CASE j \in 1 .. Len(w) /\ v[j] = w[j]
      BY <1>3, <2>1, <2>2 DEF CleanRun
    <2>3. CASE j = Len(w) + 1 /\ v[j] = q[1]
      BY <1>3, <2>1, <2>3 DEF CleanRun
    <2> QED  BY <1>1, <2>2, <2>3
  <1> QED  BY <1>2, <1>3 DEF CleanRun, v

-----------------------------------------------------------------------------
(* What the routines do, seen from the wires. *)

\* The part of the protocol an entity is in.
Phase(s) ==
    IF s.state = "TEI_ASSIGNED" THEN "down"
    ELSE IF s.state = "AWAITING_ESTABLISHMENT" THEN "calling"
    ELSE IF s.state = "AWAITING_RELEASE" THEN "leaving" ELSE "up"

\* What is unacknowledged is a message, also when the link is down.
Filled(s) == \A m \in SeqNos : Ahead(s.va, m) < Ahead(s.va, s.vs) => s.window[m] \in Data

\* t has the numbers and the store of s.
Same(s, t) ==
    /\ t.va = s.va /\ t.vs = s.vs /\ t.vr = s.vr /\ t.rejExc = s.rejExc /\ t.window = s.window

\* A link that starts.
Zeroed(t) == Phase(t) = "up" /\ t.va = 0 /\ t.vr = 0 /\ t.rejExc = FALSE

\* The outcome says one frame, of kind k.
Says(c, k) == c.out \in Seq(LinkFrames) /\ Len(c.out) = 1 /\ Kind(c.out[1]) = k

LEMMA PhaseType ==
    ASSUME NEW s \in EndState
    PROVE  /\ Phase(s) \in Phases
           /\ Phase(s) = "up" <=> s.state \in Transfer
           /\ Phase(s) = "down" <=> s.state = "TEI_ASSIGNED"
           /\ Phase(s) = "calling" <=> s.state = "AWAITING_ESTABLISHMENT"
           /\ Phase(s) = "leaving" <=> s.state = "AWAITING_RELEASE"
  BY DEF EndState, States, Phase, Phases, Transfer

LEMMA SameFilled ==
    ASSUME NEW s, NEW t, Same(s, t), Filled(s)
    PROVE  Filled(t)
  BY DEF Same, Filled

LEMMA SameTwice ==
    ASSUME NEW s, NEW t, NEW v, Same(s, t), Same(t, v)
    PROVE  Same(s, v)
  BY DEF Same

LEMMA EndFields ==
    ASSUME NEW s, Good(s)
    PROVE  /\ s \in EndState /\ s.va \in SeqNos /\ s.vs \in SeqNos /\ s.vr \in SeqNos
           /\ s.rejExc \in BOOLEAN /\ s.window \in [SeqNos -> Info] /\ s.backlog \in Seq(Data)
           /\ Ahead(s.va, s.vs) \in Nat /\ Ahead(s.va, s.vs) <= K
  <1>1. s \in EndState
    BY DEF Good
  <1>2. s.va \in SeqNos /\ s.vs \in SeqNos
    BY <1>1 DEF EndState
  <1>3. Ahead(s.va, s.vs) \in Nat
    BY <1>2, AheadNat
  <1> QED  BY <1>1, <1>3 DEF EndState, Good, Outstanding

\* The frames the routines build.
LEMMA MadeControl ==
    /\ Command("SABME", 0, TRUE) \in LinkFrames /\ Kind(Command("SABME", 0, TRUE)) = "SABME"
    /\ Command("DISC", 0, TRUE) \in LinkFrames /\ Kind(Command("DISC", 0, TRUE)) = "DISC"
    /\ Response("UA", 0, TRUE) \in LinkFrames /\ Kind(Response("UA", 0, TRUE)) = "UA"
    /\ Response("DM", 0, TRUE) \in LinkFrames /\ Kind(Response("DM", 0, TRUE)) = "DMF"
    /\ Response("DM", 0, FALSE) \in LinkFrames /\ Kind(Response("DM", 0, FALSE)) = "DM"
  BY ZeroTypes DEF Command, Response, LinkFrames, Kind, Info

LEMMA MadeNumbered ==
    ASSUME NEW r \in SeqNos, NEW b \in BOOLEAN
    PROVE  /\ LET f == Command("RR", r, TRUE)
              IN f \in LinkFrames /\ Kind(f) = "POLL" /\ f.nr = r /\ ~IsI(f) /\ ~IsRej(f)
           /\ LET f == Response("RR", r, b)
              IN f \in LinkFrames /\ Kind(f) = "NUM" /\ f.nr = r /\ ~IsI(f) /\ ~IsRej(f)
           /\ LET f == Response("REJ", r, FALSE)
              IN f \in LinkFrames /\ Kind(f) = "NUM" /\ f.nr = r /\ IsRej(f)
  BY ZeroTypes DEF Command, Response, IFrame, LinkFrames, Kind, Info, IsI, IsRej

LEMMA MadeI ==
    ASSUME NEW r \in SeqNos, NEW n \in SeqNos, NEW d \in Info
    PROVE  /\ IFrame(n, r, d) \in LinkFrames /\ Kind(IFrame(n, r, d)) = "NUM"
           /\ IsI(IFrame(n, r, d)) /\ IFrame(n, r, d).nr = r /\ IFrame(n, r, d).ns = n
  BY ZeroTypes DEF Command, IFrame, LinkFrames, Kind, Info, IsI

LEMMA OneFrame ==
    ASSUME NEW f \in LinkFrames
    PROVE  <<f>> \in Seq(LinkFrames) /\ Len(<<f>>) = 1 /\ <<f>>[1] = f /\ Append(<<>>, f) = <<f>>
  OBVIOUS

-----------------------------------------------------------------------------
(* Steps of the routines. *)

LEMMA SayFields ==
    ASSUME NEW c, NEW up, Ok(c, up), NEW f
    PROVE  Say(c, f).s = c.s /\ Say(c, f).out = Append(c.out, f) /\ Say(c, f).up = c.up
  <1>1. c = [s |-> c.s, out |-> c.out, up |-> c.up, event |-> c.event]
    BY DEF Ok
  <1>2. Say(c, f) = [s |-> c.s, out |-> Append(c.out, f), up |-> c.up, event |-> c.event]
    BY <1>1 DEF Say
  <1> QED  BY <1>2

LEMMA AwaitSays ==
    ASSUME NEW c, NEW up, Ok(c, up), c.out = <<>>, NEW type, NEW state \in States
    PROVE  /\ Await(c, state, type).out = <<Command(type, 0, TRUE)>>
           /\ Await(c, state, type).up = c.up
           /\ state = "AWAITING_ESTABLISHMENT" => Phase(Await(c, state, type).s) = "calling"
           /\ state = "AWAITING_RELEASE" => Phase(Await(c, state, type).s) = "leaving"
           /\ Same(c.s, Await(c, state, type).s)
  <1> DEFINE t == Supervise([c.s EXCEPT !.state = state, !.retx = 0])
  <1>1. c.s \in EndState
    BY DEF Ok, Good
  <1>2. t.state = state /\ Same(c.s, t)
    BY <1>1 DEF Supervise, EndState, Same
  <1> HIDE DEF t
  <1>3. Await(c, state, type) = Say([c EXCEPT !.s = t], Command(type, 0, TRUE))
    BY DEF Await, t
  <1>4. Append(c.out, Command(type, 0, TRUE)) = <<Command(type, 0, TRUE)>>
    OBVIOUS
  <1> DEFINE d == [c EXCEPT !.s = t]
  <1>5. /\ d.s = t /\ d.out = c.out /\ d.up = c.up
        /\ d = [s |-> d.s, out |-> d.out, up |-> d.up, event |-> d.event]
    BY DEF Ok
  <1> HIDE DEF d
  <1>6. /\ Say(d, Command(type, 0, TRUE)).s = t /\ Say(d, Command(type, 0, TRUE)).up = c.up
        /\ Say(d, Command(type, 0, TRUE)).out = Append(c.out, Command(type, 0, TRUE))
    BY <1>5 DEF Say
  <1>7. /\ state = "AWAITING_ESTABLISHMENT" => Phase(t) = "calling"
        /\ state = "AWAITING_RELEASE" => Phase(t) = "leaving"
    BY <1>2 DEF Phase
  <1> QED  BY <1>2, <1>3, <1>4, <1>6, <1>7 DEF d

LEMMA ReestablishSays ==
    ASSUME NEW c, NEW up, Ok(c, up), c.out = <<>>
    PROVE  /\ Says(Reestablish(c), "SABME") /\ Reestablish(c).up = c.up
           /\ Phase(Reestablish(c).s) = "calling" /\ Same(c.s, Reestablish(c).s)
  <1>1. "AWAITING_ESTABLISHMENT" \in States
    BY DEF States
  <1> DEFINE d == Await(c, "AWAITING_ESTABLISHMENT", "SABME")
  <1>2. /\ d.out = <<Command("SABME", 0, TRUE)>> /\ d.up = c.up
        /\ Phase(d.s) = "calling" /\ Same(c.s, d.s)
    BY <1>1, AwaitSays
  <1> HIDE DEF d
  <1>x. Reestablish(c) = d
    BY DEF Reestablish, d
  <1>a. Reestablish(c).out = <<Command("SABME", 0, TRUE)>>
    BY <1>2, <1>x
  <1>b. Reestablish(c).up = c.up /\ Phase(Reestablish(c).s) = "calling"
    BY <1>2, <1>x
  <1>3. Same(c.s, Reestablish(c).s)
    BY <1>2, <1>x
  <1>4. Says(Reestablish(c), "SABME")
    BY <1>a, MadeControl, OneFrame DEF Says
  <1> QED  BY <1>b, <1>3, <1>4

LEMMA ContextSays ==
    ASSUME NEW s, NEW up, Good(s), s.state \in Transfer => up
    PROVE  Ok(Context(s), up) /\ Context(s).s = s /\ Context(s).out = <<>> /\ Context(s).up = <<>>
  BY ContextOk DEF Context

LEMMA WatchSame ==
    ASSUME NEW c, NEW up, Ok(c, up)
    PROVE  /\ WatchIdle(c).out = c.out /\ WatchIdle(c).up = c.up
           /\ WatchIdle(c).s.state = c.s.state /\ Same(c.s, WatchIdle(c).s)
  <1>1. c.s \in EndState /\ c = [s |-> c.s, out |-> c.out, up |-> c.up, event |-> c.event]
    BY DEF Ok, Good
  <1>2. CASE c.s.state = "ESTABLISHED" /\ ~c.s.t200
    <2> DEFINE t == [c.s EXCEPT !.t203 = TRUE]
    <2>1. t.state = c.s.state /\ Same(c.s, t)
      BY <1>1 DEF EndState, Same
    <2> HIDE DEF t
    <2>2. WatchIdle(c) = [c EXCEPT !.s = t]
      BY <1>2 DEF WatchIdle, t
    <2> QED  BY <1>1, <2>1, <2>2
  <1>3. CASE ~(c.s.state = "ESTABLISHED" /\ ~c.s.t200)
    BY <1>1, <1>3 DEF WatchIdle, Same
  <1> QED  BY <1>2, <1>3

\* Messages of the backlog are sent.
LEMMA DequeueSends ==
    ASSUME NEW c, NEW up, Ok(c, up), c.s.state \in Transfer, c.out = <<>>, Filled(c.s),
           NEW n \in 0 .. Len(c.s.backlog), Outstanding(c.s) + n <= K
    PROVE  LET d == Dequeue(c, n)
           IN /\ RunOf(d.out, c.s.vs, n, c.s.vr) /\ d.up = c.up
              /\ d.s.va = c.s.va /\ d.s.vs = Plus(c.s.vs, n) /\ d.s.vr = c.s.vr
              /\ d.s.rejExc = c.s.rejExc /\ Filled(d.s)
  <1> DEFINE s == c.s
             window == [i \in SeqNos |-> IF Ahead(s.vs, i) < n
                                         THEN s.backlog[Ahead(s.vs, i) + 1] ELSE s.window[i]]
             rest == SubSeq(s.backlog, n + 1, Len(s.backlog))
             r == [s EXCEPT !.window = window, !.vs = Plus(s.vs, n), !.backlog = rest]
             t == Supervise(r)
             q == [i \in 1 .. n |-> IFrame(Plus(s.vs, i - 1), s.vr, s.backlog[i])]
  <1>1. /\ s \in EndState /\ s.va \in SeqNos /\ s.vs \in SeqNos /\ s.vr \in SeqNos
        /\ s.backlog \in Seq(Data) /\ Ahead(s.va, s.vs) \in Nat /\ Filled(s)
    BY EndFields DEF Ok
  <1>2. n \in Nat /\ n < Mod /\ Ahead(s.va, s.vs) + n < Mod
    BY <1>1, WindowAssumption DEF Outstanding
  <1>3. CASE n = 0
    <2>1. Plus(s.vs, 0) = s.vs
      BY <1>1, WindowAssumption DEF Plus, SeqNos
    <2>2. <<>> \in Seq(LinkFrames) /\ Len(<<>>) = 0
      OBVIOUS
    <2>3. Dequeue(c, n) = c
      BY <1>3 DEF Dequeue
    <2>4. RunOf(<<>>, s.vs, 0, s.vr)
      BY <2>2 DEF RunOf
    <2> HIDE DEF s
    <2> QED  BY <1>1, <1>3, <2>1, <2>3, <2>4 DEF s
  <1>4. CASE n # 0
    <2>1. /\ t.va = s.va /\ t.vs = Plus(s.vs, n) /\ t.vr = s.vr /\ t.rejExc = s.rejExc
          /\ t.window = window
      <3> HIDE DEF window, rest
      <3> QED  BY <1>1 DEF Supervise, EndState
    <2>2. Filled(t)
      <3> SUFFICES ASSUME NEW m \in SeqNos, Ahead(s.va, m) < Ahead(s.va, Plus(s.vs, n))
                   PROVE  window[m] \in Data
        BY <2>1 DEF Filled
      <3>1. /\ Ahead(s.va, m) < Ahead(s.va, s.vs) + n /\ Ahead(s.va, m) \in Nat
            /\ Ahead(s.vs, m) \in Nat
        BY <1>1, <1>2, AheadPlus, AheadNat
      <3>2. CASE Ahead(s.vs, m) < n
        <4>1. s.backlog[Ahead(s.vs, m) + 1] \in Data
          BY <1>1, <3>1, <3>2
        <4> QED  BY <3>2, <4>1
      <3>3. CASE ~(Ahead(s.vs, m) < n)
        <4>1. ~(Ahead(s.va, s.vs) <= Ahead(s.va, m))
          BY <1>1, <1>2, <3>1, <3>3, AheadFrom
        <4>2. s.window[m] \in Data
          BY <1>1, <3>1, <4>1 DEF Filled
        <4> QED  BY <3>3, <4>2
      <3> QED  BY <3>2, <3>3
    <2>3. ASSUME NEW i \in 1 .. n
          PROVE  /\ q[i] \in LinkFrames /\ IsI(q[i]) /\ q[i].ns = Plus(s.vs, i - 1) /\ q[i].nr = s.vr
      <3>1. Plus(s.vs, i - 1) \in SeqNos
        <4>1. i - 1 \in 0 .. Mod
          BY <1>2, WindowAssumption
        <4> QED  BY <1>1, <4>1, PlusType
      <3>2. s.backlog[i] \in Info
        BY <1>1 DEF Info
      <3>3. q[i] = IFrame(Plus(s.vs, i - 1), s.vr, s.backlog[i])
        OBVIOUS
      <3> HIDE DEF q, s
      <3> QED  BY <1>1, <3>1, <3>2, <3>3, MadeI
    <2>4. q \in Seq(LinkFrames) /\ Len(q) = n
      <3>1. q \in [1 .. n -> LinkFrames]
        BY <2>3
      <3> HIDE DEF q
      <3> QED  BY <1>2, <3>1
    <2>5. Dequeue(c, n) = [c EXCEPT !.s = t, !.out = c.out \o q]
      BY <1>4 DEF Dequeue
    <2>6. c = [s |-> c.s, out |-> c.out, up |-> c.up, event |-> c.event]
      BY DEF Ok
    <2> HIDE DEF t, q, s
    <2>7. c.out \o q = q
      BY <2>4
    <2>8. Dequeue(c, n).s = t /\ Dequeue(c, n).out = q /\ Dequeue(c, n).up = c.up
      BY <2>5, <2>6, <2>7
    <2>9. RunOf(q, s.vs, n, s.vr)
      BY <2>3, <2>4 DEF RunOf
    <2> QED  BY <2>1, <2>2, <2>8, <2>9 DEF s
  <1> QED  BY <1>3, <1>4

\* s has become t: the N(R) a is its V(A), and the n frames q were sent.
Pushed(s, t, a, n, q) ==
    /\ n \in Nat /\ Ahead(a, s.vs) + n <= K
    /\ RunOf(q, s.vs, n, s.vr)
    /\ t.va = a /\ t.vs = Plus(s.vs, n) /\ t.vr = s.vr /\ t.rejExc = s.rejExc /\ Filled(t)

LEMMA ProcessSends ==
    ASSUME NEW c, NEW up, Ok(c, up), c.s.state \in Transfer, c.out = <<>>, Filled(c.s)
    PROVE  LET d == ProcessBacklog(c)
           IN d.up = c.up /\ \E n : Pushed(c.s, d.s, c.s.va, n, d.out)
  <1> DEFINE n == Sendable(c.s)
  <1>1. /\ Ahead(c.s.va, c.s.vs) \in Nat /\ Ahead(c.s.va, c.s.vs) <= K
        /\ Len(c.s.backlog) \in Nat /\ c.s.vk \in 1 .. K
    <2>1. c.s \in EndState /\ c.s.backlog \in Seq(Data)
      BY EndFields DEF Ok
    <2> QED  BY <2>1, EndFields DEF Ok, EndState
  <1>2. n \in 0 .. Len(c.s.backlog) /\ n \in Nat /\ Ahead(c.s.va, c.s.vs) + n <= K
    BY <1>1, WindowAssumption DEF Sendable, Outstanding
  <1>3. ProcessBacklog(c) = Dequeue(c, n)
    BY DEF ProcessBacklog
  <1> DEFINE d == ProcessBacklog(c)
  <1> HIDE DEF n
  <1>4. /\ RunOf(d.out, c.s.vs, n, c.s.vr) /\ d.up = c.up
        /\ d.s.va = c.s.va /\ d.s.vs = Plus(c.s.vs, n) /\ d.s.vr = c.s.vr
        /\ d.s.rejExc = c.s.rejExc /\ Filled(d.s)
    BY <1>2, <1>3, DequeueSends DEF Outstanding
  <1> HIDE DEF d
  <1>5. Pushed(c.s, d.s, c.s.va, n, d.out)
    BY <1>2, <1>4 DEF Pushed
  <1> QED  BY <1>4, <1>5 DEF d

LEMMA StepSame ==
    ASSUME NEW s \in EndState, NEW n
    PROVE  Same(s, StepUp(s, n))
  BY DEF EndState, Same, StepUp

LEMMA TimersSame ==
    ASSUME NEW s \in EndState
    PROVE  /\ Same(s, Idle(s)) /\ Same(s, Supervise(s)) /\ Same(s, OnLoss(s))
           /\ Same(s, [s EXCEPT !.t200 = TRUE])
  BY DEF EndState, Same, Idle, Supervise, OnLoss

\* What is left of the window after an acknowledgement was in it before.
LEMMA AckedInside ==
    ASSUME NEW a \in SeqNos, NEW n \in SeqNos, NEW s \in SeqNos, NEW m \in SeqNos,
           InRange(n, a, s), Ahead(n, m) < Ahead(n, s)
    PROVE  Ahead(a, m) < Ahead(a, s)
  BY WindowAssumption DEF SeqNos, Ahead, InRange

\* An acknowledgement lets messages of the backlog go.
LEMMA AcknowledgeSends ==
    ASSUME NEW c, NEW up, Ok(c, up), c.s.state \in Transfer, c.out = <<>>, Filled(c.s),
           NEW nr \in SeqNos, InRange(nr, c.s.va, c.s.vs)
    PROVE  LET d == Acknowledge(c, nr)
           IN d.up = c.up /\ \E n : Pushed(c.s, d.s, nr, n, d.out)
  <1> DEFINE s == c.s
             r == [s EXCEPT !.va = nr]
             u == StepUp(r, Ahead(s.va, nr))
             b == [c EXCEPT !.s = u]
             p == ProcessBacklog(b)
             t == IF p.s.va = p.s.vs THEN Idle(p.s) ELSE [p.s EXCEPT !.t200 = TRUE]
  <1>1. /\ s \in EndState /\ s.va \in SeqNos /\ s.vs \in SeqNos /\ s.vr \in SeqNos
        /\ Ahead(s.va, s.vs) \in Nat /\ Ahead(s.va, s.vs) <= K
    BY EndFields DEF Ok
  <1>2. CASE nr = s.va
    <2>1. Plus(s.vs, 0) = s.vs /\ <<>> \in Seq(LinkFrames) /\ Len(<<>>) = 0
      BY <1>1, WindowAssumption DEF Plus, SeqNos
    <2>2. Pushed(s, s, nr, 0, <<>>)
      <3> HIDE DEF s
      <3> QED  BY <1>1, <1>2, <2>1 DEF Pushed, RunOf, s
    <2>3. Acknowledge(c, nr) = c
      BY <1>2 DEF Acknowledge
    <2> QED  BY <2>2, <2>3
  <1>3. CASE nr # s.va
    <2>1. r \in EndState /\ Good(u) /\ u.state = s.state /\ u.va = nr
      BY AcknowledgedGood
    <2>2. r.vs = s.vs /\ r.vr = s.vr /\ r.va = nr /\ r.rejExc = s.rejExc /\ r.window = s.window
      BY <1>1 DEF EndState
    <2>3. Same(r, u)
      <3> HIDE DEF r
      <3> QED  BY <2>1, StepSame
    <2>4. u.vs = s.vs /\ u.vr = s.vr /\ u.rejExc = s.rejExc /\ u.window = s.window
      <3> HIDE DEF r, u
      <3> QED  BY <2>2, <2>3 DEF Same
    <2>5. Filled(u)
      <3> SUFFICES ASSUME NEW m \in SeqNos, Ahead(nr, m) < Ahead(nr, s.vs)
                   PROVE  s.window[m] \in Data
        BY <2>1, <2>4 DEF Filled
      <3>1. Ahead(s.va, m) < Ahead(s.va, s.vs)
        BY <1>1, AckedInside
      <3> QED  BY <3>1 DEF Filled
    <2>6. c = [s |-> c.s, out |-> c.out, up |-> c.up, event |-> c.event]
      BY DEF Ok
    <2> HIDE DEF u, r
    <2>7. Ok(b, up) /\ b.s = u /\ b.out = <<>> /\ b.up = c.up
      <3>1. Ok(b, up)
        BY <2>1, WithEndOk
      <3> QED  BY <2>6, <3>1
    <2> HIDE DEF b
    <2>8. p.up = c.up /\ (\E n : Pushed(u, p.s, u.va, n, p.out)) /\ Ok(p, up)
      BY <2>1, <2>5, <2>7, ProcessSends, ProcessBacklogOk
    <2> HIDE DEF p
    <2>9. PICK n : Pushed(u, p.s, u.va, n, p.out)
      BY <2>8
    <2>10. Same(p.s, t)
      <3>1. p.s \in EndState
        BY <2>8 DEF Ok, Good
      <3> QED  BY <3>1, TimersSame
    <2>11. Acknowledge(c, nr) = [p EXCEPT !.s = t]
      BY <1>3 DEF Acknowledge, p, b, u, r
    <2> HIDE DEF t, s
    <2>12. Acknowledge(c, nr).s = t /\ Acknowledge(c, nr).out = p.out /\ Acknowledge(c, nr).up = p.up
      <3>1. p = [s |-> p.s, out |-> p.out, up |-> p.up, event |-> p.event]
        BY <2>8 DEF Ok
      <3> QED  BY <2>11, <3>1
    <2>13. Pushed(s, t, nr, n, p.out)
      <3>1. Filled(t)
        BY <2>9, <2>10, SameFilled DEF Pushed
      <3> QED  BY <2>1, <2>4, <2>9, <2>10, <3>1 DEF Pushed, Same
    <2> QED  BY <2>8, <2>12, <2>13 DEF s
  <1> QED  BY <1>2, <1>3

-----------------------------------------------------------------------------
(* Numbered frames. *)

\* RR responses with N(R) = r, or nothing.
Plain(q, r) ==
    /\ q \in Seq(LinkFrames) /\ Len(q) <= 1
    /\ \A i \in 1 .. Len(q) : Kind(q[i]) = "NUM" /\ q[i].nr = r /\ ~IsI(q[i]) /\ ~IsRej(q[i])

\* After the acknowledgement the entity s takes the rest of f: it becomes t
\* and sends q.
Replied(s, f, t, q) ==
    /\ q \in Seq(LinkFrames) /\ Phase(t) = "up" /\ t.va = s.va /\ t.vs = s.vs /\ Filled(t)
    /\ \/ /\ ~IsI(f) /\ ~IsRej(f) /\ Plain(q, s.vr)
          /\ t.vr = s.vr /\ t.rejExc = s.rejExc
       \/ /\ IsRej(f) /\ RunOf(q, f.nr, Ahead(f.nr, s.vs), s.vr)
          /\ t.vr = s.vr /\ t.rejExc = s.rejExc
       \/ /\ IsI(f) /\ f.ns = s.vr /\ Plain(q, t.vr)
          /\ t.vr = Plus(s.vr, 1) /\ t.rejExc = FALSE
       \/ /\ IsI(f) /\ f.ns # s.vr /\ t.vr = s.vr /\ t.rejExc = TRUE
          /\ \/ s.rejExc = TRUE /\ q = <<>>
             \/ s.rejExc = FALSE /\ Len(q) = 1 /\ IsRej(q[1]) /\ q[1].nr = s.vr

LEMMA NoneSent ==
    ASSUME NEW r
    PROVE  Plain(<<>>, r) /\ <<>> \in Seq(LinkFrames)
           /\ \A q \in Seq(LinkFrames) : q \o <<>> = q /\ <<>> \o q = q
  <1>1. <<>> \in Seq(LinkFrames) /\ Len(<<>>) = 0
    OBVIOUS
  <1> QED  BY <1>1 DEF Plain

LEMMA ReadySent ==
    ASSUME NEW r \in SeqNos, NEW b \in BOOLEAN
    PROVE  Plain(<<Response("RR", r, b)>>, r)
  <1> DEFINE f == Response("RR", r, b)
  <1>1. f \in LinkFrames /\ Kind(f) = "NUM" /\ f.nr = r /\ ~IsI(f) /\ ~IsRej(f)
    BY MadeNumbered
  <1> HIDE DEF f
  <1>2. <<f>> \in Seq(LinkFrames) /\ Len(<<f>>) = 1 /\ <<f>>[1] = f
    BY <1>1
  <1>3. Plain(<<f>>, r)
    BY <1>1, <1>2 DEF Plain
  <1> QED  BY <1>3 DEF f

Outcome(s, out, up, event) == [s |-> s, out |-> out, up |-> up, event |-> event]

LEMMA OutcomeFields ==
    ASSUME NEW s, NEW o, NEW u, NEW e
    PROVE  /\ Outcome(s, o, u, e).s = s /\ Outcome(s, o, u, e).out = o
           /\ Outcome(s, o, u, e).up = u
  BY DEF Outcome

LEMMA OutcomeSay ==
    ASSUME NEW s, NEW o, NEW u, NEW e, NEW f
    PROVE  Say(Outcome(s, o, u, e), f) = Outcome(s, Append(o, f), u, e)
  BY DEF Say, Outcome

LEMMA OutcomeDeliver ==
    ASSUME NEW s, NEW o, NEW u, NEW e, NEW d
    PROVE  Deliver(Outcome(s, o, u, e), d)
             = Outcome(s, o, IF d \in Data THEN Append(u, d) ELSE u, e)
  BY DEF Deliver, Outcome

LEMMA OutcomeRecover ==
    ASSUME NEW s, NEW o, NEW u, NEW e
    PROVE  Recover(Outcome(s, o, u, e)) = Outcome(Idle([s EXCEPT !.state = "ESTABLISHED"]), o, u, e)
  BY DEF Recover, Outcome

\* c is what s makes of f, after the frames o and the messages u.
Answers(c, s, f, o, u, e) == \E t, q : c = Outcome(t, o \o q, u, e) /\ Replied(s, f, t, q)

\* A RR is taken.
LEMMA OnReadyReplies ==
    ASSUME NEW s, Good(s), s.state \in Transfer, Filled(s), NEW o \in Seq(LinkFrames), NEW u,
           NEW e, NEW f \in LinkFrames, f.type = "RR"
    PROVE  Answers(OnReady(Outcome(s, o, u, e), f), s, f, o, u, e)
  <1> SUFFICES \E t, q : /\ OnReady(Outcome(s, o, u, e), f) = Outcome(t, o \o q, u, e)
                         /\ Replied(s, f, t, q)
    BY DEF Answers
  <1> DEFINE c == Outcome(s, o, u, e)
             r == [s EXCEPT !.peerBusy = (f.type = "RNR")]
             b == Outcome(r, o, u, e)
             d == [c EXCEPT !.s.peerBusy = (f.type = "RNR")]
             t == Idle([r EXCEPT !.state = "ESTABLISHED"])
  <1>1. s \in EndState /\ s.vr \in SeqNos
    BY EndFields
  <1>2. ~IsI(f) /\ ~IsRej(f)
    BY DEF IsI, IsRej
  <1>3. Same(s, r) /\ r.state = s.state /\ r \in EndState
    BY <1>1 DEF EndState, Same
  <1>4. Same(s, t) /\ t.state = "ESTABLISHED"
    BY <1>1 DEF EndState, Same, Idle
  <1>5. d = b
    BY DEF Outcome
  <1>6. Phase(r) = "up" /\ Phase(t) = "up"
    BY <1>1, <1>3, <1>4 DEF Phase, Transfer, EndState, States
  <1>7. Filled(r) /\ Filled(t)
    <2> HIDE DEF r, t
    <2> QED  BY <1>3, <1>4, SameFilled
  <1> HIDE DEF r, t
  <1>8. ASSUME NEW q, Plain(q, s.vr)
        PROVE  Replied(s, f, r, q) /\ Replied(s, f, t, q)
    BY <1>2, <1>3, <1>4, <1>6, <1>7, <1>8 DEF Replied, Same, Plain
  <1>9. b.s = r /\ r.vr = s.vr
    BY <1>3, OutcomeFields DEF Same
  <1>10. o = o \o <<>>
    OBVIOUS
  <1> HIDE DEF c, d, b
  <1>11. CASE PollAnswered(c, f)
    <2>1. ~(f.pf /\ f.cr = "cmd")
      BY <1>11 DEF PollAnswered
    <2>2. OnReady(c, f) = Recover(b)
      BY <1>5, <1>11, <2>1 DEF OnReady, d
    <2>3. OnReady(c, f) = Outcome(t, o, u, e)
      BY <2>2, OutcomeRecover DEF b, t
    <2> QED  BY <1>8, <1>10, <2>3, NoneSent DEF c
  <1>12. CASE ~PollAnswered(c, f) /\ f.pf /\ f.cr = "cmd"
    <2> DEFINE g == Response("RR", s.vr, TRUE)
    <2>1. OnReady(c, f) = AnswerPoll(b)
      BY <1>5, <1>12 DEF OnReady, d
    <2>2. AnswerPoll(b) = Say(b, g)
      BY <1>9 DEF AnswerPoll
    <2>3. g \in LinkFrames /\ Plain(<<g>>, s.vr)
      BY <1>1, MadeNumbered, ReadySent
    <2> HIDE DEF g
    <2>4. OnReady(c, f) = Outcome(r, Append(o, g), u, e)
      BY <2>1, <2>2, OutcomeSay DEF b
    <2>5. Append(o, g) = o \o <<g>>
      BY <2>3
    <2> QED  BY <1>8, <2>3, <2>4, <2>5 DEF c
  <1>13. CASE ~PollAnswered(c, f) /\ ~(f.pf /\ f.cr = "cmd")
    <2>1. OnReady(c, f) = b
      BY <1>5, <1>13 DEF OnReady, d
    <2> QED  BY <1>8, <1>10, <2>1, NoneSent DEF b, c
  <1> QED  BY <1>11, <1>12, <1>13

\* A REJ is taken: what it asks for is sent again.
LEMMA OnRejReplies ==
    ASSUME NEW s, Good(s), s.state \in Transfer, Filled(s), NEW o \in Seq(LinkFrames), NEW u,
           NEW e, NEW f \in LinkFrames, f.type = "REJ"
    PROVE  Answers(OnRej(Outcome(s, o, u, e), f), s, f, o, u, e)
  <1> SUFFICES \E t, q : /\ OnRej(Outcome(s, o, u, e), f) = Outcome(t, o \o q, u, e)
                         /\ Replied(s, f, t, q)
    BY DEF Answers
  <1> DEFINE c == Outcome(s, o, u, e)
             state == IF PollAnswered(c, f) THEN "ESTABLISHED" ELSE s.state
             r == [s EXCEPT !.peerBusy = FALSE, !.state = state]
             v == OnLoss(r)
             n == Ahead(f.nr, s.vs)
             q == [i \in 1 .. n |-> IFrame(Plus(f.nr, i - 1), s.vr, s.window[Plus(f.nr, i - 1)])]
             again == [i \in 1 .. Ahead(f.nr, v.vs) |->
                         IFrame(Plus(f.nr, i - 1), v.vr, v.window[Plus(f.nr, i - 1)])]
  <1>1. s \in EndState /\ s.vr \in SeqNos /\ s.vs \in SeqNos /\ s.window \in [SeqNos -> Info]
    BY EndFields
  <1>2. f.nr \in SeqNos /\ IsRej(f) /\ n \in Nat /\ n < Mod
    BY <1>1, LinkFrameType, AheadNat DEF IsRej
  <1>3. state \in Transfer /\ state \in States
    BY DEF Transfer, States
  <1> HIDE DEF state
  <1>4. r \in EndState /\ Same(s, r) /\ r.state = state
    BY <1>1, <1>3 DEF EndState, Same
  <1>5. Same(s, v) /\ v \in EndState /\ v.state = state
    <2> HIDE DEF r
    <2> QED  BY <1>4, OnLossOk, TimersSame, SameTwice
  <1>6. Same(s, Supervise(v)) /\ Supervise(v) \in EndState /\ Supervise(v).state = state
    <2> HIDE DEF v
    <2> QED  BY <1>5, SuperviseType, TimersSame, SameTwice
  <1>7. Phase(Supervise(v)) = "up" /\ Filled(Supervise(v))
    <2> HIDE DEF v
    <2> QED  BY <1>3, <1>6, PhaseType, SameFilled
  <1>8. OnRej(c, f) = [c EXCEPT !.s = Supervise(v), !.out = c.out \o again]
    <2>1. c.s = s
      BY OutcomeFields
    <2> HIDE DEF c
    <2> QED  BY <2>1 DEF OnRej, state
  <1>9. again = q
    <2>1. v.vs = s.vs /\ v.vr = s.vr /\ v.window = s.window
      BY <1>5 DEF Same
    <2> HIDE DEF v
    <2> QED  BY <2>1
  <1> HIDE DEF r, v
  <1>10. ASSUME NEW i \in 1 .. n
        PROVE  /\ q[i] \in LinkFrames /\ IsI(q[i]) /\ q[i].ns = Plus(f.nr, i - 1) /\ q[i].nr = s.vr
    <2>1. i - 1 \in 0 .. Mod
      BY <1>2, WindowAssumption
    <2>2. Plus(f.nr, i - 1) \in SeqNos
      BY <1>2, <2>1, PlusType
    <2>3. s.window[Plus(f.nr, i - 1)] \in Info
      BY <1>1, <2>2
    <2>4. q[i] = IFrame(Plus(f.nr, i - 1), s.vr, s.window[Plus(f.nr, i - 1)])
      OBVIOUS
    <2> HIDE DEF q, n
    <2> QED  BY <1>1, <2>2, <2>3, <2>4, MadeI
  <1>11. q \in Seq(LinkFrames) /\ Len(q) = n
    <2>1. q \in [1 .. n -> LinkFrames]
      BY <1>10
    <2> HIDE DEF q, n
    <2> QED  BY <1>2, <2>1
  <1>12. RunOf(q, f.nr, n, s.vr)
    <2> HIDE DEF q, n
    <2> QED  BY <1>10, <1>11 DEF RunOf
  <1> HIDE DEF q, again
  <1>13. OnRej(c, f) = Outcome(Supervise(v), o \o q, u, e)
    BY <1>8, <1>9 DEF Outcome
  <1>14. Replied(s, f, Supervise(v), q)
    BY <1>2, <1>6, <1>7, <1>11, <1>12 DEF Replied, Same
  <1> QED  BY <1>13, <1>14

\* An information frame is taken: delivered, or rejected once.
LEMMA OnIReplies ==
    ASSUME NEW s, Good(s), s.state \in Transfer, Filled(s), NEW o \in Seq(LinkFrames), NEW e,
           NEW f \in LinkFrames, f.type = "I"
    PROVE  \E t, q, u : /\ OnI(Outcome(s, o, <<>>, e), f) = Outcome(t, o \o q, u, e)
                        /\ Replied(s, f, t, q) /\ u \in Seq(Data)
  <1> DEFINE c == Outcome(s, o, <<>>, e)
  <1>1. s \in EndState /\ s.vr \in SeqNos /\ s.rejExc \in BOOLEAN /\ <<>> \in Seq(Data)
    BY EndFields
  <1>2. /\ f.size # "long" /\ f.cr = "cmd" /\ ~f.pf /\ f.type # "REJ"
        /\ IsI(f) /\ ~IsRej(f)
    BY DEF LinkFrames, IsI, IsRej
  <1>3. c.s = s /\ c.out = o /\ c.up = <<>>
    BY OutcomeFields
  <1>4. CASE f.ns = s.vr
    <2> DEFINE r == [s EXCEPT !.vr = Plus(s.vr, 1), !.rejExc = FALSE]
               b == [c EXCEPT !.s = r]
               m == IF f.data \in Data THEN Append(<<>>, f.data) ELSE <<>>
               g == Response("RR", r.vr, FALSE)
    <2>1. /\ r.state = s.state /\ r.va = s.va /\ r.vs = s.vs /\ r.window = s.window
          /\ r.vr = Plus(s.vr, 1) /\ r.rejExc = FALSE
      BY <1>1 DEF EndState
    <2>2. Plus(s.vr, 1) \in SeqNos
      BY <1>1, PlusType, WindowAssumption
    <2>3. m \in Seq(Data)
      OBVIOUS
    <2>4. b = Outcome(r, o, <<>>, e)
      BY DEF Outcome
    <2>5. OnI(c, f) = InSequence(c, f)
      BY <1>2, <1>3, <1>4 DEF OnI
    <2>6. InSequence(c, f) = Say(Deliver(b, f.data), g)
      <3> DEFINE x == [c.s EXCEPT !.vr = Plus(@, 1), !.rejExc = FALSE]
      <3>1. x = r
        BY <1>3
      <3> HIDE DEF c, r
      <3>2. InSequence(c, f) = Say(Deliver([c EXCEPT !.s = x], f.data), Response("RR", x.vr, FALSE))
        BY <1>2 DEF InSequence, PollAnswered
      <3> HIDE DEF x
      <3> QED  BY <3>1, <3>2
    <2> HIDE DEF r, b, m, c
    <2>7. Deliver(b, f.data) = Outcome(r, o, m, e)
      BY <2>4, OutcomeDeliver DEF m
    <2>8. g \in LinkFrames /\ Plain(<<g>>, r.vr)
      BY <2>1, <2>2, MadeNumbered, ReadySent
    <2> HIDE DEF g
    <2>9. OnI(c, f) = Outcome(r, Append(o, g), m, e)
      BY <2>5, <2>6, <2>7, OutcomeSay
    <2>10. Append(o, g) = o \o <<g>> /\ <<g>> \in Seq(LinkFrames)
      BY <2>8
    <2>11. Phase(r) = "up" /\ Filled(r)
      <3>1. Phase(r) = "up"
        BY <1>1, <2>1 DEF Phase, Transfer
      <3> QED  BY <2>1, <3>1 DEF Filled
    <2>12. Replied(s, f, r, <<g>>)
      BY <1>2, <1>4, <2>1, <2>8, <2>10, <2>11 DEF Replied
    <2> QED  BY <2>3, <2>9, <2>10, <2>12 DEF c
  <1>5. CASE f.ns # s.vr /\ s.rejExc
    <2>1. OnI(c, f) = c
      BY <1>2, <1>3, <1>5 DEF OnI, OutOfSequence
    <2>2. Phase(s) = "up"
      BY <1>1, PhaseType
    <2>3. Replied(s, f, s, <<>>)
      BY <1>1, <1>2, <1>5, <2>2, NoneSent DEF Replied
    <2>4. o \o <<>> = o
      OBVIOUS
    <2> QED  BY <1>1, <2>1, <2>3, <2>4
  <1>6. CASE f.ns # s.vr /\ ~s.rejExc
    <2> DEFINE r == [s EXCEPT !.rejExc = TRUE]
               g == Response("REJ", s.vr, FALSE)
               b == Say(c, g)
    <2>1. /\ r.state = s.state /\ r.va = s.va /\ r.vs = s.vs /\ r.window = s.window
          /\ r.vr = s.vr /\ r.rejExc = TRUE
      BY <1>1 DEF EndState
    <2>2. OnI(c, f) = OutOfSequence(c, f)
      BY <1>2, <1>3, <1>6 DEF OnI
    <2>3. OutOfSequence(c, f) = [b EXCEPT !.s = [@ EXCEPT !.rejExc = TRUE]]
      <3>1. (f.cr = "cmd" /\ f.pf) = FALSE
        BY <1>2
      <3> HIDE DEF c
      <3> QED  BY <1>3, <1>6, <3>1 DEF OutOfSequence
    <2>4. g \in LinkFrames /\ g.nr = s.vr /\ IsRej(g)
      BY <1>1, MadeNumbered
    <2>5. b = Outcome(s, Append(o, g), <<>>, e)
      <3> HIDE DEF g
      <3> QED  BY OutcomeSay
    <2> HIDE DEF g, b
    <2>6. OnI(c, f) = Outcome(r, Append(o, g), <<>>, e)
      BY <2>2, <2>3, <2>5 DEF Outcome
    <2> HIDE DEF r
    <2>7. Append(o, g) = o \o <<g>> /\ <<g>> \in Seq(LinkFrames) /\ Len(<<g>>) = 1 /\ <<g>>[1] = g
      BY <2>4
    <2>8. Phase(r) = "up" /\ Filled(r)
      <3>1. Phase(r) = "up"
        BY <1>1, <2>1 DEF Phase, Transfer
      <3> QED  BY <2>1, <3>1 DEF Filled
    <2>9. Replied(s, f, r, <<g>>)
      BY <1>1, <1>2, <1>6, <2>1, <2>4, <2>7, <2>8 DEF Replied
    <2> QED  BY <1>1, <2>6, <2>7, <2>9
  <1> QED  BY <1>1, <1>4, <1>5, <1>6

-----------------------------------------------------------------------------
(* What HandleFrame makes of each frame, by the state it finds. *)

Silent(s) == Outcome(s, <<>>, <<>>, "none")

LEMMA SilentSay ==
    ASSUME NEW s, NEW f
    PROVE  Say(Silent(s), f) = Outcome(s, <<f>>, <<>>, "none")
  <1>1. Append(<<>>, f) = <<f>>
    OBVIOUS
  <1> QED  BY <1>1 DEF Silent, Say, Outcome

LEMMA ContextSilent ==
    ASSUME NEW s
    PROVE  Context(s) = Silent(s)
  BY DEF Context, Outcome, Silent

LEMMA OkOutcome ==
    ASSUME NEW c, NEW up, Ok(c, up)
    PROVE  Good(c.s) /\ c = Outcome(c.s, c.out, c.up, c.event)
  BY DEF Ok, Outcome

LEMMA Routed ==
    ASSUME NEW s, NEW f \in LinkFrames
    PROVE  /\ f.type = "SABME" => HandleFrame(s, f) = OnSabme(Context(s), f)
           /\ f.type = "DISC" => HandleFrame(s, f) = OnDisc(Context(s), f)
           /\ f.type \notin {"SABME", "DISC"} => HandleFrame(s, f) = WatchIdle(ByState(Context(s), f))
  <1>1. f.size = "ok" /\ f.becn = FALSE
        /\ f.type \in {"I", "RR", "REJ", "SABME", "DISC", "UA", "DM"}
    BY DEF LinkFrames
  <1>2. ~Malformed(f)
    BY <1>1 DEF Malformed
  <1>3. HandleFrame(s, f) =
          CASE f.type = "UI" -> OnUi(Context(s), f)
            [] f.type = "SABME" -> OnSabme(Context(s), f)
            [] f.type = "DISC" -> OnDisc(Context(s), f)
            [] OTHER -> WatchIdle(ByState(Context(s), f))
    BY <1>1, <1>2 DEF HandleFrame
  <1> QED  BY <1>1, <1>3

LEMMA ReadGood ==
    ASSUME NEW s, NEW up, Good(s), s.state \in Transfer => up, NEW f \in LinkFrames
    PROVE  Good(HandleFrame(s, f).s)
  <1>1. f.nr \in SeqNos /\ f.k \in 0 .. K
    BY WindowAssumption DEF LinkFrames
  <1>2. Ok(HandleFrame(s, f), up)
    BY <1>1, HandleFrameOk
  <1> QED  BY <1>2, OkOutcome

LEMMA ZeroFilled ==
    ASSUME NEW s, s.va = 0, s.vs = 0
    PROVE  Filled(s)
  <1>1. ASSUME NEW m \in SeqNos, Ahead(0, m) < Ahead(0, 0)
        PROVE  FALSE
    BY <1>1, WindowAssumption DEF Ahead, SeqNos
  <1> QED  BY <1>1 DEF Filled

LEMMA SaysOne ==
    ASSUME NEW s, NEW u, NEW e, NEW f \in LinkFrames, NEW k, Kind(f) = k
    PROVE  Says(Outcome(s, <<f>>, u, e), k)
  <1>1. Outcome(s, <<f>>, u, e).out = <<f>>
    BY OutcomeFields
  <1>2. <<f>> \in Seq(LinkFrames) /\ Len(<<f>>) = 1 /\ <<f>>[1] = f
    OBVIOUS
  <1> QED  BY <1>1, <1>2 DEF Says

\* The link starts at the end that reads a SABME.
LEMMA SabmeRead ==
    ASSUME NEW s, Good(s), NEW f \in LinkFrames, f.type = "SABME"
    PROVE  LET c == HandleFrame(s, f)
           IN Zeroed(c.s) /\ c.s.vs = 0 /\ Filled(c.s) /\ Says(c, "UA") /\ c.up = <<>>
  <1> DEFINE r == [s EXCEPT !.state = "ESTABLISHED", !.vs = 0, !.vr = 0, !.va = 0,
                            !.peerBusy = FALSE, !.rejExc = FALSE, !.backlog = <<>>]
             g == Response("UA", 0, TRUE)
  <1>1. s \in EndState /\ f.pf = TRUE
    BY EndFields DEF LinkFrames
  <1>2. /\ Idle(r).state = "ESTABLISHED" /\ Idle(r).va = 0 /\ Idle(r).vs = 0 /\ Idle(r).vr = 0
        /\ Idle(r).rejExc = FALSE
    BY <1>1 DEF EndState, Idle
  <1>3. OnSabme(Context(s), f)
          = [Say([Context(s) EXCEPT !.s = Idle(r)], g) EXCEPT !.event = "ESTABLISHED"]
    <2>1. Context(s).s = s
      BY DEF Context
    <2> QED  BY <1>1, <2>1 DEF OnSabme, Tell
  <1> HIDE DEF r
  <1>4. Say([Context(s) EXCEPT !.s = Idle(r)], g) = Outcome(Idle(r), <<g>>, <<>>, "none")
    <2> DEFINE b == [Context(s) EXCEPT !.s = Idle(r)]
    <2>1. b = Silent(Idle(r))
      BY DEF Context, Outcome, Silent
    <2> HIDE DEF g, b
    <2>2. Say(b, g) = Outcome(Idle(r), <<g>>, <<>>, "none")
      BY <2>1, SilentSay
    <2> QED  BY <2>2 DEF b
  <1>5. g \in LinkFrames /\ Kind(g) = "UA"
    BY MadeControl
  <1> HIDE DEF g
  <1>6. OnSabme(Context(s), f) = Outcome(Idle(r), <<g>>, <<>>, "ESTABLISHED")
    BY <1>3, <1>4 DEF Outcome
  <1>7. HandleFrame(s, f) = Outcome(Idle(r), <<g>>, <<>>, "ESTABLISHED")
    BY <1>6, Routed
  <1>8. Zeroed(Idle(r)) /\ Filled(Idle(r))
    BY <1>2, ZeroFilled DEF Zeroed, Phase
  <1> QED  BY <1>2, <1>5, <1>7, <1>8, SaysOne, OutcomeFields

\* The link ends at the end that reads a DISC.
LEMMA DiscRead ==
    ASSUME NEW s, Good(s), NEW f \in LinkFrames, f.type = "DISC"
    PROVE  LET c == HandleFrame(s, f)
           IN /\ Phase(c.s) = "down" /\ Same(s, c.s) /\ c.up = <<>>
              /\ Phase(s) = "down" => Says(c, "DMF")
              /\ Phase(s) # "down" => Says(c, "UA")
  <1> DEFINE r == [s EXCEPT !.state = "TEI_ASSIGNED", !.t200 = FALSE, !.t203 = FALSE]
             answer == IF s.state = "TEI_ASSIGNED" THEN "DM" ELSE "UA"
             g == Response(answer, 0, TRUE)
             d == Outcome(r, <<g>>, <<>>, "none")
  <1>1. s \in EndState /\ f.pf = TRUE
    BY EndFields DEF LinkFrames
  <1>2. Same(s, r) /\ r.state = "TEI_ASSIGNED"
    BY <1>1 DEF EndState, Same
  <1>3. Say([Context(s) EXCEPT !.s = r], g) = d
    <2> DEFINE b == [Context(s) EXCEPT !.s = r]
    <2>1. b = Silent(r)
      BY DEF Context, Outcome, Silent
    <2> HIDE DEF g, r, b
    <2>3. Say(b, g) = Outcome(r, <<g>>, <<>>, "none")
      BY <2>1, SilentSay
    <2> QED  BY <2>3 DEF b
  <1>4. OnDisc(Context(s), f) = IF s.state \in Transfer THEN [d EXCEPT !.event = "RELEASED"] ELSE d
    <2>1. Context(s).s = s
      BY DEF Context
    <2>2. OnDisc(Context(s), f)
            = IF s.state \in Transfer THEN Tell(Say([Context(s) EXCEPT !.s = r], g), "RELEASED")
              ELSE Say([Context(s) EXCEPT !.s = r], g)
      BY <1>1, <2>1 DEF OnDisc
    <2> HIDE DEF d, r, g
    <2> QED  BY <1>3, <2>2 DEF Tell
  <1>5. PICK e : OnDisc(Context(s), f) = Outcome(r, <<g>>, <<>>, e)
    <2> HIDE DEF r, g
    <2> QED  BY <1>4 DEF Outcome
  <1>6. /\ g \in LinkFrames
        /\ Phase(s) = "down" => Kind(g) = "DMF"
        /\ Phase(s) # "down" => Kind(g) = "UA"
    BY MadeControl DEF Phase
  <1>7. HandleFrame(s, f) = Outcome(r, <<g>>, <<>>, e)
    BY <1>5, Routed
  <1> HIDE DEF r, g
  <1>8. Phase(r) = "down"
    BY <1>2 DEF Phase
  <1> QED  BY <1>2, <1>6, <1>7, <1>8, SaysOne, OutcomeFields

\* T203 of an established link is not what the peer sees.
LEMMA Watched ==
    ASSUME NEW s, NEW f \in LinkFrames, f.type \notin {"SABME", "DISC"}, NEW up,
           NEW c, Ok(c, up), ByState(Context(s), f) = c
    PROVE  LET d == HandleFrame(s, f)
           IN d.out = c.out /\ d.up = c.up /\ Phase(d.s) = Phase(c.s) /\ Same(c.s, d.s)
  <1>1. HandleFrame(s, f) = WatchIdle(c)
    BY Routed
  <1>2. /\ WatchIdle(c).out = c.out /\ WatchIdle(c).up = c.up
        /\ WatchIdle(c).s.state = c.s.state /\ Same(c.s, WatchIdle(c).s)
    BY WatchSame
  <1> QED  BY <1>1, <1>2 DEF Phase

\* What HandleFrame gives is what the switch on the state gives, but for T203.
LEMMA StateRead ==
    ASSUME NEW s, Good(s), NEW up, s.state \in Transfer => up, NEW f \in LinkFrames,
           f.type \notin {"SABME", "DISC"}
    PROVE  LET b == ByState(Context(s), f)
               c == HandleFrame(s, f)
           IN /\ Ok(Context(s), up) /\ Context(s).s = s /\ Context(s).out = <<>> /\ Context(s).up = <<>>
              /\ Ok(b, up)
              /\ c.out = b.out /\ c.up = b.up /\ Phase(c.s) = Phase(b.s) /\ Same(b.s, c.s)
              /\ \A k : Says(b, k) => Says(c, k)
  <1>1. /\ Ok(Context(s), up) /\ Context(s).s = s /\ Context(s).out = <<>> /\ Context(s).up = <<>>
        /\ Context(s).event = "none"
    BY ContextSays, ContextOk
  <1>2. f.nr \in SeqNos /\ f.k \in 0 .. K
    BY WindowAssumption DEF LinkFrames
  <1> DEFINE b == ByState(Context(s), f)
             c == HandleFrame(s, f)
  <1>3. Ok(b, up)
    BY <1>1, <1>2, ByStateOk
  <1>4. b = ByState(Context(s), f)
    OBVIOUS
  <1> HIDE DEF b
  <1>5. c.out = b.out /\ c.up = b.up /\ Phase(c.s) = Phase(b.s) /\ Same(b.s, c.s)
    BY <1>3, <1>4, Watched
  <1> HIDE DEF c
  <1>6. \A k : Says(b, k) => Says(c, k)
    BY <1>5 DEF Says
  <1> QED  BY <1>1, <1>3, <1>5, <1>6 DEF b, c

LEMMA SaidOne ==
    ASSUME NEW c, NEW up, Ok(c, up), c.out = <<>>, NEW f \in LinkFrames
    PROVE  LET d == Say(c, f)
           IN d.s = c.s /\ d.up = c.up /\ \A k : Kind(f) = k => Says(d, k)
  <1> DEFINE d == Say(c, f)
  <1>1. d.s = c.s /\ d.up = c.up /\ d.out = Append(c.out, f)
    BY SayFields
  <1>2. Append(c.out, f) = <<f>> /\ <<f>> \in Seq(LinkFrames) /\ Len(<<f>>) = 1 /\ <<f>>[1] = f
    OBVIOUS
  <1> HIDE DEF d
  <1>3. \A k : Kind(f) = k => Says(d, k)
    BY <1>1, <1>2 DEF Says
  <1> QED  BY <1>1, <1>3 DEF d

\* A disconnected end reads a frame.
LEMMA DownRead ==
    ASSUME NEW s, Good(s), Phase(s) = "down", NEW f \in LinkFrames, f.type \notin {"SABME", "DISC"}
    PROVE  LET c == HandleFrame(s, f)
           IN /\ Same(s, c.s) /\ c.up = <<>>
              /\ Kind(f) = "DM" => Phase(c.s) = "calling" /\ Says(c, "SABME")
              /\ Kind(f) \in {"UA", "DMF"} => Phase(c.s) = "down" /\ c.out = <<>>
              /\ Kind(f) = "POLL" => Phase(c.s) = "down" /\ Says(c, "DMF")
              /\ Kind(f) = "NUM" => Phase(c.s) = "down" /\ (c.out = <<>> \/ Says(c, "DM"))
  <1> DEFINE b == ByState(Context(s), f)
             c == HandleFrame(s, f)
             z == Context(s)
  <1>1. s.state = "TEI_ASSIGNED" /\ s \in EndState /\ s.state \notin Transfer
    BY EndFields, PhaseType DEF Transfer
  <1>2. /\ Ok(z, TRUE) /\ z.s = s /\ z.out = <<>> /\ z.up = <<>>
        /\ c.out = b.out /\ c.up = b.up /\ Phase(c.s) = Phase(b.s) /\ Same(b.s, c.s)
        /\ \A k : Says(b, k) => Says(c, k)
    <2>1. s.state \in Transfer => TRUE
      OBVIOUS
    <2> QED  BY <2>1, StateRead
  <1>3. b = OnDisconnected(z, f)
    <2>1. z.s = s
      BY <1>2
    <2> HIDE DEF z
    <2> QED  BY <1>1, <2>1 DEF ByState, z
  <1> HIDE DEF b, c, z
  <1>4. f.pf \in BOOLEAN /\ f.type \in {"I", "RR", "REJ", "UA", "DM"} /\ f.cr \in {"cmd", "rsp"}
        /\ (f.type = "I" => f.cr = "cmd" /\ ~f.pf) /\ (f.type = "UA" => f.pf)
        /\ (f.type \in {"UA", "DM", "REJ"} => f.cr = "rsp")
        /\ (f.type = "RR" /\ f.cr = "cmd" => f.pf)
    BY DEF LinkFrames
  <1>5. Same(s, s)
    BY DEF Same
  <1>6. CASE Kind(f) = "DM"
    <2>1. b = Reestablish(z)
      BY <1>3, <1>4, <1>6 DEF OnDisconnected, Kind
    <2>2. Says(b, "SABME") /\ b.up = <<>> /\ Phase(b.s) = "calling" /\ Same(s, b.s)
      BY <1>2, <2>1, ReestablishSays
    <2>3. Same(s, c.s)
      BY <1>2, <2>2, SameTwice
    <2> QED  BY <1>2, <1>6, <2>2, <2>3 DEF c
  <1>7. CASE Kind(f) \in {"UA", "DMF"} \/ (Kind(f) = "NUM" /\ f.cr = "rsp")
    <2>1. b = z
      BY <1>3, <1>4, <1>7 DEF OnDisconnected, Kind
    <2>2. c.out = <<>> /\ c.up = <<>> /\ Phase(c.s) = "down" /\ Same(s, c.s)
      BY <1>2, <2>1
    <2> QED  BY <1>7, <2>2 DEF c
  <1>8. CASE Kind(f) = "POLL" \/ (Kind(f) = "NUM" /\ f.cr = "cmd")
    <2> DEFINE g == Response("DM", 0, f.pf)
               k == IF Kind(f) = "POLL" THEN "DMF" ELSE "DM"
    <2>1. b = Say(z, g)
      BY <1>3, <1>4, <1>8 DEF OnDisconnected, Kind
    <2>2. f.pf = (Kind(f) = "POLL")
      BY <1>4, <1>8 DEF Kind
    <2>3. g \in LinkFrames /\ Kind(g) = k
      <3>1. CASE Kind(f) = "POLL"
        <4>1. g = Response("DM", 0, TRUE)
          BY <2>2, <3>1
        <4> HIDE DEF g
        <4> QED  BY <3>1, <4>1, MadeControl
      <3>2. CASE Kind(f) # "POLL"
        <4>1. g = Response("DM", 0, FALSE)
          BY <2>2, <3>2
        <4> HIDE DEF g
        <4> QED  BY <3>2, <4>1, MadeControl
      <3> QED  BY <3>1, <3>2
    <2> HIDE DEF g, k
    <2>4. b.s = s /\ b.up = <<>> /\ Says(b, k)
      BY <1>2, <2>1, <2>3, SaidOne
    <2>5. Same(s, c.s) /\ Phase(c.s) = "down" /\ c.up = <<>> /\ Says(c, k)
      BY <1>2, <2>4
    <2> QED  BY <1>8, <2>5 DEF k, c
  <1>9. Kind(f) \in {"DM", "UA", "DMF", "NUM", "POLL"}
    BY <1>4 DEF Kind
  <1> QED  BY <1>4, <1>6, <1>7, <1>8, <1>9

\* The caller has its answer: it counts from 0 and the n frames q were sent.
Started(t, n, q) ==
    Zeroed(t) /\ n \in Nat /\ n <= K /\ RunOf(q, 0, n, 0) /\ t.vs = Plus(0, n) /\ Filled(t)

LEMMA TellFields ==
    ASSUME NEW c, NEW up, Ok(c, up), NEW e
    PROVE  Tell(c, e).s = c.s /\ Tell(c, e).out = c.out /\ Tell(c, e).up = c.up
  <1>1. c = [s |-> c.s, out |-> c.out, up |-> c.up, event |-> c.event]
    BY DEF Ok
  <1>2. Tell(c, e) = [s |-> c.s, out |-> c.out, up |-> c.up, event |-> e]
    BY <1>1 DEF Tell
  <1> QED  BY <1>2

\* The entity of a caller when the UA arrives, before its backlog is sent;
\* what it has done then.
Answered(s) ==
    Idle([s EXCEPT !.state = "ESTABLISHED", !.vs = 0, !.vr = 0, !.va = 0, !.rejExc = FALSE])
Begun(t) == Tell(ProcessBacklog(Context(t)), "ESTABLISHED")

\* The link starts at the caller that reads its UA.
LEMMA AnswerStarts ==
    ASSUME NEW s, Good(s)
    PROVE  LET c == Begun(Answered(s))
           IN c.up = <<>> /\ \E n : Started(c.s, n, c.out)
  <1> DEFINE t == Answered(s)
             r == [s EXCEPT !.state = "ESTABLISHED", !.vs = 0, !.vr = 0, !.va = 0, !.rejExc = FALSE]
  <1>1. s \in EndState
    BY EndFields
  <1>2. /\ r \in EndState /\ r.state = "ESTABLISHED" /\ r.va = 0 /\ r.vs = 0 /\ r.vr = 0
        /\ r.rejExc = FALSE /\ r.backlog = s.backlog
    <2>1. "ESTABLISHED" \in States
      BY DEF States
    <2> QED  BY <1>1, <2>1, ZeroTypes DEF EndState
  <1>3. t \in EndState /\ t.state = "ESTABLISHED" /\ t.va = 0 /\ t.vs = 0 /\ t.backlog = s.backlog
        /\ TimersOf(t) /\ t.vr = 0 /\ t.rejExc = FALSE
    <2>1. /\ t \in EndState /\ SameWindow(r, t) /\ t.state = "ESTABLISHED" /\ TimersOf(t)
      <3> HIDE DEF r
      <3>1. t = Idle(r)
        BY DEF r, Answered
      <3> QED  BY <1>2, <3>1, IdleType DEF Transfer
    <2>2. t.vr = 0 /\ t.rejExc = FALSE
      BY <1>1 DEF EndState, Idle, Answered
    <2> HIDE DEF r, t
    <2> QED  BY <1>2, <2>1, <2>2 DEF SameWindow
  <1> HIDE DEF r, t
  <1>4. Good(t)
    <2>1. Ahead(0, 0) = 0
      BY WindowAssumption DEF Ahead
    <2> QED  BY <1>3, <2>1, WindowAssumption DEF Good, Outstanding
  <1>5. Filled(t)
    BY <1>3, ZeroFilled
  <1> DEFINE z == Context(t)
             d == ProcessBacklog(z)
             c == Tell(d, "ESTABLISHED")
  <1>6. Ok(z, TRUE) /\ z.s = t /\ z.out = <<>> /\ z.up = <<>> /\ t.state \in Transfer
    <2>1. t.state \in Transfer => TRUE
      OBVIOUS
    <2> QED  BY <1>3, <1>4, <2>1, ContextSays DEF Transfer
  <1> HIDE DEF z
  <1>7. d.up = <<>> /\ (\E n : Pushed(t, d.s, t.va, n, d.out)) /\ Ok(d, TRUE) /\ d.s.state = t.state
    BY <1>5, <1>6, ProcessSends, ProcessBacklogOk
  <1> HIDE DEF d
  <1>8. c.s = d.s /\ c.out = d.out /\ c.up = d.up
    BY <1>7, TellFields
  <1> HIDE DEF c
  <1>9. PICK n : Pushed(t, d.s, t.va, n, d.out)
    BY <1>7
  <1>10. n \in Nat /\ n <= K
    <2>1. Ahead(0, 0) = 0
      BY WindowAssumption DEF Ahead
    <2> QED  BY <1>3, <1>9, <2>1 DEF Pushed
  <1>11. Zeroed(c.s)
    <2>1. Phase(c.s) = "up"
      BY <1>3, <1>7, <1>8 DEF Phase
    <2> QED  BY <1>3, <1>8, <1>9, <2>1 DEF Zeroed, Pushed
  <1>12. Started(c.s, n, c.out)
    BY <1>3, <1>8, <1>9, <1>10, <1>11 DEF Started, Pushed
  <1> QED  BY <1>7, <1>8, <1>12 DEF c, d, z, t, Begun

LEMMA DisconnectSame ==
    ASSUME NEW c, NEW up, Ok(c, up)
    PROVE  LET d == Disconnect(c)
           IN d.out = c.out /\ d.up = c.up /\ Phase(d.s) = "down" /\ Same(c.s, d.s)
  <1> DEFINE t == [c.s EXCEPT !.state = "TEI_ASSIGNED", !.t200 = FALSE]
  <1>1. c.s \in EndState /\ c = [s |-> c.s, out |-> c.out, up |-> c.up, event |-> c.event]
    BY DEF Ok, Good
  <1>2. Phase(t) = "down" /\ Same(c.s, t)
    BY <1>1 DEF EndState, Phase, Same
  <1> HIDE DEF t
  <1>3. Disconnect(c) = [c EXCEPT !.s = t]
    BY DEF Disconnect, t
  <1> QED  BY <1>1, <1>2, <1>3

\* A caller reads a frame.
LEMMA CallingRead ==
    ASSUME NEW s, Good(s), Phase(s) = "calling", NEW f \in LinkFrames,
           f.type \notin {"SABME", "DISC"}
    PROVE  LET c == HandleFrame(s, f)
           IN /\ c.up = <<>>
              /\ Kind(f) = "UA" => \E n : Started(c.s, n, c.out)
              /\ Kind(f) = "DMF" => Phase(c.s) = "down" /\ c.out = <<>> /\ Same(s, c.s)
              /\ Kind(f) \in {"DM", "NUM", "POLL"} =>
                   Phase(c.s) = "calling" /\ c.out = <<>> /\ Same(s, c.s)
  <1> DEFINE b == ByState(Context(s), f)
             c == HandleFrame(s, f)
             z == Context(s)
             t == Answered(s)
  <1>1. s.state = "AWAITING_ESTABLISHMENT" /\ s \in EndState
    BY EndFields, PhaseType
  <1>2. /\ Ok(z, TRUE) /\ z.s = s /\ z.out = <<>> /\ z.up = <<>>
        /\ c.out = b.out /\ c.up = b.up /\ Phase(c.s) = Phase(b.s) /\ Same(b.s, c.s)
    <2>1. s.state \in Transfer => TRUE
      OBVIOUS
    <2> QED  BY <2>1, StateRead
  <1>3. b = OnAwaitingEstablishment(z, f)
    <2>1. z.s = s
      BY <1>2
    <2> HIDE DEF z
    <2> QED  BY <1>1, <2>1 DEF ByState, z
  <1>4. [z EXCEPT !.s = t] = Context(t)
    <2> HIDE DEF t
    <2> QED  BY DEF Context
  <1>x. t = Idle([z.s EXCEPT !.state = "ESTABLISHED", !.vs = 0, !.vr = 0, !.va = 0, !.rejExc = FALSE])
    BY <1>2 DEF Answered
  <1> HIDE DEF b, c, z, t
  <1>5. f.pf \in BOOLEAN /\ f.type \in {"I", "RR", "REJ", "UA", "DM"} /\ (f.type = "UA" => f.pf)
    BY DEF LinkFrames
  <1>6. CASE Kind(f) = "UA"
    <2>1. f.type = "UA" /\ f.pf
      BY <1>5, <1>6 DEF Kind
    <2>2. b = Tell(ProcessBacklog([z EXCEPT !.s = t]), "ESTABLISHED")
      BY <1>3, <1>x, <2>1 DEF OnAwaitingEstablishment
    <2>a. b = Begun(Answered(s))
      BY <1>4, <2>2 DEF Begun, t
    <2>3. b.up = <<>> /\ \E n : Started(b.s, n, b.out)
      BY <2>a, AnswerStarts
    <2>4. PICK n : Started(b.s, n, b.out)
      BY <2>3
    <2>5. Filled(c.s)
      BY <1>2, <2>4, SameFilled DEF Started
    <2>6. Started(c.s, n, c.out)
      BY <1>2, <2>4, <2>5 DEF Started, Zeroed, Same
    <2> QED  BY <1>2, <1>6, <2>3, <2>6 DEF c
  <1>7. CASE Kind(f) = "DMF"
    <2>1. f.type = "DM" /\ f.pf
      BY <1>5, <1>7 DEF Kind
    <2>2. b = Disconnect(z)
      BY <1>3, <2>1 DEF OnAwaitingEstablishment
    <2>3. b.out = <<>> /\ b.up = <<>> /\ Phase(b.s) = "down" /\ Same(s, b.s)
      BY <1>2, <2>2, DisconnectSame
    <2>4. Same(s, c.s)
      BY <1>2, <2>3, SameTwice
    <2> QED  BY <1>2, <1>7, <2>3, <2>4 DEF c
  <1>8. CASE Kind(f) \in {"DM", "NUM", "POLL"}
    <2>1. ~(f.type = "UA" /\ f.pf) /\ ~(f.type = "DM" /\ f.pf)
      BY <1>5, <1>8 DEF Kind
    <2>2. b = z
      BY <1>3, <2>1 DEF OnAwaitingEstablishment
    <2>3. Phase(c.s) = "calling" /\ c.out = <<>> /\ c.up = <<>> /\ Same(s, c.s)
      BY <1>2, <2>2
    <2> QED  BY <1>8, <2>3 DEF c
  <1>9. Kind(f) \in {"DM", "UA", "DMF", "NUM", "POLL"}
    BY <1>5 DEF Kind
  <1> QED  BY <1>6, <1>7, <1>8, <1>9 DEF c

\* An end that leaves reads a frame.
LEMMA LeavingRead ==
    ASSUME NEW s, Good(s), Phase(s) = "leaving", NEW f \in LinkFrames,
           f.type \notin {"SABME", "DISC"}
    PROVE  LET c == HandleFrame(s, f)
           IN /\ c.up = <<>> /\ c.out = <<>> /\ Same(s, c.s)
              /\ Kind(f) \in {"UA", "DMF"} => Phase(c.s) = "down"
              /\ Kind(f) \in {"DM", "NUM", "POLL"} => Phase(c.s) = "leaving"
  <1> DEFINE b == ByState(Context(s), f)
             c == HandleFrame(s, f)
             z == Context(s)
  <1>1. s.state = "AWAITING_RELEASE" /\ s \in EndState
    BY EndFields, PhaseType
  <1>2. /\ Ok(z, TRUE) /\ z.s = s /\ z.out = <<>> /\ z.up = <<>>
        /\ c.out = b.out /\ c.up = b.up /\ Phase(c.s) = Phase(b.s) /\ Same(b.s, c.s)
    <2>1. s.state \in Transfer => TRUE
      OBVIOUS
    <2> QED  BY <2>1, StateRead
  <1>3. b = OnAwaitingRelease(z, f)
    <2>1. z.s = s
      BY <1>2
    <2> HIDE DEF z
    <2> QED  BY <1>1, <2>1 DEF ByState, z
  <1> HIDE DEF b, c, z
  <1>5. f.pf \in BOOLEAN /\ f.type \in {"I", "RR", "REJ", "UA", "DM"} /\ (f.type = "UA" => f.pf)
    BY DEF LinkFrames
  <1>6. CASE Kind(f) \in {"UA", "DMF"}
    <2>1. f.type \in {"UA", "DM"} /\ f.pf
      BY <1>5, <1>6 DEF Kind
    <2>2. b = Disconnect(z)
      BY <1>3, <2>1 DEF OnAwaitingRelease
    <2>3. b.out = <<>> /\ b.up = <<>> /\ Phase(b.s) = "down" /\ Same(s, b.s)
      BY <1>2, <2>2, DisconnectSame
    <2>4. Same(s, c.s)
      BY <1>2, <2>3, SameTwice
    <2> QED  BY <1>2, <1>6, <2>3, <2>4 DEF c
  <1>7. CASE Kind(f) \in {"DM", "NUM", "POLL"}
    <2>1. ~(f.type \in {"UA", "DM"} /\ f.pf)
      BY <1>5, <1>7 DEF Kind
    <2>2. b = z
      BY <1>3, <2>1 DEF OnAwaitingRelease
    <2>3. Phase(c.s) = "leaving" /\ c.out = <<>> /\ c.up = <<>> /\ Same(s, c.s)
      BY <1>2, <2>2
    <2> QED  BY <1>7, <2>3 DEF c
  <1>9. Kind(f) \in {"DM", "UA", "DMF", "NUM", "POLL"}
    BY <1>5 DEF Kind
  <1> QED  BY <1>6, <1>7, <1>9 DEF c

LEMMA RepliedSame ==
    ASSUME NEW s, NEW f, NEW t, NEW v, NEW q, Replied(s, f, t, q), Same(t, v), Phase(v) = Phase(t)
    PROVE  Replied(s, f, v, q)
  <1>1. Filled(v)
    BY SameFilled DEF Replied
  <1>2. v.va = t.va /\ v.vs = t.vs /\ v.vr = t.vr /\ v.rejExc = t.rejExc
    BY DEF Same
  <1> QED  BY <1>1, <1>2 DEF Replied

\* What an entity in transfer did with a numbered frame: the N(R) first,
\* which lets frames of the backlog go, then the rest.
Taken(s, f, c) ==
    \E m, n, q, v : Pushed(s, m, f.nr, n, q) /\ Replied(m, f, c.s, v) /\ c.out = q \o v

LEMMA NumberedTaken ==
    ASSUME NEW s, Good(s), s.state \in Transfer, Filled(s), NEW f \in LinkFrames, Numbered(f),
           InRange(f.nr, s.va, s.vs), NEW z, Ok(z, TRUE), z.s = s, z.out = <<>>, z.up = <<>>
    PROVE  LET b == OnNumbered(z, f)
           IN b.up \in Seq(Data) /\ Taken(s, f, b)
  <1> DEFINE d == Acknowledge(z, f.nr)
             b == OnNumbered(z, f)
  <1>1. s \in EndState /\ f.nr \in SeqNos
    BY EndFields, LinkFrameType
  <1>2. Ok(d, TRUE) /\ d.s.state = s.state
    BY <1>1, AcknowledgeOk
  <1>3. d.up = <<>> /\ \E n : Pushed(s, d.s, f.nr, n, d.out)
    BY <1>1, AcknowledgeSends
  <1>d. d = Acknowledge(z, f.nr)
    OBVIOUS
  <1> HIDE DEF d
  <1>4. PICK n : Pushed(s, d.s, f.nr, n, d.out)
    BY <1>3
  <1> DEFINE m == d.s
             q == d.out
             e == d.event
  <1>5. d = Outcome(m, q, <<>>, e) /\ Good(m)
    <2>1. d = Outcome(d.s, d.out, d.up, d.event) /\ Good(d.s)
      BY <1>2, OkOutcome
    <2> QED  BY <1>3, <2>1
  <1>6. m.state \in Transfer /\ Filled(m) /\ q \in Seq(LinkFrames)
    BY <1>2, <1>4 DEF Pushed, RunOf
  <1>7. f.type \in {"RR", "REJ", "I"}
    BY DEF Numbered
  <1>8. /\ f.type = "RR" => b = OnReady(d, f)
        /\ f.type = "REJ" => b = OnRej(d, f)
        /\ f.type = "I" => b = OnI(d, f)
    BY <1>d DEF OnNumbered
  <1> HIDE DEF m, q, e, b
  <1>9. \E t, v, u : b = Outcome(t, q \o v, u, e) /\ Replied(m, f, t, v) /\ u \in Seq(Data)
    <2>1. <<>> \in Seq(Data)
      OBVIOUS
    <2> DEFINE x == <<>>
    <2>2. x \in Seq(Data)
      BY <2>1
    <2> HIDE DEF x
    <2>3. d = Outcome(m, q, x, e)
      BY <1>5 DEF x
    <2>4. CASE f.type = "RR"
      <3>1. Answers(OnReady(Outcome(m, q, x, e), f), m, f, q, x, e)
        BY <1>5, <1>6, <2>4, OnReadyReplies
      <3> QED  BY <1>8, <2>2, <2>3, <2>4, <3>1 DEF Answers
    <2>5. CASE f.type = "REJ"
      <3>1. Answers(OnRej(Outcome(m, q, x, e), f), m, f, q, x, e)
        BY <1>5, <1>6, <2>5, OnRejReplies
      <3> QED  BY <1>8, <2>2, <2>3, <2>5, <3>1 DEF Answers
    <2>6. CASE f.type = "I"
      <3>1. \E t, v, u : /\ OnI(Outcome(m, q, <<>>, e), f) = Outcome(t, q \o v, u, e)
                         /\ Replied(m, f, t, v) /\ u \in Seq(Data)
        BY <1>5, <1>6, <2>6, OnIReplies
      <3> QED  BY <1>5, <1>8, <2>6, <3>1
    <2> QED  BY <1>7, <2>4, <2>5, <2>6
  <1>10. PICK t, v, u : b = Outcome(t, q \o v, u, e) /\ Replied(m, f, t, v) /\ u \in Seq(Data)
    BY <1>9
  <1>11. b.s = t /\ b.out = q \o v /\ b.up = u
    <2> DEFINE w == q \o v
    <2>1. b = Outcome(t, w, u, e)
      BY <1>10
    <2> HIDE DEF w
    <2>2. b.s = t /\ b.out = w /\ b.up = u
      BY <2>1, OutcomeFields
    <2> QED  BY <2>2 DEF w
  <1>12. Pushed(s, m, f.nr, n, q)
    BY <1>4 DEF m, q
  <1>13. Taken(s, f, b)
    BY <1>10, <1>11, <1>12 DEF Taken
  <1> QED  BY <1>10, <1>11, <1>13 DEF b

\* An end in transfer reads a frame; a numbered one is in its window.
LEMMA UpRead ==
    ASSUME NEW s, Good(s), Phase(s) = "up", Filled(s), NEW f \in LinkFrames,
           f.type \notin {"SABME", "DISC"}, Numbered(f) => InRange(f.nr, s.va, s.vs)
    PROVE  LET c == HandleFrame(s, f)
           IN /\ c.up \in Seq(Data)
              /\ Kind(f) = "UA" => Phase(c.s) = "up" /\ c.out = <<>> /\ Same(s, c.s)
              /\ Kind(f) \in {"DM", "DMF"} =>
                   /\ Same(s, c.s)
                   /\ \/ Phase(c.s) = "calling" /\ Says(c, "SABME")
                      \/ Phase(c.s) = "up" /\ c.out = <<>>
              /\ Kind(f) \in {"NUM", "POLL"} => Taken(s, f, c) /\ Phase(c.s) = "up"
  <1> DEFINE b == ByState(Context(s), f)
             c == HandleFrame(s, f)
             z == Context(s)
  <1>1. s.state \in Transfer /\ s \in EndState /\ <<>> \in Seq(Data)
        /\ s.state \notin {"TEI_ASSIGNED", "AWAITING_ESTABLISHMENT", "AWAITING_RELEASE"}
    BY EndFields, PhaseType DEF Transfer
  <1>2. /\ Ok(z, TRUE) /\ z.s = s /\ z.out = <<>> /\ z.up = <<>>
        /\ c.out = b.out /\ c.up = b.up /\ Phase(c.s) = Phase(b.s) /\ Same(b.s, c.s)
        /\ \A k : Says(b, k) => Says(c, k)
    <2>1. s.state \in Transfer => TRUE
      OBVIOUS
    <2> QED  BY <2>1, StateRead
  <1>3. b = OnTransfer(z, f)
    <2>1. z.s = s
      BY <1>2
    <2> HIDE DEF z
    <2> QED  BY <1>1, <2>1 DEF ByState, z
  <1> HIDE DEF b, c, z
  <1>5. f.pf \in BOOLEAN /\ f.type \in {"I", "RR", "REJ", "UA", "DM"} /\ (f.type = "UA" => f.pf)
    BY DEF LinkFrames
  <1>6. CASE Kind(f) = "UA"
    <2>1. f.type = "UA"
      BY <1>5, <1>6 DEF Kind
    <2>2. b = z
      BY <1>3, <2>1 DEF OnTransfer, Supervisory
    <2>3. Phase(c.s) = "up" /\ c.out = <<>> /\ c.up = <<>> /\ Same(s, c.s)
      BY <1>2, <2>2
    <2> QED  BY <1>1, <1>6, <2>3 DEF c
  <1>7. CASE Kind(f) \in {"DM", "DMF"}
    <2>1. f.type = "DM"
      BY <1>5, <1>7 DEF Kind
    <2>2. b = OnUnnumbered(z, f)
      BY <1>3, <2>1 DEF OnTransfer, Supervisory
    <2>3. b = Reestablish(z) \/ b = z
      BY <2>1, <2>2 DEF OnUnnumbered
    <2>4. CASE b = z
      <3>1. Phase(c.s) = "up" /\ c.out = <<>> /\ c.up = <<>> /\ Same(s, c.s)
        BY <1>2, <2>4
      <3> QED  BY <1>1, <1>7, <3>1 DEF c
    <2>5. CASE b = Reestablish(z)
      <3>1. Says(b, "SABME") /\ b.up = <<>> /\ Phase(b.s) = "calling" /\ Same(s, b.s)
        BY <1>2, <2>5, ReestablishSays
      <3>2. Same(s, c.s)
        BY <1>2, <3>1, SameTwice
      <3> QED  BY <1>1, <1>2, <1>7, <3>1, <3>2 DEF c
    <2> QED  BY <2>3, <2>4, <2>5
  <1>8. CASE Kind(f) \in {"NUM", "POLL"}
    <2>1. Numbered(f)
      BY <1>8, KindType
    <2>2. b = OnNumbered(z, f)
      BY <1>3, <2>1 DEF OnTransfer, Supervisory, Numbered
    <2>3. b.up \in Seq(Data) /\ Taken(s, f, b)
      BY <1>1, <1>2, <2>1, <2>2, NumberedTaken
    <2>4. PICK m, n, q, v : Pushed(s, m, f.nr, n, q) /\ Replied(m, f, b.s, v) /\ b.out = q \o v
      BY <2>3 DEF Taken
    <2>5. Replied(m, f, c.s, v)
      BY <1>2, <2>4, RepliedSame
    <2>6. Taken(s, f, c) /\ Phase(c.s) = "up" /\ c.up \in Seq(Data)
      BY <1>2, <2>3, <2>4, <2>5 DEF Taken, Replied
    <2> QED  BY <1>8, <2>6 DEF c
  <1>9. Kind(f) \in {"DM", "UA", "DMF", "NUM", "POLL"}
    BY <1>5 DEF Kind
  <1> QED  BY <1>6, <1>7, <1>8, <1>9 DEF c

-----------------------------------------------------------------------------
(* Timers. *)

\* The outcome says one poll, with N(R) = r.
Polls(c, r) ==
    /\ Says(c, "POLL") /\ c.out[1].nr = r /\ ~IsI(c.out[1]) /\ ~IsRej(c.out[1])

\* What a timer of s does.
Retried(s, c) ==
    /\ Same(s, c.s) /\ c.up = <<>>
    /\ \/ Phase(s) # "down" /\ Phase(c.s) = "calling" /\ Says(c, "SABME")
       \/ Phase(s) = "leaving" /\ Phase(c.s) = "leaving" /\ Says(c, "DISC")
       \/ Phase(s) = "up" /\ Phase(c.s) = "up" /\ Polls(c, s.vr)

LEMMA SaidSilent ==
    ASSUME NEW t, NEW f \in LinkFrames
    PROVE  LET c == Say(Context(t), f)
           IN /\ c.s = t /\ c.up = <<>> /\ \A k : Kind(f) = k => Says(c, k)
              /\ c.out[1] = f
  <1> DEFINE c == Say(Context(t), f)
  <1>1. c = Outcome(t, <<f>>, <<>>, "none")
    BY ContextSilent, SilentSay
  <1>2. c.s = t /\ c.out = <<f>> /\ c.up = <<>>
    BY <1>1 DEF Outcome
  <1> HIDE DEF c
  <1>3. <<f>> \in Seq(LinkFrames) /\ Len(<<f>>) = 1 /\ <<f>>[1] = f
    OBVIOUS
  <1>4. \A k : Kind(f) = k => Says(c, k)
    BY <1>2, <1>3 DEF Says
  <1> QED  BY <1>2, <1>3, <1>4 DEF c

LEMMA PollSaid ==
    ASSUME NEW t, NEW r \in SeqNos
    PROVE  LET c == Say(Context(t), Command("RR", r, TRUE))
           IN c.s = t /\ c.up = <<>> /\ Polls(c, r)
  <1> DEFINE f == Command("RR", r, TRUE)
             c == Say(Context(t), f)
  <1>1. f \in LinkFrames /\ Kind(f) = "POLL" /\ f.nr = r /\ ~IsI(f) /\ ~IsRej(f)
    BY MadeNumbered
  <1> HIDE DEF f
  <1>2. c.s = t /\ c.up = <<>> /\ Says(c, "POLL") /\ c.out[1] = f
    BY <1>1, SaidSilent
  <1> HIDE DEF c
  <1>3. Polls(c, r)
    BY <1>1, <1>2 DEF Polls
  <1> QED  BY <1>2, <1>3 DEF c, f

LEMMA T200Retries ==
    ASSUME NEW s, Good(s), s.t200
    PROVE  Retried(s, OnT200(Context(s)))
  <1> DEFINE v == OnLoss(s)
             r == [v EXCEPT !.retx = s.retx + 1]
             p == [v EXCEPT !.state = "TIMER_RECOVERY", !.retx = 0]
             z == Context(s)
             c == OnT200(z)
  <1>1. s \in EndState /\ TimersOf(s) /\ s.vr \in SeqNos
    BY EndFields DEF Good
  <1>2. /\ v \in EndState /\ Same(s, v) /\ v.state = s.state /\ v.vr = s.vr
        /\ SameWindow(s, v) /\ v.t200 = s.t200 /\ v.t203 = s.t203
    BY <1>1, OnLossOk, TimersSame DEF Same
  <1>3. Good(v)
    BY <1>1, <1>2, SameWindowGood DEF TimersOf
  <1>4. s.state # "TEI_ASSIGNED" /\ Phase(s) # "down" /\ Phase(s) \in Phases
    BY <1>1, PhaseType DEF TimersOf
  <1> HIDE DEF v
  <1>5. Same(v, r) /\ r.state = v.state
    BY <1>2 DEF EndState, Same
  <1>6. Same(v, p) /\ p.state = "TIMER_RECOVERY"
    BY <1>2 DEF EndState, Same
  <1>7. Same(s, r) /\ Same(s, p) /\ Phase(r) = Phase(s) /\ Phase(p) = "up"
    <2> HIDE DEF r, p
    <2>1. Same(s, r) /\ Same(s, p)
      BY <1>2, <1>5, <1>6, SameTwice
    <2> QED  BY <1>2, <1>5, <1>6, <2>1 DEF Phase
  <1>8. /\ s.retx + 1 >= N200 => c = Reestablish(Context(v))
        /\ ~(s.retx + 1 >= N200) /\ s.state = "AWAITING_ESTABLISHMENT"
             => c = Say(Context(r), Command("SABME", 0, TRUE))
        /\ ~(s.retx + 1 >= N200) /\ s.state = "AWAITING_RELEASE"
             => c = Say(Context(r), Command("DISC", 0, TRUE))
        /\ ~(s.retx + 1 >= N200) /\ s.state \in Transfer
             => \/ c = Say(Context(r), Command("RR", s.vr, TRUE))
                \/ c = Say(Context(p), Command("RR", s.vr, TRUE))
    <2>1. z.s = s
      BY DEF Context
    <2>2. [z EXCEPT !.s = v] = Context(v) /\ [z EXCEPT !.s = r] = Context(r)
          /\ [z EXCEPT !.s = p] = Context(p)
      <3> HIDE DEF r, p
      <3> QED  BY DEF Context
    <2>3. v = OnLoss(z.s) /\ r = [v EXCEPT !.retx = z.s.retx + 1]
      BY <2>1 DEF v
    <2>4. c = IF z.s.retx + 1 >= N200 THEN Reestablish([z EXCEPT !.s = v])
              ELSE CASE v.state = "AWAITING_ESTABLISHMENT" ->
                          Say([z EXCEPT !.s = r], Command("SABME", 0, TRUE))
                     [] v.state = "AWAITING_RELEASE" ->
                          Say([z EXCEPT !.s = r], Command("DISC", 0, TRUE))
                     [] v.state = "ESTABLISHED" ->
                          Say([z EXCEPT !.s = p], Command("RR", v.vr, TRUE))
                     [] OTHER -> Say([z EXCEPT !.s = r], Command("RR", v.vr, TRUE))
      <3> HIDE DEF z
      <3> QED  BY <2>3 DEF OnT200
    <2> HIDE DEF z, r, p, c
    <2> QED  BY <1>2, <2>1, <2>2, <2>4 DEF Transfer
  <1> HIDE DEF r, p, c, z
  <1>9. CASE s.retx + 1 >= N200
    <2>1. Ok(Context(v), TRUE) /\ Context(v).s = v /\ Context(v).out = <<>> /\ Context(v).up = <<>>
      <3>1. v.state \in Transfer => TRUE
        OBVIOUS
      <3> QED  BY <1>3, <3>1, ContextSays
    <2>2. c = Reestablish(Context(v))
      BY <1>8, <1>9
    <2>3. Says(c, "SABME") /\ c.up = <<>> /\ Phase(c.s) = "calling" /\ Same(v, c.s)
      BY <2>1, <2>2, ReestablishSays
    <2>4. Same(s, c.s)
      BY <1>2, <2>3, SameTwice
    <2> QED  BY <1>4, <2>3, <2>4 DEF Retried, c, z
  <1>10. CASE ~(s.retx + 1 >= N200)
    <2>1. CASE s.state = "AWAITING_ESTABLISHMENT"
      <3>1. c = Say(Context(r), Command("SABME", 0, TRUE))
        BY <1>8, <1>10, <2>1
      <3>2. c.s = r /\ c.up = <<>> /\ Says(c, "SABME")
        BY <3>1, MadeControl, SaidSilent
      <3>3. Phase(s) = "calling"
        BY <2>1 DEF Phase
      <3> QED  BY <1>7, <3>2, <3>3 DEF Retried, c, z
    <2>2. CASE s.state = "AWAITING_RELEASE"
      <3>1. c = Say(Context(r), Command("DISC", 0, TRUE))
        BY <1>8, <1>10, <2>2
      <3>2. c.s = r /\ c.up = <<>> /\ Says(c, "DISC")
        BY <3>1, MadeControl, SaidSilent
      <3>3. Phase(s) = "leaving"
        BY <2>2 DEF Phase
      <3> QED  BY <1>7, <3>2, <3>3 DEF Retried, c, z
    <2>3. CASE s.state \in Transfer
      <3>1. PICK t \in {r, p} : c = Say(Context(t), Command("RR", s.vr, TRUE))
        BY <1>8, <1>10, <2>3
      <3>2. c.s = t /\ c.up = <<>> /\ Polls(c, s.vr)
        BY <1>1, <3>1, PollSaid
      <3>3. Phase(s) = "up"
        BY <1>1, <2>3, PhaseType
      <3>4. Same(s, c.s) /\ Phase(c.s) = "up"
        BY <1>7, <3>2, <3>3
      <3> QED  BY <3>2, <3>3, <3>4 DEF Retried, c, z
    <2> QED  BY <1>1, <1>4, <2>1, <2>2, <2>3 DEF EndState, States, Transfer
  <1> QED  BY <1>9, <1>10 DEF c, z

LEMMA T203Retries ==
    ASSUME NEW s, Good(s), s.t203
    PROVE  Retried(s, OnT203(Context(s)))
  <1> DEFINE t == Supervise([s EXCEPT !.state = "TIMER_RECOVERY", !.retx = 0])
             z == Context(s)
             c == OnT203(z)
  <1>1. s \in EndState /\ TimersOf(s) /\ s.vr \in SeqNos
    BY EndFields DEF Good
  <1>2. Phase(s) = "up"
    BY <1>1, PhaseType DEF TimersOf, EndState, States, Transfer
  <1>3. Same(s, t) /\ Phase(t) = "up"
    BY <1>1 DEF EndState, Same, Supervise, Phase
  <1>4. c = Say(Context(t), Command("RR", s.vr, TRUE))
    <2>1. z.s = s
      BY DEF Context
    <2>2. [z EXCEPT !.s = t] = Context(t)
      <3> HIDE DEF t
      <3> QED  BY DEF Context
    <2> HIDE DEF z
    <2> QED  BY <2>1, <2>2 DEF OnT203
  <1> HIDE DEF t, c, z
  <1>5. c.s = t /\ c.up = <<>> /\ Polls(c, s.vr)
    BY <1>1, <1>4, PollSaid
  <1> QED  BY <1>2, <1>3, <1>5 DEF Retried, c, z

\* The timers of one end.
LEMMA TimerRetries ==
    ASSUME NEW s, Good(s)
    PROVE  /\ s.t200 => Retried(s, PollTimer(s, {"T200"})) /\ Good(PollTimer(s, {"T200"}).s)
           /\ s.t203 => Retried(s, PollTimer(s, {"T203"})) /\ Good(PollTimer(s, {"T203"}).s)
  <1>1. Context(s).s = s
    BY DEF Context
  <1>2. s.t200 => PollTimer(s, {"T200"}) = OnT200(Context(s))
    BY DEF PollTimer
  <1>3. s.t203 => PollTimer(s, {"T203"}) = OnT203(Context(s))
    BY <1>1 DEF PollTimer
  <1>4. \A expired : Good(PollTimer(s, expired).s)
    <2>1. s.state \in Transfer => TRUE
      OBVIOUS
    <2>2. \A expired : Ok(PollTimer(s, expired), TRUE)
      BY <2>1, PollTimerOk
    <2> QED  BY <2>2, OkOutcome
  <1> QED  BY <1>2, <1>3, <1>4, T200Retries, T203Retries

-----------------------------------------------------------------------------
(* Requests of layer 3. *)

LEMMA EstablishAsks ==
    ASSUME NEW s, Good(s)
    PROVE  LET c == EstablishLink(s)
           IN /\ Good(c.s) /\ Same(s, c.s) /\ Phase(c.s) = "calling"
              /\ Says(c, "SABME")
  <1> DEFINE z == Context(s)
             c == Reestablish(z)
  <1>1. Ok(z, TRUE) /\ z.s = s /\ z.out = <<>>
    <2>1. s.state \in Transfer => TRUE
      OBVIOUS
    <2> QED  BY <2>1, ContextSays
  <1> HIDE DEF z
  <1>2. Says(c, "SABME") /\ Phase(c.s) = "calling" /\ Same(s, c.s)
    BY <1>1, ReestablishSays
  <1>3. Good(c.s)
    BY <1>1, ReestablishOk, OkOutcome
  <1> QED  BY <1>2, <1>3 DEF EstablishLink, z

LEMMA ReleaseAsks ==
    ASSUME NEW s, Good(s)
    PROVE  LET c == ReleaseLink(s)
           IN /\ Good(c.s) /\ Same(s, c.s) /\ Phase(c.s) = "leaving"
              /\ Says(c, "DISC")
  <1> DEFINE z == Context(s)
             c == Await(z, "AWAITING_RELEASE", "DISC")
  <1>1. Ok(z, TRUE) /\ z.s = s /\ z.out = <<>>
    <2>1. s.state \in Transfer => TRUE
      OBVIOUS
    <2> QED  BY <2>1, ContextSays
  <1> HIDE DEF z
  <1>2. /\ c.out = <<Command("DISC", 0, TRUE)>> /\ Phase(c.s) = "leaving"
        /\ Same(s, c.s)
    <2>1. "AWAITING_RELEASE" \in States
      BY DEF States
    <2> QED  BY <1>1, <2>1, AwaitSays
  <1>3. Good(c.s)
    <2>1. Ok(c, TRUE)
      BY <1>1, AwaitOk
    <2> HIDE DEF c
    <2> QED  BY <2>1, OkOutcome
  <1>4. c = ReleaseLink(s)
    BY DEF ReleaseLink, z
  <1> HIDE DEF c
  <1>5. Says(c, "DISC")
    BY <1>2, MadeControl, OneFrame DEF Says
  <1> QED  BY <1>2, <1>3, <1>4, <1>5

LEMMA SendPushes ==
    ASSUME NEW s, Good(s), Filled(s), NEW d \in Data, SendL3(s, d).s # s
    PROVE  LET c == SendL3(s, d)
           IN /\ Good(c.s) /\ Phase(s) = "up" /\ Phase(c.s) = "up"
              /\ \E n \in {0, 1} : Pushed(s, c.s, s.va, n, c.out)
  <1> DEFINE c == SendL3(s, d)
             a == [s EXCEPT !.backlog = Append(@, d)]
             r == [s EXCEPT !.window[s.vs] = d, !.vs = Plus(@, 1)]
             f == IFrame(s.vs, s.vr, d)
  <1>1. /\ s \in EndState /\ s.va \in SeqNos /\ s.vs \in SeqNos /\ s.vr \in SeqNos
        /\ s.window \in [SeqNos -> Info] /\ s.backlog \in Seq(Data) /\ s.vk \in 1 .. K
        /\ Ahead(s.va, s.vs) \in Nat /\ Ahead(s.va, s.vs) <= K
    BY EndFields DEF EndState
  <1>2. Good(c.s)
    <2>1. s.state \in Transfer => TRUE
      OBVIOUS
    <2>2. Ok(SendL3(s, d), TRUE)
      BY <2>1, SendL3Ok
    <2> QED  BY <2>2, OkOutcome
  <1>3. Context(s).s = s /\ Context(a).s = a /\ Context(a).out = <<>>
    BY DEF Context
  <1>4. s.state \in Transfer /\ Phase(s) = "up"
    <2>1. s.state \in Transfer
      BY <1>3 DEF SendL3
    <2> QED  BY <1>1, <2>1, PhaseType
  <1>5. CASE Outstanding(s) >= s.vk \/ s.peerBusy
    <2>1. c = Context(a)
      BY <1>3, <1>4, <1>5 DEF SendL3
    <2>2. a.state = s.state /\ Same(s, a)
      BY <1>1 DEF EndState, Same
    <2>3. Plus(s.vs, 0) = s.vs /\ <<>> \in Seq(LinkFrames) /\ Len(<<>>) = 0
      BY <1>1, WindowAssumption DEF Plus, SeqNos
    <2> HIDE DEF a, c
    <2>4. c.s = a /\ c.out = <<>>
      BY <1>3, <2>1
    <2>5. Filled(a)
      BY <2>2, SameFilled
    <2>6. RunOf(<<>>, s.vs, 0, s.vr)
      BY <2>3 DEF RunOf
    <2>7. Pushed(s, a, s.va, 0, <<>>)
      BY <1>1, <2>2, <2>3, <2>5, <2>6 DEF Pushed, Same
    <2>8. Phase(a) = "up"
      BY <1>4, <2>2 DEF Phase
    <2> QED  BY <1>2, <1>4, <2>4, <2>7, <2>8 DEF c
  <1>6. CASE ~(Outstanding(s) >= s.vk \/ s.peerBusy)
    <2>1. c = Say(Context(Supervise(r)), f)
      BY <1>4, <1>6 DEF SendL3
    <2>2. /\ Supervise(r).state = s.state /\ Supervise(r).va = s.va /\ Supervise(r).vs = Plus(s.vs, 1)
          /\ Supervise(r).vr = s.vr /\ Supervise(r).rejExc = s.rejExc
          /\ Supervise(r).window = [s.window EXCEPT ![s.vs] = d]
      BY <1>1 DEF EndState, Supervise
    <2>3. f \in LinkFrames /\ IsI(f) /\ f.nr = s.vr /\ f.ns = s.vs
      <3>1. d \in Info
        BY DEF Info
      <3> QED  BY <1>1, <3>1, MadeI
    <2> DEFINE t == Supervise(r)
    <2> HIDE DEF r, f, t
    <2>4. c.s = t /\ c.out = <<f>>
      <3>1. c = Outcome(t, <<f>>, <<>>, "none")
        BY <2>1, ContextSilent, SilentSay DEF t
      <3> QED  BY <3>1 DEF Outcome
    <2>5. Ahead(s.va, s.vs) + 1 <= K /\ Ahead(s.va, s.vs) + 1 < Mod /\ Plus(s.vs, 0) = s.vs
      BY <1>1, <1>6, WindowAssumption DEF Outstanding, Plus, SeqNos
    <2>6. Ahead(s.va, Plus(s.vs, 1)) = Ahead(s.va, s.vs) + 1
      BY <1>1, <2>5, AheadPlus
    <2>7. Filled(t)
      <3> SUFFICES ASSUME NEW m \in SeqNos, Ahead(s.va, m) < Ahead(s.va, Plus(s.vs, 1))
                   PROVE  [s.window EXCEPT ![s.vs] = d][m] \in Data
        BY <2>2 DEF Filled, t
      <3>1. CASE m = s.vs
        BY <1>1, <3>1
      <3>2. CASE m # s.vs
        <4>1. Ahead(s.va, m) \in Nat /\ Ahead(s.va, m) # Ahead(s.va, s.vs)
          BY <1>1, <3>2, AheadNat, AheadSame
        <4>2. s.window[m] \in Data
          BY <1>1, <2>6, <4>1 DEF Filled
        <4> QED  BY <1>1, <3>2, <4>2
      <3> QED  BY <3>1, <3>2
    <2>8. RunOf(<<f>>, s.vs, 1, s.vr)
      <3>1. <<f>> \in Seq(LinkFrames) /\ Len(<<f>>) = 1 /\ <<f>>[1] = f
        BY <2>3
      <3>2. \A i \in 1 .. 1 : IsI(<<f>>[i]) /\ <<f>>[i].ns = Plus(s.vs, i - 1) /\ <<f>>[i].nr = s.vr
        BY <2>3, <2>5, <3>1
      <3> QED  BY <3>1, <3>2 DEF RunOf
    <2>9. Pushed(s, t, s.va, 1, <<f>>)
      BY <2>2, <2>5, <2>7, <2>8 DEF Pushed, t
    <2>10. Phase(t) = "up"
      BY <1>4, <2>2 DEF Phase, t
    <2> HIDE DEF c
    <2> QED  BY <1>2, <1>4, <2>4, <2>9, <2>10 DEF c
  <1> QED  BY <1>5, <1>6

-----------------------------------------------------------------------------
(* The numbers.  What is on the wires fits the variables of the two ends:  *)
(* Data1, the N(R) on their way to an end that is up lie in its window, in *)
(* order; Data2, between two ends that are up, the N(S) under way are what *)
(* the receiver still expects; Data3, what follows a SABME, or the UA of a *)
(* caller, counts from 0, because the end that reads it will.              *)

Up(s) == Phase(s) = "up"

\* s reads w and sends on u; t is the other end.
Data1(s, w) == Up(s) => Window(s.va, s.vs, w)
Data2(s, t, u, w) ==
    Up(s) /\ Up(t) => Heard(s.va, s.vs, t.vr, w) /\ Flow(s.vs, t.vr, t.rejExc, u, w)
\* What s will start counting with when it reads a frame of kind a.
Awaits(s, a) == (a = "SABME" /\ ~Up(s)) \/ (a = "UA" /\ Phase(s) = "calling")
\* t has read nothing on this link yet.
Began(t) == t.va = 0 /\ t.vr = 0 /\ t.rejExc = FALSE
Data3(s, t, w) ==
    \A a \in {"SABME", "UA"} :
        Has(w, a) /\ Awaits(s, a) => Clean(a, w) /\ (Up(t) => Began(t) /\ CleanRun(a, t.vs, w))

DataInv(s, t, u, w) == Data1(s, w) /\ Data2(s, t, u, w) /\ Data3(s, t, w)

\* No numbered frame is behind one of kind a.
LEMMA NoneBehind ==
    ASSUME NEW w \in Seq(LinkFrames), NEW a, ~Before(w, a, "NUM"), ~Before(w, a, "POLL"), NEW vs
    PROVE  Clean(a, w) /\ CleanRun(a, vs, w)
  <1>1. ASSUME NEW i \in 1 .. Len(w), NEW j \in 1 .. Len(w), i < j, Kind(w[i]) = a,
               Numbered(w[j]) \/ IsI(w[j])
        PROVE  FALSE
    <2>1. w[j] \in LinkFrames /\ Numbered(w[j])
      BY <1>1 DEF IsI, Numbered
    <2>2. Kind(w[j]) = "NUM" \/ Kind(w[j]) = "POLL"
      BY <2>1, KindType
    <2> QED  BY <1>1, <2>2 DEF Before
  <1> QED  BY <1>1 DEF Clean, CleanRun

\* Wires that count from 0.
LEMMA ZeroWindow ==
    ASSUME NEW w \in Seq(LinkFrames), NEW vs \in SeqNos,
           \A i \in 1 .. Len(w) : Numbered(w[i]) => w[i].nr = 0
    PROVE  Window(0, vs, w) /\ Heard(0, vs, 0, w)
  <1>1. Ahead(0, 0) = 0 /\ Ahead(0, vs) \in Nat
    BY ZeroTypes, AheadNat, AheadSame
  <1> QED  BY <1>1 DEF Window, Heard

LEMMA ZeroFlow ==
    ASSUME NEW u \in Seq(LinkFrames), NEW w, NEW vs \in SeqNos,
           \A i \in 1 .. Len(u) : IsI(u[i]) => u[i].ns < vs,
           \A i, j \in 1 .. Len(u) : i < j /\ IsI(u[i]) /\ IsI(u[j]) => u[i].ns < u[j].ns,
           \A i \in 1 .. Len(w) : ~IsRej(w[i])
    PROVE  Flow(vs, 0, FALSE, u, w)
  <1>1. \A n \in SeqNos : Ahead(0, n) = n
    BY AheadZero
  <1>2. \A i \in 1 .. Len(u) : Ahead(0, u[i].ns) = u[i].ns
    BY <1>1, LinkFrameType
  <1> QED  BY <1>1, <1>2 DEF Flow

LEMMA LoneItem ==
    ASSUME NEW S, NEW q \in Seq(S), Len(q) = 1
    PROVE  q # <<>>
  OBVIOUS

LEMMA LoneFrame ==
    ASSUME NEW q \in Seq(LinkFrames), Len(q) = 1
    PROVE  q # <<>> /\ q[1] \in LinkFrames /\ \A i \in 1 .. Len(q) : i = 1
  <1>1. 1 \in 1 .. Len(q)
    OBVIOUS
  <1>2. q[1] \in LinkFrames
    BY <1>1
  <1>4. q # <<>>
    BY LoneItem
  <1>5. \A i \in 1 .. Len(q) : i = 1
    OBVIOUS
  <1> QED  BY <1>2, <1>4, <1>5

\* The tail of a wire has no more than the wire.
LEMMA TailHas ==
    ASSUME NEW w \in Seq(LinkFrames), w # <<>>, NEW a, Has(Tail(w), a)
    PROVE  Has(w, a) /\ Before(w, Kind(Head(w)), a)
  BY ShorterTail DEF Shorter

-----------------------------------------------------------------------------
(* What the steps of s do to the numbers on the wires. *)

\* A frame is lost, or read without an answer.
LEMMA DataRead ==
    ASSUME NEW s, NEW t, NEW r, NEW u, NEW w \in Seq(LinkFrames), w # <<>>,
           Same(s, r), Up(r) <=> Up(s), Phase(r) = "calling" => Phase(s) = "calling",
           DataInv(s, t, u, w), DataInv(t, s, w, u)
    PROVE  DataInv(r, t, u, Tail(w)) /\ DataInv(t, r, Tail(w), u)
  <1>1. r.va = s.va /\ r.vs = s.vs /\ r.vr = s.vr /\ r.rejExc = s.rejExc
    BY DEF Same
  <1>2. Data1(r, Tail(w))
    BY <1>1, WindowTail DEF DataInv, Data1
  <1>3. Data2(r, t, u, Tail(w))
    BY <1>1, WindowTail, FlowTailW DEF DataInv, Data2
  <1>4. Data3(r, t, Tail(w))
    <2> SUFFICES ASSUME NEW a \in {"SABME", "UA"}, Has(Tail(w), a), Awaits(r, a)
                 PROVE  Clean(a, Tail(w)) /\ (Up(t) => Began(t) /\ CleanRun(a, t.vs, Tail(w)))
      BY DEF Data3
    <2>1. Has(w, a) /\ Awaits(s, a)
      BY TailHas DEF Awaits
    <2>2. Clean(a, w) /\ (Up(t) => Began(t) /\ CleanRun(a, t.vs, w))
      BY <2>1 DEF DataInv, Data3
    <2> QED  BY <2>2, CleanTail
  <1>5. Data2(t, r, Tail(w), u)
    BY <1>1, FlowTailU DEF DataInv, Data2
  <1>6. Data3(t, r, u)
    BY <1>1 DEF DataInv, Data3, Began
  <1> QED  BY <1>2, <1>3, <1>4, <1>5, <1>6 DEF DataInv

\* One control frame, from an end that is not up.
LEMMA DataAsked ==
    ASSUME NEW s, NEW t, NEW r, NEW u \in Seq(LinkFrames), NEW w \in Seq(LinkFrames),
           NEW v, v = w \/ (w # <<>> /\ v = Tail(w)),
           NEW q \in Seq(LinkFrames), Len(q) = 1, Kind(q[1]) \notin {"NUM", "POLL"},
           Phase(s) \in Phases, Phase(t) \in Phases, Ctl(Phase(s), Phase(t), u, w),
           ~Up(r), Phase(r) = "calling" => Phase(s) = "calling" \/ ~Has(v, "UA"),
           DataInv(s, t, u, w), DataInv(t, s, w, u)
    PROVE  DataInv(r, t, u \o q, v) /\ DataInv(t, r, v, u \o q)
  <1>1. Data1(r, v) /\ Data2(r, t, u \o q, v) /\ Data2(t, r, v, u \o q)
    BY DEF Data1, Data2
  <1>2. ~Numbered(q[1]) /\ \A i \in 1 .. Len(q) : ~Numbered(q[i])
    <2>1. q[1] \in LinkFrames
      BY LoneFrame
    <2>2. ~Numbered(q[1])
      BY <2>1, KindType
    <2>3. \A i \in 1 .. Len(q) : i = 1
      BY LoneFrame
    <2> QED  BY <2>2, <2>3
  <1>3. Data3(r, t, v)
    <2> SUFFICES ASSUME NEW a \in {"SABME", "UA"}, Has(v, a), Awaits(r, a)
                 PROVE  Clean(a, v) /\ (Up(t) => Began(t) /\ CleanRun(a, t.vs, v))
      BY DEF Data3
    <2>1. Has(w, a)
      BY TailHas
    <2>2. Clean(a, w) /\ (Up(t) => Began(t) /\ CleanRun(a, t.vs, w))
      <3>1. CASE Awaits(s, a)
        BY <2>1, <3>1 DEF DataInv, Data3
      <3>2. CASE ~Awaits(s, a)
        <4>1. a = "SABME" /\ Phase(s) = "up"
          BY <3>2 DEF Awaits, Up
        <4>2. Phase(t) = "calling"
          BY <2>1, <4>1 DEF Ctl, Control, Present
        <4>3. ~Before(w, "SABME", "NUM") /\ ~Before(w, "SABME", "POLL")
          BY <4>2 DEF Ctl, Control, Order, Never
        <4> QED  BY <4>1, <4>2, <4>3, NoneBehind DEF Up
      <3> QED  BY <3>1, <3>2
    <2> QED  BY <2>2, CleanTail
  <1>4. Data1(t, u \o q)
    BY <1>2, WindowOther DEF DataInv, Data1
  <1>5. Data3(t, r, u \o q)
    <2> SUFFICES ASSUME NEW a \in {"SABME", "UA"}, Has(u \o q, a), Awaits(t, a)
                 PROVE  Clean(a, u \o q)
      BY DEF Data3
    <2>1. CASE Has(u, a)
      <3>1. Clean(a, u)
        BY <2>1 DEF DataInv, Data3
      <3>2. \A i \in 1 .. Len(q) : Numbered(q[i]) => q[i].nr = 0 /\ ~IsRej(q[i])
        BY <1>2
      <3>3. \A i \in 1 .. Len(q) : Numbered(q[i]) \/ Len(q) = 1
        OBVIOUS
      <3> QED  BY <3>1, <3>2, <3>3, CleanAppended
    <2>2. CASE ~Has(u, a)
      BY <2>2, CleanLast
    <2> QED  BY <2>1, <2>2
  <1> QED  BY <1>1, <1>3, <1>4, <1>5 DEF DataInv

\* A SABME is read: what follows it, and what s has sent before.
LEMMA SabmeBehind ==
    ASSUME NEW s, NEW t, NEW u \in Seq(LinkFrames), NEW w \in Seq(LinkFrames), Has(w, "SABME"),
           Phase(s) \in Phases, Phase(t) \in Phases, Ctl(Phase(s), Phase(t), u, w),
           DataInv(s, t, u, w)
    PROVE  /\ Clean("SABME", w)
           /\ Up(t) => Began(t) /\ CleanRun("SABME", t.vs, w)
           /\ Up(t) => ~Has(u, "NUM") /\ ~Has(u, "POLL")
           /\ ~Has(u, "UA") /\ ~Before(u, "SABME", "NUM") /\ ~Before(u, "SABME", "POLL")
  <1>1. CASE ~Up(s)
    <2>1. Awaits(s, "SABME")
      BY <1>1 DEF Awaits
    <2> QED  BY <2>1 DEF DataInv, Data3, Ctl, Control, Crossing, Never, Up
  <1>2. CASE Up(s)
    <2>1. Phase(t) = "calling"
      BY <1>2 DEF Ctl, Control, Present, Up
    <2>2. ~Before(w, "SABME", "NUM") /\ ~Before(w, "SABME", "POLL")
      BY <2>1 DEF Ctl, Control, Order, Never
    <2>3. Clean("SABME", w)
      BY <2>2, NoneBehind
    <2>4. ~Has(u, "UA") /\ ~Before(u, "SABME", "NUM") /\ ~Before(u, "SABME", "POLL")
      BY DEF Ctl, Control, Crossing, Never
    <2> QED  BY <2>1, <2>3, <2>4 DEF Up
  <1> QED  BY <1>1, <1>2

LEMMA DataSabme ==
    ASSUME NEW s, NEW t, NEW r, NEW u \in Seq(LinkFrames), NEW w \in Seq(LinkFrames), w # <<>>,
           Kind(Head(w)) = "SABME", NEW q \in Seq(LinkFrames), Len(q) = 1, Kind(q[1]) = "UA",
           Phase(s) \in Phases, Phase(t) \in Phases, Ctl(Phase(s), Phase(t), u, w),
           Good(t), Zeroed(r), r.vs = 0,
           DataInv(s, t, u, w), DataInv(t, s, w, u)
    PROVE  DataInv(r, t, u \o q, Tail(w)) /\ DataInv(t, r, Tail(w), u \o q)
  <1> DEFINE v == Tail(w)
             x == u \o q
  <1>1. Has(w, "SABME") /\ v \in Seq(LinkFrames)
    BY ShorterTail, TailIndex DEF Shorter
  <1>2. /\ Clean("SABME", w)
        /\ Up(t) => Began(t) /\ CleanRun("SABME", t.vs, w)
        /\ Up(t) => ~Has(u, "NUM") /\ ~Has(u, "POLL")
        /\ ~Has(u, "UA") /\ ~Before(u, "SABME", "NUM") /\ ~Before(u, "SABME", "POLL")
    BY <1>1, SabmeBehind
  <1>3. /\ \A i \in 1 .. Len(v) : Numbered(v[i]) => v[i].nr = 0 /\ ~IsRej(v[i])
        /\ CleanRun("SABME", t.vs, w) =>
             /\ \A i \in 1 .. Len(v) : IsI(v[i]) => v[i].ns < t.vs
             /\ \A i, j \in 1 .. Len(v) : i < j /\ IsI(v[i]) /\ IsI(v[j]) => v[i].ns < v[j].ns
    BY <1>2, CleanRead
  <1>4. /\ x \in Seq(LinkFrames) /\ Grown(u, x, "UA")
    <2>1. \A i \in 1 .. Len(q) : Kind(q[i]) = "UA"
      <3>1. \A i \in 1 .. Len(q) : i = 1
        OBVIOUS
      <3> QED  BY <3>1
    <2>2. q # <<>>
      BY LoneFrame
    <2>3. Grown(u, x, "UA")
      BY <2>1, <2>2, GrownBy
    <2> QED  BY <2>3
  <1>5. \A i \in 1 .. Len(v) : ~IsRej(v[i])
    BY <1>3 DEF IsRej, Numbered
  <1>6. r.va = 0 /\ r.vr = 0 /\ r.vs = 0 /\ r.rejExc = FALSE /\ Phase(r) = "up" /\ Began(r)
    BY DEF Zeroed, Began
  <1>7. t.vs \in SeqNos /\ 0 \in SeqNos
    BY EndFields, ZeroTypes
  <1>8. Up(t) => \A i \in 1 .. Len(x) : ~Numbered(x[i]) /\ ~IsI(x[i]) /\ ~IsRej(x[i])
    <2>1. Up(t) => ~Has(x, "NUM") /\ ~Has(x, "POLL")
      BY <1>2, <1>4 DEF Grown
    <2> QED  BY <1>4, <2>1, NoneNumbered
  <1>9. Window(0, 0, v) /\ Heard(0, 0, 0, v)
    BY <1>1, <1>3, <1>7, ZeroWindow
  <1>10. Up(t) => Flow(0, 0, FALSE, x, v)
    BY <1>4, <1>5, <1>7, <1>8, ZeroFlow
  <1>11. Up(t) => Window(0, t.vs, x) /\ Heard(0, t.vs, 0, x)
    BY <1>4, <1>7, <1>8, ZeroWindow
  <1>12. Up(t) => Flow(t.vs, 0, FALSE, v, x)
    BY <1>1, <1>2, <1>3, <1>7, <1>8, ZeroFlow
  <1>13. Data3(t, r, x)
    <2> SUFFICES ASSUME NEW a \in {"SABME", "UA"}, Has(x, a), Awaits(t, a)
                 PROVE  Clean(a, x) /\ CleanRun(a, 0, x)
      BY <1>6 DEF Data3
    <2>1. CASE a = "SABME"
      <3>1. ~Before(x, "SABME", "NUM") /\ ~Before(x, "SABME", "POLL")
        BY <1>2, <1>4 DEF Grown
      <3> QED  BY <1>4, <2>1, <3>1, NoneBehind
    <2>2. CASE a = "UA"
      BY <1>2, <2>2, CleanLast
    <2> QED  BY <2>1, <2>2
  <1> HIDE DEF v, x
  <1>14. DataInv(r, t, x, v)
    <2>1. Data1(r, v)
      BY <1>6, <1>9 DEF Data1
    <2>2. Data2(r, t, x, v)
      BY <1>2, <1>6, <1>9, <1>10 DEF Data2, Began
    <2>3. Data3(r, t, v)
      BY <1>6 DEF Data3, Awaits, Up
    <2> QED  BY <2>1, <2>2, <2>3 DEF DataInv
  <1>15. DataInv(t, r, v, x)
    <2>1. Data1(t, x)
      BY <1>2, <1>11 DEF Data1, Began
    <2>2. Data2(t, r, v, x)
      BY <1>2, <1>6, <1>11, <1>12 DEF Data2, Began
    <2> QED  BY <1>13, <2>1, <2>2 DEF DataInv
  <1> QED  BY <1>14, <1>15 DEF v, x

\* A caller reads its UA.
LEMMA DataAnswer ==
    ASSUME NEW s, NEW t, NEW r, NEW u \in Seq(LinkFrames), NEW w \in Seq(LinkFrames), w # <<>>,
           Kind(Head(w)) = "UA", Phase(s) = "calling", NEW n, NEW q, Started(r, n, q),
           Phase(t) \in Phases, Ctl(Phase(s), Phase(t), u, w), Good(t),
           DataInv(s, t, u, w), DataInv(t, s, w, u)
    PROVE  DataInv(r, t, u \o q, Tail(w)) /\ DataInv(t, r, Tail(w), u \o q)
  <1> DEFINE v == Tail(w)
             x == u \o q
  <1>1. Has(w, "UA") /\ v \in Seq(LinkFrames)
    BY ShorterTail, TailIndex DEF Shorter
  <1>2. Clean("UA", w) /\ (Up(t) => Began(t) /\ CleanRun("UA", t.vs, w))
    <2>1. Awaits(s, "UA")
      BY DEF Awaits
    <2> QED  BY <1>1, <2>1 DEF DataInv, Data3
  <1>3. /\ \A i \in 1 .. Len(v) : Numbered(v[i]) => v[i].nr = 0 /\ ~IsRej(v[i])
        /\ CleanRun("UA", t.vs, w) =>
             /\ \A i \in 1 .. Len(v) : IsI(v[i]) => v[i].ns < t.vs
             /\ \A i, j \in 1 .. Len(v) : i < j /\ IsI(v[i]) /\ IsI(v[j]) => v[i].ns < v[j].ns
    BY <1>2, CleanRead
  <1>4. ~Has(u, "SABME") /\ ~Has(u, "UA") /\ ~Has(u, "NUM") /\ ~Has(u, "POLL")
    <2>1. Phase(t) # "down"
      BY <1>1 DEF Ctl, Control, Present
    <2>2. ~Has(u, "SABME")
      BY <1>1 DEF Ctl, Control, Crossing
    <2> QED  BY <2>1, <2>2 DEF Ctl, Control, Present
  <1>5. \A i \in 1 .. Len(u) : ~Numbered(u[i]) /\ ~IsI(u[i]) /\ ~IsRej(u[i])
    BY <1>4, NoneNumbered
  <1>6. \A i \in 1 .. Len(v) : ~IsRej(v[i])
    BY <1>3 DEF IsRej, Numbered
  <1>7. /\ r.va = 0 /\ r.vr = 0 /\ r.vs = Plus(0, n) /\ r.rejExc = FALSE /\ Phase(r) = "up"
        /\ n \in Nat /\ n < Mod /\ RunOf(q, 0, n, 0)
    BY WindowAssumption DEF Zeroed, Started
  <1>8. t.vs \in SeqNos /\ 0 \in SeqNos /\ Ahead(0, 0) = 0
    BY EndFields, ZeroTypes, AheadSame
  <1>9. /\ q \in Seq(LinkFrames) /\ x \in Seq(LinkFrames)
        /\ \A i \in 1 .. Len(q) : IsI(q[i]) /\ ~IsRej(q[i]) /\ q[i].nr = 0
    BY <1>7 DEF RunOf, IsI, IsRej
  <1>10. Window(0, Plus(0, n), v) /\ Heard(0, Plus(0, n), 0, v)
    <2>1. Window(0, 0, v) /\ Heard(0, 0, 0, v)
      BY <1>1, <1>3, <1>8, ZeroWindow
    <2>2. Ahead(0, 0) + n < Mod
      BY <1>7, <1>8
    <2> HIDE DEF v
    <2> QED  BY <1>1, <1>7, <1>8, <2>1, <2>2, WindowWider
  <1>11. Flow(Plus(0, n), 0, FALSE, x, v)
    <2>1. Flow(0, 0, FALSE, u, v)
      BY <1>5, <1>6, <1>8, ZeroFlow
    <2>2. Ahead(0, 0) + n < Mod
      BY <1>7, <1>8
    <2> HIDE DEF v
    <2> QED  BY <1>7, <1>8, <2>1, <2>2, FlowSent
  <1>12. Window(0, t.vs, x) /\ Heard(0, t.vs, 0, x)
    <2>1. Window(0, t.vs, u) /\ Heard(0, t.vs, 0, u)
      BY <1>5, <1>8, ZeroWindow
    <2> QED  BY <1>8, <1>9, <2>1, WindowAppended
  <1>13. Up(t) => Flow(t.vs, 0, FALSE, v, x)
    <2>1. Up(t) => Flow(t.vs, 0, FALSE, v, u)
      BY <1>1, <1>2, <1>3, <1>5, <1>8, ZeroFlow
    <2> HIDE DEF v
    <2> QED  BY <1>9, <2>1, FlowOtherW
  <1>14. Data3(t, r, x)
    <2> SUFFICES ASSUME NEW a \in {"SABME", "UA"}, Has(x, a)
                 PROVE  FALSE
      BY DEF Data3
    <2>1. PICK i \in 1 .. Len(x) : Kind(x[i]) = a
      BY DEF Has
    <2>2. CASE i \in 1 .. Len(u) /\ x[i] = u[i]
      BY <1>4, <2>1, <2>2 DEF Has
    <2>3. CASE i - Len(u) \in 1 .. Len(q) /\ x[i] = q[i - Len(u)]
      <3>1. IsI(x[i])
        BY <1>9, <2>3
      <3> QED  BY <2>1, <3>1 DEF IsI, Kind
    <2> QED  BY <1>9, <2>2, <2>3, CatIndex
  <1> HIDE DEF v, x
  <1>15. DataInv(r, t, x, v)
    <2>1. Data1(r, v)
      BY <1>7, <1>10 DEF Data1
    <2>2. Data2(r, t, x, v)
      BY <1>2, <1>7, <1>10, <1>11 DEF Data2, Began
    <2>3. Data3(r, t, v)
      BY <1>7 DEF Data3, Awaits, Up
    <2> QED  BY <2>1, <2>2, <2>3 DEF DataInv
  <1>16. DataInv(t, r, v, x)
    <2>1. Data1(t, x)
      <3>1. Up(t) => t.va = 0
        BY <1>2 DEF Began
      <3> QED  BY <1>12, <3>1 DEF Data1
    <2>2. Data2(t, r, v, x)
      BY <1>2, <1>7, <1>12, <1>13 DEF Data2, Began
    <2> QED  BY <1>14, <2>1, <2>2 DEF DataInv
  <1> QED  BY <1>15, <1>16 DEF v, x

\* A run holds information frames with the N(R) of its sender.
LEMMA RunFacts ==
    ASSUME NEW q, NEW m, NEW n, NEW r, RunOf(q, m, n, r)
    PROVE  /\ q \in Seq(LinkFrames) /\ Len(q) = n
           /\ \A i \in 1 .. Len(q) : Kind(q[i]) = "NUM" /\ IsI(q[i]) /\ ~IsRej(q[i]) /\ q[i].nr = r
  BY DEF RunOf, IsI, IsRej, Kind

\* s sends n frames more; a is its V(A) by then.
LEMMA DataPushed ==
    ASSUME NEW s, NEW t, NEW m, NEW u \in Seq(LinkFrames), NEW w \in Seq(LinkFrames),
           Good(s), Good(t), Up(s), Up(t), NEW a \in SeqNos, NEW n, NEW q, Pushed(s, m, a, n, q),
           Ahead(a, t.vr) <= Ahead(a, s.vs),
           DataInv(s, t, u, w), DataInv(t, s, w, u)
    PROVE  /\ Flow(m.vs, t.vr, t.rejExc, u \o q, w)
           /\ Flow(t.vs, s.vr, s.rejExc, w, u \o q)
           /\ Window(t.va, t.vs, u \o q) /\ Heard(t.va, t.vs, s.vr, u \o q)
  <1>1. /\ s.va \in SeqNos /\ s.vs \in SeqNos /\ s.vr \in SeqNos
        /\ t.va \in SeqNos /\ t.vs \in SeqNos /\ t.vr \in SeqNos
    BY EndFields
  <1>2. /\ Flow(s.vs, t.vr, t.rejExc, u, w) /\ Flow(t.vs, s.vr, s.rejExc, w, u)
        /\ Window(t.va, t.vs, u) /\ Heard(t.va, t.vs, s.vr, u)
    BY DEF DataInv, Data1, Data2
  <1>3. /\ n \in Nat /\ Ahead(a, s.vs) + n <= K /\ RunOf(q, s.vs, n, s.vr) /\ m.vs = Plus(s.vs, n)
    BY DEF Pushed
  <1>4. /\ q \in Seq(LinkFrames)
        /\ \A i \in 1 .. Len(q) : ~IsRej(q[i]) /\ q[i].nr = s.vr
    BY <1>3, RunFacts
  <1>5. Ahead(t.vr, s.vs) + n < Mod
    <2>1. Ahead(t.vr, s.vs) = Ahead(a, s.vs) - Ahead(a, t.vr)
      BY <1>1, AheadFrom
    <2>2. Ahead(a, s.vs) \in Nat /\ Ahead(a, t.vr) \in Nat
      BY <1>1, AheadNat
    <2> QED  BY <1>3, <2>1, <2>2, WindowAssumption
  <1>6. Flow(m.vs, t.vr, t.rejExc, u \o q, w)
    BY <1>1, <1>2, <1>3, <1>5, FlowSent
  <1>7. Flow(t.vs, s.vr, s.rejExc, w, u \o q)
    BY <1>2, <1>4, FlowOtherW
  <1>8. Window(t.va, t.vs, u \o q) /\ Heard(t.va, t.vs, s.vr, u \o q)
    BY <1>1, <1>2, <1>4, WindowAppended
  <1> QED  BY <1>6, <1>7, <1>8

\* The rest of a numbered frame, between two ends that are both up.
LEMMA DataReplied ==
    ASSUME NEW m, NEW t, NEW r, NEW x \in Seq(LinkFrames), NEW w \in Seq(LinkFrames), w # <<>>,
           NEW v, Replied(m, Head(w), r, v), m.vs \in SeqNos, m.vr \in SeqNos,
           t.va \in SeqNos, t.vs \in SeqNos, t.vr \in SeqNos,
           Flow(m.vs, t.vr, t.rejExc, x, w), Flow(t.vs, m.vr, m.rejExc, w, x),
           Window(t.va, t.vs, x), Heard(t.va, t.vs, m.vr, x)
    PROVE  /\ Flow(r.vs, t.vr, t.rejExc, x \o v, Tail(w))
           /\ Flow(t.vs, r.vr, r.rejExc, Tail(w), x \o v)
           /\ Window(t.va, t.vs, x \o v) /\ Heard(t.va, t.vs, r.vr, x \o v)
  <1> DEFINE f == Head(w)
             y == Tail(w)
  <1>1. v \in Seq(LinkFrames) /\ r.vs = m.vs /\ y \in Seq(LinkFrames)
    BY TailIndex DEF Replied
  <1>2. /\ Flow(m.vs, t.vr, t.rejExc, x, y) /\ Flow(t.vs, m.vr, m.rejExc, y, x)
    BY FlowTailW, FlowTailU
  <1>3. f.nr \in SeqNos /\ f = w[1] /\ 1 \in 1 .. Len(w)
    <2>1. w[1] \in LinkFrames /\ f = w[1] /\ 1 \in 1 .. Len(w)
      BY TailIndex
    <2> QED  BY <2>1, LinkFrameType
  <1>4. CASE ~IsI(f) /\ ~IsRej(f)
    <2>1. /\ r.vr = m.vr /\ r.rejExc = m.rejExc
          /\ \A i \in 1 .. Len(v) : v[i].nr = m.vr /\ ~IsI(v[i]) /\ ~IsRej(v[i])
      BY <1>4 DEF Replied, Plain
    <2> HIDE DEF y
    <2>2. Flow(m.vs, t.vr, t.rejExc, x \o v, y)
      BY <1>1, <1>2, <2>1, FlowOtherU
    <2>3. Flow(t.vs, m.vr, m.rejExc, y, x \o v)
      BY <1>1, <1>2, <2>1, FlowOtherW
    <2>4. Window(t.va, t.vs, x \o v) /\ Heard(t.va, t.vs, m.vr, x \o v)
      BY <1>1, <2>1, WindowAppended
    <2> QED  BY <1>1, <2>1, <2>2, <2>3, <2>4 DEF y
  <1>5. CASE IsRej(f)
    <2>1. /\ r.vr = m.vr /\ r.rejExc = m.rejExc /\ RunOf(v, f.nr, Ahead(f.nr, m.vs), m.vr)
      BY <1>5 DEF Replied, IsI, IsRej
    <2>2. \A i \in 1 .. Len(v) : v[i].nr = m.vr /\ ~IsRej(v[i])
      BY <2>1, RunFacts
    <2>3. f.nr = t.vr
      BY <1>3, <1>5 DEF Flow
    <2>4. RunOf(v, t.vr, Ahead(t.vr, m.vs), m.vr)
      BY <2>1, <2>3
    <2>5. Flow(m.vs, t.vr, t.rejExc, x \o v, y)
      BY <1>5, <2>4, FlowAgain
    <2> HIDE DEF y
    <2>6. Flow(t.vs, m.vr, m.rejExc, y, x \o v)
      BY <1>1, <1>2, <2>2, FlowOtherW
    <2>7. Window(t.va, t.vs, x \o v) /\ Heard(t.va, t.vs, m.vr, x \o v)
      BY <1>1, <2>2, WindowAppended
    <2> QED  BY <1>1, <2>1, <2>5, <2>6, <2>7 DEF y
  <1>6. CASE IsI(f) /\ f.ns = m.vr
    <2>1. /\ r.vr = Plus(m.vr, 1) /\ r.rejExc = FALSE
          /\ \A i \in 1 .. Len(v) : v[i].nr = r.vr /\ ~IsI(v[i]) /\ ~IsRej(v[i])
      BY <1>6 DEF Replied, Plain, IsI, IsRej
    <2>2. m.vr # t.vs /\ Flow(t.vs, Plus(m.vr, 1), FALSE, y, x)
      BY <1>6, FlowAccept
    <2>3. Plus(m.vr, 1) \in SeqNos
      BY WindowAssumption, PlusType
    <2>4. Heard(t.va, t.vs, Plus(m.vr, 1), x)
      BY <2>2, HeardMore
    <2> HIDE DEF y
    <2>5. Flow(m.vs, t.vr, t.rejExc, x \o v, y)
      BY <1>1, <1>2, <2>1, FlowOtherU
    <2>6. Flow(t.vs, Plus(m.vr, 1), FALSE, y, x \o v)
      BY <1>1, <2>1, <2>2, FlowOtherW
    <2>7. Window(t.va, t.vs, x \o v) /\ Heard(t.va, t.vs, Plus(m.vr, 1), x \o v)
      BY <1>1, <2>1, <2>3, <2>4, WindowAppended
    <2> QED  BY <1>1, <2>1, <2>5, <2>6, <2>7 DEF y
  <1>7. CASE IsI(f) /\ f.ns # m.vr
    <2>1. /\ r.vr = m.vr /\ r.rejExc = TRUE
          /\ \/ m.rejExc = TRUE /\ v = <<>>
             \/ m.rejExc = FALSE /\ Len(v) = 1 /\ IsRej(v[1]) /\ v[1].nr = m.vr
      BY <1>7 DEF Replied, IsI, IsRej
    <2>2. CASE m.rejExc = TRUE /\ v = <<>>
      <3>1. x \o v = x
        BY <2>2
      <3> QED  BY <1>1, <1>2, <2>1, <2>2, <3>1
    <2>3. CASE m.rejExc = FALSE /\ Len(v) = 1 /\ IsRej(v[1]) /\ v[1].nr = m.vr
      <3>1. \A i \in 1 .. Len(v) : v[i].nr = m.vr /\ ~IsI(v[i])
        <4>1. \A i \in 1 .. Len(v) : i = 1
          BY <1>1, <2>3, LoneFrame
        <4> QED  BY <2>3, <4>1 DEF IsI, IsRej
      <3>2. Flow(t.vs, m.vr, TRUE, y, x \o v)
        BY <1>1, <1>7, <2>3, FlowRefuse
      <3> HIDE DEF y
      <3>3. Flow(m.vs, t.vr, t.rejExc, x \o v, y)
        BY <1>1, <1>2, <3>1, FlowOtherU
      <3>4. Window(t.va, t.vs, x \o v) /\ Heard(t.va, t.vs, m.vr, x \o v)
        BY <1>1, <3>1, WindowAppended
      <3> QED  BY <1>1, <2>1, <3>2, <3>3, <3>4 DEF y
    <2> QED  BY <2>1, <2>2, <2>3
  <1> QED  BY <1>4, <1>5, <1>6, <1>7 DEF IsI, IsRej

\* Numbered frames add nothing to the control frames on a wire.
LEMMA NumberedAdd ==
    ASSUME NEW u \in Seq(LinkFrames), NEW q \in Seq(LinkFrames), NEW a,
           \A i \in 1 .. Len(q) : Kind(q[i]) \in {"NUM", "POLL"}, a \notin {"NUM", "POLL"},
           Has(u \o q, a)
    PROVE  Has(u, a)
  <1>1. PICK i \in 1 .. Len(u \o q) : Kind((u \o q)[i]) = a
    BY DEF Has
  <1>2. CASE i \in 1 .. Len(u) /\ (u \o q)[i] = u[i]
    BY <1>1, <1>2 DEF Has
  <1>3. CASE i - Len(u) \in 1 .. Len(q) /\ (u \o q)[i] = q[i - Len(u)]
    BY <1>1, <1>3
  <1> QED  BY <1>2, <1>3, CatIndex

LEMMA RepliedKinds ==
    ASSUME NEW m, NEW f, NEW r, NEW v, Replied(m, f, r, v)
    PROVE  v \in Seq(LinkFrames) /\ \A i \in 1 .. Len(v) : Kind(v[i]) = "NUM"
  <1>1. v \in Seq(LinkFrames)
    BY DEF Replied
  <1>2. CASE Len(v) = 1 /\ IsRej(v[1])
    <2>1. \A i \in 1 .. Len(v) : i = 1
      BY <1>1, <1>2, LoneFrame
    <2>2. Kind(v[1]) = "NUM"
      BY <1>2 DEF IsRej, Kind
    <2> QED  BY <1>1, <2>1, <2>2
  <1>3. CASE v = <<>>
    <2>1. Len(v) = 0
      BY <1>3
    <2> QED  BY <1>1, <2>1
  <1>4. CASE \E x, y, z : RunOf(v, x, y, z)
    BY <1>4, RunFacts
  <1>5. CASE \E x : Plain(v, x)
    BY <1>5 DEF Plain
  <1> QED  BY <1>2, <1>3, <1>4, <1>5 DEF Replied

LEMMA DataTaken ==
    ASSUME NEW s, NEW t, NEW r, NEW u \in Seq(LinkFrames), NEW w \in Seq(LinkFrames), w # <<>>,
           Good(s), Good(t), Up(s), Numbered(Head(w)), Taken(s, Head(w), r),
           Phase(t) \in Phases, Ctl(Phase(s), Phase(t), u, w),
           DataInv(s, t, u, w), DataInv(t, s, w, u)
    PROVE  DataInv(r.s, t, u \o r.out, Tail(w)) /\ DataInv(t, r.s, Tail(w), u \o r.out)
  <1> DEFINE f == Head(w)
             y == Tail(w)
  <1>1. PICK m, n, q, v : Pushed(s, m, f.nr, n, q) /\ Replied(m, f, r.s, v) /\ r.out = q \o v
    BY DEF Taken
  <1> DEFINE x == u \o q
  <1>2. /\ q \in Seq(LinkFrames) /\ v \in Seq(LinkFrames) /\ x \in Seq(LinkFrames)
        /\ y \in Seq(LinkFrames) /\ f \in LinkFrames /\ f.nr \in SeqNos
    <2>1. q \in Seq(LinkFrames) /\ v \in Seq(LinkFrames)
      BY <1>1, RunFacts DEF Pushed, Replied
    <2>2. y \in Seq(LinkFrames) /\ f \in LinkFrames
      BY TailIndex
    <2> QED  BY <2>1, <2>2, LinkFrameType
  <1>3. u \o r.out = x \o v
    BY <1>1, <1>2
  <1>4. /\ s.va \in SeqNos /\ s.vs \in SeqNos /\ s.vr \in SeqNos
        /\ t.va \in SeqNos /\ t.vs \in SeqNos /\ t.vr \in SeqNos
    BY EndFields
  <1>5. /\ n \in Nat /\ Ahead(f.nr, s.vs) + n <= K /\ m.vs = Plus(s.vs, n) /\ m.va = f.nr
        /\ m.vr = s.vr /\ m.rejExc = s.rejExc
    BY <1>1 DEF Pushed
  <1>6. m.vs \in SeqNos
    <2>1. n \in 0 .. Mod
      <3>1. Ahead(f.nr, s.vs) \in Nat
        BY <1>2, <1>4, AheadNat
      <3> QED  BY <1>5, <3>1, WindowAssumption
    <2> QED  BY <1>4, <1>5, <2>1, PlusType
  <1>7. r.s.va = f.nr /\ r.s.vs = m.vs /\ Up(r.s)
    BY <1>1, <1>5 DEF Replied, Up
  <1>8. Window(s.va, s.vs, w)
    BY DEF DataInv, Data1
  <1>9. /\ Window(f.nr, s.vs, y)
        /\ \A a \in SeqNos : Heard(s.va, s.vs, a, w) => Heard(f.nr, s.vs, a, y)
    BY <1>4, <1>8, WindowAcked
  <1>10. Ahead(f.nr, s.vs) + n < Mod
    <2>1. Ahead(f.nr, s.vs) \in Nat
      BY <1>2, <1>4, AheadNat
    <2> QED  BY <1>5, <2>1, WindowAssumption
  <1>w. f = Head(w) /\ y = Tail(w)
    OBVIOUS
  <1> HIDE DEF x, y, f
  <1>11. /\ Window(f.nr, m.vs, y)
         /\ \A a \in SeqNos : Heard(f.nr, s.vs, a, y) => Heard(f.nr, m.vs, a, y)
    BY <1>2, <1>4, <1>5, <1>9, <1>10, WindowWider
  <1>12. ASSUME Up(t)
         PROVE  /\ Heard(f.nr, m.vs, t.vr, y)
                /\ Flow(r.s.vs, t.vr, t.rejExc, x \o v, y)
                /\ Flow(t.vs, r.s.vr, r.s.rejExc, y, x \o v)
                /\ Window(t.va, t.vs, x \o v) /\ Heard(t.va, t.vs, r.s.vr, x \o v)
    <2>1. Heard(s.va, s.vs, t.vr, w)
      BY <1>12 DEF DataInv, Data2
    <2>2. Heard(f.nr, s.vs, t.vr, y)
      BY <1>4, <1>9, <2>1
    <2>3. Ahead(f.nr, t.vr) <= Ahead(f.nr, s.vs)
      BY <2>2 DEF Heard
    <2>4. /\ Flow(m.vs, t.vr, t.rejExc, x, w) /\ Flow(t.vs, s.vr, s.rejExc, w, x)
          /\ Window(t.va, t.vs, x) /\ Heard(t.va, t.vs, s.vr, x)
      BY <1>1, <1>2, <1>12, <2>3, DataPushed DEF x
    <2>5. /\ Flow(t.vs, m.vr, m.rejExc, w, x) /\ Heard(t.va, t.vs, m.vr, x) /\ m.vr \in SeqNos
      BY <1>4, <1>5, <2>4
    <2>6. Replied(m, Head(w), r.s, v)
      BY <1>1, <1>w
    <2>7. /\ Flow(r.s.vs, t.vr, t.rejExc, x \o v, Tail(w))
          /\ Flow(t.vs, r.s.vr, r.s.rejExc, Tail(w), x \o v)
          /\ Window(t.va, t.vs, x \o v) /\ Heard(t.va, t.vs, r.s.vr, x \o v)
      BY <1>2, <1>4, <1>6, <2>4, <2>5, <2>6, DataReplied
    <2> QED  BY <1>4, <1>11, <1>w, <2>2, <2>7
  <1>13. \A a \in {"SABME", "UA"} : ~(Has(x \o v, a) /\ Awaits(t, a))
    <2> SUFFICES ASSUME NEW a \in {"SABME", "UA"}, Has(x \o v, a), Awaits(t, a)
                 PROVE  FALSE
      OBVIOUS
    <2>1. \A i \in 1 .. Len(q) : Kind(q[i]) \in {"NUM", "POLL"}
      BY <1>1, RunFacts DEF Pushed
    <2>2. Has(x, a)
      BY <1>1, <1>2, RepliedKinds, NumberedAdd
    <2>3. Has(u, a)
      BY <1>2, <2>1, <2>2, NumberedAdd DEF x
    <2>4. Has(w, "NUM") \/ Has(w, "POLL")
      <3>1. Kind(f) \in {"NUM", "POLL"}
        BY <1>2, <1>w, KindType
      <3>2. Has(w, Kind(f))
        BY <1>w, ShorterTail DEF Shorter
      <3> QED  BY <3>1, <3>2
    <2>5. Phase(s) = "up"
      BY DEF Up
    <2> QED  BY <2>3, <2>4, <2>5 DEF Awaits, Ctl, Control, Crossing
  <1>14. DataInv(r.s, t, x \o v, y)
    <2>1. Data1(r.s, y)
      BY <1>7, <1>11 DEF Data1
    <2>2. Data2(r.s, t, x \o v, y)
      BY <1>7, <1>12 DEF Data2
    <2>3. Data3(r.s, t, y)
      BY <1>7 DEF Data3, Awaits, Up
    <2> QED  BY <2>1, <2>2, <2>3 DEF DataInv
  <1>15. DataInv(t, r.s, y, x \o v)
    <2>1. Data1(t, x \o v)
      BY <1>12 DEF Data1
    <2>2. Data2(t, r.s, y, x \o v)
      BY <1>12 DEF Data2
    <2>3. Data3(t, r.s, x \o v)
      BY <1>13 DEF Data3
    <2> QED  BY <2>1, <2>2, <2>3 DEF DataInv
  <1> QED  BY <1>3, <1>14, <1>15 DEF y

LEMMA NoneAdded ==
    ASSUME NEW S, NEW u \in Seq(S), NEW q \in Seq(S), Len(q) = 0
    PROVE  u \o q = u
  OBVIOUS

\* s sends a message, or keeps it for later.
LEMMA DataSent ==
    ASSUME NEW s, NEW t, NEW r, NEW u \in Seq(LinkFrames), NEW w \in Seq(LinkFrames),
           Good(s), Good(t), Up(s), Up(r), NEW n \in {0, 1}, NEW q, Pushed(s, r, s.va, n, q),
           DataInv(s, t, u, w), DataInv(t, s, w, u)
    PROVE  DataInv(r, t, u \o q, w) /\ DataInv(t, r, w, u \o q)
  <1>1. /\ s.va \in SeqNos /\ s.vs \in SeqNos /\ s.vr \in SeqNos
        /\ t.va \in SeqNos /\ t.vs \in SeqNos /\ t.vr \in SeqNos
    BY EndFields
  <1>2. /\ n \in Nat /\ Ahead(s.va, s.vs) + n <= K /\ RunOf(q, s.vs, n, s.vr)
        /\ r.va = s.va /\ r.vs = Plus(s.vs, n) /\ r.vr = s.vr /\ r.rejExc = s.rejExc
    BY DEF Pushed
  <1>3. Ahead(s.va, s.vs) + n < Mod
    <2>1. Ahead(s.va, s.vs) \in Nat
      BY <1>1, AheadNat
    <2> QED  BY <1>2, <2>1, WindowAssumption
  <1>4. /\ q \in Seq(LinkFrames) /\ Len(q) = n
        /\ \A i \in 1 .. Len(q) : Kind(q[i]) = "NUM" /\ IsI(q[i]) /\ ~IsRej(q[i]) /\ q[i].nr = s.vr
    BY <1>2, RunFacts
  <1>5. Data1(r, w)
    <2>1. Window(s.va, s.vs, w)
      BY DEF DataInv, Data1
    <2>2. Window(s.va, Plus(s.vs, n), w)
      BY <1>1, <1>2, <1>3, <2>1, WindowWider
    <2> QED  BY <1>2, <2>2 DEF Data1
  <1>6. ASSUME Up(t)
        PROVE  /\ Heard(r.va, r.vs, t.vr, w)
               /\ Flow(r.vs, t.vr, t.rejExc, u \o q, w)
               /\ Flow(t.vs, r.vr, r.rejExc, w, u \o q)
               /\ Window(t.va, t.vs, u \o q) /\ Heard(t.va, t.vs, r.vr, u \o q)
    <2>1. Heard(s.va, s.vs, t.vr, w)
      BY <1>6 DEF DataInv, Data2
    <2>2. Heard(s.va, Plus(s.vs, n), t.vr, w)
      BY <1>1, <1>2, <1>3, <2>1, WindowWider
    <2>3. Ahead(s.va, t.vr) <= Ahead(s.va, s.vs)
      BY <2>1 DEF Heard
    <2>4. /\ Flow(r.vs, t.vr, t.rejExc, u \o q, w)
          /\ Flow(t.vs, s.vr, s.rejExc, w, u \o q)
          /\ Window(t.va, t.vs, u \o q) /\ Heard(t.va, t.vs, s.vr, u \o q)
      BY <1>1, <1>6, <2>3, DataPushed
    <2> QED  BY <1>2, <2>2, <2>4
  <1>7. Data3(t, r, u \o q)
    <2> SUFFICES ASSUME NEW a \in {"SABME", "UA"}, Has(u \o q, a), Awaits(t, a)
                 PROVE  Clean(a, u \o q) /\ Began(r) /\ CleanRun(a, r.vs, u \o q)
      BY DEF Data3
    <2>1. Has(u, a)
      BY <1>4, NumberedAdd
    <2>2. Clean(a, u) /\ Began(s) /\ CleanRun(a, s.vs, u)
      BY <2>1 DEF DataInv, Data3
    <2>3. Began(r)
      BY <1>2, <2>2 DEF Began
    <2>4. \A i \in 1 .. Len(q) : Numbered(q[i]) => q[i].nr = 0 /\ ~IsRej(q[i])
      BY <1>4, <2>2 DEF Began
    <2>5. \A i \in 1 .. Len(q) : Numbered(q[i]) \/ Len(q) = 1
      BY <1>4 DEF Numbered, IsI
    <2>6. Clean(a, u \o q)
      BY <1>4, <2>2, <2>4, <2>5, CleanAppended
    <2>7. Ahead(s.va, s.vs) = s.vs /\ s.vs \in Nat /\ s.vs < Mod
      <3>1. Ahead(s.va, s.vs) = s.vs
        BY <1>1, <2>2, AheadZero DEF Began
      <3> QED  BY <1>1, <3>1, AheadNat
    <2>8. CASE n = 0
      <3>1. r.vs = s.vs
        BY <1>2, <2>7, <2>8, WindowAssumption DEF Plus
      <3>2. u \o q = u
        BY <1>4, <2>8, NoneAdded
      <3> QED  BY <2>2, <2>3, <2>6, <3>1, <3>2
    <2>9. CASE n = 1
      <3>1. r.vs = s.vs + 1
        <4>1. s.vs + 1 < Mod
          BY <1>3, <2>7, <2>9
        <4>2. Mod \in Nat
          BY WindowAssumption
        <4> QED  BY <1>2, <2>7, <2>9, <4>1, <4>2 DEF Plus
      <3>2. q[1].ns = s.vs /\ IsI(q[1]) /\ Len(q) = 1
        <4>1. q[1].ns = Plus(s.vs, 0) /\ IsI(q[1])
          BY <1>2, <2>9 DEF RunOf
        <4>2. Plus(s.vs, 0) = s.vs
          BY <2>7, WindowAssumption DEF Plus
        <4> QED  BY <1>4, <2>9, <4>1, <4>2
      <3>3. CleanRun(a, s.vs + 1, u \o q)
        BY <1>4, <2>2, <2>7, <3>2, CleanSent
      <3> QED  BY <2>3, <2>6, <3>1, <3>3
    <2> QED  BY <2>8, <2>9
  <1>8. DataInv(r, t, u \o q, w)
    <2>1. Data2(r, t, u \o q, w)
      BY <1>6 DEF Data2
    <2>2. Data3(r, t, w)
      BY DEF Data3, Awaits, Up
    <2> QED  BY <1>5, <2>1, <2>2 DEF DataInv
  <1>9. DataInv(t, r, w, u \o q)
    <2>1. Data1(t, u \o q)
      BY <1>6 DEF Data1
    <2>2. Data2(t, r, w, u \o q)
      BY <1>6 DEF Data2
    <2> QED  BY <1>7, <2>1, <2>2 DEF DataInv
  <1> QED  BY <1>8, <1>9

\* s polls the other end, with nothing on the wires.
LEMMA DataPoll ==
    ASSUME NEW s, NEW t, NEW r, NEW u \in Seq(LinkFrames), NEW w \in Seq(LinkFrames), u = <<>>,
           Good(s), Good(t), Up(s), Up(r), Same(s, r),
           NEW q \in Seq(LinkFrames), Len(q) = 1, Kind(q[1]) = "POLL", q[1].nr = s.vr,
           ~IsI(q[1]), ~IsRej(q[1]),
           DataInv(s, t, u, w), DataInv(t, s, w, u)
    PROVE  DataInv(r, t, u \o q, w) /\ DataInv(t, r, w, u \o q)
  <1>1. /\ s.va \in SeqNos /\ s.vs \in SeqNos /\ s.vr \in SeqNos
        /\ t.va \in SeqNos /\ t.vs \in SeqNos /\ t.vr \in SeqNos
    BY EndFields
  <1>2. r.va = s.va /\ r.vs = s.vs /\ r.vr = s.vr /\ r.rejExc = s.rejExc
    BY DEF Same
  <1>3. \A i \in 1 .. Len(q) : Kind(q[i]) = "POLL" /\ q[i].nr = s.vr /\ ~IsI(q[i]) /\ ~IsRej(q[i])
    <2>1. \A i \in 1 .. Len(q) : i = 1
      BY LoneFrame
    <2> QED  BY <2>1
  <1>4. ASSUME Up(t)
        PROVE  /\ Heard(s.va, s.vs, t.vr, w)
               /\ Flow(s.vs, t.vr, t.rejExc, u \o q, w)
               /\ Flow(t.vs, s.vr, s.rejExc, w, u \o q)
               /\ Window(t.va, t.vs, u \o q) /\ Heard(t.va, t.vs, s.vr, u \o q)
    <2>1. /\ Heard(s.va, s.vs, t.vr, w) /\ Flow(s.vs, t.vr, t.rejExc, u, w)
          /\ Flow(t.vs, s.vr, s.rejExc, w, u)
          /\ Window(t.va, t.vs, u) /\ Heard(t.va, t.vs, s.vr, u)
      BY <1>4 DEF DataInv, Data1, Data2
    <2>2. Flow(s.vs, t.vr, t.rejExc, u \o q, w)
      BY <1>3, <2>1, FlowOtherU
    <2>3. Flow(t.vs, s.vr, s.rejExc, w, u \o q)
      BY <1>3, <2>1, FlowOtherW
    <2>4. \A i \in 1 .. Len(q) : q[i].nr = s.vr
      BY <1>3
    <2>5. Window(t.va, t.vs, u \o q) /\ Heard(t.va, t.vs, s.vr, u \o q)
      BY <1>1, <2>1, <2>4, WindowAppended
    <2> QED  BY <2>1, <2>2, <2>3, <2>5
  <1>5. Data3(t, r, u \o q)
    <2> SUFFICES ASSUME NEW a \in {"SABME", "UA"}, Has(u \o q, a)
                 PROVE  FALSE
      BY DEF Data3
    <2>1. \A i \in 1 .. Len(q) : Kind(q[i]) \in {"NUM", "POLL"}
      BY <1>3
    <2>2. Has(u, a)
      BY <2>1, NumberedAdd
    <2>3. Len(u) = 0
      OBVIOUS
    <2> QED  BY <2>2, <2>3 DEF Has
  <1>6. DataInv(r, t, u \o q, w)
    <2>1. Data1(r, w)
      BY <1>2 DEF DataInv, Data1
    <2>2. Data2(r, t, u \o q, w)
      BY <1>2, <1>4 DEF Data2
    <2>3. Data3(r, t, w)
      BY DEF Data3, Awaits, Up
    <2> QED  BY <2>1, <2>2, <2>3 DEF DataInv
  <1>7. DataInv(t, r, w, u \o q)
    <2>1. Data1(t, u \o q)
      BY <1>4 DEF Data1
    <2>2. Data2(t, r, w, u \o q)
      BY <1>2, <1>4 DEF Data2
    <2> QED  BY <1>5, <2>1, <2>2 DEF DataInv
  <1> QED  BY <1>6, <1>7

-----------------------------------------------------------------------------
(* The link as a whole. *)

\* Two ends and the wires between them: s reads w and sends on u.
Link(s, t, u, w) ==
    /\ Good(s) /\ Good(t) /\ Filled(s) /\ Filled(t)
    /\ u \in Seq(LinkFrames) /\ w \in Seq(LinkFrames)
    /\ Ctl(Phase(s), Phase(t), u, w)
    /\ DataInv(s, t, u, w) /\ DataInv(t, s, w, u)

\* A link is a link seen from its other end.
LEMMA LinkTurned ==
    ASSUME NEW s, NEW t, NEW u, NEW w, Link(s, t, u, w)
    PROVE  Link(t, s, w, u)
  BY DEF Link, Ctl

LEMMA LinkParts ==
    ASSUME NEW s, NEW t, NEW u, NEW w, Link(s, t, u, w)
    PROVE  /\ Good(s) /\ Good(t) /\ Filled(s) /\ u \in Seq(LinkFrames) /\ w \in Seq(LinkFrames)
           /\ Phase(s) \in Phases /\ Phase(t) \in Phases /\ Shape(u) /\ Shape(w)
           /\ Ctl(Phase(s), Phase(t), u, w) /\ DataInv(s, t, u, w) /\ DataInv(t, s, w, u)
  <1>1. Good(s) /\ Good(t) /\ u \in Seq(LinkFrames) /\ w \in Seq(LinkFrames)
    BY DEF Link
  <1>2. Phase(s) \in Phases /\ Phase(t) \in Phases
    BY DEF Phase, Phases
  <1>3. Shape(u) /\ Shape(w)
    BY <1>1, ShapeOf
  <1> QED  BY <1>1, <1>2, <1>3 DEF Link

LEMMA LinkMade ==
    ASSUME NEW s, NEW t, NEW u, NEW w, Link(s, t, u, w), NEW r, Good(r), Filled(r),
           NEW x \in Seq(LinkFrames), NEW v \in Seq(LinkFrames), Ctl(Phase(r), Phase(t), x, v),
           DataInv(r, t, x, v) /\ DataInv(t, r, v, x)
    PROVE  Link(r, t, x, v)
  BY DEF Link

\* One frame more on a wire.
LEMMA OneMore ==
    ASSUME NEW u \in Seq(LinkFrames), NEW c, NEW k, Says(c, k)
    PROVE  /\ c.out \in Seq(LinkFrames) /\ Len(c.out) = 1 /\ Kind(c.out[1]) = k
           /\ u \o c.out \in Seq(LinkFrames) /\ Grown(u, u \o c.out, k)
  <1>1. c.out \in Seq(LinkFrames) /\ Len(c.out) = 1 /\ Kind(c.out[1]) = k
    BY DEF Says
  <1>2. c.out # <<>> /\ \A i \in 1 .. Len(c.out) : i = 1
    BY <1>1, LoneFrame
  <1>3. \A i \in 1 .. Len(c.out) : Kind(c.out[i]) = k
    BY <1>1, <1>2
  <1>4. Grown(u, u \o c.out, k)
    BY <1>1, <1>2, <1>3, GrownBy
  <1>5. u \o c.out \in Seq(LinkFrames)
    BY <1>1
  <1> QED  BY <1>1, <1>4, <1>5

\* A frame is read, and only the phase changes, or nothing.
LEMMA LinkRead ==
    ASSUME NEW s, NEW t, NEW u, NEW w, Link(s, t, u, w), w # <<>>, NEW r, Good(r), Same(s, r),
           Up(r) <=> Up(s), Phase(r) = "calling" => Phase(s) = "calling",
           Ctl(Phase(r), Phase(t), u, Tail(w))
    PROVE  Link(r, t, u, Tail(w))
  <1>1. Good(s) /\ Filled(s) /\ u \in Seq(LinkFrames) /\ w \in Seq(LinkFrames)
        /\ DataInv(s, t, u, w) /\ DataInv(t, s, w, u)
    BY LinkParts
  <1>2. Tail(w) \in Seq(LinkFrames)
    BY <1>1, TailIndex
  <1>3. DataInv(r, t, u, Tail(w)) /\ DataInv(t, r, Tail(w), u)
    BY <1>1, DataRead
  <1>4. Filled(r)
    BY <1>1, SameFilled
  <1> QED  BY <1>1, <1>2, <1>3, <1>4, LinkMade

LEMMA LinkOnly ==
    ASSUME NEW s, NEW t, NEW u, NEW w, Link(s, t, u, w), w # <<>>, NEW r, Good(r), Same(s, r),
           Phase(r) = Phase(s)
    PROVE  Link(r, t, u, Tail(w))
  <1>1. /\ w \in Seq(LinkFrames) /\ Phase(s) \in Phases /\ Phase(t) \in Phases
        /\ Shape(u) /\ Shape(w) /\ Ctl(Phase(s), Phase(t), u, w)
    BY LinkParts
  <1>2. Shorter(w, Tail(w), Kind(Head(w))) /\ Kind(Head(w)) \in Kinds
    BY <1>1, ShorterTail
  <1>3. Ctl(Phase(s), Phase(t), u, Tail(w))
    BY <1>1, <1>2, ReadOnly
  <1> QED  BY <1>3, LinkRead DEF Up

\* The end that is not up afterwards says one control frame; v is the wire
\* it reads, without the frame it has read.
LEMMA LinkAsked ==
    ASSUME NEW s, NEW t, NEW u, NEW w, Link(s, t, u, w), NEW v, v = w \/ (w # <<>> /\ v = Tail(w)),
           NEW c, NEW k \in {"SABME", "DISC", "UA", "DMF", "DM"}, Says(c, k), Good(c.s), Same(s, c.s),
           ~Up(c.s), Phase(c.s) = "calling" => Phase(s) = "calling" \/ ~Has(v, "UA"),
           Ctl(Phase(c.s), Phase(t), u \o c.out, v)
    PROVE  Link(c.s, t, u \o c.out, v)
  <1>1. /\ Good(s) /\ Filled(s) /\ u \in Seq(LinkFrames) /\ w \in Seq(LinkFrames)
        /\ DataInv(s, t, u, w) /\ DataInv(t, s, w, u)
        /\ Phase(s) \in Phases /\ Phase(t) \in Phases /\ Ctl(Phase(s), Phase(t), u, w)
    BY LinkParts
  <1>2. v \in Seq(LinkFrames)
    BY <1>1, TailIndex
  <1>3. c.out \in Seq(LinkFrames) /\ Len(c.out) = 1 /\ Kind(c.out[1]) = k
        /\ u \o c.out \in Seq(LinkFrames)
    BY <1>1, OneMore
  <1>4. Kind(c.out[1]) \notin {"NUM", "POLL"}
    BY <1>3
  <1>5. DataInv(c.s, t, u \o c.out, v) /\ DataInv(t, c.s, v, u \o c.out)
    BY <1>1, <1>3, <1>4, DataAsked
  <1>6. Filled(c.s)
    BY <1>1, SameFilled
  <1> QED  BY <1>2, <1>3, <1>5, <1>6, LinkMade

\* What the link is after s has read a frame, with the outcome c.
Holds(c, t, u, w) == Link(c.s, t, u \o c.out, Tail(w)) /\ c.up \in Seq(Data)

LEMMA NoneDelivered ==
    ASSUME NEW c, NEW t, NEW u, NEW w, c.up = <<>>, Link(c.s, t, u \o c.out, Tail(w))
    PROVE  Holds(c, t, u, w)
  <1>1. <<>> \in Seq(Data)
    OBVIOUS
  <1> QED  BY <1>1 DEF Holds

LEMMA ReadOnlyHolds ==
    ASSUME NEW s, NEW t, NEW u, NEW w, Link(s, t, u, w), w # <<>>, NEW c, Good(c.s),
           Same(s, c.s), Phase(c.s) = Phase(s), c.out = <<>>, c.up = <<>>
    PROVE  Holds(c, t, u, w)
  <1>1. u \o c.out = u
    <2>1. u \in Seq(LinkFrames)
      BY LinkParts
    <2> QED  BY <2>1
  <1>2. Link(c.s, t, u, Tail(w))
    BY LinkOnly
  <1> QED  BY <1>1, <1>2 DEF Holds

LEMMA HeadRead ==
    ASSUME NEW s, NEW t, NEW u, NEW w, Link(s, t, u, w), w # <<>>
    PROVE  /\ Head(w) \in LinkFrames /\ Kind(Head(w)) \in Kinds
           /\ Shorter(w, Tail(w), Kind(Head(w))) /\ Tail(w) \in Seq(LinkFrames)
           /\ Good(HandleFrame(s, Head(w)).s)
           /\ Head(w).type = "SABME" <=> Kind(Head(w)) = "SABME"
           /\ Head(w).type = "DISC" <=> Kind(Head(w)) = "DISC"
           /\ Head(w).type = "UA" <=> Kind(Head(w)) = "UA"
           /\ Numbered(Head(w)) <=> Kind(Head(w)) \in {"NUM", "POLL"}
  <1>1. w \in Seq(LinkFrames) /\ Good(s)
    BY LinkParts
  <1>2. Head(w) \in LinkFrames /\ Tail(w) \in Seq(LinkFrames)
    BY <1>1, TailIndex
  <1>3. Kind(Head(w)) \in Kinds /\ Shorter(w, Tail(w), Kind(Head(w)))
    BY <1>1, ShorterTail
  <1>4. Good(HandleFrame(s, Head(w)).s)
    <2>1. s.state \in Transfer => TRUE
      OBVIOUS
    <2> QED  BY <1>1, <1>2, <2>1, ReadGood
  <1>5. /\ Head(w).type = "SABME" <=> Kind(Head(w)) = "SABME"
        /\ Head(w).type = "DISC" <=> Kind(Head(w)) = "DISC"
        /\ Head(w).type = "UA" <=> Kind(Head(w)) = "UA"
    BY DEF Kind
  <1>6. Numbered(Head(w)) <=> Kind(Head(w)) \in {"NUM", "POLL"}
    BY <1>2, KindType
  <1> QED  BY <1>2, <1>3, <1>4, <1>5, <1>6

\* Steps of s keep the link.
LEMMA SabmeHolds ==
    ASSUME NEW s, NEW t, NEW u, NEW w, Link(s, t, u, w), w # <<>>, Kind(Head(w)) = "SABME"
    PROVE  Holds(HandleFrame(s, Head(w)), t, u, w)
  <1> DEFINE c == HandleFrame(s, Head(w))
  <1>1. /\ Good(s) /\ Good(t) /\ u \in Seq(LinkFrames) /\ w \in Seq(LinkFrames)
        /\ Phase(s) \in Phases /\ Phase(t) \in Phases /\ Shape(u) /\ Shape(w)
        /\ Ctl(Phase(s), Phase(t), u, w) /\ DataInv(s, t, u, w) /\ DataInv(t, s, w, u)
    BY LinkParts
  <1>2. /\ Head(w) \in LinkFrames /\ Head(w).type = "SABME" /\ Good(c.s)
        /\ Shorter(w, Tail(w), "SABME") /\ Tail(w) \in Seq(LinkFrames)
    BY HeadRead
  <1>3. Zeroed(c.s) /\ c.s.vs = 0 /\ Filled(c.s) /\ Says(c, "UA") /\ c.up = <<>>
    BY <1>1, <1>2, SabmeRead
  <1> HIDE DEF c
  <1>4. /\ c.out \in Seq(LinkFrames) /\ Len(c.out) = 1 /\ Kind(c.out[1]) = "UA"
        /\ u \o c.out \in Seq(LinkFrames) /\ Grown(u, u \o c.out, "UA")
    BY <1>1, <1>3, OneMore
  <1>5. Ctl("up", Phase(t), u \o c.out, Tail(w))
    BY <1>1, <1>2, <1>4, ReadSabme
  <1>6. Phase(c.s) = "up"
    BY <1>3 DEF Zeroed
  <1>7. DataInv(c.s, t, u \o c.out, Tail(w)) /\ DataInv(t, c.s, Tail(w), u \o c.out)
    BY <1>1, <1>2, <1>3, <1>4, DataSabme
  <1>8. Link(c.s, t, u \o c.out, Tail(w))
    BY <1>2, <1>3, <1>4, <1>5, <1>6, <1>7, LinkMade
  <1> QED  BY <1>3, <1>8, NoneDelivered DEF c

LEMMA DiscHolds ==
    ASSUME NEW s, NEW t, NEW u, NEW w, Link(s, t, u, w), w # <<>>, Kind(Head(w)) = "DISC"
    PROVE  Holds(HandleFrame(s, Head(w)), t, u, w)
  <1> DEFINE c == HandleFrame(s, Head(w))
  <1>1. /\ Good(s) /\ u \in Seq(LinkFrames)
        /\ Phase(s) \in Phases /\ Phase(t) \in Phases /\ Shape(u) /\ Shape(w)
        /\ Ctl(Phase(s), Phase(t), u, w)
    BY LinkParts
  <1>2. /\ Head(w) \in LinkFrames /\ Head(w).type = "DISC" /\ Good(c.s)
        /\ Shorter(w, Tail(w), "DISC")
    BY HeadRead
  <1>3. /\ Phase(c.s) = "down" /\ Same(s, c.s) /\ c.up = <<>>
        /\ Phase(s) = "down" => Says(c, "DMF")
        /\ Phase(s) # "down" => Says(c, "UA")
    BY <1>1, <1>2, DiscRead
  <1> HIDE DEF c
  <1>4. ~Up(c.s) /\ Phase(c.s) # "calling"
    BY <1>3 DEF Up
  <1>5. CASE Phase(s) = "down"
    <2>1. Says(c, "DMF")
      BY <1>3, <1>5
    <2>2. Grown(u, u \o c.out, "DMF")
      BY <1>1, <2>1, OneMore
    <2>3. Ctl("down", Phase(t), u \o c.out, Tail(w))
      BY <1>1, <1>2, <1>5, <2>2, DownDisc
    <2>4. Link(c.s, t, u \o c.out, Tail(w))
      BY <1>2, <1>3, <1>4, <2>1, <2>3, LinkAsked
    <2> QED  BY <1>3, <2>4, NoneDelivered DEF c
  <1>6. CASE Phase(s) # "down"
    <2>1. Says(c, "UA")
      BY <1>3, <1>6
    <2>2. Grown(u, u \o c.out, "UA")
      BY <1>1, <2>1, OneMore
    <2>3. Ctl("down", Phase(t), u \o c.out, Tail(w))
      BY <1>1, <1>2, <1>6, <2>2, ReadDisc
    <2>4. Link(c.s, t, u \o c.out, Tail(w))
      BY <1>2, <1>3, <1>4, <2>1, <2>3, LinkAsked
    <2> QED  BY <1>3, <2>4, NoneDelivered DEF c
  <1> QED  BY <1>5, <1>6

\* A DM that asks for the link, or one that refuses it: no UA is behind it.
LEMMA NoneAwaited ==
    ASSUME NEW s, NEW t, NEW u, NEW w, Link(s, t, u, w), w # <<>>,
           Kind(Head(w)) \in {"DM", "DMF"}, Phase(s) # "calling"
    PROVE  ~Has(Tail(w), "UA")
  <1>1. Ctl(Phase(s), Phase(t), u, w) /\ Shorter(w, Tail(w), Kind(Head(w)))
    BY LinkParts, HeadRead
  <1>2. \A a \in {"DMF", "DM"} : ~Before(w, a, "UA")
    BY <1>1 DEF Ctl, Control, Order
  <1>3. ~Before(w, Kind(Head(w)), "UA")
    BY <1>2
  <1> QED  BY <1>1, <1>3 DEF Shorter

LEMMA DownHolds ==
    ASSUME NEW s, NEW t, NEW u, NEW w, Link(s, t, u, w), w # <<>>, Phase(s) = "down",
           Kind(Head(w)) \notin {"SABME", "DISC"}
    PROVE  Holds(HandleFrame(s, Head(w)), t, u, w)
  <1> DEFINE c == HandleFrame(s, Head(w))
             f == Head(w)
  <1>1. /\ Good(s) /\ u \in Seq(LinkFrames)
        /\ Phase(s) \in Phases /\ Phase(t) \in Phases /\ Shape(u) /\ Shape(w)
        /\ Ctl(Phase(s), Phase(t), u, w)
    BY LinkParts
  <1>2. /\ f \in LinkFrames /\ f.type \notin {"SABME", "DISC"} /\ Good(c.s)
        /\ Shorter(w, Tail(w), Kind(f)) /\ Kind(f) \in Kinds
    BY HeadRead
  <1>3. /\ Same(s, c.s) /\ c.up = <<>>
        /\ Kind(f) = "DM" => Phase(c.s) = "calling" /\ Says(c, "SABME")
        /\ Kind(f) \in {"UA", "DMF"} => Phase(c.s) = "down" /\ c.out = <<>>
        /\ Kind(f) = "POLL" => Phase(c.s) = "down" /\ Says(c, "DMF")
        /\ Kind(f) = "NUM" => Phase(c.s) = "down" /\ (c.out = <<>> \/ Says(c, "DM"))
    BY <1>1, <1>2, DownRead
  <1>4. Kind(f) = "DM" => ~Has(Tail(w), "UA")
    <2>1. Phase(s) # "calling"
      OBVIOUS
    <2> QED  BY <2>1, NoneAwaited
  <1>w. c = HandleFrame(s, Head(w)) /\ f = Head(w)
    OBVIOUS
  <1> HIDE DEF c, f
  <1>5. CASE Kind(f) = "DM"
    <2>1. Says(c, "SABME") /\ Phase(c.s) = "calling" /\ ~Up(c.s)
      BY <1>3, <1>5 DEF Up
    <2>2. Grown(u, u \o c.out, "SABME")
      BY <1>1, <2>1, OneMore
    <2>3. Ctl("calling", Phase(t), u \o c.out, Tail(w))
      BY <1>1, <1>2, <1>5, <2>2, DownDm
    <2>4. Link(c.s, t, u \o c.out, Tail(w))
      BY <1>2, <1>3, <1>4, <1>5, <2>1, <2>3, LinkAsked
    <2> QED  BY <1>3, <1>w, <2>4, NoneDelivered
  <1>6. CASE c.out = <<>> /\ Phase(c.s) = "down"
    <2>1. Holds(c, t, u, w)
      BY <1>2, <1>3, <1>6, ReadOnlyHolds
    <2> QED  BY <1>w, <2>1
  <1>7. CASE Kind(f) = "POLL"
    <2>1. Says(c, "DMF") /\ Phase(c.s) = "down" /\ ~Up(c.s)
      BY <1>3, <1>7 DEF Up
    <2>2. Grown(u, u \o c.out, "DMF")
      BY <1>1, <2>1, OneMore
    <2>3. Ctl("down", Phase(t), u \o c.out, Tail(w))
      BY <1>1, <1>2, <1>7, <2>2, DownPoll
    <2>4. Link(c.s, t, u \o c.out, Tail(w))
      BY <1>2, <1>3, <2>1, <2>3, LinkAsked
    <2> QED  BY <1>3, <1>w, <2>4, NoneDelivered
  <1>8. CASE Kind(f) = "NUM" /\ Says(c, "DM")
    <2>1. Says(c, "DM") /\ Phase(c.s) = "down" /\ ~Up(c.s)
      BY <1>3, <1>8 DEF Up
    <2>2. Grown(u, u \o c.out, "DM")
      BY <1>1, <2>1, OneMore
    <2>3. Ctl("down", Phase(t), u \o c.out, Tail(w))
      BY <1>1, <1>2, <1>8, <2>2, DownNum
    <2>4. Link(c.s, t, u \o c.out, Tail(w))
      BY <1>2, <1>3, <2>1, <2>3, LinkAsked
    <2> QED  BY <1>3, <1>w, <2>4, NoneDelivered
  <1>9. Kind(f) \in {"UA", "DMF", "DM", "NUM", "POLL"}
    BY <1>2, <1>w DEF Kinds
  <1> QED  BY <1>3, <1>5, <1>6, <1>7, <1>8, <1>9

LEMMA CallingHolds ==
    ASSUME NEW s, NEW t, NEW u, NEW w, Link(s, t, u, w), w # <<>>, Phase(s) = "calling",
           Kind(Head(w)) \notin {"SABME", "DISC"}
    PROVE  Holds(HandleFrame(s, Head(w)), t, u, w)
  <1> DEFINE c == HandleFrame(s, Head(w))
             f == Head(w)
  <1>1. /\ Good(s) /\ Good(t) /\ u \in Seq(LinkFrames) /\ w \in Seq(LinkFrames)
        /\ Phase(s) \in Phases /\ Phase(t) \in Phases /\ Shape(u) /\ Shape(w)
        /\ Ctl(Phase(s), Phase(t), u, w) /\ DataInv(s, t, u, w) /\ DataInv(t, s, w, u)
    BY LinkParts
  <1>2. /\ f \in LinkFrames /\ f.type \notin {"SABME", "DISC"} /\ Good(c.s)
        /\ Shorter(w, Tail(w), Kind(f)) /\ Kind(f) \in Kinds /\ Tail(w) \in Seq(LinkFrames)
    BY HeadRead
  <1>3. /\ c.up = <<>>
        /\ Kind(f) = "UA" => \E n : Started(c.s, n, c.out)
        /\ Kind(f) = "DMF" => Phase(c.s) = "down" /\ c.out = <<>> /\ Same(s, c.s)
        /\ Kind(f) \in {"DM", "NUM", "POLL"} =>
             Phase(c.s) = "calling" /\ c.out = <<>> /\ Same(s, c.s)
    BY <1>1, <1>2, CallingRead
  <1>w. c = HandleFrame(s, Head(w)) /\ f = Head(w)
    OBVIOUS
  <1> HIDE DEF c, f
  <1>4. CASE Kind(f) = "UA"
    <2>1. PICK n : Started(c.s, n, c.out)
      BY <1>3, <1>4
    <2>2. RunOf(c.out, 0, n, 0) /\ Filled(c.s) /\ Phase(c.s) = "up"
      BY <2>1 DEF Started, Zeroed
    <2>3. /\ c.out \in Seq(LinkFrames)
          /\ \A i \in 1 .. Len(c.out) : Kind(c.out[i]) = "NUM"
      BY <2>2, RunFacts
    <2>4. u \o c.out \in Seq(LinkFrames)
      BY <1>1, <2>3
    <2>5. Ctl("up", Phase(t), u \o c.out, Tail(w))
      <3>1. CASE c.out = <<>>
        <4>1. u \o c.out = u
          BY <1>1, <3>1
        <4>2. Ctl("up", Phase(t), u, Tail(w))
          BY <1>1, <1>2, <1>4, CallingUa0
        <4> QED  BY <4>1, <4>2
      <3>2. CASE c.out # <<>>
        <4>1. Grown(u, u \o c.out, "NUM")
          BY <1>1, <2>3, <3>2, GrownBy
        <4> QED  BY <1>1, <1>2, <1>4, <4>1, CallingUa1
      <3> QED  BY <3>1, <3>2
    <2>6. DataInv(c.s, t, u \o c.out, Tail(w)) /\ DataInv(t, c.s, Tail(w), u \o c.out)
      BY <1>1, <1>4, <1>w, <2>1, DataAnswer
    <2>7. Link(c.s, t, u \o c.out, Tail(w))
      BY <1>2, <2>2, <2>4, <2>5, <2>6, LinkMade
    <2> QED  BY <1>3, <1>w, <2>7, NoneDelivered
  <1>5. CASE Kind(f) = "DMF"
    <2>1. Phase(c.s) = "down" /\ c.out = <<>> /\ Same(s, c.s)
      BY <1>3, <1>5
    <2>2. Ctl("down", Phase(t), u, Tail(w))
      BY <1>1, <1>2, <1>5, CallingDmf
    <2>3. (Up(c.s) <=> Up(s)) /\ Phase(c.s) # "calling"
      BY <2>1 DEF Up
    <2>4. Link(c.s, t, u, Tail(w))
      BY <1>2, <1>w, <2>1, <2>2, <2>3, LinkRead
    <2>5. u \o c.out = u
      BY <1>1, <2>1
    <2> QED  BY <1>3, <1>w, <2>4, <2>5, NoneDelivered
  <1>6. CASE Kind(f) \in {"DM", "NUM", "POLL"}
    <2>1. Holds(c, t, u, w)
      BY <1>2, <1>3, <1>6, ReadOnlyHolds
    <2> QED  BY <1>w, <2>1
  <1>7. Kind(f) \in {"UA", "DMF", "DM", "NUM", "POLL"}
    BY <1>2, <1>w DEF Kinds
  <1> QED  BY <1>4, <1>5, <1>6, <1>7

LEMMA LeavingHolds ==
    ASSUME NEW s, NEW t, NEW u, NEW w, Link(s, t, u, w), w # <<>>, Phase(s) = "leaving",
           Kind(Head(w)) \notin {"SABME", "DISC"}
    PROVE  Holds(HandleFrame(s, Head(w)), t, u, w)
  <1> DEFINE c == HandleFrame(s, Head(w))
             f == Head(w)
  <1>1. /\ Good(s) /\ u \in Seq(LinkFrames)
        /\ Phase(s) \in Phases /\ Phase(t) \in Phases /\ Shape(u) /\ Shape(w)
        /\ Ctl(Phase(s), Phase(t), u, w)
    BY LinkParts
  <1>2. /\ f \in LinkFrames /\ f.type \notin {"SABME", "DISC"} /\ Good(c.s)
        /\ Shorter(w, Tail(w), Kind(f)) /\ Kind(f) \in Kinds
    BY HeadRead
  <1>3. /\ c.up = <<>> /\ c.out = <<>> /\ Same(s, c.s)
        /\ Kind(f) \in {"UA", "DMF"} => Phase(c.s) = "down"
        /\ Kind(f) \in {"DM", "NUM", "POLL"} => Phase(c.s) = "leaving"
    BY <1>1, <1>2, LeavingRead
  <1>w. c = HandleFrame(s, Head(w)) /\ f = Head(w)
    OBVIOUS
  <1> HIDE DEF c, f
  <1>4. CASE Kind(f) \in {"UA", "DMF"}
    <2>1. Phase(c.s) = "down"
      BY <1>3, <1>4
    <2>2. Ctl("down", Phase(t), u, Tail(w))
      BY <1>1, <1>2, <1>4, LeavingDone
    <2>3. (Up(c.s) <=> Up(s)) /\ Phase(c.s) # "calling"
      BY <2>1 DEF Up
    <2>4. Link(c.s, t, u, Tail(w))
      BY <1>2, <1>3, <1>w, <2>1, <2>2, <2>3, LinkRead
    <2>5. u \o c.out = u
      BY <1>1, <1>3
    <2> QED  BY <1>3, <1>w, <2>4, <2>5, NoneDelivered
  <1>5. CASE Kind(f) \in {"DM", "NUM", "POLL"}
    <2>1. Holds(c, t, u, w)
      BY <1>2, <1>3, <1>5, ReadOnlyHolds
    <2> QED  BY <1>w, <2>1
  <1>6. Kind(f) \in {"UA", "DMF", "DM", "NUM", "POLL"}
    BY <1>2, <1>w DEF Kinds
  <1> QED  BY <1>4, <1>5, <1>6

\* A numbered frame is answered by numbered frames.
LEMMA TakenKinds ==
    ASSUME NEW s, NEW f, NEW c, Taken(s, f, c)
    PROVE  /\ c.out \in Seq(LinkFrames) /\ Filled(c.s)
           /\ \A i \in 1 .. Len(c.out) : Kind(c.out[i]) = "NUM"
  <1>1. PICK m, n, q, v : Pushed(s, m, f.nr, n, q) /\ Replied(m, f, c.s, v) /\ c.out = q \o v
    BY DEF Taken
  <1>2. q \in Seq(LinkFrames) /\ \A i \in 1 .. Len(q) : Kind(q[i]) = "NUM"
    <2>1. RunOf(q, s.vs, n, s.vr)
      BY <1>1 DEF Pushed
    <2> QED  BY <2>1, RunFacts
  <1>3. v \in Seq(LinkFrames) /\ \A i \in 1 .. Len(v) : Kind(v[i]) = "NUM"
    BY <1>1, RepliedKinds
  <1>4. q \o v \in Seq(LinkFrames)
    BY <1>2, <1>3
  <1>5. \A i \in 1 .. Len(q \o v) : Kind((q \o v)[i]) = "NUM"
    <2> SUFFICES ASSUME NEW i \in 1 .. Len(q \o v)
                 PROVE  Kind((q \o v)[i]) = "NUM"
      OBVIOUS
    <2>1. \/ i \in 1 .. Len(q) /\ (q \o v)[i] = q[i]
          \/ i - Len(q) \in 1 .. Len(v) /\ (q \o v)[i] = v[i - Len(q)]
      BY <1>2, <1>3, CatIndex
    <2> QED  BY <1>2, <1>3, <2>1
  <1>6. Filled(c.s)
    BY <1>1 DEF Replied
  <1> QED  BY <1>1, <1>4, <1>5, <1>6

LEMMA UpHolds ==
    ASSUME NEW s, NEW t, NEW u, NEW w, Link(s, t, u, w), w # <<>>, Phase(s) = "up",
           Kind(Head(w)) \notin {"SABME", "DISC"}
    PROVE  Holds(HandleFrame(s, Head(w)), t, u, w)
  <1> DEFINE c == HandleFrame(s, Head(w))
             f == Head(w)
  <1>1. /\ Good(s) /\ Good(t) /\ Filled(s) /\ u \in Seq(LinkFrames) /\ w \in Seq(LinkFrames)
        /\ Phase(s) \in Phases /\ Phase(t) \in Phases /\ Shape(u) /\ Shape(w)
        /\ Ctl(Phase(s), Phase(t), u, w) /\ DataInv(s, t, u, w) /\ DataInv(t, s, w, u)
    BY LinkParts
  <1>2. /\ f \in LinkFrames /\ f.type \notin {"SABME", "DISC"} /\ Good(c.s)
        /\ Shorter(w, Tail(w), Kind(f)) /\ Kind(f) \in Kinds /\ Tail(w) \in Seq(LinkFrames)
        /\ Numbered(f) <=> Kind(f) \in {"NUM", "POLL"}
    BY HeadRead
  <1>3. Numbered(f) => InRange(f.nr, s.va, s.vs)
    <2>1. Window(s.va, s.vs, w)
      BY <1>1 DEF DataInv, Data1, Up
    <2>2. s.va \in SeqNos /\ s.vs \in SeqNos
      BY <1>1, EndFields
    <2> QED  BY <1>1, <2>1, <2>2, WindowAcked
  <1>4. /\ c.up \in Seq(Data)
        /\ Kind(f) = "UA" => Phase(c.s) = "up" /\ c.out = <<>> /\ Same(s, c.s)
        /\ Kind(f) \in {"DM", "DMF"} =>
             /\ Same(s, c.s)
             /\ \/ Phase(c.s) = "calling" /\ Says(c, "SABME")
                \/ Phase(c.s) = "up" /\ c.out = <<>>
        /\ Kind(f) \in {"NUM", "POLL"} => Taken(s, f, c) /\ Phase(c.s) = "up"
    BY <1>1, <1>2, <1>3, UpRead
  <1>5. Kind(f) \in {"DM", "DMF"} => ~Has(Tail(w), "UA")
    BY NoneAwaited
  <1>w. c = HandleFrame(s, Head(w)) /\ f = Head(w)
    OBVIOUS
  <1> HIDE DEF c, f
  <1>6. CASE Kind(f) \in {"NUM", "POLL"}
    <2>1. Taken(s, f, c) /\ Phase(c.s) = "up" /\ Up(s)
      BY <1>4, <1>6 DEF Up
    <2>2. /\ c.out \in Seq(LinkFrames) /\ Filled(c.s)
          /\ \A i \in 1 .. Len(c.out) : Kind(c.out[i]) = "NUM"
      BY <2>1, TakenKinds
    <2>3. u \o c.out \in Seq(LinkFrames)
      BY <1>1, <2>2
    <2>4. Ctl("up", Phase(t), u \o c.out, Tail(w))
      <3>1. CASE c.out = <<>>
        <4>1. u \o c.out = u
          BY <1>1, <3>1
        <4>2. Ctl(Phase(s), Phase(t), u, Tail(w))
          BY <1>1, <1>2, ReadOnly
        <4> QED  BY <4>1, <4>2
      <3>2. CASE c.out # <<>>
        <4>1. Grown(u, u \o c.out, "NUM")
          BY <1>1, <2>2, <3>2, GrownBy
        <4> QED  BY <1>1, <1>2, <1>6, <4>1, UpNum
      <3> QED  BY <3>1, <3>2
    <2>5. DataInv(c.s, t, u \o c.out, Tail(w)) /\ DataInv(t, c.s, Tail(w), u \o c.out)
      BY <1>1, <1>2, <1>6, <1>w, <2>1, DataTaken
    <2>6. Link(c.s, t, u \o c.out, Tail(w))
      BY <1>2, <2>1, <2>2, <2>3, <2>4, <2>5, LinkMade
    <2> QED  BY <1>4, <1>w, <2>6 DEF Holds
  <1>7. CASE /\ Kind(f) \in {"UA", "DM", "DMF"}
             /\ Phase(c.s) = "up" /\ c.out = <<>> /\ Same(s, c.s)
    <2>1. Link(c.s, t, u, Tail(w))
      BY <1>2, <1>7, LinkOnly
    <2>2. u \o c.out = u
      BY <1>1, <1>7
    <2> QED  BY <1>4, <1>w, <2>1, <2>2 DEF Holds
  <1>8. CASE /\ Kind(f) \in {"DM", "DMF"} /\ Same(s, c.s)
             /\ Phase(c.s) = "calling" /\ Says(c, "SABME")
    <2>1. Grown(u, u \o c.out, "SABME")
      BY <1>1, <1>8, OneMore
    <2>2. Ctl("calling", Phase(t), u \o c.out, Tail(w))
      BY <1>1, <1>2, <1>8, <2>1, UpDm
    <2>3. ~Up(c.s)
      BY <1>8 DEF Up
    <2>4. Link(c.s, t, u \o c.out, Tail(w))
      BY <1>2, <1>5, <1>8, <2>2, <2>3, LinkAsked
    <2> QED  BY <1>4, <1>w, <2>4 DEF Holds
  <1>9. Kind(f) \in {"UA", "DMF", "DM", "NUM", "POLL"}
    BY <1>2, <1>w DEF Kinds
  <1> QED  BY <1>4, <1>6, <1>7, <1>8, <1>9

\* Whatever s reads, the link keeps its invariant.
LEMMA ReceiveHolds ==
    ASSUME NEW s, NEW t, NEW u, NEW w, Link(s, t, u, w), w # <<>>
    PROVE  Holds(HandleFrame(s, Head(w)), t, u, w)
  <1>1. Phase(s) \in {"down", "calling", "leaving", "up"}
    BY LinkParts DEF Phases
  <1> QED  BY <1>1, SabmeHolds, DiscHolds, DownHolds, CallingHolds, LeavingHolds, UpHolds

\* The outcome c of a routine that reads nothing.
Keeps(c, t, u, w) == Link(c.s, t, u \o c.out, w)

LEMMA LoseHolds ==
    ASSUME NEW s, NEW t, NEW u, NEW w, Link(s, t, u, w), w # <<>>
    PROVE  Link(s, t, u, Tail(w))
  <1>1. Good(s) /\ Same(s, s)
    BY LinkParts DEF Same
  <1> QED  BY <1>1, LinkOnly

LEMMA SendHolds ==
    ASSUME NEW s, NEW t, NEW u, NEW w, Link(s, t, u, w), NEW d \in Data, SendL3(s, d).s # s
    PROVE  Keeps(SendL3(s, d), t, u, w)
  <1> DEFINE c == SendL3(s, d)
  <1>1. /\ Good(s) /\ Good(t) /\ Filled(s) /\ u \in Seq(LinkFrames) /\ w \in Seq(LinkFrames)
        /\ Phase(s) \in Phases /\ Phase(t) \in Phases /\ Shape(u) /\ Shape(w)
        /\ Ctl(Phase(s), Phase(t), u, w) /\ DataInv(s, t, u, w) /\ DataInv(t, s, w, u)
    BY LinkParts
  <1>2. /\ Good(c.s) /\ Phase(s) = "up" /\ Phase(c.s) = "up"
        /\ \E n \in {0, 1} : Pushed(s, c.s, s.va, n, c.out)
    BY <1>1, SendPushes
  <1> HIDE DEF c
  <1>3. PICK n \in {0, 1} : Pushed(s, c.s, s.va, n, c.out)
    BY <1>2
  <1>4. RunOf(c.out, s.vs, n, s.vr) /\ Filled(c.s)
    BY <1>3 DEF Pushed
  <1>5. c.out \in Seq(LinkFrames) /\ \A i \in 1 .. Len(c.out) : Kind(c.out[i]) = "NUM"
    BY <1>4, RunFacts
  <1>6. u \o c.out \in Seq(LinkFrames)
    BY <1>1, <1>5
  <1>7. Ctl("up", Phase(t), u \o c.out, w)
    <2>1. CASE c.out = <<>>
      <3>1. u \o c.out = u
        BY <1>1, <2>1
      <3> QED  BY <1>1, <1>2, <3>1
    <2>2. CASE c.out # <<>>
      <3>1. Grown(u, u \o c.out, "NUM")
        BY <1>1, <1>5, <2>2, GrownBy
      <3> QED  BY <1>1, <1>2, <3>1, SendNum
    <2> QED  BY <2>1, <2>2
  <1>8. Up(s) /\ Up(c.s)
    BY <1>2 DEF Up
  <1>9. DataInv(c.s, t, u \o c.out, w) /\ DataInv(t, c.s, w, u \o c.out)
    BY <1>1, <1>3, <1>8, DataSent
  <1>10. Link(c.s, t, u \o c.out, w)
    BY <1>1, <1>2, <1>4, <1>6, <1>7, <1>9, LinkMade
  <1> QED  BY <1>10 DEF Keeps, c

LEMMA EstablishHolds ==
    ASSUME NEW s, NEW t, NEW u, NEW w, Link(s, t, u, w), Phase(s) = "down", u = <<>>,
           \A i \in 1 .. Len(w) : w[i].type = "SABME"
    PROVE  Keeps(EstablishLink(s), t, u, w)
  <1> DEFINE c == EstablishLink(s)
  <1>1. /\ Good(s) /\ u \in Seq(LinkFrames) /\ w \in Seq(LinkFrames)
        /\ Phase(s) \in Phases /\ Phase(t) \in Phases /\ Shape(u) /\ Shape(w)
        /\ Ctl(Phase(s), Phase(t), u, w)
    BY LinkParts
  <1>2. Good(c.s) /\ Same(s, c.s) /\ Phase(c.s) = "calling" /\ Says(c, "SABME")
    BY <1>1, EstablishAsks
  <1> HIDE DEF c
  <1>3. \A a : ~Has(u, a)
    <2>1. Len(u) = 0
      OBVIOUS
    <2> QED  BY <2>1 DEF Has
  <1>4. \A i \in 1 .. Len(w) : Kind(w[i]) = "SABME"
    BY DEF Kind
  <1>5. \A a : Has(w, a) => a = "SABME"
    BY <1>4 DEF Has
  <1>6. Grown(u, u \o c.out, "SABME")
    BY <1>1, <1>2, OneMore
  <1>7. Ctl("calling", Phase(t), u \o c.out, w)
    BY <1>1, <1>3, <1>5, <1>6, AskUp
  <1>8. ~Has(w, "UA") /\ ~Up(c.s)
    BY <1>2, <1>5 DEF Up
  <1>9. Link(c.s, t, u \o c.out, w)
    BY <1>2, <1>7, <1>8, LinkAsked
  <1> QED  BY <1>9 DEF Keeps, c

LEMMA ReleaseHolds ==
    ASSUME NEW s, NEW t, NEW u, NEW w, Link(s, t, u, w), Phase(s) = "up"
    PROVE  Keeps(ReleaseLink(s), t, u, w)
  <1> DEFINE c == ReleaseLink(s)
  <1>1. /\ Good(s) /\ u \in Seq(LinkFrames)
        /\ Phase(s) \in Phases /\ Phase(t) \in Phases /\ Shape(u) /\ Shape(w)
        /\ Ctl(Phase(s), Phase(t), u, w)
    BY LinkParts
  <1>2. Good(c.s) /\ Same(s, c.s) /\ Phase(c.s) = "leaving" /\ Says(c, "DISC")
    BY <1>1, ReleaseAsks
  <1> HIDE DEF c
  <1>3. Grown(u, u \o c.out, "DISC")
    BY <1>1, <1>2, OneMore
  <1>4. Ctl("leaving", Phase(t), u \o c.out, w)
    BY <1>1, <1>3, AskDown
  <1>5. ~Up(c.s) /\ Phase(c.s) # "calling"
    BY <1>2 DEF Up
  <1>6. Link(c.s, t, u \o c.out, w)
    BY <1>2, <1>4, <1>5, LinkAsked
  <1> QED  BY <1>6 DEF Keeps, c

\* A timer expires when nothing is under way.
LEMMA RetryHolds ==
    ASSUME NEW s, NEW t, NEW u, NEW w, Link(s, t, u, w), u = <<>>, w = <<>>,
           NEW c, Good(c.s), Retried(s, c)
    PROVE  Keeps(c, t, u, w)
  <1>1. /\ Good(s) /\ Good(t) /\ Filled(s) /\ u \in Seq(LinkFrames) /\ w \in Seq(LinkFrames)
        /\ Phase(s) \in Phases /\ Phase(t) \in Phases /\ Shape(u) /\ Shape(w)
        /\ Ctl(Phase(s), Phase(t), u, w) /\ DataInv(s, t, u, w) /\ DataInv(t, s, w, u)
    BY LinkParts
  <1>2. \A a : ~Has(u, a) /\ ~Has(w, a)
    <2>1. Len(u) = 0 /\ Len(w) = 0
      OBVIOUS
    <2> QED  BY <2>1 DEF Has
  <1>3. Same(s, c.s)
    BY DEF Retried
  <1>4. CASE Phase(s) # "down" /\ Phase(c.s) = "calling" /\ Says(c, "SABME")
    <2>1. Grown(u, u \o c.out, "SABME")
      BY <1>1, <1>4, OneMore
    <2>2. Ctl("calling", Phase(t), u \o c.out, w)
      BY <1>1, <1>2, <1>4, <2>1, QuietCall
    <2>3. ~Up(c.s) /\ ~Has(w, "UA")
      BY <1>2, <1>4 DEF Up
    <2>4. Link(c.s, t, u \o c.out, w)
      BY <1>3, <1>4, <2>2, <2>3, LinkAsked
    <2> QED  BY <2>4 DEF Keeps
  <1>5. CASE Phase(s) = "leaving" /\ Phase(c.s) = "leaving" /\ Says(c, "DISC")
    <2>1. Grown(u, u \o c.out, "DISC")
      BY <1>1, <1>5, OneMore
    <2>2. Ctl("leaving", Phase(t), u \o c.out, w)
      BY <1>1, <1>2, <1>5, <2>1, QuietLeave
    <2>3. ~Up(c.s) /\ Phase(c.s) # "calling"
      BY <1>5 DEF Up
    <2>4. Link(c.s, t, u \o c.out, w)
      BY <1>3, <1>5, <2>2, <2>3, LinkAsked
    <2> QED  BY <2>4 DEF Keeps
  <1>6. CASE Phase(s) = "up" /\ Phase(c.s) = "up" /\ Polls(c, s.vr)
    <2>0. Says(c, "POLL")
      BY <1>6 DEF Polls
    <2>1. c.out[1].nr = s.vr /\ ~IsI(c.out[1]) /\ ~IsRej(c.out[1])
      BY <1>6 DEF Polls
    <2>a. c.out \in Seq(LinkFrames) /\ Len(c.out) = 1 /\ Kind(c.out[1]) = "POLL"
      BY <2>0 DEF Says
    <2>b. u \o c.out \in Seq(LinkFrames)
      BY <1>1, <2>a
    <2>c. Grown(u, u \o c.out, "POLL")
      BY <1>1, <2>0, OneMore
    <2>2. /\ c.out \in Seq(LinkFrames) /\ Len(c.out) = 1 /\ Kind(c.out[1]) = "POLL"
          /\ u \o c.out \in Seq(LinkFrames) /\ Grown(u, u \o c.out, "POLL")
      BY <2>a, <2>b, <2>c
    <2>3. Ctl("up", Phase(t), u \o c.out, w)
      BY <1>1, <1>2, <1>6, <2>2, QuietPoll
    <2>4. Up(s) /\ Up(c.s)
      BY <1>6 DEF Up
    <2>5. DataInv(c.s, t, u \o c.out, w) /\ DataInv(t, c.s, w, u \o c.out)
      BY <1>1, <1>3, <2>1, <2>2, <2>4, DataPoll
    <2>6. Filled(c.s)
      BY <1>1, <1>3, SameFilled
    <2>7. Link(c.s, t, u \o c.out, w)
      BY <1>1, <1>6, <2>2, <2>3, <2>5, <2>6, LinkMade
    <2> QED  BY <2>7 DEF Keeps
  <1> QED  BY <1>4, <1>5, <1>6 DEF Retried

\* The first link: nothing sent, nothing kept.
LEMMA FreshHolds == Link(Fresh, Fresh, <<>>, <<>>)
  <1> DEFINE e == <<>>
             s == Fresh
  <1>1. e \in Seq(LinkFrames) /\ Len(e) = 0
    OBVIOUS
  <1>2. Phase(s) = "down" /\ s.va = 0 /\ s.vs = 0
    BY DEF Fresh, Phase
  <1>3. Good(s)
    BY FreshGood
  <1>4. Filled(s)
    BY <1>2, ZeroFilled
  <1> HIDE DEF s
  <1>5. /\ \A a : ~Has(e, a) /\ ~Newest(e, a)
        /\ \A a, b : ~Before(e, a, b) /\ \A c : ~Third(e, a, b, c)
    BY DEF Has, Newest, Before, Third
  <1> HIDE DEF e
  <1>6. Control("down", "down", e, e)
    BY <1>5 DEF Control, LastFits, Present, Never, Order, Crossing
  <1>7. Ctl(Phase(s), Phase(s), e, e)
    BY <1>2, <1>6 DEF Ctl
  <1>8. DataInv(s, s, e, e)
    BY <1>2, <1>5 DEF DataInv, Data1, Data2, Data3, Up
  <1>9. Link(s, s, e, e)
    BY <1>1, <1>3, <1>4, <1>7, <1>8 DEF Link
  <1> QED  BY <1>9 DEF s, e

-----------------------------------------------------------------------------
(* The invariant of the link. *)

LinkTypes ==
    /\ end \in [Ends -> EndState]
    /\ wire \in [Ends -> Seq(LinkFrames)]
    /\ accepted \in [Ends -> Nat] /\ \A e \in Ends : accepted[e] <= MaxMessages[e]
    /\ givenUp \in [Ends -> SUBSET Data]
    /\ got \in [Ends -> Seq(Data)]

Joined(e) == Link(end[e], end[Other(e)], wire[Other(e)], wire[e])

LinkInv == LinkTypes /\ \A e \in Ends : Joined(e)

\* There are two ends.
LEMMA OtherEnd ==
    ASSUME NEW e \in Ends
    PROVE  Other(e) \in Ends /\ Other(e) # e /\ Other(Other(e)) = e
           /\ \A p \in Ends : p = e \/ p = Other(e)
  <1>1. IsFiniteSet(Ends) /\ Cardinality(Ends) = 2
    BY LinkAssumption
  <1>2. IsFiniteSet(Ends \ {e}) /\ Cardinality(Ends \ {e}) = 1
    BY <1>1, FS_RemoveElement
  <1>3. PICK o : Ends \ {e} = {o}
    BY <1>2, FS_Singleton
  <1>4. o \in Ends /\ o # e /\ \A p \in Ends : p = e \/ p = o
    BY <1>3
  <1>5. Other(e) = o
    BY <1>4 DEF Other
  <1>6. Other(o) = e
    BY <1>4 DEF Other
  <1> QED  BY <1>4, <1>5, <1>6

\* A step of one end: its state, the wire it reads, the wire it sends on.
LEMMA RunJoins ==
    ASSUME LinkInv, NEW e \in Ends, NEW c, NEW rest, Run(e, c, rest),
           Link(c.s, end[Other(e)], wire[Other(e)] \o c.out, rest)
    PROVE  /\ end' \in [Ends -> EndState] /\ wire' \in [Ends -> Seq(LinkFrames)]
           /\ \A p \in Ends : Joined(p)'
  <1> DEFINE o == Other(e)
             q == wire[Other(e)] \o c.out
  <1>1. /\ end \in [Ends -> EndState] /\ wire \in [Ends -> Seq(LinkFrames)]
    BY DEF LinkInv, LinkTypes
  <1>2. o \in Ends /\ o # e /\ Other(o) = e /\ \A p \in Ends : p = e \/ p = o
    BY OtherEnd
  <1>3. c.s \in EndState /\ q \in Seq(LinkFrames) /\ rest \in Seq(LinkFrames)
    BY LinkParts, EndFields
  <1>4. end' = [end EXCEPT ![e] = c.s]
    BY DEF Run
  <1>5. wire' = [wire EXCEPT ![e] = rest, ![o] = q]
    <2>1. wire' = [wire EXCEPT ![e] = rest, ![o] = @ \o c.out]
      BY DEF Run
    <2>2. [wire EXCEPT ![e] = rest][o] = wire[o]
      BY <1>1, <1>2
    <2> QED  BY <1>1, <1>2, <2>1, <2>2
  <1>6. Link(c.s, end[o], q, rest)
    OBVIOUS
  <1> HIDE DEF o, q
  <1>7. end' \in [Ends -> EndState] /\ end'[e] = c.s /\ end'[o] = end[o]
    BY <1>1, <1>2, <1>3, <1>4
  <1>8. wire' \in [Ends -> Seq(LinkFrames)] /\ wire'[e] = rest /\ wire'[o] = q
    BY <1>1, <1>2, <1>3, <1>5
  <1>9. Other(e) = o
    BY DEF o
  <1>10. Joined(e)'
    BY <1>6, <1>7, <1>8, <1>9 DEF Joined
  <1>11. Link(end[o], c.s, rest, q)
    BY <1>6, LinkTurned
  <1>12. Joined(o)'
    BY <1>2, <1>7, <1>8, <1>11 DEF Joined
  <1> QED  BY <1>2, <1>7, <1>8, <1>10, <1>12

\* What a restart forgets are messages.
LEMMA ForgottenData ==
    ASSUME NEW e, Good(end[e]), Filled(end[e]), NEW f
    PROVE  Forgotten(e, f) \subseteq Data
  <1> DEFINE s == end[e]
             window == {s.window[Plus(s.va, i)] : i \in 0 .. Outstanding(s) - 1}
  <1>1. /\ s.va \in SeqNos /\ s.vs \in SeqNos /\ s.backlog \in Seq(Data)
        /\ Ahead(s.va, s.vs) \in Nat /\ Ahead(s.va, s.vs) <= K /\ Outstanding(s) = Ahead(s.va, s.vs)
    BY EndFields DEF Outstanding
  <1>2. window \subseteq Data
    <2> SUFFICES ASSUME NEW i \in 0 .. Outstanding(s) - 1
                 PROVE  s.window[Plus(s.va, i)] \in Data
      OBVIOUS
    <2>1. i \in Nat /\ i < Ahead(s.va, s.vs) /\ i < Mod /\ i \in 0 .. Mod
      BY <1>1, WindowAssumption
    <2>2. Plus(s.va, i) \in SeqNos
      BY <1>1, <2>1, PlusType
    <2>3. Ahead(s.va, Plus(s.va, i)) = i
      BY <1>1, <2>1, WindowAssumption DEF Ahead, Plus, SeqNos
    <2> QED  BY <2>1, <2>2, <2>3 DEF Filled
  <1>3. ToSet(s.backlog) \subseteq Data
    BY <1>1 DEF ToSet
  <1>4. Forgotten(e, f) = IF f.type = "SABME" THEN window \cup ToSet(s.backlog)
                          ELSE IF f.type = "UA" /\ f.pf /\ s.state = "AWAITING_ESTABLISHMENT"
                               THEN window ELSE {}
    BY DEF Forgotten
  <1> HIDE DEF window
  <1> QED  BY <1>2, <1>3, <1>4

\* The invariant holds first, and every step keeps it.
LEMMA InitLinkInv == Init => LinkInv
  <1> SUFFICES ASSUME Init PROVE LinkInv
    OBVIOUS
  <1>1. Fresh \in EndState
    BY FreshGood DEF Good
  <1>2. <<>> \in Seq(LinkFrames) /\ <<>> \in Seq(Data) /\ {} \in SUBSET Data
    OBVIOUS
  <1>3. \A e \in Ends : MaxMessages[e] \in Nat
    BY LinkAssumption
  <1>4. LinkTypes
    BY <1>1, <1>2, <1>3 DEF Init, LinkTypes
  <1>5. \A e \in Ends : Joined(e)
    <2> SUFFICES ASSUME NEW e \in Ends PROVE Joined(e)
      OBVIOUS
    <2>1. Other(e) \in Ends
      BY OtherEnd
    <2>2. /\ end[e] = Fresh /\ end[Other(e)] = Fresh /\ wire[e] = <<>> /\ wire[Other(e)] = <<>>
      BY <2>1 DEF Init
    <2> QED  BY <2>2, FreshHolds DEF Joined
  <1> QED  BY <1>4, <1>5 DEF LinkInv

\* What layer 3 sees does not change.
LEMMA LayerSame ==
    ASSUME LinkInv, UNCHANGED <<accepted, givenUp, got>>
    PROVE  /\ accepted' \in [Ends -> Nat] /\ \A e \in Ends : accepted'[e] <= MaxMessages[e]
           /\ givenUp' \in [Ends -> SUBSET Data]
           /\ got' \in [Ends -> Seq(Data)]
  BY DEF LinkInv, LinkTypes

\* A routine that reads nothing and that layer 3 does not hear of.
LEMMA KeepsInv ==
    ASSUME LinkInv, NEW e \in Ends, NEW c, NEW rest, Run(e, c, rest), rest = wire[e],
           Keeps(c, end[Other(e)], wire[Other(e)], wire[e]), UNCHANGED <<accepted, givenUp, got>>
    PROVE  LinkInv'
  <1>1. Link(c.s, end[Other(e)], wire[Other(e)] \o c.out, rest)
    BY DEF Keeps
  <1>2. /\ end' \in [Ends -> EndState] /\ wire' \in [Ends -> Seq(LinkFrames)]
        /\ \A p \in Ends : Joined(p)'
    BY <1>1, RunJoins
  <1>3. /\ accepted' \in [Ends -> Nat] /\ \A p \in Ends : accepted'[p] <= MaxMessages[p]
        /\ givenUp' \in [Ends -> SUBSET Data]
        /\ got' \in [Ends -> Seq(Data)]
    BY LayerSame
  <1> QED  BY <1>2, <1>3 DEF LinkInv, LinkTypes

LEMMA EstablishInv ==
    ASSUME LinkInv, NEW e \in Ends, Establish(e)
    PROVE  LinkInv'
  <1> DEFINE s == end[e]
             w == wire[e]
             u == wire[Other(e)]
  <1>1. Link(s, end[Other(e)], u, w) /\ w \in Seq(LinkFrames)
    <2>1. Link(s, end[Other(e)], u, w)
      BY DEF LinkInv, Joined
    <2> QED  BY <2>1, LinkParts
  <1>2. Phase(s) = "down"
    BY DEF Establish, Phase
  <1>3. u = <<>> /\ \A i \in 1 .. Len(w) : w[i].type = "SABME"
    <2>1. u = <<>> /\ \A i \in DOMAIN w : w[i].type = "SABME"
      BY DEF Establish, Settled
    <2>2. DOMAIN w = 1 .. Len(w)
      BY <1>1
    <2> QED  BY <2>1, <2>2
  <1>4. Run(e, EstablishLink(end[e]), wire[e]) /\ UNCHANGED <<accepted, givenUp, got>>
    BY DEF Establish
  <1>5. Keeps(EstablishLink(s), end[Other(e)], u, w)
    BY <1>1, <1>2, <1>3, EstablishHolds
  <1> QED  BY <1>4, <1>5, KeepsInv

LEMMA ReleaseInv ==
    ASSUME LinkInv, NEW e \in Ends, Release(e)
    PROVE  LinkInv'
  <1>1. Link(end[e], end[Other(e)], wire[Other(e)], wire[e])
    BY DEF LinkInv, Joined
  <1>2. Phase(end[e]) = "up"
    BY DEF Release, Phase, Transfer
  <1>3. Run(e, ReleaseLink(end[e]), wire[e]) /\ UNCHANGED <<accepted, givenUp, got>>
    BY DEF Release
  <1>4. Keeps(ReleaseLink(end[e]), end[Other(e)], wire[Other(e)], wire[e])
    BY <1>1, <1>2, ReleaseHolds
  <1> QED  BY <1>3, <1>4, KeepsInv

LEMMA TimeoutInv ==
    ASSUME LinkInv, NEW e \in Ends, Timeout(e)
    PROVE  LinkInv'
  <1>1. Link(end[e], end[Other(e)], wire[Other(e)], wire[e]) /\ Good(end[e])
    <2>1. Link(end[e], end[Other(e)], wire[Other(e)], wire[e])
      BY DEF LinkInv, Joined
    <2> QED  BY <2>1, LinkParts
  <1>2. wire[e] = <<>> /\ wire[Other(e)] = <<>>
    BY OtherEnd DEF Timeout, Quiet
  <1>3. UNCHANGED <<accepted, givenUp, got>>
    BY DEF Timeout
  <1>4. ASSUME NEW c, Run(e, c, <<>>), Good(c.s), Retried(end[e], c)
        PROVE  LinkInv'
    <2>1. Keeps(c, end[Other(e)], wire[Other(e)], wire[e])
      BY <1>1, <1>2, <1>4, RetryHolds
    <2> QED  BY <1>2, <1>3, <1>4, <2>1, KeepsInv
  <1>5. CASE end[e].t200 /\ Run(e, PollTimer(end[e], {"T200"}), <<>>)
    <2>1. Retried(end[e], PollTimer(end[e], {"T200"})) /\ Good(PollTimer(end[e], {"T200"}).s)
      BY <1>1, <1>5, TimerRetries
    <2> QED  BY <1>4, <1>5, <2>1
  <1>6. CASE end[e].t203 /\ Run(e, PollTimer(end[e], {"T203"}), <<>>)
    <2>1. Retried(end[e], PollTimer(end[e], {"T203"})) /\ Good(PollTimer(end[e], {"T203"}).s)
      BY <1>1, <1>6, TimerRetries
    <2> QED  BY <1>4, <1>6, <2>1
  <1> QED  BY <1>5, <1>6 DEF Timeout

LEMMA SendInv ==
    ASSUME LinkInv, NEW e \in Ends, Send(e)
    PROVE  LinkInv'
  <1> DEFINE d == accepted[e] + 1
             c == SendL3(end[e], d)
  <1>1. Link(end[e], end[Other(e)], wire[Other(e)], wire[e])
    BY DEF LinkInv, Joined
  <1>2. /\ accepted[e] < MaxMessages[e] /\ c.s # end[e] /\ Run(e, c, wire[e])
        /\ accepted' = [accepted EXCEPT ![e] = @ + 1]
        /\ UNCHANGED <<givenUp, got>>
    BY DEF Send
  <1>3. accepted \in [Ends -> Nat] /\ \A p \in Ends : accepted[p] <= MaxMessages[p]
    BY DEF LinkInv, LinkTypes
  <1>4. MaxMessages[e] \in Nat /\ 1 .. MaxMessages[e] \subseteq Data
    BY LinkAssumption
  <1>5. d \in Data
    BY <1>2, <1>3, <1>4
  <1>6. Keeps(c, end[Other(e)], wire[Other(e)], wire[e])
    BY <1>1, <1>2, <1>5, SendHolds
  <1>7. /\ end' \in [Ends -> EndState] /\ wire' \in [Ends -> Seq(LinkFrames)]
        /\ \A p \in Ends : Joined(p)'
    BY <1>2, <1>6, RunJoins DEF Keeps
  <1>8. accepted' \in [Ends -> Nat] /\ \A p \in Ends : accepted'[p] <= MaxMessages[p]
    BY <1>2, <1>3, <1>4
  <1>9. givenUp' \in [Ends -> SUBSET Data] /\ got' \in [Ends -> Seq(Data)]
    BY <1>2 DEF LinkInv, LinkTypes
  <1> QED  BY <1>7, <1>8, <1>9 DEF LinkInv, LinkTypes

LEMMA ReceiveInv ==
    ASSUME LinkInv, NEW e \in Ends, Receive(e)
    PROVE  LinkInv'
  <1> DEFINE f == Head(wire[e])
             c == HandleFrame(end[e], f)
             o == Other(e)
  <1>1. Link(end[e], end[o], wire[o], wire[e]) /\ Good(end[e]) /\ Filled(end[e])
    <2>1. Link(end[e], end[o], wire[o], wire[e])
      BY DEF LinkInv, Joined
    <2> QED  BY <2>1, LinkParts
  <1>2. /\ wire[e] # <<>> /\ Run(e, c, Tail(wire[e]))
        /\ got' = [got EXCEPT ![o] = @ \o c.up]
        /\ givenUp' = [givenUp EXCEPT ![e] = @ \cup Forgotten(e, f)]
        /\ UNCHANGED accepted
    BY DEF Receive
  <1>3. Link(c.s, end[o], wire[o] \o c.out, Tail(wire[e])) /\ c.up \in Seq(Data)
    BY <1>1, <1>2, ReceiveHolds DEF Holds
  <1>4. Forgotten(e, f) \subseteq Data
    BY <1>1, ForgottenData
  <1> HIDE DEF f, c
  <1>5. /\ end' \in [Ends -> EndState] /\ wire' \in [Ends -> Seq(LinkFrames)]
        /\ \A p \in Ends : Joined(p)'
    BY <1>2, <1>3, RunJoins
  <1>6. o \in Ends
    BY OtherEnd
  <1>7. got \in [Ends -> Seq(Data)] /\ givenUp \in [Ends -> SUBSET Data]
        /\ accepted \in [Ends -> Nat] /\ \A p \in Ends : accepted[p] <= MaxMessages[p]
    BY DEF LinkInv, LinkTypes
  <1> HIDE DEF o
  <1>8. got' \in [Ends -> Seq(Data)]
    <2>1. got[o] \o c.up \in Seq(Data)
      BY <1>3, <1>6, <1>7
    <2> QED  BY <1>2, <1>6, <1>7, <2>1
  <1>9. givenUp' \in [Ends -> SUBSET Data]
    BY <1>2, <1>4, <1>7
  <1> QED  BY <1>2, <1>5, <1>7, <1>8, <1>9 DEF LinkInv, LinkTypes

LEMMA LoseInv ==
    ASSUME LinkInv, NEW e \in Ends, Lose(e)
    PROVE  LinkInv'
  <1> DEFINE o == Other(e)
  <1>1. wire[e] # <<>> /\ wire' = [wire EXCEPT ![e] = Tail(@)]
        /\ end' = end /\ UNCHANGED <<accepted, givenUp, got>>
    BY DEF Lose
  <1>2. Link(end[e], end[o], wire[o], wire[e])
    BY DEF LinkInv, Joined
  <1>3. Link(end[e], end[o], wire[o], Tail(wire[e]))
    BY <1>1, <1>2, LoseHolds
  <1>4. Link(end[o], end[e], Tail(wire[e]), wire[o])
    BY <1>3, LinkTurned
  <1>5. o \in Ends /\ o # e /\ Other(o) = e /\ \A p \in Ends : p = e \/ p = o
    BY OtherEnd
  <1>6. Tail(wire[e]) \in Seq(LinkFrames) /\ wire \in [Ends -> Seq(LinkFrames)]
    BY <1>3, LinkParts DEF LinkInv, LinkTypes
  <1>w. o = Other(e)
    OBVIOUS
  <1> HIDE DEF o
  <1>7. wire' \in [Ends -> Seq(LinkFrames)] /\ wire'[e] = Tail(wire[e]) /\ wire'[o] = wire[o]
    BY <1>1, <1>5, <1>6
  <1>8. Joined(e)'
    BY <1>1, <1>3, <1>7, <1>w DEF Joined
  <1>9. Joined(o)'
    BY <1>1, <1>4, <1>5, <1>7 DEF Joined
  <1>10. \A p \in Ends : Joined(p)'
    BY <1>5, <1>8, <1>9
  <1>11. /\ accepted' \in [Ends -> Nat] /\ \A p \in Ends : accepted'[p] <= MaxMessages[p]
         /\ givenUp' \in [Ends -> SUBSET Data]
         /\ got' \in [Ends -> Seq(Data)]
    BY <1>1, LayerSame
  <1>12. end' \in [Ends -> EndState]
    BY <1>1 DEF LinkInv, LinkTypes
  <1> QED  BY <1>7, <1>10, <1>11, <1>12 DEF LinkInv, LinkTypes

LEMMA NextLinkInv == LinkInv /\ [Next]_vars => LinkInv'
  <1> SUFFICES ASSUME LinkInv, [Next]_vars PROVE LinkInv'
    OBVIOUS
  <1>1. ASSUME NEW e \in Ends, Establish(e)
        PROVE  LinkInv'
    BY <1>1, EstablishInv
  <1>2. ASSUME NEW e \in Ends, Release(e)
        PROVE  LinkInv'
    BY <1>2, ReleaseInv
  <1>3. ASSUME NEW e \in Ends, Send(e)
        PROVE  LinkInv'
    BY <1>3, SendInv
  <1>4. ASSUME NEW e \in Ends, Receive(e)
        PROVE  LinkInv'
    BY <1>4, ReceiveInv
  <1>5. ASSUME NEW e \in Ends, Lose(e)
        PROVE  LinkInv'
    BY <1>5, LoseInv
  <1>6. ASSUME NEW e \in Ends, Timeout(e)
        PROVE  LinkInv'
    BY <1>6, TimeoutInv
  <1>7. CASE UNCHANGED vars
    BY <1>7 DEF vars, LinkInv, LinkTypes, Joined
  <1> QED  BY <1>1, <1>2, <1>3, <1>4, <1>5, <1>6, <1>7 DEF Next

\* What the invariant says of the properties.
LEMMA LinkInvTypes == LinkInv => TypeOK
  <1> SUFFICES ASSUME LinkInv PROVE TypeOK
    OBVIOUS
  <1>1. /\ end \in [Ends -> EndState] /\ wire \in [Ends -> Seq(LinkFrames)]
        /\ accepted \in [Ends -> Nat] /\ \A e \in Ends : accepted[e] <= MaxMessages[e]
        /\ givenUp \in [Ends -> SUBSET Data] /\ got \in [Ends -> Seq(Data)]
    BY DEF LinkInv, LinkTypes
  <1>2. \A e \in Ends : accepted[e] \in 0 .. MaxMessages[e]
    <2>1. \A e \in Ends : MaxMessages[e] \in Nat
      BY LinkAssumption
    <2> QED  BY <1>1, <2>1
  <1>3. \A e \in Ends : ToSet(got[e]) \subseteq Data
    BY <1>1 DEF ToSet
  <1>4. \A e \in Ends : \A i \in DOMAIN wire[e] : wire[e][i].nr \in SeqNos
    <2> SUFFICES ASSUME NEW e \in Ends, NEW i \in DOMAIN wire[e]
                 PROVE  wire[e][i].nr \in SeqNos
      OBVIOUS
    <2>1. wire[e] \in Seq(LinkFrames)
      BY <1>1
    <2>2. wire[e][i] \in LinkFrames
      BY <2>1
    <2> QED  BY <2>2, LinkFrameType
  <1> QED  BY <1>1, <1>2, <1>3, <1>4 DEF TypeOK

LEMMA LinkInvReject == LinkInv => NoFrameReject
  <1> SUFFICES ASSUME LinkInv, NEW e \in Ends, NEW i \in DOMAIN wire[e]
               PROVE  wire[e][i].type # "FRMR"
    BY DEF NoFrameReject
  <1>1. wire[e] \in Seq(LinkFrames)
    BY DEF LinkInv, LinkTypes
  <1>2. wire[e][i] \in LinkFrames
    BY <1>1
  <1> QED  BY <1>2, LinkFrameType

\* The entities keep their types on a link that loses frames, the frames
\* under way carry numbers, and what layer 3 sent, received or lost are
\* messages it may have sent, for every modulus, window and budget.
THEOREM LinkTypeCorrect == Spec => []TypeOK
  BY InitLinkInv, NextLinkInv, LinkInvTypes, PTL DEF Spec

\* Two entities of this code never find fault with each other's frames:
\* through losses, restarts, colliding SABMEs and DISCs, every N(R) arrives
\* inside the window of the end it acknowledges, so that no FRMR is sent,
\* for every modulus, window, retransmission limit, backlog and number of
\* messages, requests and losses.
THEOREM NeverRejected == Spec => []NoFrameReject
  BY InitLinkInv, NextLinkInv, LinkInvReject, PTL DEF Spec
=============================================================================
