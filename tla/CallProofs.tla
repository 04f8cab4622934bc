---------------------------- MODULE CallProofs -----------------------------
(***************************************************************************)
(* No call is left to wait for ever, no message clears an answered call at *)
(* one end, and frames of a call leave at its other end or not at all:     *)
(* what every message, command and timeout does to the legs, and what that *)
(* says of their states, timers and peers, of their data paths and of the  *)
(* table frames are switched by.                                           *)
(***************************************************************************)
EXTENDS SvcProofs

(***************************************************************************)
(* The inductive invariant, leg by leg.  A leg that waits has a timer      *)
(* running, unless it is the incoming leg of a call from a network, or the *)
(* leg of a user, called by a user, who was sent no SETUP; and until a     *)
(* mishap, legs are peers of each other and the peer of a leg that relies  *)
(* on it has its timer running.  A leg in the null state has no peer yet,  *)
(* so that clearing it, which frees it at once, leaves no other leg behind.*)
(***************************************************************************)
Relies(c) == c.state \in {"N3", "N6"} /\ c.timers = {}

AttendedAt(w, x) ==
    /\ w.calls[x].state = "N0" => w.calls[x].peer = NoPeer
    /\ \/ w.calls[x].state \in {"N0", "N10"} \/ w.calls[x].timers # {}
       \/ w.calls[x].state = "N3" /\ x[1] \in Nni
       \/ w.calls[x].state = "N6" /\ x[1] \notin Nni /\ w.calls[x].peer[1] \notin Nni

TogetherAt(w, x) ==
    LET y == w.calls[x].peer
    IN /\ y \in DOMAIN w.calls => w.calls[y].peer = x
       /\ Relies(w.calls[x]) => y \in DOMAIN w.calls /\ w.calls[y].timers # {}

Attended(w) == \A x \in DOMAIN w.calls : AttendedAt(w, x)
Together(w) == \A x \in DOMAIN w.calls : TogetherAt(w, x)

(***************************************************************************)
(* What a step does to the legs.                                           *)
(***************************************************************************)
AsWas(c, d) == d.peer = c.peer /\ d.state = c.state /\ d.timers = c.timers
Waiting(c) == c.state \notin {"N0", "N3", "N10"} /\ c.timers # {}

\* Of the legs X, those that are not gone wait; the others are as they were.
Moves(w, v, X) ==
    /\ Good(v)
    /\ DOMAIN v.calls \subseteq DOMAIN w.calls /\ DOMAIN w.calls \ X \subseteq DOMAIN v.calls
    /\ \A x \in DOMAIN v.calls : /\ v.calls[x].peer = w.calls[x].peer
                                 /\ IF x \in X THEN Waiting(v.calls[x]) ELSE AsWas(w.calls[x], v.calls[x])

\* The legs X are active.
Raises(w, v, X) ==
    /\ Good(v)
    /\ DOMAIN v.calls = DOMAIN w.calls
    /\ \A x \in DOMAIN v.calls : /\ v.calls[x].peer = w.calls[x].peer
                                 /\ IF x \in X THEN v.calls[x].state = "N10" ELSE AsWas(w.calls[x], v.calls[x])

\* Some of the legs X are new.
Enters(w, v, X) ==
    /\ Good(v)
    /\ DOMAIN w.calls \subseteq DOMAIN v.calls /\ DOMAIN v.calls \subseteq DOMAIN w.calls \cup X
    /\ \A x \in DOMAIN w.calls : AsWas(w.calls[x], v.calls[x])
    /\ \A x \in DOMAIN v.calls \ DOMAIN w.calls : AttendedAt(v, x) /\ TogetherAt(v, x)

\* The peer of a leg of X is of X too.
Closed(w, X) ==
    \A x \in X \cap DOMAIN w.calls : w.calls[x].peer \in DOMAIN w.calls => w.calls[x].peer \in X

\* No leg is left to wait by one that is gone, if it relies on that.
Spares(w, v, X) ==
    \A x \in X \cap DOMAIN w.calls :
        LET y == w.calls[x].peer
        IN y \in DOMAIN w.calls \ X => ~Relies(w.calls[y]) \/ x \in DOMAIN v.calls

\* No leg is left active by one that was active.
Tells(w, X) ==
    \A x \in X \cap DOMAIN w.calls :
        LET y == w.calls[x].peer
        IN y \in DOMAIN w.calls \ X => w.calls[x].state # "N10" \/ w.calls[y].state # "N10"

Unknown(w, X) == \A x \in DOMAIN w.calls : w.calls[x].peer \notin X

Steps(w, v) == \E X : Moves(w, v, X) \/ Raises(w, v, X) \/ Enters(w, v, X)

Orderly(w, v) ==
    \E X : \/ Moves(w, v, X) /\ Spares(w, v, X)
           \/ Raises(w, v, X) /\ Closed(w, X)
           \/ Enters(w, v, X) /\ Unknown(w, X)

Civil(w, v) ==
    \E X : \/ Moves(w, v, X) /\ Tells(w, X)
           \/ Raises(w, v, X)
           \/ Enters(w, v, X)

-----------------------------------------------------------------------------
LEMMA AttendedStays ==
    ASSUME NEW w, Good(w), Attended(w), NEW v, Steps(w, v)
    PROVE  Attended(v)
  <1>1. PICK X : Moves(w, v, X) \/ Raises(w, v, X) \/ Enters(w, v, X)
    BY DEF Steps
  <1> SUFFICES ASSUME NEW x \in DOMAIN v.calls PROVE AttendedAt(v, x)
    BY DEF Attended
  <1>2. x \in DOMAIN w.calls => AttendedAt(w, x)
    BY DEF Attended
  <1>3. CASE Moves(w, v, X)
    BY <1>2, <1>3 DEF Moves, AsWas, Waiting, AttendedAt
  <1>4. CASE Raises(w, v, X)
    BY <1>2, <1>4 DEF Raises, AsWas, AttendedAt
  <1>5. CASE Enters(w, v, X)
    BY <1>2, <1>5 DEF Enters, AsWas, AttendedAt
  <1>6. QED
    BY <1>1, <1>3, <1>4, <1>5

LEMMA TogetherStays ==
    ASSUME NEW w, Good(w), Together(w), NEW v, Orderly(w, v)
    PROVE  Together(v)
  <1>1. PICK X : \/ Moves(w, v, X) /\ Spares(w, v, X)
                 \/ Raises(w, v, X) /\ Closed(w, X)
                 \/ Enters(w, v, X) /\ Unknown(w, X)
    BY DEF Orderly
  <1> SUFFICES ASSUME NEW x \in DOMAIN v.calls PROVE TogetherAt(v, x)
    BY DEF Together
  <1> DEFINE y == w.calls[x].peer
  <1>2. x \in DOMAIN w.calls => TogetherAt(w, x)
    BY DEF Together
  <1>3. CASE Moves(w, v, X) /\ Spares(w, v, X)
    <2>1. x \in DOMAIN w.calls /\ v.calls[x].peer = y /\ (y \in DOMAIN v.calls => y \in DOMAIN w.calls)
      BY <1>3 DEF Moves
    <2>2. y \in DOMAIN v.calls => v.calls[y].peer = x
      BY <1>2, <1>3, <2>1 DEF Moves, TogetherAt
    <2>3. ASSUME Relies(v.calls[x]) PROVE y \in DOMAIN v.calls /\ v.calls[y].timers # {}
      <3>1. x \notin X /\ Relies(w.calls[x])
        BY <1>3, <2>3 DEF Moves, AsWas, Waiting, Relies
      <3>2. y \in DOMAIN w.calls /\ w.calls[y].timers # {} /\ w.calls[y].peer = x
        BY <1>2, <2>1, <3>1 DEF TogetherAt
      <3>3. y \in X => y \in DOMAIN v.calls
        BY <1>3, <2>1, <3>1, <3>2 DEF Spares
      <3> HIDE DEF y
      <3> QED  BY <1>3, <3>2, <3>3 DEF Moves, AsWas, Waiting
    <2> QED  BY <2>1, <2>2, <2>3 DEF TogetherAt
  <1>4. CASE Raises(w, v, X) /\ Closed(w, X)
    <2>1. x \in DOMAIN w.calls /\ v.calls[x].peer = y
      BY <1>4 DEF Raises
    <2>2. y \in DOMAIN v.calls => v.calls[y].peer = x
      BY <1>2, <1>4, <2>1 DEF Raises, TogetherAt
    <2>3. ASSUME Relies(v.calls[x]) PROVE y \in DOMAIN v.calls /\ v.calls[y].timers # {}
      <3>1. x \notin X /\ Relies(w.calls[x])
        BY <1>4, <2>3 DEF Raises, AsWas, Relies
      <3>2. y \in DOMAIN w.calls /\ w.calls[y].timers # {} /\ w.calls[y].peer = x
        BY <1>2, <2>1, <3>1 DEF TogetherAt
      <3>3. y \notin X
        BY <1>4, <2>1, <3>1, <3>2 DEF Closed
      <3> HIDE DEF y
      <3> QED  BY <1>4, <3>2, <3>3 DEF Raises, AsWas
    <2> QED  BY <2>1, <2>2, <2>3 DEF TogetherAt
  <1>5. CASE Enters(w, v, X) /\ Unknown(w, X)
    <2>1. CASE x \in DOMAIN w.calls
      <3>1. v.calls[x].peer = y /\ (y \in DOMAIN v.calls => y \in DOMAIN w.calls)
        BY <1>5, <2>1 DEF Enters, AsWas, Unknown
      <3>2. AsWas(w.calls[x], v.calls[x]) /\ (y \in DOMAIN w.calls => y \in DOMAIN v.calls /\ AsWas(w.calls[y], v.calls[y]))
        BY <1>5, <2>1 DEF Enters
      <3> HIDE DEF y
      <3> QED  BY <1>2, <2>1, <3>1, <3>2 DEF TogetherAt, AsWas, Relies, y
    <2>2. CASE x \notin DOMAIN w.calls
      BY <1>5, <2>2 DEF Enters
    <2> QED  BY <2>1, <2>2
  <1>6. QED
    BY <1>1, <1>3, <1>4, <1>5

-----------------------------------------------------------------------------
(***************************************************************************)
(* One step after another.                                                 *)
(***************************************************************************)
LEMMA MovesAgain ==
    ASSUME NEW w, NEW v, NEW u, NEW X, NEW Y, Moves(w, v, X), Moves(v, u, Y)
    PROVE  Moves(w, u, X \cup Y)
  <1>1. Good(u) /\ DOMAIN u.calls \subseteq DOMAIN w.calls /\ DOMAIN w.calls \ (X \cup Y) \subseteq DOMAIN u.calls
    BY DEF Moves
  <1>2. ASSUME NEW x \in DOMAIN u.calls
        PROVE  /\ u.calls[x].peer = w.calls[x].peer
               /\ IF x \in X \cup Y THEN Waiting(u.calls[x]) ELSE AsWas(w.calls[x], u.calls[x])
    <2>1. /\ v.calls[x].peer = w.calls[x].peer
          /\ IF x \in X THEN Waiting(v.calls[x]) ELSE AsWas(w.calls[x], v.calls[x])
      BY DEF Moves
    <2>2. /\ u.calls[x].peer = v.calls[x].peer
          /\ IF x \in Y THEN Waiting(u.calls[x]) ELSE AsWas(v.calls[x], u.calls[x])
      BY DEF Moves
    <2> QED  BY <2>1, <2>2 DEF Waiting, AsWas
  <1>3. QED
    BY <1>1, <1>2 DEF Moves

LEMMA RaisesThenMoves ==
    ASSUME NEW w, NEW v, NEW u, NEW X, Raises(w, v, X)
    PROVE  /\ Moves(v, u, {}) => Raises(w, u, X)
           /\ Moves(v, u, X) => Moves(w, u, X)
           /\ Moves(u, w, {}) => Raises(u, v, X)
  BY DEF Moves, Raises, AsWas

LEMMA MovesNone ==
    ASSUME NEW w, NEW v, Good(v), DOMAIN v.calls = DOMAIN w.calls,
           \A x \in DOMAIN w.calls : AsWas(w.calls[x], v.calls[x])
    PROVE  Moves(w, v, {})
  BY DEF Moves, AsWas

LEMMA MovesOne ==
    ASSUME NEW w, NEW x \in DOMAIN w.calls, NEW v, Good(v), ButFor(w, v, x),
           v.calls[x].peer = w.calls[x].peer, Waiting(v.calls[x])
    PROVE  Moves(w, v, {x})
  BY DEF Moves, ButFor, AsWas

LEMMA RaisesOne ==
    ASSUME NEW w, NEW x \in DOMAIN w.calls, NEW v, Good(v), ButFor(w, v, x),
           v.calls[x].peer = w.calls[x].peer, v.calls[x].state = "N10"
    PROVE  Raises(w, v, {x})
  BY DEF Raises, ButFor, AsWas

\* A leg that is not there may be counted or not.
LEMMA MovesThose ==
    ASSUME NEW w, NEW v, NEW X, NEW Y, Moves(w, v, X), X \cap DOMAIN w.calls = Y \cap DOMAIN w.calls
    PROVE  Moves(w, v, Y)
  <1>1. DOMAIN w.calls \ Y \subseteq DOMAIN v.calls
    BY DEF Moves
  <1>2. \A x \in DOMAIN v.calls : x \in X <=> x \in Y
    BY DEF Moves
  <1>3. QED
    BY <1>1, <1>2 DEF Moves

-----------------------------------------------------------------------------
(***************************************************************************)
(* The data path, waiting and clearing.                                    *)
(***************************************************************************)
LEMMA PathSetMoves ==
    ASSUME NEW w, Good(w), NEW x, NEW there \in BOOLEAN
    PROVE  Moves(w, SetPath(w, x, there), {})
  <1> DEFINE v == SetPath(w, x, there)
             c == [y \in DOMAIN w.calls |-> IF y \in {x, w.calls[x].peer} THEN [w.calls[y] EXCEPT !.path = there] ELSE w.calls[y]]
  <1>1. Good(v) /\ DOMAIN v.calls = DOMAIN w.calls
    BY PathSet DEF Sheds
  <1>2. v = [w EXCEPT !.calls = c]
    BY DEF SetPath
  <1>3. v.calls = c
    <2> HIDE DEF v, c
    <2> QED  BY <1>2 DEF Good
  <1>4. ASSUME NEW y \in DOMAIN w.calls PROVE AsWas(w.calls[y], c[y])
    <2>1. c[y] = [w.calls[y] EXCEPT !.path = there] \/ c[y] = w.calls[y]
      OBVIOUS
    <2>2. IsLeg(w.calls[y])
      BY DEF Good, LegsTyped
    <2> HIDE DEF c
    <2> QED  BY <2>1, <2>2 DEF AsWas, IsLeg
  <1> HIDE DEF v, c
  <1>5. Moves(w, v, {})
    BY <1>1, <1>3, <1>4, MovesNone
  <1>6. QED
    BY <1>5 DEF v

LEMMA SameCalls ==
    ASSUME NEW w, Good(w), NEW v, Good(v), v.calls = w.calls
    PROVE  Moves(w, v, {})
  BY MovesNone DEF AsWas

LEMMA PathMoves ==
    ASSUME NEW w, Good(w), NEW x
    PROVE  Moves(w, CreateDataPvcs(w, x), {}) /\ Moves(w, DestroyDataPvcs(w, x), {})
  <1>1. ASSUME NEW t, NEW there \in BOOLEAN PROVE Moves(w, SetPath([w EXCEPT !.tab = t], x, there), {})
    <2> DEFINE v == [w EXCEPT !.tab = t]
    <2>1. Good(v) /\ v.calls = w.calls
      <3>1. Good(v)
        BY Retabled DEF Sheds
      <3> QED  BY <3>1 DEF Good
    <2> HIDE DEF v
    <2>2. Moves(w, v, {}) /\ Moves(v, SetPath(v, x, there), {})
      BY <2>1, SameCalls, PathSetMoves
    <2>3. Moves(w, SetPath(v, x, there), {})
      <3>1. Moves(w, SetPath(v, x, there), {} \cup {})
        BY <2>2, MovesAgain
      <3> QED  BY <3>1
    <2> QED  BY <2>3 DEF v
  <1>2. Moves(w, w, {})
    BY SameCalls
  <1> DEFINE t1 == AddEntry(AddEntry(w.tab, NearEnd(w, x), FarEnd(w, x)), FarEnd(w, x), NearEnd(w, x))
             t2 == DelEntries(w.tab, {NearEnd(w, x), FarEnd(w, x)})
  <1>3. CreateDataPvcs(w, x) = w \/ CreateDataPvcs(w, x) = SetPath([w EXCEPT !.tab = t1], x, TRUE)
    BY Zenon DEF CreateDataPvcs
  <1>4. DestroyDataPvcs(w, x) = w \/ DestroyDataPvcs(w, x) = SetPath([w EXCEPT !.tab = t2], x, FALSE)
    BY Zenon DEF DestroyDataPvcs
  <1> HIDE DEF t1, t2
  <1>5. QED
    BY <1>1, <1>2, <1>3, <1>4

LEMMA AwaitMoves ==
    ASSUME NEW w, Good(w), NEW x \in DOMAIN w.calls, NEW state \in LegStates \ {"N0", "N3", "N10"},
           NEW timers \in SUBSET Timers, timers # {}
    PROVE  Moves(w, Await(w, x, state, timers), {x}) /\ x \in DOMAIN Await(w, x, state, timers).calls
  <1> DEFINE v == Await(w, x, state, timers)
  <1>1. Good(v)
    BY Awaits DEF Sheds
  <1>2. ButFor(w, v, x)
    BY DEF ButFor, Good, Await
  <1>3. v.calls[x].peer = w.calls[x].peer /\ Waiting(v.calls[x])
    BY DEF Good, LegsTyped, Await, IsLeg, Waiting
  <1> HIDE DEF v
  <1>4. Moves(w, v, {x}) /\ x \in DOMAIN v.calls
    BY <1>1, <1>2, <1>3, MovesOne DEF ButFor
  <1>5. QED
    BY <1>4 DEF v

LEMMA GivenIsAsWas ==
    ASSUME NEW w, Good(w), NEW x \in DOMAIN w.calls
    PROVE  Moves(w, Given(w, x), {})
  <1> DEFINE v == Given(w, x)
  <1>1. Good(v) /\ DOMAIN v.calls = DOMAIN w.calls
    BY Gives
  <1>2. \A y \in DOMAIN w.calls : y # x => v.calls[y] = w.calls[y]
    BY DEF Good, Given
  <1>3. AsWas(w.calls[x], v.calls[x])
    BY DEF Good, LegsTyped, IsLeg, Given, AsWas
  <1> HIDE DEF v
  <1>4. Moves(w, v, {})
    BY <1>1, <1>2, <1>3, MovesNone DEF AsWas
  <1>5. QED
    BY <1>4 DEF v

LEMMA FreeMoves ==
    ASSUME NEW w, Good(w), NEW x \in DOMAIN w.calls
    PROVE  Moves(w, FreeCall(w, x), {x})
  <1> DEFINE w1 == Given(w, x)
             w2 == DestroyDataPvcs(w1, x)
             c == [y \in DOMAIN w2.calls \ {x} |-> w2.calls[y]]
             v == [w2 EXCEPT !.calls = Restrict(@, DOMAIN @ \ {x})]
  <1>1. FreeCall(w, x) = v
    BY Zenon DEF FreeCall, Given
  <1>2. Good(v)
    BY <1>1, CallFreed DEF Sheds
  <1>3. v = [w2 EXCEPT !.calls = c]
    BY DEF Restrict
  <1>4. Moves(w, w1, {})
    BY GivenIsAsWas
  <1>5. Moves(w1, w2, {})
    <2> HIDE DEF w1
    <2> QED  BY <1>4, PathMoves DEF Moves
  <1> HIDE DEF w1, w2
  <1>6. v.calls = c
    <2> HIDE DEF c, v
    <2> QED  BY <1>3, <1>5 DEF Good, Moves
  <1>7. Moves(w2, v, {x})
    <2> HIDE DEF v
    <2>1. DOMAIN v.calls = DOMAIN w2.calls \ {x} /\ \A y \in DOMAIN v.calls : v.calls[y] = w2.calls[y]
      BY <1>6
    <2> QED  BY <1>2, <2>1 DEF Moves, AsWas
  <1> HIDE DEF v
  <1>8. Moves(w, w2, {} \cup {})
    BY <1>4, <1>5, MovesAgain
  <1>9. Moves(w, v, ({} \cup {}) \cup {x})
    BY <1>7, <1>8, MovesAgain
  <1>10. QED
    BY <1>1, <1>9

LEMMA ClearMoves ==
    ASSUME NEW w, Good(w), NEW x \in DOMAIN w.calls
    PROVE  /\ Moves(w, ClearBeforeActive(w, x), {x}) /\ Moves(w, NniClear(w, x), {x}) /\ Moves(w, Clear(w, x), {x})
           /\ w.calls[x].state # "N0" => /\ x \in DOMAIN ClearBeforeActive(w, x).calls
                                         /\ x \in DOMAIN NniClear(w, x).calls /\ x \in DOMAIN Clear(w, x).calls
  <1> DEFINE w1 == DestroyDataPvcs(w, x)
             s == w.calls[x].state
  <1>1. Moves(w, w1, {})
    BY PathMoves
  <1>2. /\ \/ s # "N0" /\ ClearBeforeActive(w, x) = Await(w1, x, "N12", {"T305"})
           \/ s = "N0" /\ ClearBeforeActive(w, x) = FreeCall(w1, x)
           \/ s # "N0" /\ ClearBeforeActive(w, x) = Await(w1, x, "N19", {"T308"})
        /\ \/ s = "N0" /\ NniClear(w, x) = FreeCall(w1, x)
           \/ s # "N0" /\ NniClear(w, x) = Await(w1, x, "N11", {"T308"})
    <2>1. s = "N10" => s # "N0"
      OBVIOUS
    <2> QED  BY <2>1, Zenon DEF ClearBeforeActive, NniClear
  <1> HIDE DEF w1, s
  <1>3. Good(w1) /\ x \in DOMAIN w1.calls
    BY <1>1 DEF Moves
  <1>4. /\ Moves(w1, Await(w1, x, "N12", {"T305"}), {x}) /\ x \in DOMAIN Await(w1, x, "N12", {"T305"}).calls
        /\ Moves(w1, Await(w1, x, "N19", {"T308"}), {x}) /\ x \in DOMAIN Await(w1, x, "N19", {"T308"}).calls
        /\ Moves(w1, Await(w1, x, "N11", {"T308"}), {x}) /\ x \in DOMAIN Await(w1, x, "N11", {"T308"}).calls
    BY <1>3, AwaitMoves DEF LegStates, Timers
  <1>5. Moves(w1, FreeCall(w1, x), {x})
    BY <1>3, FreeMoves
  <1>6. \A v : Moves(w1, v, {x}) => Moves(w, v, {x})
    <2> TAKE v
    <2> HAVE Moves(w1, v, {x})
    <2>1. Moves(w, v, {} \cup {x})
      BY <1>1, MovesAgain
    <2> QED  BY <2>1
  <1>7. /\ Moves(w, ClearBeforeActive(w, x), {x}) /\ Moves(w, NniClear(w, x), {x})
        /\ s # "N0" => x \in DOMAIN ClearBeforeActive(w, x).calls /\ x \in DOMAIN NniClear(w, x).calls
    BY <1>2, <1>4, <1>5, <1>6
  <1>8. QED
    BY <1>7 DEF Clear, s

LEMMA MovesAfter ==
    ASSUME NEW w, NEW v, NEW u, NEW X, Moves(w, v, {}), Moves(v, u, X)
    PROVE  Moves(w, u, X)
  <1>1. Moves(w, u, {} \cup X)
    BY MovesAgain
  <1>2. QED
    BY <1>1

LEMMA ThenFreed ==
    ASSUME NEW w, NEW v, NEW X, Moves(w, v, X), NEW x \in DOMAIN v.calls
    PROVE  Moves(w, FreeCall(v, x), X \cup {x})
  <1>1. Moves(v, FreeCall(v, x), {x})
    BY FreeMoves DEF Moves
  <1>2. QED
    BY <1>1, MovesAgain

\* A leg and its peer.
Both(w, x) == {x, w.calls[x].peer}

LEMMA BothAfter ==
    ASSUME NEW w, NEW v, NEW X, Moves(w, v, X), NEW x \in DOMAIN v.calls
    PROVE  Both(v, x) = Both(w, x)
  BY DEF Moves, Both

LEMMA ForwardMoves ==
    ASSUME NEW w, Good(w), NEW x \in DOMAIN w.calls
    PROVE  Moves(w, ForwardClearing(w, x), {w.calls[x].peer}) /\ x \in DOMAIN ForwardClearing(w, x).calls
  <1> DEFINE y == w.calls[x].peer
             w1 == DestroyDataPvcs(w, y)
  <1>1. CASE HasPeer(w, x)
    <2>1. y \in DOMAIN w.calls
      BY <1>1 DEF HasPeer
    <2>2. Moves(w, w1, {})
      BY PathMoves
    <2>3. ForwardClearing(w, x) = Clear(w1, y)
      BY <1>1, Zenon DEF ForwardClearing
    <2> HIDE DEF w1, y
    <2>4. Moves(w1, Clear(w1, y), {y})
      BY <2>1, <2>2, ClearMoves DEF Moves
    <2> QED  BY <2>2, <2>3, <2>4, MovesAfter, Forwarded DEF y
  <1>2. CASE ~HasPeer(w, x)
    <2>1. ForwardClearing(w, x) = w
      BY <1>2, Zenon DEF ForwardClearing
    <2>2. Moves(w, w, {}) /\ {} \cap DOMAIN w.calls = {y} \cap DOMAIN w.calls
      BY <1>2, SameCalls DEF HasPeer
    <2>3. Moves(w, w, {y})
      BY <2>2, MovesThose
    <2> QED  BY <2>1, <2>3
  <1>3. QED
    BY <1>1, <1>2

LEMMA DropMoves ==
    ASSUME NEW w, Good(w), NEW x \in DOMAIN w.calls
    PROVE  Moves(w, NniDrop(w, x), Both(w, x))
  <1> DEFINE w1 == DestroyDataPvcs(w, x)
             w2 == ForwardClearing(w1, x)
  <1>1. NniDrop(w, x) = FreeCall(w2, x)
    BY DEF NniDrop
  <1>2. Moves(w, w1, {}) /\ Good(w1) /\ x \in DOMAIN w1.calls /\ w1.calls[x].peer = w.calls[x].peer
    BY PathMoves DEF Moves, AsWas
  <1> HIDE DEF w1
  <1>3. Moves(w1, w2, {w.calls[x].peer}) /\ x \in DOMAIN w2.calls
    BY <1>2, ForwardMoves
  <1> HIDE DEF w2
  <1>4. Moves(w, FreeCall(w2, x), {w.calls[x].peer} \cup {x})
    BY <1>2, <1>3, MovesAfter, ThenFreed
  <1>5. {w.calls[x].peer} \cup {x} = Both(w, x)
    BY DEF Both
  <1>6. QED
    BY <1>1, <1>4, <1>5

-----------------------------------------------------------------------------
(***************************************************************************)
(* Timers.                                                                 *)
(***************************************************************************)
\* What is done to the peer first, then to the leg itself.
LEMMA PeerThenFreed ==
    ASSUME NEW w, Good(w), NEW x \in DOMAIN w.calls, NEW w2, Moves(w, w2, {}), NEW u,
           HasPeer(w, x) => Moves(w2, u, {w.calls[x].peer}), ~HasPeer(w, x) => u = w2
    PROVE  Moves(w, FreeCall(u, x), Both(w, x))
  <1> DEFINE y == w.calls[x].peer
  <1>1. y # x
    BY DEF Good, LegsTyped
  <1>2. Moves(w, u, {y})
    <2>1. CASE HasPeer(w, x)
      BY <2>1, MovesAfter
    <2>2. CASE ~HasPeer(w, x)
      <3>1. {} \cap DOMAIN w.calls = {y} \cap DOMAIN w.calls
        BY <2>2 DEF HasPeer
      <3> HIDE DEF y
      <3> QED  BY <2>2, <3>1, MovesThose
    <2> QED  BY <2>1, <2>2
  <1>3. x \in DOMAIN u.calls
    BY <1>1, <1>2 DEF Moves
  <1>4. Moves(w, FreeCall(u, x), {y} \cup {x})
    BY <1>2, <1>3, ThenFreed
  <1>5. {y} \cup {x} = Both(w, x)
    BY DEF Both
  <1>6. QED
    BY <1>4, <1>5

LEMMA GiveUpMoves ==
    ASSUME NEW w, Good(w), NEW x \in DOMAIN w.calls
    PROVE  Moves(w, GiveUpSetup(w, x), Both(w, x)) /\ Moves(w, GiveUpRelease(w, x), Both(w, x))
  <1> DEFINE y == w.calls[x].peer
             w1 == DestroyDataPvcs(w, x)
             w2 == DestroyDataPvcs(w1, y)
             told == Await(w2, y, "N11", w2.calls[y].timers \cup {"T308"})
             w3 == IF ~HasPeer(w, x) THEN w1 ELSE IF y[1] \in Nni THEN told ELSE FreeCall(w2, y)
             w4 == IF HasPeer(w, x) THEN FreeCall(w2, y) ELSE w1
  <1>1. GiveUpSetup(w, x) = FreeCall(w3, x) /\ GiveUpRelease(w, x) = FreeCall(w4, x)
    BY Zenon DEF GiveUpSetup, GiveUpRelease
  <1>2. Moves(w, w1, {})
    BY PathMoves
  <1>3. Moves(w1, w2, {})
    <2> HIDE DEF w1
    <2> QED  BY <1>2, PathMoves DEF Moves
  <1>4. CASE ~HasPeer(w, x)
    <2>1. w3 = w1 /\ w4 = w1
      BY <1>4
    <2> HIDE DEF w1, w3, w4
    <2> QED  BY <1>1, <1>2, <1>4, <2>1, PeerThenFreed
  <1>5. CASE HasPeer(w, x)
    <2>1. w4 = FreeCall(w2, y) /\ (w3 = told \/ w3 = FreeCall(w2, y))
      BY <1>5
    <2> HIDE DEF w1, w2, w3, w4
    <2>2. Moves(w, w2, {})
      BY <1>2, <1>3, MovesAfter
    <2>3. Good(w2) /\ y \in DOMAIN w2.calls
      BY <1>5, <2>2 DEF Moves, HasPeer
    <2>4. w2.calls[y].timers \cup {"T308"} \in SUBSET Timers /\ w2.calls[y].timers \cup {"T308"} # {}
      BY <2>3 DEF Good, LegsTyped, IsLeg, Timers
    <2>5. Moves(w2, told, {y})
      <3>1. "N11" \in LegStates \ {"N0", "N3", "N10"}
        BY DEF LegStates
      <3> QED  BY <2>3, <2>4, <3>1, AwaitMoves
    <2>6. Moves(w2, FreeCall(w2, y), {y})
      BY <2>3, FreeMoves
    <2> HIDE DEF told
    <2> QED  BY <1>1, <1>5, <2>1, <2>2, <2>5, <2>6, PeerThenFreed
  <1>6. QED
    BY <1>4, <1>5

\* v is w with one leg's timer stopped, which is no matter if it goes or waits.
LEMMA StoppedThen ==
    ASSUME NEW w, NEW x \in DOMAIN w.calls, NEW v, ButFor(w, v, x), v.calls[x].peer = w.calls[x].peer,
           NEW u, NEW X, x \in X, Moves(v, u, X)
    PROVE  Moves(w, u, X)
  BY DEF Moves, ButFor, AsWas

LEMMA NoConnectMoves ==
    ASSUME NEW w, Good(w), NEW x \in DOMAIN w.calls
    PROVE  \/ Moves(w, NoConnect(w, x), Both(w, x))
           \/ Moves(w, NoConnect(w, x), {x}) /\ x \in DOMAIN NoConnect(w, x).calls
  <1> DEFINE y == w.calls[x].peer
             w1 == IF HasPeer(w, x) THEN ClearBeforeActive(w, y) ELSE w
  <1>1. CASE x[1] \in Nni
    <2>1. NoConnect(w, x) = Await(w, x, "N11", w.calls[x].timers \cup {"T308"})
      BY <1>1, Zenon DEF NoConnect
    <2>2. w.calls[x].timers \cup {"T308"} \in SUBSET Timers /\ "N11" \in LegStates \ {"N0", "N3", "N10"}
      BY DEF Good, LegsTyped, IsLeg, Timers, LegStates
    <2> QED  BY <2>1, <2>2, AwaitMoves
  <1>2. CASE x[1] \notin Nni
    <2>1. NoConnect(w, x) = ClearBeforeActive(w1, x)
      BY <1>2, Zenon DEF NoConnect
    <2>2. Moves(w, w1, {y}) /\ x # y
      <3>1. x # y
        BY DEF Good, LegsTyped
      <3>2. CASE HasPeer(w, x)
        BY <3>1, <3>2, ClearMoves DEF HasPeer
      <3>3. CASE ~HasPeer(w, x)
        <4>1. Moves(w, w, {}) /\ {} \cap DOMAIN w.calls = {y} \cap DOMAIN w.calls
          BY <3>3, SameCalls DEF HasPeer
        <4>2. Moves(w, w, {y})
          BY <4>1, MovesThose
        <4> QED  BY <3>1, <3>3, <4>2
      <3> QED  BY <3>2, <3>3
    <2> HIDE DEF w1
    <2>3. Moves(w1, ClearBeforeActive(w1, x), {x})
      BY <2>2, ClearMoves DEF Moves
    <2>4. Moves(w, ClearBeforeActive(w1, x), {y} \cup {x}) /\ {y} \cup {x} = Both(w, x)
      BY <2>2, <2>3, MovesAgain DEF Both
    <2> QED  BY <2>1, <2>4
  <1>3. QED
    BY <1>1, <1>2

LEMMA ExpiredMoves ==
    ASSUME NEW w, Good(w), NEW x \in DOMAIN w.calls, NEW t \in w.calls[x].timers
    PROVE  \/ Moves(w, Expired(w, x, t), {})
           \/ Moves(w, Expired(w, x, t), Both(w, x))
           \/ Moves(w, Expired(w, x, t), {x}) /\ x \in DOMAIN Expired(w, x, t).calls
  <1> DEFINE off == [w EXCEPT !.calls[x].timers = @ \ {t}]
             n303 == [w EXCEPT !.calls[x].n303 = 1]
             n308 == [w EXCEPT !.calls[x].n308 = 1]
             w1 == DestroyDataPvcs(off, x)
             disc == Await(w1, x, ReleaseState(x[1]), off.calls[x].timers \cup {"T308"})
  <1>1. t \in Timers
    BY DEF Good, LegsTyped, IsLeg
  <1>2. \/ Expired(w, x, t) = n303 \/ Expired(w, x, t) = n308
        \/ Expired(w, x, t) = GiveUpSetup(off, x) \/ Expired(w, x, t) = GiveUpRelease(off, x)
        \/ Expired(w, x, t) = NoConnect(off, x) \/ Expired(w, x, t) = disc
    <2>1. t = "T303" \/ t = "T305" \/ t = "T308" \/ t = "T310"
      BY <1>1 DEF Timers
    <2> QED  BY <2>1, Zenon DEF Expired
  <1>3. ButFor(w, off, x) /\ off.calls[x].peer = w.calls[x].peer /\ Good(off)
    <2>1. ButFor(w, off, x)
      BY DEF ButFor, Good
    <2>2. IsLeg(off.calls[x]) /\ off.calls[x].peer = w.calls[x].peer /\ off.calls[x].in = w.calls[x].in
      BY DEF Good, LegsTyped, IsLeg
    <2> HIDE DEF off
    <2> QED  BY <2>1, <2>2, Edit DEF Sheds
  <1>4. Expired(w, x, t) \in {n303, n308} => Moves(w, Expired(w, x, t), {})
    <2>1. Good(Expired(w, x, t))
      BY TimerExpires
    <2>2. /\ DOMAIN n303.calls = DOMAIN w.calls /\ DOMAIN n308.calls = DOMAIN w.calls
          /\ \A y \in DOMAIN w.calls : AsWas(w.calls[y], n303.calls[y]) /\ AsWas(w.calls[y], n308.calls[y])
      BY DEF Good, LegsTyped, IsLeg, AsWas
    <2> HIDE DEF n303, n308
    <2> QED  BY <2>1, <2>2, MovesNone
  <1> HIDE DEF off, n303, n308
  <1>5. x \in DOMAIN off.calls /\ Both(off, x) = Both(w, x)
    BY <1>3 DEF ButFor, Both
  <1>6. \A u, X : x \in X /\ Moves(off, u, X) => Moves(w, u, X)
    BY <1>3, StoppedThen
  <1>7. x \in Both(w, x) /\ x \in {x}
    BY DEF Both
  <1>8. /\ Moves(w, GiveUpSetup(off, x), Both(w, x)) /\ Moves(w, GiveUpRelease(off, x), Both(w, x))
        /\ \/ Moves(w, NoConnect(off, x), Both(w, x))
           \/ Moves(w, NoConnect(off, x), {x}) /\ x \in DOMAIN NoConnect(off, x).calls
    BY <1>3, <1>5, <1>6, <1>7, GiveUpMoves, NoConnectMoves
  <1>9. Moves(w, disc, {x}) /\ x \in DOMAIN disc.calls
    <2>1. Moves(off, w1, {})
      BY <1>3, PathMoves
    <2>2. Good(w1) /\ x \in DOMAIN w1.calls
      BY <1>5, <2>1 DEF Moves
    <2>3. off.calls[x].timers \cup {"T308"} \in SUBSET Timers /\ off.calls[x].timers \cup {"T308"} # {}
      BY <1>3, <1>5 DEF Good, LegsTyped, IsLeg, Timers
    <2>4. ReleaseState(x[1]) \in LegStates \ {"N0", "N3", "N10"}
      BY DEF ReleaseState, LegStates
    <2> HIDE DEF w1
    <2>5. Moves(w1, disc, {x}) /\ x \in DOMAIN disc.calls
      BY <2>2, <2>3, <2>4, AwaitMoves
    <2> HIDE DEF disc
    <2> QED  BY <1>6, <1>7, <2>1, <2>5, MovesAfter
  <1> HIDE DEF disc
  <1>10. QED
    BY <1>2, <1>4, <1>8, <1>9

-----------------------------------------------------------------------------
(***************************************************************************)
(* The messages of a user.                                                 *)
(***************************************************************************)
\* A message to leg x changes nothing of the legs, moves both legs of the call,
\* or has this one wait, which was not active.
Acts(w, v, x) ==
    \/ Moves(w, v, {})
    \/ Moves(w, v, Both(w, x))
    \/ Moves(w, v, {x}) /\ x \in DOMAIN v.calls /\ w.calls[x].state # "N10"

\* With no other leg, moving one is moving both.
LEMMA AloneIsBoth ==
    ASSUME NEW w, NEW x, NEW v, ~HasPeer(w, x)
    PROVE  /\ Moves(w, v, {x}) => Moves(w, v, Both(w, x))
           /\ Raises(w, v, {x}) => Raises(w, v, Both(w, x))
  <1>1. {x} \cap DOMAIN w.calls = Both(w, x) \cap DOMAIN w.calls
    BY DEF HasPeer, Both
  <1>2. Moves(w, v, {x}) => Moves(w, v, Both(w, x))
    BY <1>1, MovesThose
  <1>3. Raises(w, v, {x}) => Raises(w, v, Both(w, x))
    BY DEF Raises, HasPeer, Both
  <1>4. QED
    BY <1>2, <1>3

LEMMA BothClearedMoves ==
    ASSUME NEW w, Good(w), NEW x \in DOMAIN w.calls
    PROVE  Moves(w, ClearBoth(w, x), Both(w, x))
  <1> DEFINE w1 == ClearBeforeActive(w, x)
             y == w.calls[x].peer
  <1>1. ClearBoth(w, x) = IF HasPeer(w, x) THEN ClearBeforeActive(w1, y) ELSE w1
    BY Zenon DEF ClearBoth
  <1>2. Moves(w, w1, {x})
    BY ClearMoves
  <1>3. CASE HasPeer(w, x)
    <2>1. y \in DOMAIN w.calls /\ y # x
      BY <1>3 DEF HasPeer, Good, LegsTyped
    <2> HIDE DEF w1, y
    <2>2. Good(w1) /\ y \in DOMAIN w1.calls
      BY <1>2, <2>1 DEF Moves
    <2>3. Moves(w, ClearBeforeActive(w1, y), {x} \cup {y})
      BY <1>2, <2>2, ClearMoves, MovesAgain
    <2>4. {x} \cup {y} = Both(w, x)
      BY DEF Both, y
    <2> QED  BY <1>1, <1>3, <2>3, <2>4
  <1>4. CASE ~HasPeer(w, x)
    BY <1>1, <1>2, <1>4, AloneIsBoth
  <1>5. QED
    BY <1>3, <1>4

LEMMA UniProceedMoves ==
    ASSUME NEW w, Good(w), NEW x \in DOMAIN w.calls, NEW q
    PROVE  Acts(w, UniCallProceeding(w, x, q), x)
  <1> DEFINE v == [w EXCEPT !.calls[x].state = "N9", !.calls[x].timers = (@ \ {"T303"}) \cup {"T310"}]
  <1>1. \/ UniCallProceeding(w, x, q) = w
        \/ UniCallProceeding(w, x, q) = ClearBoth(w, x)
        \/ w.calls[x].state = "N6" /\ UniCallProceeding(w, x, q) = v
    BY Zenon DEF UniCallProceeding
  <1>2. CASE w.calls[x].state = "N6" /\ UniCallProceeding(w, x, q) = v
    <2>1. Good(v)
      BY <1>2, UniProceeds
    <2>2. ButFor(w, v, x) /\ v.calls[x].peer = w.calls[x].peer /\ Waiting(v.calls[x])
      BY DEF ButFor, Good, LegsTyped, IsLeg, Waiting
    <2> HIDE DEF v
    <2>3. Moves(w, v, {x}) /\ x \in DOMAIN v.calls
      BY <2>1, <2>2, MovesOne DEF ButFor
    <2> QED  BY <1>2, <2>3 DEF Acts
  <1> HIDE DEF v
  <1>3. QED
    BY <1>1, <1>2, SameCalls, BothClearedMoves DEF Acts

LEMMA AnsweredRaises ==
    ASSUME NEW w, Good(w), NEW x \in DOMAIN w.calls
    PROVE  Raises(w, Answered(w, x), {x})
  <1> DEFINE v == Answered(w, x)
  <1>1. Good(v)
    BY AnsweredIs DEF Sheds
  <1>2. ButFor(w, v, x) /\ v.calls[x].peer = w.calls[x].peer /\ v.calls[x].state = "N10"
    BY DEF ButFor, Good, LegsTyped, IsLeg, Answered
  <1> HIDE DEF v
  <1>3. Raises(w, v, {x})
    BY <1>1, <1>2, RaisesOne
  <1>4. QED
    BY <1>3 DEF v

\* Leg x has been answered, and then its peer is.
LEMMA PeerRaised ==
    ASSUME NEW w, Good(w), NEW x \in DOMAIN w.calls, HasPeer(w, x), NEW w1, w1 = Answered(w, x),
           NEW y, y = w.calls[x].peer, NEW w2, ButFor(w1, w2, y),
           IsLeg(w2.calls[y]), w2.calls[y].peer = w1.calls[y].peer, w2.calls[y].in = w1.calls[y].in,
           w2.calls[y].state = "N10"
    PROVE  Raises(w, CreateDataPvcs(w2, x), Both(w, x))
  <1>1. Raises(w, w1, {x}) /\ Good(w1) /\ y \in DOMAIN w1.calls /\ y # x
    BY AnsweredRaises DEF Raises, HasPeer, Good, LegsTyped
  <1>2. Good(w2)
    BY <1>1, Edit DEF Sheds
  <1>3. Raises(w1, w2, {y})
    BY <1>1, <1>2, RaisesOne
  <1>4. Raises(w, w2, Both(w, x))
    BY <1>1, <1>3 DEF Raises, AsWas, Both
  <1>5. Moves(w2, CreateDataPvcs(w2, x), {})
    BY <1>2, PathMoves
  <1>6. QED
    BY <1>4, <1>5, RaisesThenMoves

LEMMA UniConnectMoves ==
    ASSUME NEW w, Good(w), NEW x \in DOMAIN w.calls, NEW q
    PROVE  Acts(w, UniConnect(w, x, q), x) \/ Raises(w, UniConnect(w, x, q), Both(w, x))
  <1> DEFINE y == w.calls[x].peer
             s == w.calls[x].state
             w1 == Answered(w, x)
             w2 == [w1 EXCEPT !.calls[y].state = "N10", !.calls[y].timers = @ \ {"T310"}]
  <1>1. \/ UniConnect(w, x, q) = w
        \/ s \in {"N6", "N9"} /\ UniConnect(w, x, q) = ClearBeforeActive(w, x)
        \/ UniConnect(w, x, q) = ClearBoth(w, x)
        \/ ~HasPeer(w, x) /\ UniConnect(w, x, q) = w1
        \/ HasPeer(w, x) /\ UniConnect(w, x, q) = CreateDataPvcs(w2, x)
    BY Zenon DEF UniConnect
  <1>2. ASSUME HasPeer(w, x) PROVE Raises(w, CreateDataPvcs(w2, x), Both(w, x))
    <2>1. Good(w1) /\ y \in DOMAIN w1.calls
      BY <1>2, AnsweredRaises DEF Raises, HasPeer
    <2>2. ASSUME NEW u, u = w1
          PROVE  LET u2 == [u EXCEPT !.calls[y].state = "N10", !.calls[y].timers = @ \ {"T310"}]
                 IN /\ ButFor(u, u2, y) /\ IsLeg(u2.calls[y]) /\ u2.calls[y].peer = u.calls[y].peer
                    /\ u2.calls[y].in = u.calls[y].in /\ u2.calls[y].state = "N10"
      <3>1. Good(u) /\ y \in DOMAIN u.calls
        BY <2>1, <2>2
      <3> HIDE DEF w1, y
      <3> QED  BY <3>1 DEF ButFor, Good, LegsTyped, IsLeg, LegStates
    <2> HIDE DEF y
    <2>3. /\ ButFor(w1, w2, y) /\ IsLeg(w2.calls[y]) /\ w2.calls[y].peer = w1.calls[y].peer
          /\ w2.calls[y].in = w1.calls[y].in /\ w2.calls[y].state = "N10"
      BY <2>2, Zenon
    <2> HIDE DEF w2
    <2> QED  BY <1>2, <2>3, PeerRaised DEF y
  <1>3. ~HasPeer(w, x) => Raises(w, w1, Both(w, x))
    BY AnsweredRaises, AloneIsBoth
  <1>4. s \in {"N6", "N9"} => Acts(w, ClearBeforeActive(w, x), x)
    BY ClearMoves DEF Acts
  <1>5. Acts(w, w, x) /\ Acts(w, ClearBoth(w, x), x)
    BY SameCalls, BothClearedMoves DEF Acts
  <1> HIDE DEF w1, w2, s
  <1>6. QED
    BY <1>1, <1>2, <1>3, <1>4, <1>5

LEMMA UniAckMoves ==
    ASSUME NEW w, Good(w), NEW x \in DOMAIN w.calls
    PROVE  /\ Raises(w, UniConnectAck(w, x), {x})
           /\ w.calls[x].state = "N10" => Moves(w, UniConnectAck(w, x), {})
  <1> DEFINE v == [w EXCEPT !.calls[x].state = "N10"]
  <1>1. UniConnectAck(w, x) = CreateDataPvcs(v, x)
    BY Zenon DEF UniConnectAck
  <1>2. ButFor(w, v, x) /\ IsLeg(v.calls[x]) /\ v.calls[x].in = w.calls[x].in
    BY DEF ButFor, Good, LegsTyped, IsLeg, LegStates
  <1>3. v.calls[x].peer = w.calls[x].peer /\ v.calls[x].state = "N10" /\ v.calls[x].timers = w.calls[x].timers
    BY DEF Good, LegsTyped, IsLeg
  <1> HIDE DEF v
  <1>4. Good(v)
    BY <1>2, <1>3, Edit DEF Sheds
  <1>5. Raises(w, v, {x}) /\ Moves(v, CreateDataPvcs(v, x), {})
    BY <1>2, <1>3, <1>4, RaisesOne, PathMoves
  <1>6. w.calls[x].state = "N10" => Moves(w, v, {})
    BY <1>2, <1>3, <1>4, MovesNone DEF ButFor, AsWas
  <1>7. w.calls[x].state = "N10" => Moves(w, CreateDataPvcs(v, x), {})
    BY <1>5, <1>6, MovesAfter
  <1>8. QED
    BY <1>1, <1>5, <1>7, RaisesThenMoves

LEMMA UniDisconnectMoves ==
    ASSUME NEW w, Good(w), NEW x \in DOMAIN w.calls
    PROVE  Acts(w, UniDisconnect(w, x), x)
  <1> DEFINE c == w.calls[x]
             y == c.peer
             w1 == DestroyDataPvcs(w, x)
             w2 == DestroyDataPvcs(w1, y)
             w3 == IF ~HasPeer(w, x) THEN w1 ELSE IF y[1] \in Nni THEN NniClear(w2, y) ELSE Await(w2, y, "N12", {"T305"})
             kept == IF c.state = "N12" THEN c.timers \ {"T305"} ELSE c.timers
             v == [w3 EXCEPT !.calls[x].state = "N19", !.calls[x].timers = kept \cup {"T308"}]
  <1>1. UniDisconnect(w, x) = w \/ UniDisconnect(w, x) = v
    BY Zenon DEF UniDisconnect
  <1>2. Moves(w, w1, {})
    BY PathMoves
  <1>3. Moves(w1, w2, {})
    <2> HIDE DEF w1
    <2> QED  BY <1>2, PathMoves DEF Moves
  <1>4. Moves(w, w3, {y}) /\ x \in DOMAIN w3.calls
    <2>1. y # x
      BY DEF Good, LegsTyped
    <2>2. Moves(w, w3, {y})
      <3>1. CASE ~HasPeer(w, x)
        <4>1. w3 = w1 /\ {} \cap DOMAIN w.calls = {y} \cap DOMAIN w.calls
          BY <3>1 DEF HasPeer
        <4> HIDE DEF w1, w3, y
        <4> QED  BY <1>2, <4>1, MovesThose
      <3>2. CASE HasPeer(w, x)
        <4>1. w3 = NniClear(w2, y) \/ w3 = Await(w2, y, "N12", {"T305"})
          BY <3>2
        <4>2. y \in DOMAIN w.calls
          BY <3>2 DEF HasPeer
        <4> HIDE DEF w1, w2, w3, y
        <4>0. Moves(w, w2, {})
          BY <1>2, <1>3, MovesAfter
        <4>3. Moves(w, w2, {}) /\ Good(w2) /\ y \in DOMAIN w2.calls
          BY <4>0, <4>2 DEF Moves
        <4>4. Moves(w2, NniClear(w2, y), {y}) /\ Moves(w2, Await(w2, y, "N12", {"T305"}), {y})
          BY <4>3, ClearMoves, AwaitMoves DEF LegStates, Timers
        <4> QED  BY <4>1, <4>3, <4>4, MovesAfter
      <3> QED  BY <3>1, <3>2
    <2> HIDE DEF w3, y
    <2> QED  BY <2>1, <2>2 DEF Moves
  <1>5. kept \in SUBSET Timers
    BY DEF Good, LegsTyped, IsLeg
  <1>6. Good(w3)
    <2> HIDE DEF w3
    <2> QED  BY <1>4 DEF Moves
  <1>7. UniDisconnect(w, x) = v => Good(v)
    <2>1. Good(UniDisconnect(w, x))
      BY UniDisconnects
    <2> HIDE DEF v
    <2> QED  BY <2>1
  <1> HIDE DEF w3, kept
  <1>8. ButFor(w3, v, x) /\ v.calls[x].peer = w3.calls[x].peer /\ Waiting(v.calls[x])
    BY <1>4, <1>5, <1>6 DEF ButFor, Good, LegsTyped, IsLeg, Waiting
  <1> HIDE DEF v
  <1>9. UniDisconnect(w, x) = v => Moves(w, v, Both(w, x))
    <2>1. UniDisconnect(w, x) = v => Moves(w3, v, {x})
      BY <1>4, <1>7, <1>8, MovesOne
    <2>2. UniDisconnect(w, x) = v => Moves(w, v, {y} \cup {x})
      BY <1>4, <2>1, MovesAgain
    <2>3. {y} \cup {x} = Both(w, x)
      BY DEF Both
    <2> QED  BY <2>2, <2>3
  <1>10. QED
    BY <1>1, <1>9, SameCalls DEF Acts

\* The other leg is told, or was released before.
LEMMA UniReleaseMoves ==
    ASSUME NEW w, Good(w), NEW x \in DOMAIN w.calls
    PROVE  \/ Moves(w, UniRelease(w, x), Both(w, x))
           \/ Moves(w, UniRelease(w, x), {x}) /\ HasPeer(w, x) /\ w.calls[w.calls[x].peer].state = "N19"
  <1> DEFINE v == DestroyDataPvcs(w, x)
             y == v.calls[x].peer
             v1 == DestroyDataPvcs(v, y)
             u == ReleasePeer(v, x)
  <1>1. UniRelease(w, x) = FreeCall(u, x)
    BY DEF UniRelease
  <1>2. Moves(w, v, {})
    BY PathMoves
  <1>3. Good(v) /\ x \in DOMAIN v.calls /\ y = w.calls[x].peer /\ Both(v, x) = Both(w, x)
    <2> HIDE DEF v
    <2>1. Good(v) /\ x \in DOMAIN v.calls /\ y = w.calls[x].peer
      BY <1>2 DEF Moves
    <2> QED  BY <1>2, <2>1, BothAfter
  <1>4. HasPeer(v, x) => HasPeer(w, x) /\ v.calls[y].state = w.calls[y].state
    <2> HIDE DEF v
    <2> QED  BY <1>2, <1>3 DEF Moves, AsWas, HasPeer
  <1>5. Moves(v, v1, {})
    <2> HIDE DEF v
    <2> QED  BY <1>3, PathMoves
  <1>6. \/ ~HasPeer(v, x) /\ u = v
        \/ HasPeer(v, x) /\ v.calls[y].state = "N19" /\ u = v1
        \/ HasPeer(v, x) /\ u = Await(v1, y, "N19", {"T308"})
    BY Zenon DEF ReleasePeer
  <1> HIDE DEF v, v1, u
  <1>7. CASE ~HasPeer(v, x) /\ u = v
    <2>1. Moves(v, FreeCall(u, x), Both(v, x))
      BY <1>3, <1>7, SameCalls, PeerThenFreed
    <2> QED  BY <1>1, <1>2, <1>3, <2>1, MovesAfter
  <1>8. CASE HasPeer(v, x) /\ v.calls[y].state = "N19" /\ u = v1
    <2>1. x \in DOMAIN u.calls
      BY <1>3, <1>5, <1>8 DEF Moves
    <2>2. Moves(v, FreeCall(u, x), {} \cup {x})
      BY <1>5, <1>8, <2>1, ThenFreed
    <2>3. Moves(v, FreeCall(u, x), {x})
      BY <2>2
    <2> QED  BY <1>1, <1>2, <1>3, <1>4, <1>8, <2>3, MovesAfter
  <1>9. CASE HasPeer(v, x) /\ u = Await(v1, y, "N19", {"T308"})
    <2>1. Good(v1) /\ y \in DOMAIN v1.calls
      BY <1>5, <1>9 DEF Moves, HasPeer, y
    <2>2. Moves(v1, u, {y})
      BY <1>9, <2>1, AwaitMoves DEF LegStates, Timers
    <2>3. Moves(v, FreeCall(u, x), Both(v, x))
      BY <1>3, <1>5, <1>9, <2>2, PeerThenFreed
    <2> QED  BY <1>1, <1>2, <1>3, <2>3, MovesAfter
  <1>10. QED
    BY <1>6, <1>7, <1>8, <1>9

LEMMA UniStatusMoves ==
    ASSUME NEW w, Good(w), NEW x \in DOMAIN w.calls, NEW reported
    PROVE  Acts(w, UniStatus(w, x, reported), x)
  <1> DEFINE y == w.calls[x].peer
             w1 == DestroyDataPvcs(w, x)
             w0 == DestroyDataPvcs(w1, y)
             timers == w.calls[y].timers \cup {"T308"}
             w2 == IF HasPeer(w, x) THEN Await(w0, y, "N19", timers) ELSE w1
  <1>1. UniStatus(w, x, reported) = w \/ UniStatus(w, x, reported) = FreeCall(w2, x)
    BY Zenon DEF UniStatus
  <1>2. Moves(w, w1, {})
    BY PathMoves
  <1>3. Moves(w1, w0, {})
    <2> HIDE DEF w1
    <2> QED  BY <1>2, PathMoves DEF Moves
  <1>4. CASE ~HasPeer(w, x)
    <2>1. w2 = w1
      BY <1>4
    <2> HIDE DEF w1, w2
    <2>2. Moves(w, FreeCall(w2, x), Both(w, x))
      BY <1>2, <1>4, <2>1, PeerThenFreed
    <2> QED  BY <1>1, <2>2, SameCalls DEF Acts
  <1>5. CASE HasPeer(w, x)
    <2>1. w2 = Await(w0, y, "N19", timers)
      BY <1>5
    <2>2. timers \in SUBSET Timers /\ timers # {}
      BY <1>5 DEF HasPeer, Good, LegsTyped, IsLeg, Timers
    <2> HIDE DEF w0, w1, w2, timers
    <2>3. Moves(w, w0, {})
      BY <1>2, <1>3, MovesAfter
    <2>4. Good(w0) /\ y \in DOMAIN w0.calls
      BY <1>5, <2>3 DEF Moves, HasPeer
    <2>5. Moves(w0, w2, {y})
      <3>1. "N19" \in LegStates \ {"N0", "N3", "N10"}
        BY DEF LegStates
      <3> QED  BY <2>1, <2>2, <2>4, <3>1, AwaitMoves
    <2>6. Moves(w, FreeCall(w2, x), Both(w, x))
      BY <1>5, <2>3, <2>5, PeerThenFreed
    <2> QED  BY <1>1, <2>6, SameCalls DEF Acts
  <1>6. QED
    BY <1>4, <1>5

LEMMA UniRestartMoves ==
    ASSUME NEW w, Good(w), NEW S \in SUBSET DOMAIN w.calls, NEW order \in Seq(S), Once(order)
    PROVE  \E X : Moves(w, UniRestart(w, order), X) /\ (order = <<>> => X = {})
  <1> DEFINE F(s) == UniLoop!Fold(0, w, s)
             At(s) == {s[i] : i \in 1 .. Len(s)}
             T == {s \in Seq(S) : Once(s) => Moves(w, F(s), At(s))}
  <1>1. <<>> \in T
    <2>1. F(<<>>) = w
      BY UniLoop!FoldEmpty
    <2>2. At(<<>>) = {}
      OBVIOUS
    <2>3. <<>> \in Seq(S)
      OBVIOUS
    <2> HIDE DEF F, At
    <2>4. Moves(w, F(<<>>), At(<<>>))
      BY <2>1, <2>2, SameCalls
    <2> QED  BY <2>3, <2>4
  <1>2. ASSUME NEW rest \in Seq(S), NEW x \in S, rest \in T PROVE Append(rest, x) \in T
    <2> DEFINE s == Append(rest, x)
               n == Len(rest)
               u == F(rest)
               u1 == DestroyDataPvcs(u, x)
    <2>1. F(s) = FreeCall(u1, x)
      BY UniLoop!FoldAppend DEF UniRestartStep
    <2>2. /\ s \in Seq(S) /\ n \in Nat /\ Len(s) = n + 1 /\ s[n + 1] = x
          /\ \A i \in 1 .. n : s[i] = rest[i]
      OBVIOUS
    <2>3. At(s) = At(rest) \cup {x}
      <3> HIDE DEF s
      <3> QED  BY <2>2
    <2> HIDE DEF F
    <2> SUFFICES ASSUME Once(s) PROVE Moves(w, F(s), At(s))
      BY <2>2
    <2> HIDE DEF s
    <2>4. Once(rest) /\ x \notin At(rest)
      BY <2>2 DEF Once
    <2> HIDE DEF At
    <2>5. Moves(w, u, At(rest)) /\ x \in DOMAIN u.calls
      BY <1>2, <2>4 DEF Moves
    <2> HIDE DEF u
    <2>6. Moves(u, u1, {})
      BY <2>5, PathMoves DEF Moves
    <2> HIDE DEF u1
    <2>7. x \in DOMAIN u1.calls
      BY <2>5, <2>6 DEF Moves
    <2>8. Moves(u, FreeCall(u1, x), {} \cup {x})
      BY <2>6, <2>7, ThenFreed
    <2>9. Moves(u, FreeCall(u1, x), {x})
      BY <2>8
    <2>10. Moves(w, FreeCall(u1, x), At(rest) \cup {x})
      BY <2>5, <2>9, MovesAgain
    <2> QED  BY <2>1, <2>3, <2>10
  <1>3. Seq(S) \subseteq T
    <2> HIDE DEF T
    <2> QED  BY <1>1, <1>2, UniLoop!SequenceInduction
  <1>4. Moves(w, F(order), At(order))
    BY <1>3
  <1>5. order = <<>> => At(order) = {}
    OBVIOUS
  <1> HIDE DEF At
  <1>6. QED
    BY <1>4, <1>5, UniRestartIsFold

-----------------------------------------------------------------------------
(***************************************************************************)
(* Soft PVCs, and the messages of a network.                               *)
(***************************************************************************)
LEMMA SpvcReleasedMoves ==
    ASSUME NEW w, Good(w), NEW x
    PROVE  Moves(w, SpvcReleased(w, x), {})
  <1> DEFINE i == SpvcOf(w, x)
             t == DelPvc(DelPvc(w.tab, AccessPoint(i)), NearEnd(w, x))
             v == [w EXCEPT !.tab = t, !.spvc[i].state = "retry", !.spvc[i].crv = 0]
  <1>1. SpvcReleased(w, x) = w \/ SpvcReleased(w, x) = v
    BY Zenon DEF SpvcReleased
  <1> HIDE DEF i, t
  <1>2. v.calls = w.calls
    BY DEF Good
  <1> HIDE DEF v
  <1>3. Good(SpvcReleased(w, x))
    BY SpvcLetGo DEF Sheds
  <1>4. QED
    BY <1>1, <1>2, <1>3, SameCalls

LEMMA SpvcConnectedMoves ==
    ASSUME NEW w, Good(w), NEW x \in DOMAIN w.calls, NEW assigned
    PROVE  Moves(w, SpvcConnected(w, x, assigned), {}) \/ Moves(w, SpvcConnected(w, x, assigned), {x})
  <1> DEFINE i == SpvcOf(w, x)
             t == AddPvc(w.tab, AccessPoint(i), NearEnd(w, x))
             v == [w EXCEPT !.spvc[i].state = "connected", !.tab = t]
  <1>1. \/ SpvcConnected(w, x, assigned) = w \/ SpvcConnected(w, x, assigned) = v
        \/ SpvcConnected(w, x, assigned) = NniClear(w, x)
    BY Zenon DEF SpvcConnected
  <1> HIDE DEF i, t
  <1>2. v.calls = w.calls
    BY DEF Good
  <1> HIDE DEF v
  <1>3. Good(SpvcConnected(w, x, assigned))
    BY SpvcAnswered
  <1>4. QED
    BY <1>1, <1>2, <1>3, SameCalls, ClearMoves

LEMMA NniProceedMoves ==
    ASSUME NEW w, Good(w), NEW x \in DOMAIN w.calls
    PROVE  Acts(w, NniCallProceeding(w, x), x)
  <1> DEFINE v == [w EXCEPT !.calls[x].state = "N9", !.calls[x].timers = (@ \ {"T303"}) \cup {"T310"}]
  <1>1. \/ NniCallProceeding(w, x) = w
        \/ w.calls[x].state = "N6" /\ NniCallProceeding(w, x) = v
    BY Zenon DEF NniCallProceeding
  <1>2. CASE w.calls[x].state = "N6" /\ NniCallProceeding(w, x) = v
    <2>1. Good(v)
      BY <1>2, NniProceeds
    <2>2. ButFor(w, v, x) /\ v.calls[x].peer = w.calls[x].peer /\ Waiting(v.calls[x])
      BY DEF ButFor, Good, LegsTyped, IsLeg, Waiting
    <2> HIDE DEF v
    <2>3. Moves(w, v, {x}) /\ x \in DOMAIN v.calls
      BY <2>1, <2>2, MovesOne DEF ButFor
    <2> QED  BY <1>2, <2>3 DEF Acts
  <1> HIDE DEF v
  <1>3. QED
    BY <1>1, <1>2, SameCalls DEF Acts

LEMMA NniConnectMoves ==
    ASSUME NEW w, Good(w), NEW x \in DOMAIN w.calls, NEW q
    PROVE  Acts(w, NniConnect(w, x, q), x) \/ Raises(w, NniConnect(w, x, q), Both(w, x))
  <1> DEFINE y == w.calls[x].peer
             s == w.calls[x].state
             w1 == Answered(w, x)
             w2 == [w1 EXCEPT !.calls[y].state = "N10"]
             w3 == SpvcConnected(w1, x, q)
  <1>1. \/ NniConnect(w, x, q) = w
        \/ s \in {"N6", "N9"} /\ NniConnect(w, x, q) = NniClear(w, x)
        \/ y = NoPeer /\ NniConnect(w, x, q) = w3
        \/ ~HasPeer(w, x) /\ NniConnect(w, x, q) = w1
        \/ HasPeer(w, x) /\ NniConnect(w, x, q) = CreateDataPvcs(w2, x)
    BY Zenon DEF NniConnect
  <1>2. ASSUME HasPeer(w, x) PROVE Raises(w, CreateDataPvcs(w2, x), Both(w, x))
    <2>1. Good(w1) /\ y \in DOMAIN w1.calls
      BY <1>2, AnsweredRaises DEF Raises, HasPeer
    <2>2. ASSUME NEW u, u = w1
          PROVE  LET u2 == [u EXCEPT !.calls[y].state = "N10"]
                 IN /\ ButFor(u, u2, y) /\ IsLeg(u2.calls[y]) /\ u2.calls[y].peer = u.calls[y].peer
                    /\ u2.calls[y].in = u.calls[y].in /\ u2.calls[y].state = "N10"
      <3>1. Good(u) /\ y \in DOMAIN u.calls
        BY <2>1, <2>2
      <3> HIDE DEF w1, y
      <3> QED  BY <3>1 DEF ButFor, Good, LegsTyped, IsLeg, LegStates
    <2> HIDE DEF y
    <2>3. /\ ButFor(w1, w2, y) /\ IsLeg(w2.calls[y]) /\ w2.calls[y].peer = w1.calls[y].peer
          /\ w2.calls[y].in = w1.calls[y].in /\ w2.calls[y].state = "N10"
      BY <2>2, Zenon
    <2> HIDE DEF w2
    <2> QED  BY <1>2, <2>3, PeerRaised DEF y
  <1>3. Raises(w, w1, {x}) /\ (~HasPeer(w, x) => Raises(w, w1, Both(w, x)))
    BY AnsweredRaises, AloneIsBoth
  <1>4. y = NoPeer => ~HasPeer(w, x)
    BY NoPeerIsNoLeg DEF HasPeer, Good, LegsTyped
  <1>5. Raises(w, w3, {x}) \/ Moves(w, w3, {x})
    <2> HIDE DEF w1
    <2>1. Moves(w1, w3, {}) \/ Moves(w1, w3, {x})
      BY <1>3, SpvcConnectedMoves DEF Raises
    <2> QED  BY <1>3, <2>1, RaisesThenMoves
  <1>6. s \in {"N6", "N9"} => Acts(w, NniClear(w, x), x)
    BY ClearMoves DEF Acts
  <1>7. Acts(w, w, x)
    BY SameCalls DEF Acts
  <1> HIDE DEF w1, w2, w3, s, y
  <1>8. y = NoPeer => Acts(w, w3, x) \/ Raises(w, w3, Both(w, x))
    BY <1>4, <1>5, AloneIsBoth DEF Acts
  <1>9. QED
    BY <1>1, <1>2, <1>3, <1>6, <1>7, <1>8

\* The other leg is told, unless a RELEASE meets ours.
LEMMA NniReleaseMoves ==
    ASSUME NEW w, Good(w), NEW x \in DOMAIN w.calls
    PROVE  /\ \/ Moves(w, NniRelease(w, x), Both(w, x))
              \/ Moves(w, NniRelease(w, x), {x}) /\ w.calls[x].state = "N11"
           /\ Moves(w, NniReleaseComplete(w, x), Both(w, x))
  <1> DEFINE w0 == DestroyDataPvcs(w, x)
             w1 == SpvcReleased(w0, x)
             w2 == ForwardClearing(w1, x)
             w3 == SpvcReleased(w, x)
  <1>1. /\ \/ NniRelease(w, x) = FreeCall(w2, x)
           \/ w.calls[x].state = "N11" /\ NniRelease(w, x) = FreeCall(w3, x)
        /\ NniReleaseComplete(w, x) = FreeCall(w2, x)
    BY Zenon DEF NniRelease, NniReleaseComplete
  <1>2. Moves(w, w0, {})
    BY PathMoves
  <1>3. Moves(w0, w1, {})
    <2> HIDE DEF w0
    <2> QED  BY <1>2, SpvcReleasedMoves DEF Moves
  <1>4. Moves(w, w3, {})
    BY SpvcReleasedMoves
  <1> HIDE DEF w0, w1, w3
  <1>5. Moves(w, w1, {})
    BY <1>2, <1>3, MovesAfter
  <1>6. Good(w1) /\ x \in DOMAIN w1.calls /\ w1.calls[x].peer = w.calls[x].peer
    BY <1>5 DEF Moves
  <1>7. Moves(w1, w2, {w.calls[x].peer}) /\ x \in DOMAIN w2.calls
    BY <1>6, ForwardMoves
  <1> HIDE DEF w2
  <1>8. Moves(w, FreeCall(w2, x), Both(w, x))
    <2>1. Moves(w, FreeCall(w2, x), {w.calls[x].peer} \cup {x})
      BY <1>5, <1>7, MovesAfter, ThenFreed
    <2>2. {w.calls[x].peer} \cup {x} = Both(w, x)
      BY DEF Both
    <2> QED  BY <2>1, <2>2
  <1>9. Moves(w, FreeCall(w3, x), {x})
    <2>1. x \in DOMAIN w3.calls
      BY <1>4 DEF Moves
    <2>2. Moves(w, FreeCall(w3, x), {} \cup {x})
      BY <1>4, <2>1, ThenFreed
    <2> QED  BY <2>2
  <1>10. QED
    BY <1>1, <1>8, <1>9

-----------------------------------------------------------------------------
(***************************************************************************)
(* RESTART of a network: each call that is dropped is dropped at both ends.*)
(***************************************************************************)
EndsWhole(w, v) == \E X : Moves(w, v, X) /\ (Together(w) => Closed(w, X))

LEMMA BothClosed ==
    ASSUME NEW w, NEW x \in DOMAIN w.calls
    PROVE  Together(w) => Closed(w, Both(w, x))
  BY DEF Together, TogetherAt, Closed, Both

LEMMA SameEnds ==
    ASSUME NEW w, NEW v, Moves(w, v, {})
    PROVE  EndsWhole(w, v)
  BY DEF EndsWhole, Closed

LEMMA DropEnds ==
    ASSUME NEW w, Good(w), NEW x
    PROVE  EndsWhole(w, NniDrop(w, x))
  <1>1. CASE x \in DOMAIN w.calls
    BY <1>1, DropMoves, BothClosed DEF EndsWhole
  <1>2. CASE x \notin DOMAIN w.calls
    BY <1>2, SameCalls, SameEnds DEF NniDrop
  <1>3. QED
    BY <1>1, <1>2

LEMMA EndsAgain ==
    ASSUME NEW w, NEW v, NEW u, EndsWhole(w, v), NEW x \in DOMAIN v.calls, Moves(v, u, Both(v, x))
    PROVE  EndsWhole(w, u)
  <1>1. PICK X : Moves(w, v, X) /\ (Together(w) => Closed(w, X))
    BY DEF EndsWhole
  <1>2. x \in DOMAIN w.calls /\ Both(v, x) = Both(w, x)
    BY <1>1, BothAfter DEF Moves
  <1>3. Moves(w, u, X \cup Both(w, x))
    BY <1>1, <1>2, MovesAgain
  <1>4. Together(w) => Closed(w, X \cup Both(w, x))
    <2>1. Together(w) => Closed(w, Both(w, x))
      BY <1>2, BothClosed
    <2> QED  BY <1>1, <2>1 DEF Closed
  <1>5. QED
    BY <1>3, <1>4 DEF EndsWhole

LEMMA DropsEnd ==
    ASSUME NEW w, Good(w), NEW S, NEW order \in Seq(S)
    PROVE  EndsWhole(w, FoldLeft(NniDrop, w, order))
  <1> DEFINE F(s) == NniLoop!Fold(0, w, s)
             T == {s \in Seq(S) : EndsWhole(w, F(s))}
  <1>1. <<>> \in T
    <2>1. F(<<>>) = w /\ <<>> \in Seq(S)
      BY NniLoop!FoldEmpty
    <2> HIDE DEF F
    <2>2. EndsWhole(w, F(<<>>))
      BY <2>1, SameCalls, SameEnds
    <2> QED  BY <2>1, <2>2
  <1>2. ASSUME NEW rest \in Seq(S), NEW x \in S, rest \in T PROVE Append(rest, x) \in T
    <2> DEFINE u == F(rest)
    <2>1. F(Append(rest, x)) = NniDrop(u, x)
      BY NniLoop!FoldAppend DEF NniRestartStep
    <2>2. Append(rest, x) \in Seq(S)
      OBVIOUS
    <2>3. EndsWhole(w, u) /\ Good(u)
      <3> HIDE DEF F
      <3> QED  BY <1>2 DEF EndsWhole, Moves
    <2> HIDE DEF F, u
    <2>4. EndsWhole(w, NniDrop(u, x))
      <3>1. CASE x \in DOMAIN u.calls
        BY <2>3, <3>1, DropMoves, EndsAgain
      <3>2. CASE x \notin DOMAIN u.calls
        <4>1. NniDrop(u, x) = u
          BY <3>2 DEF NniDrop
        <4> QED  BY <2>3, <4>1
      <3> QED  BY <3>1, <3>2
    <2> QED  BY <2>1, <2>2, <2>4
  <1>3. Seq(S) \subseteq T
    <2> HIDE DEF T
    <2> QED  BY <1>1, <1>2, NniLoop!SequenceInduction
  <1>4. EndsWhole(w, F(order))
    BY <1>3
  <1>5. QED
    BY <1>4, NniRestartIsFold

LEMMA EndsAround ==
    ASSUME NEW w, NEW v, NEW u, w.calls = v.calls, EndsWhole(v, u)
    PROVE  EndsWhole(w, u)
  BY DEF EndsWhole, Moves, Together, TogetherAt, Closed

LEMMA EndsThenSame ==
    ASSUME NEW w, NEW v, NEW u, EndsWhole(w, v), Moves(v, u, {})
    PROVE  EndsWhole(w, u)
  <1>1. PICK X : Moves(w, v, X) /\ (Together(w) => Closed(w, X))
    BY DEF EndsWhole
  <1>2. Moves(w, u, X \cup {})
    BY <1>1, MovesAgain
  <1>3. Moves(w, u, X)
    BY <1>2
  <1>4. QED
    BY <1>1, <1>3 DEF EndsWhole

LEMMA RestartingMoves ==
    ASSUME NEW w, Good(w), NEW p \in Ports, NEW n \in 0 .. 3
    PROVE  Moves(w, [w EXCEPT !.restart[p] = n], {}) /\ [w EXCEPT !.restart[p] = n].calls = w.calls
  <1> DEFINE v == [w EXCEPT !.restart[p] = n]
  <1>1. Good(v)
    BY Restarting DEF Sheds
  <1>2. v.calls = w.calls
    BY DEF Good
  <1> HIDE DEF v
  <1>3. Moves(w, v, {})
    BY <1>1, <1>2, SameCalls
  <1>4. QED
    BY <1>2, <1>3 DEF v

LEMMA NniRestartEnds ==
    ASSUME NEW w, Good(w), NEW p \in Ports, NEW S, NEW order \in Seq(S), NEW dlci
    PROVE  /\ EndsWhole(w, NniRestart(w, p, order)) /\ EndsWhole(w, NniRestartChannel(w, p, dlci, order))
           /\ EndsWhole(w, InitiateRestart(w, p, order))
  <1> DEFINE w1 == [w EXCEPT !.restart[p] = 0]
             i == SelectInSeq(order, LAMBDA x : dlci \in {w.calls[x].in, w.calls[x].out})
             w2 == FoldLeft(NniDrop, w, order)
             w3 == [w2 EXCEPT !.restart[p] = 1]
  <1>1. NniRestart(w, p, order) = FoldLeft(NniDrop, w1, order)
    BY Zenon DEF NniRestart
  <1>2. NniRestartChannel(w, p, dlci, order) = w1 \/ NniRestartChannel(w, p, dlci, order) = NniDrop(w1, order[i])
    BY Zenon DEF NniRestartChannel
  <1>3. InitiateRestart(w, p, order) = w3
    BY Zenon DEF InitiateRestart
  <1>0. 0 \in 0 .. 3 /\ 1 \in 0 .. 3
    OBVIOUS
  <1>4. Moves(w, w1, {}) /\ w1.calls = w.calls /\ Good(w1)
    <2>1. Moves(w, w1, {}) /\ w1.calls = w.calls
      BY <1>0, RestartingMoves
    <2> QED  BY <2>1 DEF Moves
  <1>5. EndsWhole(w, w2) /\ Good(w2)
    <2>1. EndsWhole(w, w2)
      BY DropsEnd
    <2> HIDE DEF w2
    <2> QED  BY <2>1 DEF EndsWhole, Moves
  <1> HIDE DEF w1, w2, i
  <1>6. EndsWhole(w, w3)
    <2>1. Moves(w2, w3, {})
      BY <1>0, <1>5, RestartingMoves
    <2> HIDE DEF w3
    <2> QED  BY <1>5, <2>1, EndsThenSame
  <1> HIDE DEF w3
  <1>7. EndsWhole(w, FoldLeft(NniDrop, w1, order)) /\ EndsWhole(w, NniDrop(w1, order[i])) /\ EndsWhole(w, w1)
    <2>1. EndsWhole(w1, FoldLeft(NniDrop, w1, order)) /\ EndsWhole(w1, NniDrop(w1, order[i]))
      BY <1>4, DropsEnd, DropEnds
    <2> QED  BY <1>4, <2>1, EndsAround, SameEnds
  <1>8. QED
    BY <1>1, <1>2, <1>3, <1>6, <1>7

-----------------------------------------------------------------------------
(***************************************************************************)
(* SETUP, and the calls the switch dials.                                  *)
(***************************************************************************)
\* u is w with a leg x that has just been made.
Begun(w, u, x) ==
    /\ Good(u)
    /\ x \notin DOMAIN w.calls /\ DOMAIN u.calls = DOMAIN w.calls \cup {x}
    /\ \A z \in DOMAIN w.calls : AsWas(w.calls[z], u.calls[z])
    /\ u.calls[x].peer = NoPeer /\ u.calls[x].state \in {"N0", "N1"}

LEMMA BegunThen ==
    ASSUME NEW w, NEW u, NEW x, Begun(w, u, x), NEW v, Moves(u, v, {x}) \/ Raises(u, v, {x})
    PROVE  Enters(w, v, {x})
  <1>1. NoPeer \notin DOMAIN v.calls
    BY NoPeerIsNoLeg DEF Moves, Raises, Good, LegsTyped
  <1>2. \A z \in DOMAIN v.calls \ DOMAIN w.calls : AttendedAt(v, z) /\ TogetherAt(v, z)
    BY <1>1 DEF Begun, Moves, Raises, Waiting, AttendedAt, TogetherAt, Relies
  <1>3. \A z \in DOMAIN w.calls : AsWas(w.calls[z], v.calls[z])
    BY DEF Begun, Moves, Raises, AsWas
  <1>4. QED
    BY <1>2, <1>3 DEF Begun, Moves, Raises, Enters

\* The leg on the way out, and the leg on the way in that it is the peer of.
LEMMA JoinEnters ==
    ASSUME NEW w, NEW u, NEW x, Begun(w, u, x), NEW q \in Ports,
           NEW y, y = <<q, NewCrv(u, q), 0>>, NEW l, NEW leg, NEW pool,
           l.peer = y, l.state = "N3", leg.peer = x, leg.state = "N6",
           \/ leg.timers # {} /\ (l.timers # {} \/ x[1] \in Nni)
           \/ l.timers # {} /\ x[1] \notin Nni /\ q \notin Nni,
           NEW v, v = SetLeg([u EXCEPT !.pool[q] = pool, !.calls[x] = l], y, leg), Good(v)
    PROVE  Enters(w, v, {x, y}) /\ \A z \in DOMAIN w.calls : w.calls[z].peer # y
  <1> DEFINE u1 == [u EXCEPT !.pool[q] = pool, !.calls[x] = l]
             c == [z \in DOMAIN u1.calls \cup {y} |-> IF z = y THEN leg ELSE u1.calls[z]]
  <1>1. y \notin DOMAIN u.calls /\ \A z \in DOMAIN u.calls : u.calls[z].peer # y
    BY FreshCrv DEF Begun
  <1>2. /\ x \in DOMAIN u.calls /\ DOMAIN u1.calls = DOMAIN u.calls /\ u1.calls[x] = l
        /\ \A z \in DOMAIN u.calls : z # x => u1.calls[z] = u.calls[z]
        /\ DOMAIN u1 = DOMAIN u
    BY DEF Begun, Good
  <1>3. v = [u1 EXCEPT !.calls = c]
    BY DEF SetLeg
  <1> HIDE DEF u1
  <1>4. v.calls = c
    <2> HIDE DEF c
    <2> QED  BY <1>2, <1>3 DEF Begun, Good
  <1>5. DOMAIN c = DOMAIN u.calls \cup {y} /\ c[y] = leg /\ c[x] = l /\ \A z \in DOMAIN u.calls : z # x => c[z] = u.calls[z]
    BY <1>1, <1>2
  <1> HIDE DEF c
  <1>6. \A z \in DOMAIN w.calls : AsWas(w.calls[z], v.calls[z])
    BY <1>4, <1>5 DEF Begun
  <1>7. /\ DOMAIN v.calls = DOMAIN w.calls \cup {x, y} /\ v.calls[x] = l /\ v.calls[y] = leg
    BY <1>4, <1>5 DEF Begun
  <1>8. AttendedAt(v, x) /\ TogetherAt(v, x) /\ AttendedAt(v, y) /\ TogetherAt(v, y)
    <2>1. y[1] = q
      OBVIOUS
    <2> HIDE DEF u1
    <2> QED  BY <1>7, <2>1 DEF AttendedAt, TogetherAt, Relies
  <1>9. \A z \in DOMAIN w.calls : w.calls[z].peer # y
    BY <1>1 DEF Begun, AsWas
  <1>10. QED
    BY <1>6, <1>7, <1>8, <1>9 DEF Enters
\* A call that comes in: the leg x is new, and so is the one it may lead to.
Begins(w, v, x) ==
    /\ x \notin DOMAIN w.calls
    /\ \E X : Enters(w, v, X) /\ (Unknown(w, {x}) => Unknown(w, X))

LEMMA BeginsAlone ==
    ASSUME NEW w, NEW u, NEW x, Begun(w, u, x), NEW v, Moves(u, v, {x}) \/ Raises(u, v, {x})
    PROVE  Begins(w, v, x)
  <1>1. Enters(w, v, {x})
    BY BegunThen
  <1>2. QED
    BY <1>1 DEF Begins, Begun

LEMMA BeginsBoth ==
    ASSUME NEW w, NEW v, NEW x, NEW y, x \notin DOMAIN w.calls, Enters(w, v, {x, y}),
           \A z \in DOMAIN w.calls : w.calls[z].peer # y
    PROVE  Begins(w, v, x)
  <1>1. Unknown(w, {x}) => Unknown(w, {x, y})
    BY DEF Unknown
  <1>2. QED
    BY <1>1 DEF Begins

LEMMA LegBegins ==
    ASSUME NEW w, Good(w), NEW x \in LegIds, x \notin DOMAIN w.calls, HasRoom(w, x[1]),
           NEW state \in {"N0", "N1"}, NEW dlci
    PROVE  LET u == SetLeg(Claim(w, <<x[1], dlci>>), x, NewLeg(state, dlci))
           IN Begun(w, u, x) /\ u.calls[x].state = state /\ u.calls[x].in = dlci /\ u.pool = w.pool
  <1> DEFINE w0 == Claim(w, <<x[1], dlci>>)
             leg == NewLeg(state, dlci)
             u == SetLeg(w0, x, leg)
             c == [y \in DOMAIN w0.calls \cup {x} |-> IF y = x THEN leg ELSE w0.calls[y]]
  <1>0. Good(w0) /\ w0.calls = w.calls /\ w0.pool = w.pool /\ dlci \notin Proper(w0, x[1])
    BY Claimed
  <1>1. IsLeg(leg) /\ leg.peer = NoPeer /\ leg.in = dlci /\ leg.state = state /\ leg.peer # x
    BY NewLegTyped, NoPeerIsNoLeg DEF LegStates, NewLeg
  <1> HIDE DEF leg, w0
  <1>2. u = [w0 EXCEPT !.calls = c]
    BY DEF SetLeg
  <1>3. u.calls = c /\ u.pool = w.pool
    <2> HIDE DEF u, c
    <2> QED  BY <1>0, <1>2 DEF Good
  <1>4. Good(u)
    <2>1. x \notin DOMAIN w0.calls /\ HasRoom(w0, x[1])
      BY <1>0 DEF HasRoom, LegsAt
    <2> QED  BY <1>0, <1>1, <2>1, Adds
  <1> HIDE DEF u
  <1>5. Begun(w, u, x) /\ u.calls[x] = leg
    BY <1>0, <1>1, <1>3, <1>4 DEF Begun, AsWas
  <1>6. QED
    BY <1>1, <1>3, <1>5 DEF u, leg, w0

LEMMA DlciBegins ==
    ASSUME NEW w, NEW u, NEW x, Begun(w, u, x), u.calls[x].in \notin OwnRange
    PROVE  LET got == DlciAlloc(u.pool[x[1]])
           IN Begun(w, [u EXCEPT !.pool[x[1]] = got.pool, !.calls[x].in = got.dlci], x)
  <1> DEFINE got == DlciAlloc(u.pool[x[1]])
             v == [u EXCEPT !.pool[x[1]] = got.pool, !.calls[x].in = got.dlci]
  <1>1. Good(u) /\ x \in DOMAIN u.calls /\ IsLeg(u.calls[x])
    BY DEF Begun, Good, LegsTyped
  <1>2. Good(v) /\ DOMAIN v.calls = DOMAIN u.calls
    <2>1. Good(u) /\ x \in DOMAIN u.calls /\ got = DlciAlloc(u.pool[x[1]])
      BY <1>1
    <2>2. Allotted(u, v, x, got)
      BY DEF Allotted
    <2> HIDE DEF got, v
    <2> QED  BY <2>1, <2>2, GetsDlci
  <1> HIDE DEF got
  <1>3. \A z \in DOMAIN u.calls : z # x => v.calls[z] = u.calls[z]
    BY <1>1 DEF Good
  <1>4. v.calls[x].peer = u.calls[x].peer /\ v.calls[x].state = u.calls[x].state
    BY <1>1 DEF Good, IsLeg
  <1> HIDE DEF v
  <1>5. Begun(w, v, x)
    BY <1>2, <1>3, <1>4 DEF Begun
  <1>6. QED
    BY <1>5 DEF v, got
LEMMA SwitchRaises ==
    ASSUME NEW w, Good(w), NEW x \in DOMAIN w.calls
    PROVE  Raises(w, VirtualSwitch(w, x), {x})
  <1> DEFINE v == [w EXCEPT !.calls[x] = [@ EXCEPT !.state = "N10", !.out = w.calls[x].in, !.outPort = x[1]]]
  <1>1. VirtualSwitch(w, x) = CreateDataPvcs(v, x)
    BY Zenon DEF VirtualSwitch
  <1>2. ButFor(w, v, x)
    BY DEF ButFor, Good
  <1>3. IsLeg(v.calls[x]) /\ v.calls[x].peer = w.calls[x].peer /\ v.calls[x].in = w.calls[x].in /\ v.calls[x].state = "N10"
    BY DEF Good, LegsTyped, IsLeg, LegStates
  <1> HIDE DEF v
  <1>4. Good(v)
    BY <1>2, <1>3, Edit DEF Sheds
  <1>5. Raises(w, v, {x})
    BY <1>2, <1>3, <1>4, RaisesOne
  <1>6. QED
    BY <1>1, <1>4, <1>5, PathMoves, RaisesThenMoves

LEMMA AcceptRaises ==
    ASSUME NEW w, Good(w), NEW x \in DOMAIN w.calls, NEW i
    PROVE  Raises(w, Accept(w, x, i), {x})
  <1> DEFINE w1 == SpvcTo(w, i, "connected", x)
             t == AddPvc(w1.tab, NearEnd(w, x), AccessPoint(i))
             v == [w1 EXCEPT !.tab = t, !.calls[x].state = "N10"]
  <1>1. Accept(w, x, i) = v
    BY Zenon DEF Accept
  <1>2. Good(v)
    BY <1>1, Accepted
  <1>3. Good(w1) /\ w1.calls = w.calls
    BY SpvcSetTo DEF Sheds
  <1> HIDE DEF w1, t
  <1>4. ButFor(w1, v, x)
    BY <1>3 DEF ButFor, Good
  <1>5. v.calls[x].peer = w1.calls[x].peer /\ v.calls[x].state = "N10"
    BY <1>3 DEF Good, LegsTyped, IsLeg
  <1> HIDE DEF v
  <1>6. Raises(w1, v, {x})
    BY <1>2, <1>3, <1>4, <1>5, RaisesOne
  <1>7. Raises(w, v, {x})
    BY <1>3, <1>6, SameCalls, RaisesThenMoves
  <1>8. QED
    BY <1>1, <1>7

LEMMA SvcToPvcRaises ==
    ASSUME NEW w, Good(w), NEW x \in DOMAIN w.calls, NEW i
    PROVE  Raises(w, AcceptSvcToPvc(w, x, i), {x})
  <1> DEFINE v == [w EXCEPT !.calls[x].outPort = Spvcs[i].port, !.calls[x].out = Spvcs[i].dlci]
  <1>1. AcceptSvcToPvc(w, x, i) = Accept(v, x, i)
    BY Zenon DEF AcceptSvcToPvc
  <1>2. ButFor(w, v, x)
    BY DEF ButFor, Good
  <1>3. IsLeg(v.calls[x]) /\ v.calls[x].peer = w.calls[x].peer /\ v.calls[x].in = w.calls[x].in /\ AsWas(w.calls[x], v.calls[x])
    BY DEF Good, LegsTyped, IsLeg, AsWas
  <1> HIDE DEF v
  <1>4. Good(v)
    BY <1>2, <1>3, Edit DEF Sheds
  <1>5. Moves(w, v, {})
    BY <1>2, <1>3, <1>4, MovesNone DEF ButFor, AsWas
  <1>6. Raises(v, Accept(v, x, i), {x})
    BY <1>2, <1>4, AcceptRaises DEF ButFor
  <1>7. QED
    BY <1>1, <1>5, <1>6, RaisesThenMoves

LEMMA OfferBegins ==
    ASSUME NEW w, NEW u, NEW x, Begun(w, u, x), x[1] \notin Nni, NEW q \in Ports, HasRoom(u, q)
    PROVE  Begins(w, Offer(u, x, q), x)
  <1> DEFINE y == <<q, NewCrv(u, q), 0>>
             dlci == u.calls[x].in
             got == DlciAlloc(u.pool[q])
             leg == [NewLeg("N6", got.dlci) EXCEPT !.peer = x, !.out = dlci, !.outPort = x[1],
                                                  !.timers = IF q \in Nni \cup u.lapf THEN {"T303"} ELSE {}]
             l == [u.calls[x] EXCEPT !.state = "N3", !.timers = {"T310"}, !.peer = y, !.out = dlci, !.outPort = q]
  <1>0. Good(u) /\ x \in DOMAIN u.calls
    BY DEF Begun
  <1>1. Offer(u, x, q) = SetLeg([u EXCEPT !.pool[q] = got.pool, !.calls[x] = l], y, leg)
    BY Zenon DEF Offer
  <1>2. Good(Offer(u, x, q)) /\ IsLeg(u.calls[x])
    BY <1>0, Offered DEF Good, LegsTyped
  <1>3. leg.peer = x /\ leg.state = "N6" /\ (leg.timers # {} \/ q \notin Nni)
    BY DEF NewLeg
  <1>4. l.peer = y /\ l.state = "N3" /\ l.timers # {}
    <2> HIDE DEF y
    <2> QED  BY <1>2 DEF IsLeg
  <1> DEFINE pool == got.pool
             v == Offer(u, x, q)
  <1>5. v = SetLeg([u EXCEPT !.pool[q] = pool, !.calls[x] = l], y, leg) /\ Good(v)
    BY <1>1, <1>2
  <1> HIDE DEF l, leg, pool, v
  <1>6. Enters(w, v, {x, y}) /\ \A z \in DOMAIN w.calls : w.calls[z].peer # y
    <2>1. \/ leg.timers # {} /\ (l.timers # {} \/ x[1] \in Nni)
          \/ l.timers # {} /\ x[1] \notin Nni /\ q \notin Nni
      BY <1>3, <1>4
    <2>2. y = <<q, NewCrv(u, q), 0>>
      OBVIOUS
    <2> HIDE DEF y
    <2> QED  BY <1>3, <1>4, <1>5, <2>1, <2>2, JoinEnters, Zenon
  <1>7. Begins(w, v, x)
    BY <1>6, BeginsBoth DEF Begun
  <1>8. QED
    BY <1>7 DEF v

LEMMA NniOfferBegins ==
    ASSUME NEW w, NEW u, NEW x, Begun(w, u, x), x[1] \in Nni, NEW q \in Ports, HasRoom(u, q)
    PROVE  Begins(w, NniOffer(u, x, q), x)
  <1> DEFINE y == <<q, NewCrv(u, q), 0>>
             got == DlciAlloc(u.pool[q])
             leg == [NewLeg("N6", got.dlci) EXCEPT !.peer = x, !.out = u.calls[x].in, !.outPort = x[1], !.timers = {"T303"}]
             l == [u.calls[x] EXCEPT !.state = "N3", !.peer = y, !.out = got.dlci, !.outPort = q]
  <1>0. Good(u) /\ x \in DOMAIN u.calls
    BY DEF Begun
  <1>1. \/ NniOffer(u, x, q) = NniClear(u, x)
        \/ NniOffer(u, x, q) = SetLeg([u EXCEPT !.pool[q] = got.pool, !.calls[x] = l], y, leg)
    BY Zenon DEF NniOffer
  <1>2. Good(NniOffer(u, x, q)) /\ IsLeg(u.calls[x])
    BY <1>0, NniOffered DEF Good, LegsTyped
  <1>3. leg.peer = x /\ leg.state = "N6" /\ leg.timers # {}
    BY DEF NewLeg
  <1>4. l.peer = y /\ l.state = "N3"
    <2> HIDE DEF y
    <2> QED  BY <1>2 DEF IsLeg
  <1> DEFINE pool == got.pool
             v == NniOffer(u, x, q)
  <1>5. CASE v = NniClear(u, x)
    BY <1>0, <1>5, ClearMoves, BeginsAlone
  <1>6. CASE v = SetLeg([u EXCEPT !.pool[q] = pool, !.calls[x] = l], y, leg)
    <2>1. Good(v)
      BY <1>2
    <2> HIDE DEF l, leg, pool, v
    <2>2. Enters(w, v, {x, y}) /\ \A z \in DOMAIN w.calls : w.calls[z].peer # y
      <3>1. \/ leg.timers # {} /\ (l.timers # {} \/ x[1] \in Nni)
            \/ l.timers # {} /\ x[1] \notin Nni /\ q \notin Nni
        BY <1>3
      <3>2. y = <<q, NewCrv(u, q), 0>>
        OBVIOUS
      <3> HIDE DEF y
      <3> QED  BY <1>3, <1>4, <1>6, <2>1, <3>1, <3>2, JoinEnters, Zenon
    <2> QED  BY <2>2, BeginsBoth DEF Begun, v
  <1>7. QED
    BY <1>1, <1>5, <1>6
LEMMA UniSetupBegins ==
    ASSUME NEW w, Good(w), NEW x \in LegIds, x[1] \notin Nni, NEW d, Len(d.subs) \in Nat, NEW m
    PROVE  UniSetup(w, d, x, m) = w \/ Begins(w, UniSetup(w, d, x, m), x)
  <1> DEFINE w1 == SetLeg(Claim(w, <<x[1], m.dlci>>), x, NewLeg("N1", m.dlci))
             got == DlciAlloc(w.pool[x[1]])
             w2 == IF m.dlci # 0 THEN w1 ELSE [w1 EXCEPT !.pool[x[1]] = got.pool, !.calls[x].in = got.dlci]
             number == PrimaryNumber(d, m.called)
             q == RouteLookup(d, number, m.tns, {})
             i == SvcToPvc(w2, number)
  <1>1. CASE x \in DOMAIN w.calls \/ ~HasRoom(w, x[1])
    BY <1>1, Zenon DEF UniSetup
  <1>2. CASE x \notin DOMAIN w.calls /\ HasRoom(w, x[1])
    <2>1. \/ UniSetup(w, d, x, m) = ClearBeforeActive(w1, x)
          \/ UniSetup(w, d, x, m) = ClearBeforeActive(w2, x)
          \/ UniSetup(w, d, x, m) = PlaceCall(w2, d, x, m, number)
      BY <1>2, Zenon DEF UniSetup
    <2>2. 0 \notin OwnRange
      BY DlciPoolAssumption DEF OwnRange
    <2>3. Begun(w, w1, x) /\ w1.calls[x].in = m.dlci /\ w1.pool = w.pool
      BY <1>2, LegBegins
    <2>4. \/ PlaceCall(w2, d, x, m, number) = VirtualSwitch(w2, x)
          \/ PlaceCall(w2, d, x, m, number) = AcceptSvcToPvc(w2, x, i)
          \/ PlaceCall(w2, d, x, m, number) = ClearBeforeActive(w2, x)
          \/ q # NoPort /\ HasRoom(w2, q) /\ PlaceCall(w2, d, x, m, number) = Offer(w2, x, q)
      BY Zenon DEF PlaceCall
    <2>5. q \in Ports \cup {NoPort}
      BY Routed
    <2> HIDE DEF w1, q, number
    <2>6. Begun(w, w2, x)
      <3>1. CASE m.dlci # 0
        BY <2>3, <3>1
      <3>2. CASE m.dlci = 0
        <4> DEFINE v == [w1 EXCEPT !.pool[x[1]] = got.pool, !.calls[x].in = got.dlci]
        <4>1. Begun(w, v, x)
          <5>1. w1.calls[x].in \notin OwnRange /\ got = DlciAlloc(w1.pool[x[1]])
            BY <2>2, <2>3, <3>2
          <5> HIDE DEF got
          <5> QED  BY <2>3, <5>1, DlciBegins, Zenon
        <4>2. w2 = v
          BY <3>2
        <4> HIDE DEF v, w2
        <4> QED  BY <4>1, <4>2
      <3> QED  BY <3>1, <3>2
    <2> HIDE DEF w2, i
    <2>7. ASSUME NEW u, Begun(w, u, x)
          PROVE  /\ Begins(w, ClearBeforeActive(u, x), x) /\ Begins(w, VirtualSwitch(u, x), x)
                 /\ Begins(w, AcceptSvcToPvc(u, x, i), x)
      <3>1. Good(u) /\ x \in DOMAIN u.calls
        BY <2>7 DEF Begun
      <3> QED  BY <2>7, <3>1, ClearMoves, SwitchRaises, SvcToPvcRaises, BeginsAlone
    <2> QED  BY <2>1, <2>3, <2>4, <2>5, <2>6, <2>7, OfferBegins
  <1>3. QED
    BY <1>1, <1>2

\* A call for an access PVC that is not there leaves its leg as it was made.
LEMMA NniSetupBegins ==
    ASSUME NEW w, Good(w), NEW x \in LegIds, x[1] \in Nni, NEW d, Len(d.subs) \in Nat, NEW m
    PROVE  NniSetup(w, d, x, m) = w \/ Begins(w, NniSetup(w, d, x, m), x)
  <1> DEFINE w1 == SetLeg(Claim(w, <<x[1], m.dlci>>), x, NewLeg("N0", m.dlci))
             i == CalledSpvc(m)
             q == RouteLookup(d, m.called, m.tns, m.tni \cup (IF Cardinality(m.tni) < MaxTnis THEN {OwnNet} ELSE {}))
  <1>1. CASE x \in DOMAIN w.calls \/ ~HasRoom(w, x[1])
    BY <1>1, Zenon DEF NniSetup
  <1>2. CASE x \notin DOMAIN w.calls /\ HasRoom(w, x[1])
    <2>1. \/ NniSetup(w, d, x, m) = NniClear(w1, x)
          \/ NniSetup(w, d, x, m) = IncomingSpvc(w1, x, i)
          \/ NniSetup(w, d, x, m) = NniPlaceCall(w1, d, x, m)
      BY <1>2, Zenon DEF NniSetup
    <2>2. IncomingSpvc(w1, x, i) = w1 \/ IncomingSpvc(w1, x, i) = Accept(w1, x, i)
      BY Zenon DEF IncomingSpvc
    <2>3. \/ NniPlaceCall(w1, d, x, m) = NniClear(w1, x)
          \/ q # NoPort /\ HasRoom(w1, q) /\ NniPlaceCall(w1, d, x, m) = NniOffer(w1, x, q)
      BY Zenon DEF NniPlaceCall
    <2>4. q \in Ports \cup {NoPort}
      BY Routed
    <2>5. Begun(w, w1, x) /\ w1.calls[x].state = "N0"
      BY <1>2, LegBegins
    <2> HIDE DEF w1, i, q
    <2>6. Good(w1) /\ x \in DOMAIN w1.calls
      BY <2>5 DEF Begun
    <2>7. Begins(w, NniClear(w1, x), x) /\ Begins(w, Accept(w1, x, i), x)
      BY <2>5, <2>6, ClearMoves, AcceptRaises, BeginsAlone
    <2>8. Begins(w, w1, x)
      <3>1. AttendedAt(w1, x) /\ TogetherAt(w1, x)
        BY <2>5, <2>6, NoPeerIsNoLeg DEF Begun, AttendedAt, TogetherAt, Relies, Good, LegsTyped
      <3>2. Enters(w, w1, {x})
        BY <2>5, <3>1 DEF Begun, Enters
      <3> QED  BY <2>5, <3>2 DEF Begins, Begun
    <2> QED  BY <2>1, <2>2, <2>3, <2>4, <2>5, <2>7, <2>8, NniOfferBegins
  <1>3. QED
    BY <1>1, <1>2
LEMMA DialMoves ==
    ASSUME NEW w, Good(w), NEW d, Len(d.subs) \in Nat, NEW i
    PROVE  \/ Moves(w, Dial(w, d, i), {})
           \/ \E X : Enters(w, Dial(w, d, i), X) /\ Unknown(w, X)
  <1> DEFINE q == RouteLookup(d, Spvcs[i].addr, NoNet, {})
             got == DlciAlloc(w.pool[q])
             x == <<q, NewCrv(w, q), 0>>
             leg == [NewLeg("N1", got.dlci) EXCEPT !.out = Spvcs[i].dlci, !.outPort = Spvcs[i].port, !.timers = {"T303"}]
             w0 == [w EXCEPT !.pool[q] = got.pool]
             c == [z \in DOMAIN w0.calls \cup {x} |-> IF z = x THEN leg ELSE w0.calls[z]]
             w1 == [w0 EXCEPT !.calls = c]
             v == [w1 EXCEPT !.spvc[i] = [state |-> "setup", crv |-> x[2], port |-> x[1]]]
             retry == [w EXCEPT !.spvc[i].state = "retry"]
  <1>1. Dial(w, d, i) = retry \/ (q # NoPort /\ Dial(w, d, i) = SpvcTo(SetLeg(w0, x, leg), i, "setup", x))
    BY Zenon DEF Dial
  <1>2. Moves(w, retry, {})
    <2>1. Good(retry) /\ retry.calls = w.calls
      BY SpvcStateSet DEF Sheds, Good
    <2> QED  BY <2>1, SameCalls
  <1>3. SpvcTo(SetLeg(w0, x, leg), i, "setup", x) = v
    BY Zenon DEF SpvcTo, SetLeg
  <1>4. q \in Ports \cup {NoPort}
    BY Routed
  <1>5. Good(Dial(w, d, i))
    BY Dialled
  <1> HIDE DEF q, retry
  <1>6. CASE q # NoPort /\ Dial(w, d, i) = v
    <2>1. x \notin DOMAIN w.calls /\ \A z \in DOMAIN w.calls : w.calls[z].peer # x
      BY <1>4, <1>6, FreshCrv
    <2>2. leg.peer = NoPeer /\ leg.state = "N1" /\ leg.timers # {}
      BY DEF NewLeg
    <2>3. w0.calls = w.calls /\ DOMAIN w0 = DOMAIN w
      BY DEF Good
    <2> HIDE DEF x, leg, w0
    <2>4. c[x] = leg /\ DOMAIN c = DOMAIN w.calls \cup {x} /\ \A z \in DOMAIN w.calls : c[z] = w.calls[z]
      BY <2>1, <2>3
    <2>5. v.calls = c
      <3> HIDE DEF c
      <3> QED  BY <2>3 DEF Good
    <2> HIDE DEF c, v
    <2>6. NoPeer \notin DOMAIN v.calls
      BY <1>5, <1>6, NoPeerIsNoLeg DEF Good, LegsTyped
    <2>7. AttendedAt(v, x) /\ TogetherAt(v, x)
      BY <2>2, <2>4, <2>5, <2>6 DEF AttendedAt, TogetherAt, Relies
    <2>8. Enters(w, v, {x})
      BY <1>5, <1>6, <2>4, <2>5, <2>7 DEF Enters, AsWas
    <2>9. Unknown(w, {x})
      BY <2>1 DEF Unknown
    <2> QED  BY <1>6, <2>8, <2>9
  <1>7. QED
    BY <1>1, <1>2, <1>3, <1>6

LEMMA PollMoves ==
    ASSUME NEW w, Good(w), NEW d, Len(d.subs) \in Nat, NEW i, NEW accessUp
    PROVE  LET x == <<w.spvc[i].port, w.spvc[i].crv, 0>>
               v == PollSpvc(w, d, i, accessUp)
           IN \/ Moves(w, v, {})
              \/ x \in DOMAIN w.calls /\ w.spvc[i].state = "connected" /\ Moves(w, v, {x})
              \/ \E X : Enters(w, v, X) /\ Unknown(w, X)
  <1> DEFINE x == <<w.spvc[i].port, w.spvc[i].crv, 0>>
             w1 == IF x \in DOMAIN w.calls THEN NniClear(w, x) ELSE w
             v == [w1 EXCEPT !.spvc[i].state = "idle"]
  <1>1. \/ PollSpvc(w, d, i, accessUp) = w \/ PollSpvc(w, d, i, accessUp) = Dial(w, d, i)
        \/ w.spvc[i].state = "connected" /\ PollSpvc(w, d, i, accessUp) = v
    BY Zenon DEF PollSpvc
  <1>2. Moves(w, w1, {}) \/ (x \in DOMAIN w.calls /\ Moves(w, w1, {x}))
    <2> HIDE DEF x
    <2> QED  BY SameCalls, ClearMoves
  <1> HIDE DEF w1
  <1>3. Good(w1)
    BY <1>2 DEF Moves
  <1>4. Moves(w1, v, {})
    <2>1. Good(v) /\ v.calls = w1.calls
      BY <1>3, SpvcStateSet DEF Sheds, Good
    <2> HIDE DEF v
    <2> QED  BY <1>3, <2>1, SameCalls
  <1> HIDE DEF v
  <1>5. \A X : Moves(w, w1, X) => Moves(w, v, X)
    <2> TAKE X
    <2> HAVE Moves(w, w1, X)
    <2>1. Moves(w, v, X \cup {})
      BY <1>4, MovesAgain
    <2>2. X \cup {} = X
      OBVIOUS
    <2> QED  BY <2>1, <2>2
  <1>6. Moves(w, w, {})
    BY SameCalls
  <1>7. Moves(w, v, {}) \/ (x \in DOMAIN w.calls /\ Moves(w, v, {x}))
    BY <1>2, <1>5
  <1> HIDE DEF x
  <1>8. \/ Moves(w, PollSpvc(w, d, i, accessUp), {})
        \/ x \in DOMAIN w.calls /\ w.spvc[i].state = "connected" /\ Moves(w, PollSpvc(w, d, i, accessUp), {x})
        \/ \E X : Enters(w, PollSpvc(w, d, i, accessUp), X) /\ Unknown(w, X)
    BY <1>1, <1>6, <1>7, DialMoves
  <1>9. QED
    BY <1>8 DEF x
-----------------------------------------------------------------------------
(***************************************************************************)
(* The actions.  A lawful step parts no leg from its peer: none is left to *)
(* wait by one that goes, or active by one that was active too.            *)
(***************************************************************************)
Lawful(w, v) ==
    \E X : \/ Moves(w, v, X) /\ Spares(w, v, X) /\ Tells(w, X)
           \/ Raises(w, v, X) /\ Closed(w, X)
           \/ Enters(w, v, X) /\ Unknown(w, X)

Lawfully(w, v) == Steps(w, v) /\ (Together(w) => Lawful(w, v))

LEMMA LawfulIsOrderly ==
    ASSUME NEW w, NEW v, Lawful(w, v)
    PROVE  Orderly(w, v)
  BY DEF Lawful, Orderly

LEMMA ClosedSpares ==
    ASSUME NEW w, NEW v, NEW X, Closed(w, X)
    PROVE  Spares(w, v, X) /\ Tells(w, X)
  BY DEF Closed, Spares, Tells

LEMMA EndsLawfully ==
    ASSUME NEW w, NEW v, EndsWhole(w, v)
    PROVE  Lawfully(w, v)
  BY ClosedSpares DEF EndsWhole, Lawfully, Lawful, Steps

LEMMA SameLawfully ==
    ASSUME NEW w, NEW v, Moves(w, v, {})
    PROVE  Lawfully(w, v)
  BY SameEnds, EndsLawfully

LEMMA BothLawfully ==
    ASSUME NEW w, NEW x \in DOMAIN w.calls, NEW v, Moves(w, v, Both(w, x)) \/ Raises(w, v, Both(w, x))
    PROVE  Lawfully(w, v)
  <1>1. CASE Moves(w, v, Both(w, x))
    BY <1>1, BothClosed, EndsLawfully DEF EndsWhole
  <1>2. CASE Raises(w, v, Both(w, x))
    BY <1>2, BothClosed DEF Lawfully, Lawful, Steps
  <1>3. QED
    BY <1>1, <1>2

\* A leg alone, and what keeps its peer from being left.
LEMMA OneLawfully ==
    ASSUME NEW w, NEW x \in DOMAIN w.calls, NEW v, Moves(w, v, {x})
    PROVE  LET y == w.calls[x].peer
           IN /\ Steps(w, v)
              /\ (HasPeer(w, x) => ~Relies(w.calls[y]) \/ x \in DOMAIN v.calls) => Orderly(w, v)
              /\ /\ Together(w) /\ HasPeer(w, x) => ~Relies(w.calls[y]) \/ x \in DOMAIN v.calls
                 /\ HasPeer(w, x) => w.calls[x].state # "N10" \/ w.calls[y].state # "N10"
                 => Lawfully(w, v)
  <1> DEFINE y == w.calls[x].peer
  <1>1. Steps(w, v)
    BY DEF Steps
  <1>2. (HasPeer(w, x) => ~Relies(w.calls[y]) \/ x \in DOMAIN v.calls) => Spares(w, v, {x})
    BY DEF Spares, HasPeer
  <1>3. (HasPeer(w, x) => w.calls[x].state # "N10" \/ w.calls[y].state # "N10") => Tells(w, {x})
    BY DEF Tells, HasPeer
  <1>4. Spares(w, v, {x}) => Orderly(w, v)
    BY DEF Orderly
  <1>5. (Together(w) => Spares(w, v, {x})) /\ Tells(w, {x}) => Lawfully(w, v)
    BY <1>1 DEF Lawfully, Lawful
  <1> HIDE DEF y
  <1>6. QED
    BY <1>1, <1>2, <1>3, <1>4, <1>5 DEF y

LEMMA ActsLawfully ==
    ASSUME NEW w, NEW x \in DOMAIN w.calls, NEW v, Acts(w, v, x)
    PROVE  Lawfully(w, v)
  <1>1. CASE Moves(w, v, {})
    BY <1>1, SameLawfully
  <1>2. CASE Moves(w, v, Both(w, x))
    BY <1>2, BothLawfully
  <1>3. CASE Moves(w, v, {x}) /\ x \in DOMAIN v.calls /\ w.calls[x].state # "N10"
    BY <1>3, OneLawfully
  <1>4. QED
    BY <1>1, <1>2, <1>3 DEF Acts

LEMMA UniReleaseLawfully ==
    ASSUME NEW w, Good(w), NEW x \in DOMAIN w.calls
    PROVE  Lawfully(w, UniRelease(w, x))
  <1>1. CASE Moves(w, UniRelease(w, x), Both(w, x))
    BY <1>1, BothLawfully
  <1>2. CASE Moves(w, UniRelease(w, x), {x}) /\ HasPeer(w, x) /\ w.calls[w.calls[x].peer].state = "N19"
    <2>1. ~Relies(w.calls[w.calls[x].peer]) /\ w.calls[w.calls[x].peer].state # "N10"
      BY <1>2 DEF Relies
    <2> QED  BY <1>2, <2>1, OneLawfully
  <1>3. QED
    BY <1>1, <1>2, UniReleaseMoves

LEMMA ClearOrderly ==
    ASSUME NEW w, Good(w), Attended(w), NEW x \in DOMAIN w.calls
    PROVE  Steps(w, Clear(w, x)) /\ Orderly(w, Clear(w, x))
  <1>1. Moves(w, Clear(w, x), {x}) /\ (w.calls[x].state # "N0" => x \in DOMAIN Clear(w, x).calls)
    BY ClearMoves
  <1>2. w.calls[x].state = "N0" => ~HasPeer(w, x)
    BY NoPeerIsNoLeg DEF Attended, AttendedAt, HasPeer, Good, LegsTyped
  <1>3. QED
    BY <1>1, <1>2, OneLawfully

LEMMA ExpiredOrderly ==
    ASSUME NEW w, Good(w), NEW x \in DOMAIN w.calls, NEW t \in w.calls[x].timers
    PROVE  Steps(w, Expired(w, x, t)) /\ (Together(w) => Orderly(w, Expired(w, x, t)))
  <1> DEFINE v == Expired(w, x, t)
  <1>1. CASE Moves(w, v, {}) \/ Moves(w, v, Both(w, x))
    BY <1>1, SameLawfully, BothLawfully, LawfulIsOrderly DEF Lawfully
  <1>2. CASE Moves(w, v, {x}) /\ x \in DOMAIN v.calls
    BY <1>2, OneLawfully
  <1>3. QED
    BY <1>1, <1>2, ExpiredMoves
\* Messages that answer a call.  A mishap is a SETUP with a reference that a
\* leg still knows, or a CONNECT ACKNOWLEDGE of nothing.
LEMMA AnswersLawful ==
    IInv /\ (Setup \/ Establish \/ CallProceeding \/ Connect \/ ConnectAck) =>
        Steps(sw, sw') /\ (~mishap' => Lawfully(sw, sw'))
  <1> SUFFICES ASSUME IInv, Setup \/ Establish \/ CallProceeding \/ Connect \/ ConnectAck
               PROVE  Steps(sw, sw') /\ (~mishap' => Lawfully(sw, sw'))
    OBVIOUS
  <1>0. Good(sw) /\ Len(dir.subs) \in Nat
    BY DirTyped DEF IInv
  <1>1. UniLegs \subseteq DOMAIN sw.calls /\ NniLegs \subseteq DOMAIN sw.calls
    BY DEF UniLegs, NniLegs, Legs, LegsAt
  <1>2. CASE Setup
    <2>1. PICK m \in Setups, c \in NeighbourCrvs :
              /\ sw' = IF m.port \in Nni THEN NniSetup(sw, dir, <<m.port, c, 1>>, m) ELSE UniSetup(sw, dir, <<m.port, c, 1>>, m)
              /\ sw' # sw
              /\ mishap' = (mishap \/ (<<m.port, c, 1>> \notin Legs(m.port)
                                        /\ \E y \in DOMAIN sw.calls : sw.calls[y].peer = <<m.port, c, 1>>))
      BY <1>2, Zenon DEF Setup, Arrives
    <2> DEFINE x == <<m.port, c, 1>>
    <2>2. x \in LegIds /\ x[1] = m.port
      BY SvcSwitchAssumption DEF LegIds
    <2>3. Legs(m.port) \subseteq DOMAIN sw.calls
      BY DEF Legs, LegsAt
    <2> HIDE DEF x
    <2>4. Begins(sw, sw', x)
      <3>1. CASE m.port \in Nni
        BY <1>0, <2>1, <2>2, <3>1, NniSetupBegins DEF x
      <3>2. CASE m.port \notin Nni
        BY <1>0, <2>1, <2>2, <3>2, UniSetupBegins DEF x
      <3> QED  BY <3>1, <3>2
    <2>5. PICK X : Enters(sw, sw', X) /\ (Unknown(sw, {x}) => Unknown(sw, X))
      BY <2>4 DEF Begins
    <2>6. ~mishap' => Unknown(sw, {x})
      BY <2>1, <2>3, <2>4 DEF Begins, Unknown, x
    <2> QED  BY <2>5, <2>6 DEF Steps, Lawfully, Lawful
  <1>3. CASE CallProceeding
    <2>1. \/ \E x \in UniLegs, q \in {"ok", "nodlci", "baddlci"} : sw' = UniCallProceeding(sw, x, q)
          \/ \E x \in NniLegs : sw' = NniCallProceeding(sw, x)
      BY <1>3, Zenon DEF CallProceeding, Arrives
    <2>2. Lawfully(sw, sw')
      BY <1>0, <1>1, <2>1, UniProceedMoves, NniProceedMoves, ActsLawfully
    <2> QED  BY <2>2 DEF Lawfully
  <1>4. CASE Connect
    <2>1. \/ \E x \in UniLegs, q \in {"ok", "nodlci", "baddlci", "refused"} : sw' = UniConnect(sw, x, q)
          \/ \E x \in NniLegs, q \in {"ok", "wrong", "refused"} : sw' = NniConnect(sw, x, q)
      BY <1>4, Zenon DEF Connect, Arrives
    <2>2. \E x \in DOMAIN sw.calls : Acts(sw, sw', x) \/ Raises(sw, sw', Both(sw, x))
      BY <1>0, <1>1, <2>1, UniConnectMoves, NniConnectMoves
    <2>3. Lawfully(sw, sw')
      BY <2>2, ActsLawfully, BothLawfully
    <2> QED  BY <2>3 DEF Lawfully
  <1>5. CASE ConnectAck
    <2>1. PICK x \in UniLegs : sw' = UniConnectAck(sw, x) /\ mishap' = (mishap \/ ~Acknowledges(sw.calls[x]))
      BY <1>5, Zenon DEF ConnectAck, Arrives
    <2>2. Raises(sw, sw', {x}) /\ (sw.calls[x].state = "N10" => Moves(sw, sw', {}))
      BY <1>0, <1>1, <2>1, UniAckMoves
    <2>3. ~mishap' => Moves(sw, sw', {})
      BY <2>1, <2>2 DEF Acknowledges
    <2> QED  BY <2>2, <2>3, SameLawfully DEF Steps
  <1>6. CASE Establish
    <2>1. \E p \in Ports : sw' = [sw EXCEPT !.lapf = @ \cup {p}]
      BY <1>6, Zenon DEF Establish, Arrives
    <2>2. sw'.calls = sw.calls
      BY <1>0, <2>1 DEF Good
    <2>3. Good(sw')
      BY <1>6, EstablishGood
    <2>4. Lawfully(sw, sw')
      BY <1>0, <2>2, <2>3, SameCalls, SameLawfully
    <2> QED  BY <2>4 DEF Lawfully
  <1>7. QED
    BY <1>2, <1>3, <1>4, <1>5, <1>6

\* Messages that clear a call.  A mishap is a RELEASE that crosses ours.
LEMMA ClearingLawful ==
    IInv /\ Attended(sw) /\ (Disconnect \/ Release \/ ReleaseComplete \/ Status) =>
        Steps(sw, sw') /\ (~mishap' => Lawfully(sw, sw'))
  <1> SUFFICES ASSUME IInv, Attended(sw), Disconnect \/ Release \/ ReleaseComplete \/ Status
               PROVE  Steps(sw, sw') /\ (~mishap' => Lawfully(sw, sw'))
    OBVIOUS
  <1>0. Good(sw)
    BY DEF IInv
  <1>1. UniLegs \subseteq DOMAIN sw.calls /\ NniLegs \subseteq DOMAIN sw.calls
    BY DEF UniLegs, NniLegs, Legs, LegsAt
  <1>2. Lawfully(sw, sw') => Steps(sw, sw')
    BY DEF Lawfully
  <1>3. CASE Disconnect
    <2>1. \E x \in UniLegs : sw' = UniDisconnect(sw, x)
      BY <1>3, Zenon DEF Disconnect, Arrives
    <2> QED  BY <1>0, <1>1, <1>2, <2>1, UniDisconnectMoves, ActsLawfully
  <1>4. CASE \E x \in NniLegs : Arrives(NniRelease(sw, x)) /\ mishap' = (mishap \/ Crosses(x))
    <2>1. PICK x \in NniLegs : sw' = NniRelease(sw, x) /\ mishap' = (mishap \/ Crosses(x))
      BY <1>4, Zenon DEF Arrives
    <2>2. x \in DOMAIN sw.calls
      BY <1>1
    <2>3. CASE Moves(sw, sw', Both(sw, x))
      BY <1>2, <2>2, <2>3, BothLawfully
    <2>4. CASE Moves(sw, sw', {x}) /\ sw.calls[x].state = "N11"
      <3>1. sw.calls[x].state # "N10"
        BY <2>4
      <3>2. ASSUME ~mishap', HasPeer(sw, x), Together(sw) PROVE ~Relies(sw.calls[sw.calls[x].peer])
        <4> DEFINE y == sw.calls[x].peer
        <4>1. sw.calls[y].state # "N3"
          BY <2>1, <2>4, <3>2 DEF Crosses
        <4>2. y \in DOMAIN sw.calls /\ sw.calls[y].peer = x /\ x[1] \in Nni
          BY <2>2, <3>2 DEF HasPeer, Together, TogetherAt, NniLegs, Legs, LegsAt
        <4> HIDE DEF y
        <4> QED  BY <4>1, <4>2 DEF Attended, AttendedAt, Relies, y
      <3> QED  BY <2>2, <2>4, <3>1, <3>2, OneLawfully
    <2> QED  BY <1>0, <2>1, <2>2, <2>3, <2>4, NniReleaseMoves
  <1>5. CASE (Release \/ ReleaseComplete) /\ ~(\E x \in NniLegs : Arrives(NniRelease(sw, x)) /\ mishap' = (mishap \/ Crosses(x)))
    <2>1. (\E x \in UniLegs : sw' = UniRelease(sw, x)) \/ (\E x \in NniLegs : sw' = NniReleaseComplete(sw, x))
      BY <1>5, Zenon DEF Release, ReleaseComplete, Arrives
    <2>2. \A x \in DOMAIN sw.calls : Lawfully(sw, UniRelease(sw, x)) /\ Lawfully(sw, NniReleaseComplete(sw, x))
      BY <1>0, UniReleaseLawfully, NniReleaseMoves, BothLawfully
    <2> QED  BY <1>1, <1>2, <2>1, <2>2
  <1>6. CASE Status
    <2>1. \/ \E x \in UniLegs, s \in {"N0", "same", "other"} : sw' = UniStatus(sw, x, s)
          \/ \E x \in NniLegs, s \in {"N0", "other"} : sw' = NniStatus(sw, x, s)
      BY <1>6, Zenon DEF Status, Arrives
    <2>2. \A x, s : NniStatus(sw, x, s) = sw \/ NniStatus(sw, x, s) = NniDrop(sw, x)
      BY Zenon DEF NniStatus
    <2>3. \A x : Lawfully(sw, NniDrop(sw, x))
      BY <1>0, DropEnds, EndsLawfully
    <2>4. Lawfully(sw, sw)
      BY <1>0, SameCalls, SameLawfully
    <2> QED  BY <1>0, <1>1, <1>2, <2>1, <2>2, <2>3, <2>4, UniStatusMoves, ActsLawfully
  <1>7. QED
    BY <1>3, <1>4, <1>5, <1>6

\* A mishap is a user that restarts.
LEMMA RestartsLawful ==
    IInv /\ (Restart \/ RestartAck \/ OperatorRestart) => Steps(sw, sw') /\ (~mishap' => Lawfully(sw, sw'))
  <1> SUFFICES ASSUME IInv, Restart \/ RestartAck \/ OperatorRestart
               PROVE  Steps(sw, sw') /\ (~mishap' => Lawfully(sw, sw'))
    OBVIOUS
  <1>1. Good(sw) /\ \A p : Legs(p) = LegsAt(sw, p)
    BY DEF Legs, IInv
  <1>2. Lawfully(sw, sw') => Steps(sw, sw')
    BY DEF Lawfully
  <1>3. CASE Restart
    <2>1. PICK p \in Ports : \E order \in SetToSeqs(LegsAt(sw, p)) :
              \/ sw' = UniRestart(sw, order) /\ mishap' = (mishap \/ order # <<>>)
              \/ sw' = NniRestart(sw, p, order)
              \/ \E x \in Legs(p) : sw' = NniRestartChannel(sw, p, sw.calls[x].in, order)
      BY <1>1, <1>3, Zenon DEF Restart, Arrives
    <2>2. PICK order \in SetToSeqs(LegsAt(sw, p)) :
              \/ sw' = UniRestart(sw, order) /\ mishap' = (mishap \/ order # <<>>)
              \/ sw' = NniRestart(sw, p, order)
              \/ \E x \in Legs(p) : sw' = NniRestartChannel(sw, p, sw.calls[x].in, order)
      BY <2>1
    <2>3. LegsAt(sw, p) \in SUBSET DOMAIN sw.calls /\ order \in Seq(LegsAt(sw, p)) /\ Once(order)
      BY <1>1, OrdersOf
    <2>4. CASE sw' = UniRestart(sw, order) /\ mishap' = (mishap \/ order # <<>>)
      <3>1. PICK X : Moves(sw, sw', X) /\ (order = <<>> => X = {})
        BY <1>1, <2>3, <2>4, UniRestartMoves
      <3>2. ~mishap' => X = {}
        BY <2>4, <3>1
      <3> QED  BY <3>1, <3>2, SameLawfully DEF Steps
    <2>5. CASE sw' = NniRestart(sw, p, order) \/ \E x \in Legs(p) : sw' = NniRestartChannel(sw, p, sw.calls[x].in, order)
      BY <1>1, <1>2, <2>3, <2>5, NniRestartEnds, EndsLawfully
    <2> QED  BY <2>2, <2>4, <2>5
  <1>4. CASE RestartAck
    <2>1. PICK p \in Ports : sw' = [sw EXCEPT !.restart[p] = 0]
      BY <1>4, Zenon DEF RestartAck, Arrives
    <2>2. 0 \in 0 .. 3
      OBVIOUS
    <2>3. Moves(sw, [sw EXCEPT !.restart[p] = 0], {})
      BY <1>1, <2>2, RestartingMoves
    <2> QED  BY <1>2, <2>1, <2>3, SameLawfully
  <1>5. CASE OperatorRestart
    <2>1. PICK p \in Nni : \E order \in SetToSeqs(LegsAt(sw, p)) : sw' = InitiateRestart(sw, p, order)
      BY <1>1, <1>5, Zenon DEF OperatorRestart, Arrives
    <2>2. PICK order \in SetToSeqs(LegsAt(sw, p)) : sw' = InitiateRestart(sw, p, order)
      BY <2>1
    <2>3. p \in Ports /\ order \in Seq(LegsAt(sw, p))
      BY <1>1, OrdersOf, SvcCallsAssumption
    <2> QED  BY <1>1, <1>2, <2>2, <2>3, NniRestartEnds, EndsLawfully
  <1>6. QED
    BY <1>3, <1>4, <1>5
\* A mishap is a soft PVC that clears a call which is not its own.
LEMMA PollsLawful ==
    IInv /\ (\E i \in DOMAIN Spvcs : Poll(i)) => Steps(sw, sw') /\ (~mishap' => Lawfully(sw, sw'))
  <1> SUFFICES ASSUME IInv, NEW i \in DOMAIN Spvcs, Poll(i)
               PROVE  Steps(sw, sw') /\ (~mishap' => Lawfully(sw, sw'))
    OBVIOUS
  <1>1. Good(sw) /\ Len(dir.subs) \in Nat
    BY DirTyped DEF IInv
  <1> DEFINE x == <<sw.spvc[i].port, sw.spvc[i].crv, 0>>
  <1>2. /\ \E accessUp \in BOOLEAN : sw' = PollSpvc(sw, dir, i, accessUp)
        /\ mishap' = (mishap \/ (sw.spvc[i].state = "connected" /\ x \in DOMAIN sw.calls /\ HasPeer(sw, x)))
    BY Zenon DEF Poll, Arrives
  <1>3. \/ Moves(sw, sw', {})
        \/ x \in DOMAIN sw.calls /\ sw.spvc[i].state = "connected" /\ Moves(sw, sw', {x})
        \/ \E X : Enters(sw, sw', X) /\ Unknown(sw, X)
    BY <1>1, <1>2, PollMoves
  <1> HIDE DEF x
  <1>4. CASE Moves(sw, sw', {})
    BY <1>4, SameLawfully DEF Lawfully
  <1>5. CASE x \in DOMAIN sw.calls /\ sw.spvc[i].state = "connected" /\ Moves(sw, sw', {x})
    BY <1>2, <1>5, OneLawfully
  <1>6. CASE \E X : Enters(sw, sw', X) /\ Unknown(sw, X)
    BY <1>6 DEF Steps, Lawfully, Lawful
  <1>7. QED
    BY <1>3, <1>4, <1>5, <1>6

LEMMA OthersOrderly ==
    IInv /\ Attended(sw) /\ (OperatorClear \/ TimerRunsOut) => Steps(sw, sw') /\ (Together(sw) => Orderly(sw, sw'))
  <1> SUFFICES ASSUME IInv, Attended(sw), OperatorClear \/ TimerRunsOut
               PROVE  Steps(sw, sw') /\ (Together(sw) => Orderly(sw, sw'))
    OBVIOUS
  <1>1. Good(sw) /\ \A p : Legs(p) \subseteq DOMAIN sw.calls
    BY DEF Legs, LegsAt, IInv
  <1>2. CASE OperatorClear
    <2>1. \E p \in Ports : \E x \in Legs(p) : sw' = Clear(sw, x)
      BY <1>2, Zenon DEF OperatorClear, Arrives
    <2>2. \E x \in DOMAIN sw.calls : sw' = Clear(sw, x)
      BY <1>1, <2>1
    <2> QED  BY <1>1, <2>2, ClearOrderly
  <1>3. CASE \E x \in DOMAIN sw.calls : Expire(x)
    <2>1. \E x \in DOMAIN sw.calls : \E t \in sw.calls[x].timers : sw' = Expired(sw, x, t)
      BY <1>3, Zenon DEF Expire
    <2> QED  BY <1>1, <2>1, ExpiredOrderly
  <1>4. CASE \E p \in Ports : ExpireRestart(p)
    <2>1. PICK p \in Ports : sw' = RestartExpired(sw, p)
      BY <1>4, Zenon DEF ExpireRestart
    <2> DEFINE n == IF sw.restart[p] < 3 THEN sw.restart[p] + 1 ELSE 0
    <2>2. sw' = [sw EXCEPT !.restart[p] = n]
      BY <1>1, <2>1 DEF RestartExpired, Good, PortsTyped
    <2>3. n \in 0 .. 3
      BY <1>1 DEF Good, PortsTyped
    <2> HIDE DEF n
    <2>4. Moves(sw, [sw EXCEPT !.restart[p] = n], {})
      BY <1>1, <2>3, RestartingMoves
    <2> QED  BY <2>2, <2>4, SameLawfully, LawfulIsOrderly DEF Lawfully
  <1>5. QED
    BY <1>2, <1>3, <1>4, Zenon DEF TimerRunsOut

LEMMA MishapStays == [Next]_vars /\ mishap => mishap'
  <1> SUFFICES ASSUME [Next]_vars, mishap PROVE mishap'
    OBVIOUS
  <1>1. CASE UNCHANGED vars
    BY <1>1 DEF vars
  <1>2. CASE Setup \/ Establish \/ CallProceeding \/ Connect \/ ConnectAck
    BY <1>2, Zenon DEF Setup, Establish, CallProceeding, Connect, ConnectAck
  <1>3. CASE Disconnect \/ Release \/ ReleaseComplete \/ Status
    BY <1>3, Zenon DEF Disconnect, Release, ReleaseComplete, Status
  <1>4. CASE Restart \/ RestartAck \/ OperatorRestart \/ OperatorClear
    BY <1>4, Zenon DEF Restart, RestartAck, OperatorRestart, OperatorClear
  <1>5. CASE TimerRunsOut
    BY <1>5, Zenon DEF TimerRunsOut, Expire, ExpireRestart
  <1>6. CASE \E i \in DOMAIN Spvcs : Poll(i)
    BY <1>6, Zenon DEF Poll
  <1>7. QED
    BY <1>1, <1>2, <1>3, <1>4, <1>5, <1>6, Zenon DEF Next

-----------------------------------------------------------------------------
(***************************************************************************)
(* The invariant, and what follows.                                        *)
(***************************************************************************)
SInv == IInv /\ Attended(sw) /\ (mishap \/ Together(sw))

LEMMA StaysAttended == Spec => []SInv
  <1>1. Init => Attended(sw) /\ Together(sw)
    <2> SUFFICES ASSUME Init PROVE Attended(sw) /\ Together(sw)
      OBVIOUS
    <2>1. sw.calls = <<>>
      <3> DEFINE table == FoldLeft(LAMBDA t, a : AddPvc(t, a[1], a[2]), EmptyTable, Access)
                 empty == <<>>
      <3>1. PICK config \in Configs :
               sw = [calls   |-> empty,
                     pool    |-> [p \in Ports |-> AllocInit],
                     tab     |-> table,
                     spvc    |-> [i \in DOMAIN Spvcs |-> SpvcIdle],
                     restart |-> [p \in Ports |-> 0],
                     lapf    |-> config.lapf,
                     shared  |-> {AccessPoint(i) : i \in DOMAIN Spvcs}]
        BY Zenon DEF Init
      <3> HIDE DEF table, empty
      <3>2. sw.calls = empty
        BY <3>1
      <3> QED  BY <3>2 DEF empty
    <2> QED  BY <2>1 DEF Attended, Together
  <1>2. SInv /\ IInv' /\ [Next]_vars => SInv'
    <2> SUFFICES ASSUME SInv, IInv', [Next]_vars PROVE SInv'
      OBVIOUS
    <2>0. IInv /\ Good(sw) /\ Attended(sw)
      BY DEF SInv, IInv
    <2>1. Steps(sw, sw') /\ (~mishap' /\ Together(sw) => Orderly(sw, sw'))
      <3>1. CASE UNCHANGED vars
        <4>1. sw' = sw
          BY <3>1 DEF vars
        <4>2. Lawfully(sw, sw)
          BY <2>0, SameCalls, SameLawfully
        <4> QED  BY <4>1, <4>2, LawfulIsOrderly DEF Lawfully
      <3>2. CASE OperatorClear \/ TimerRunsOut
        BY <2>0, <3>2, OthersOrderly
      <3>3. CASE Next /\ ~(OperatorClear \/ TimerRunsOut)
        <4>1. Steps(sw, sw') /\ (~mishap' => Lawfully(sw, sw'))
          BY <2>0, <3>3, AnswersLawful, ClearingLawful, RestartsLawful, PollsLawful, Zenon DEF Next
        <4> QED  BY <4>1, LawfulIsOrderly DEF Lawfully
      <3> QED  BY <3>1, <3>2, <3>3
    <2>2. Attended(sw')
      BY <2>0, <2>1, AttendedStays
    <2>3. mishap' \/ Together(sw')
      <3>1. ~mishap' => Together(sw)
        BY MishapStays DEF SInv
      <3> QED  BY <2>0, <2>1, <3>1, TogetherStays
    <2>4. Attended(sw)' /\ (mishap \/ Together(sw))'
      BY <2>2, <2>3
    <2> QED  BY <2>4 DEF SInv
  <1>3. Init => SInv
    BY <1>1, Starts DEF SInv
  <1>4. QED
    BY <1>2, <1>3, StaysGood, PTL DEF Spec

\* Whatever messages come and whatever expires, svc_poll_timers still has a
\* timer to run for every leg that waits, or for the other leg of its call: so
\* no call waits for ever for a neighbour that says nothing.  Only the legs that
\* rely on the other one may, once something has parted the two (mishap).
THEOREM SupervisedHolds == Spec => []Supervised
  <1>1. SInv => Supervised
    <2> SUFFICES ASSUME SInv, NEW x \in DOMAIN sw.calls
                 PROVE  \/ Leg(x).state \in {"N0", "N10"} \/ Leg(x).timers # {}
                        \/ Untimed(x) /\ (mishap \/ (Paired(x) /\ Leg(Leg(x).peer).timers # {}))
      BY Zenon DEF Supervised
    <2>1. AttendedAt(sw, x) /\ (mishap \/ TogetherAt(sw, x))
      BY DEF SInv, Attended, Together
    <2> QED  BY <2>1 DEF AttendedAt, TogetherAt, Relies, Untimed, Leg, Paired, HasPeer
  <1>2. QED
    BY <1>1, StaysAttended, PTL

\* The handlers of DISCONNECT, RELEASE, RELEASE COMPLETE, STATUS and RESTART,
\* and the refusals of CONNECT, take both legs of an answered call out of the
\* active state or neither, unless the legs were separated (mishap).
THEOREM ClearedAtBothEnds == Spec => ClearedTogether
  <1>1. ASSUME SInv, [Next]_vars, sent' # sent, ~mishap', ~OperatorClear,
               NEW x \in DOMAIN sw.calls, NEW y, y = Leg(x).peer,
               Paired(x), Connected(sw, x), Connected(sw, y)
        PROVE  Connected(sw', x) <=> Connected(sw', y)
    <2>1. IInv /\ Attended(sw) /\ Together(sw)
      BY <1>1, MishapStays DEF SInv
    <2>2. ~(TimerRunsOut \/ UNCHANGED vars)
      BY <1>1, Zenon DEF TimerRunsOut, Expire, ExpireRestart, vars
    <2>3. Lawful(sw, sw')
      <3>1. Lawfully(sw, sw')
        BY <1>1, <2>1, <2>2, AnswersLawful, ClearingLawful, RestartsLawful, PollsLawful, Zenon DEF Next
      <3> QED  BY <2>1, <3>1 DEF Lawfully
    <2>4. PICK X : \/ Moves(sw, sw', X) /\ Tells(sw, X)
                   \/ Raises(sw, sw', X)
                   \/ Enters(sw, sw', X)
      BY <2>3 DEF Lawful
    <2>5. /\ y \in DOMAIN sw.calls /\ sw.calls[x].peer = y /\ sw.calls[y].peer = x
          /\ sw.calls[x].state = "N10" /\ sw.calls[y].state = "N10"
      BY <1>1 DEF Paired, HasPeer, Leg, Connected
    <2>6. CASE Moves(sw, sw', X) /\ Tells(sw, X)
      <3>1. x \in X <=> y \in X
        BY <2>5, <2>6 DEF Tells
      <3> QED  BY <2>5, <2>6, <3>1 DEF Moves, Waiting, AsWas, Connected
    <2>7. CASE Raises(sw, sw', X)
      BY <2>5, <2>7 DEF Raises, AsWas, Connected
    <2>8. CASE Enters(sw, sw', X)
      BY <2>5, <2>8 DEF Enters, AsWas, Connected
    <2> QED  BY <2>4, <2>6, <2>7, <2>8
  <1>2. SInv /\ [Next]_vars =>
            [sent' # sent /\ ~mishap' /\ ~OperatorClear =>
                \A x \in DOMAIN sw.calls :
                    LET y == Leg(x).peer
                    IN Paired(x) /\ Connected(sw, x) /\ Connected(sw, y) => (Connected(sw', x) <=> Connected(sw', y))]_vars
    BY <1>1
  <1>3. QED
    BY <1>2, StaysAttended, PTL DEF Spec, ClearedTogether

-----------------------------------------------------------------------------

(***************************************************************************)
(* The data paths.  The inductive invariant, leg by leg: while a leg has a *)
(* path and a peer, both are active, are peers of each other, and what its *)
(* entry says, if it is there, is where the peer is.  A leg the switch set *)
(* up names the near end of its peer as its far end, so a path it opens    *)
(* joins the two.  And it is alone where it is, unless the point is a      *)
(* shared one: no other leg and no access PVC has its port and DLCI, so    *)
(* that no other path overwrites its entry.                                *)
(***************************************************************************)
AccessPoints == {AccessPoint(i) : i \in DOMAIN Spvcs}

PathAt(w, x) ==
    LET y == w.calls[x].peer
    IN w.calls[x].path =>
           /\ w.calls[x].state = "N10" /\ w.calls[x].in # 0
           /\ y # NoPeer => /\ y \in DOMAIN w.calls /\ w.calls[y].peer = x /\ w.calls[y].path
                            /\ HasEntry(w.tab, NearEnd(w, x)) /\ NearEnd(w, x) \notin w.shared =>
                                   w.tab.lut[NearEnd(w, x)] = NearEnd(w, y)

EndsAt(w, x) ==
    LET y == w.calls[x].peer
    IN /\ y # NoPeer => y[3] # x[3]
       /\ x[3] = 0 /\ y \in DOMAIN w.calls => FarEnd(w, x) = NearEnd(w, y)
       /\ y = NoPeer => \/ w.calls[x].out = 0 \/ w.calls[x].outPort \notin Ports
                        \/ FarEnd(w, x) = NearEnd(w, x) \/ FarEnd(w, x) \in AccessPoints

\* Only a leg the switch set up is offered to a neighbour, and so has T310 at
\* an NNI, where its expiry leaves the path alone.
CalledAt(w, x) ==
    /\ w.calls[x].state \in {"N6", "N9"} => x[3] = 0
    /\ "T310" \in w.calls[x].timers /\ x[1] \in Nni => x[3] = 0 /\ ~w.calls[x].path

Alone(w) ==
    \A x, y \in DOMAIN w.calls :
        w.calls[x].in # 0 /\ NearEnd(w, x) \notin w.shared /\ NearEnd(w, x) = NearEnd(w, y) => x = y

Tabled(w) == DOMAIN w.tab = {"lut", "pvcs"}

Sound(w) ==
    /\ Tabled(w) /\ Alone(w) /\ AccessPoints \subseteq w.shared
    /\ \A x \in DOMAIN w.calls : PathAt(w, x) /\ EndsAt(w, x) /\ CalledAt(w, x)

-----------------------------------------------------------------------------
(***************************************************************************)
(* The tables.                                                             *)
(***************************************************************************)
\* u is t without some entries.
Fewer(t, u) ==
    /\ DOMAIN u = DOMAIN t
    /\ \A p \in DOMAIN u.lut : p \in DOMAIN t.lut /\ u.lut[p] = t.lut[p]

\* u is t but for entries at points of P.
Differs(t, u, P) ==
    /\ DOMAIN u = DOMAIN t
    /\ \A p \in DOMAIN u.lut \ P : p \in DOMAIN t.lut /\ u.lut[p] = t.lut[p]

LEMMA EntryAdded ==
    ASSUME NEW t, DOMAIN t = {"lut", "pvcs"}, NEW x, NEW y
    PROVE  /\ Differs(t, AddEntry(t, x, y), {x})
           /\ x \in DOMAIN AddEntry(t, x, y).lut /\ AddEntry(t, x, y).lut[x] = y
  <1> DEFINE l == [z \in DOMAIN t.lut \cup {x} |-> IF z = x THEN y ELSE t.lut[z]]
  <1>1. DOMAIN l = DOMAIN t.lut \cup {x} /\ l[x] = y /\ \A p \in DOMAIN t.lut : p # x => l[p] = t.lut[p]
    OBVIOUS
  <1>2. AddEntry(t, x, y) = [t EXCEPT !.lut = l]
    BY DEF AddEntry
  <1> HIDE DEF l
  <1>3. QED
    BY <1>1, <1>2 DEF Differs

LEMMA EntriesDeleted ==
    ASSUME NEW t, DOMAIN t = {"lut", "pvcs"}, NEW X
    PROVE  Fewer(t, DelEntries(t, X))
  BY DEF DelEntries, Fewer, Restrict

LEMMA PvcAdded ==
    ASSUME NEW t, DOMAIN t = {"lut", "pvcs"}, NEW x, NEW y
    PROVE  Differs(t, AddPvc(t, x, y), {x, y})
  <1> DEFINE t1 == AddEntry(t, x, y)
             t2 == AddEntry(t1, y, x)
             t3 == [t2 EXCEPT !.pvcs = <<Detail(y, x), Detail(x, y)>> \o @]
  <1>1. AddPvc(t, x, y) = t \/ AddPvc(t, x, y) = t3
    BY Zenon DEF AddPvc
  <1>2. Differs(t, t1, {x})
    BY EntryAdded
  <1>3. Differs(t1, t2, {y})
    <2> HIDE DEF t1
    <2> QED  BY <1>2, EntryAdded DEF Differs
  <1> HIDE DEF t2
  <1>4. DOMAIN t3 = DOMAIN t2 /\ t3.lut = t2.lut
    BY <1>2, <1>3 DEF Differs
  <1> HIDE DEF t1, t3
  <1>5. QED
    BY <1>1, <1>2, <1>3, <1>4 DEF Differs

LEMMA PvcDeleted ==
    ASSUME NEW t, DOMAIN t = {"lut", "pvcs"}, NEW x
    PROVE  Fewer(t, DelPvc(t, x))
  <1> DEFINE i == FirstPvc(t, x)
             y == t.pvcs[i].to
             t0 == [t EXCEPT !.pvcs = RemoveAt(@, i)]
             t1 == DelEntries(t0, {x})
             j == FirstPvc(t1, y)
             t2 == [t1 EXCEPT !.pvcs = RemoveAt(@, j)]
             t3 == DelEntries(t2, {y})
  <1>1. DelPvc(t, x) = t \/ DelPvc(t, x) = t1 \/ DelPvc(t, x) = t3
    BY Zenon DEF DelPvc
  <1>2. DOMAIN t0 = {"lut", "pvcs"} /\ t0.lut = t.lut
    OBVIOUS
  <1> HIDE DEF t0
  <1>3. Fewer(t0, t1)
    BY <1>2, EntriesDeleted
  <1> HIDE DEF t1
  <1>4. DOMAIN t2 = {"lut", "pvcs"} /\ t2.lut = t1.lut
    BY <1>2, <1>3 DEF Fewer
  <1> HIDE DEF t2
  <1>5. Fewer(t2, t3)
    BY <1>4, EntriesDeleted
  <1> HIDE DEF t3
  <1>6. QED
    BY <1>1, <1>2, <1>3, <1>4, <1>5 DEF Fewer

-----------------------------------------------------------------------------
(***************************************************************************)
(* What clears a call leaves the other paths as they are.                  *)
(***************************************************************************)
SamePlace(c, d) == d.peer = c.peer /\ d.in = c.in /\ d.out = c.out /\ d.outPort = c.outPort

\* v is w with legs, paths and entries gone, and is sound.
Thins(w, v) ==
    /\ Good(v) /\ Sound(v) /\ Fewer(w.tab, v.tab) /\ v.shared = w.shared
    /\ DOMAIN v.calls \subseteq DOMAIN w.calls
    /\ \A x \in DOMAIN v.calls : /\ SamePlace(w.calls[x], v.calls[x])
                                 /\ v.calls[x].path => w.calls[x].path

LEMMA Thinned ==
    ASSUME NEW w, Sound(w), NEW v, Good(v), Fewer(w.tab, v.tab), v.shared = w.shared,
           DOMAIN v.calls \subseteq DOMAIN w.calls,
           \A x \in DOMAIN v.calls :
               /\ SamePlace(w.calls[x], v.calls[x]) /\ CalledAt(v, x)
               /\ v.calls[x].path =>
                      LET y == w.calls[x].peer
                      IN /\ w.calls[x].path /\ v.calls[x].state = "N10"
                         /\ y # NoPeer => y \in DOMAIN v.calls /\ v.calls[y].path
    PROVE  Thins(w, v)
  <1>1. \A x \in DOMAIN v.calls : NearEnd(v, x) = NearEnd(w, x) /\ FarEnd(v, x) = FarEnd(w, x)
    BY DEF SamePlace, NearEnd, FarEnd
  <1>2. Tabled(v) /\ Alone(v)
    BY <1>1 DEF Sound, Tabled, Alone, Fewer, SamePlace
  <1>3. ASSUME NEW x \in DOMAIN v.calls PROVE PathAt(v, x)
    <2> DEFINE y == w.calls[x].peer
    <2>1. x \in DOMAIN w.calls /\ PathAt(w, x) /\ v.calls[x].peer = y /\ v.calls[x].in = w.calls[x].in
      BY DEF Sound, SamePlace
    <2>2. SUFFICES ASSUME v.calls[x].path PROVE PathAt(v, x)
      BY DEF PathAt
    <2>3. w.calls[x].path /\ v.calls[x].state = "N10" /\ (y # NoPeer => y \in DOMAIN v.calls /\ v.calls[y].path)
      BY <2>2
    <2>4. y # NoPeer => /\ v.calls[y].peer = x
                        /\ HasEntry(v.tab, NearEnd(v, x)) /\ NearEnd(v, x) \notin v.shared =>
                               v.tab.lut[NearEnd(v, x)] = NearEnd(v, y)
      <3> HAVE y # NoPeer
      <3>1. y \in DOMAIN v.calls
        BY <2>3
      <3>2. /\ w.calls[y].peer = x
            /\ HasEntry(w.tab, NearEnd(w, x)) /\ NearEnd(w, x) \notin w.shared =>
                   w.tab.lut[NearEnd(w, x)] = NearEnd(w, y)
        BY <2>1, <2>3 DEF PathAt
      <3> HIDE DEF y
      <3> QED  BY <1>1, <3>1, <3>2 DEF SamePlace, Fewer, HasEntry
    <2> HIDE DEF y
    <2> QED  BY <2>1, <2>3, <2>4 DEF PathAt
  <1>4. ASSUME NEW x \in DOMAIN v.calls PROVE EndsAt(v, x)
    <2> DEFINE y == w.calls[x].peer
    <2>1. x \in DOMAIN w.calls /\ EndsAt(w, x) /\ v.calls[x].peer = y
      BY DEF Sound, SamePlace
    <2>2. v.calls[x].in = w.calls[x].in /\ v.calls[x].out = w.calls[x].out /\ v.calls[x].outPort = w.calls[x].outPort
      BY DEF SamePlace
    <2> QED  BY <1>1, <2>1, <2>2 DEF EndsAt
  <1>5. QED
    BY <1>2, <1>3, <1>4 DEF Thins, Sound

LEMMA ThinsAgain ==
    ASSUME NEW w, NEW v, NEW u, Thins(w, v), Thins(v, u)
    PROVE  Thins(w, u)
  BY DEF Thins, SamePlace, Fewer

LEMMA ThinsNone ==
    ASSUME NEW w, Good(w), Sound(w)
    PROVE  Thins(w, w)
  BY DEF Thins, SamePlace, Fewer

\* A leg says something else of itself, but not of its place or its path.
LEMMA Retold ==
    ASSUME NEW w, Good(w), Sound(w), NEW x \in DOMAIN w.calls, NEW v, Good(v), ButFor(w, v, x), v.tab = w.tab,
           SamePlace(w.calls[x], v.calls[x]), v.calls[x].path = w.calls[x].path, CalledAt(v, x),
           v.calls[x].path => v.calls[x].state = "N10"
    PROVE  Thins(w, v)
  <1>1. Fewer(w.tab, v.tab) /\ DOMAIN v.calls = DOMAIN w.calls /\ v.shared = w.shared
    BY DEF Fewer, ButFor
  <1>2. \A y \in DOMAIN v.calls : SamePlace(w.calls[y], v.calls[y]) /\ v.calls[y].path = w.calls[y].path
    BY DEF ButFor, SamePlace
  <1>3. ASSUME NEW y \in DOMAIN v.calls PROVE CalledAt(v, y)
    BY DEF ButFor, Sound, CalledAt
  <1>4. ASSUME NEW y \in DOMAIN v.calls, v.calls[y].path
        PROVE  LET z == w.calls[y].peer
               IN /\ w.calls[y].path /\ v.calls[y].state = "N10"
                  /\ z # NoPeer => z \in DOMAIN v.calls /\ v.calls[z].path
    <2>1. w.calls[y].path /\ y \in DOMAIN w.calls
      BY <1>1, <1>2, <1>4
    <2>2. PathAt(w, y)
      BY <2>1 DEF Sound
    <2> QED  BY <1>1, <1>2, <1>4, <2>1, <2>2 DEF PathAt, ButFor
  <1>5. QED
    BY <1>1, <1>2, <1>3, <1>4, Thinned

LEMMA AwaitThins ==
    ASSUME NEW w, Good(w), Sound(w), NEW x \in DOMAIN w.calls, ~w.calls[x].path,
           NEW state \in LegStates \ {"N6", "N9"}, NEW timers \in SUBSET Timers,
           "T310" \in timers => "T310" \in w.calls[x].timers
    PROVE  Thins(w, Await(w, x, state, timers)) /\ ~Await(w, x, state, timers).calls[x].path
  <1> DEFINE v == Await(w, x, state, timers)
  <1>1. Good(v)
    BY Awaits DEF Sheds
  <1>2. ButFor(w, v, x) /\ v.tab = w.tab
    BY DEF ButFor, Good, Await
  <1>3. /\ SamePlace(w.calls[x], v.calls[x]) /\ v.calls[x].path = w.calls[x].path
        /\ v.calls[x].state = state /\ v.calls[x].timers = timers
    BY DEF Good, LegsTyped, Await, IsLeg, SamePlace
  <1> HIDE DEF v
  <1>4. CalledAt(w, x)
    BY DEF Sound
  <1>5. CalledAt(v, x)
    BY <1>3, <1>4 DEF CalledAt
  <1>6. Thins(w, v) /\ ~v.calls[x].path
    BY <1>1, <1>2, <1>3, <1>5, Retold
  <1>7. QED
    BY <1>6 DEF v

\* What SetPath and the tables are after a path has been destroyed.
LEMMA Destroyed ==
    ASSUME NEW w, Good(w), Tabled(w), NEW x \in DOMAIN w.calls
    PROVE  LET v == DestroyDataPvcs(w, x)
           IN /\ DOMAIN v.calls = DOMAIN w.calls /\ Fewer(w.tab, v.tab) /\ v.shared = w.shared
              /\ ~v.calls[x].path
              /\ \A y \in DOMAIN w.calls :
                     /\ AsWas(w.calls[y], v.calls[y]) /\ SamePlace(w.calls[y], v.calls[y])
                     /\ v.calls[y].path <=> w.calls[y].path /\ ~(w.calls[x].path /\ y \in Both(w, x))
  <1> DEFINE t == DelEntries(w.tab, {NearEnd(w, x), FarEnd(w, x)})
             w1 == [w EXCEPT !.tab = t]
             v == DestroyDataPvcs(w, x)
  <1>1. CASE ~w.calls[x].path
    <2>1. v = w
      BY <1>1, Zenon DEF DestroyDataPvcs
    <2>2. Fewer(w.tab, w.tab)
      BY DEF Fewer
    <2> HIDE DEF v
    <2>3. QED
      BY <1>1, <2>1, <2>2 DEF AsWas, SamePlace, v
  <1>2. CASE w.calls[x].path
    <2>1. v = SetPath(w1, x, FALSE)
      BY <1>2, Zenon DEF DestroyDataPvcs
    <2>2. Fewer(w.tab, t)
      BY EntriesDeleted DEF Tabled
    <2> HIDE DEF t
    <2>3. DOMAIN w1 = DOMAIN w /\ w1.calls = w.calls /\ w1.tab = t /\ w1.shared = w.shared
      BY DEF Good
    <2> HIDE DEF w1
    <2> DEFINE c == [y \in DOMAIN w.calls |-> IF y \in Both(w, x) THEN [w.calls[y] EXCEPT !.path = FALSE] ELSE w.calls[y]]
    <2>4. v = [w1 EXCEPT !.calls = c]
      BY <2>1, <2>3 DEF SetPath, Both
    <2> HIDE DEF c
    <2>5. v.calls = c /\ v.tab = t /\ v.shared = w.shared
      BY <2>3, <2>4 DEF Good
    <2> HIDE DEF v
    <2>6. ASSUME NEW y \in DOMAIN w.calls
          PROVE  /\ AsWas(w.calls[y], c[y]) /\ SamePlace(w.calls[y], c[y])
                 /\ c[y].path <=> w.calls[y].path /\ ~(y \in Both(w, x))
      <3>1. IsLeg(w.calls[y])
        BY DEF Good, LegsTyped
      <3>2. c[y] = IF y \in Both(w, x) THEN [w.calls[y] EXCEPT !.path = FALSE] ELSE w.calls[y]
        BY DEF c
      <3>3. CASE y \in Both(w, x)
        BY <3>1, <3>2, <3>3 DEF IsLeg, AsWas, SamePlace
      <3>4. CASE y \notin Both(w, x)
        BY <3>1, <3>2, <3>4 DEF IsLeg, AsWas, SamePlace
      <3> QED  BY <3>3, <3>4
    <2>7. DOMAIN c = DOMAIN w.calls /\ x \in Both(w, x)
      BY DEF c, Both
    <2> QED  BY <1>2, <2>2, <2>5, <2>6, <2>7 DEF v
  <1>3. QED
    BY <1>1, <1>2

\* The other leg loses its path as well, and no third one has it for its peer.
LEMMA DestroyThins ==
    ASSUME NEW w, Good(w), Sound(w), NEW x \in DOMAIN w.calls
    PROVE  /\ Thins(w, DestroyDataPvcs(w, x)) /\ DOMAIN DestroyDataPvcs(w, x).calls = DOMAIN w.calls
           /\ ~DestroyDataPvcs(w, x).calls[x].path
           /\ \A y \in DOMAIN w.calls : AsWas(w.calls[y], DestroyDataPvcs(w, x).calls[y])
  <1> DEFINE v == DestroyDataPvcs(w, x)
  <1>1. Good(v)
    BY PathDestroyed DEF Sheds
  <1>2. /\ DOMAIN v.calls = DOMAIN w.calls /\ Fewer(w.tab, v.tab) /\ v.shared = w.shared
        /\ ~v.calls[x].path
        /\ \A y \in DOMAIN w.calls :
               /\ AsWas(w.calls[y], v.calls[y]) /\ SamePlace(w.calls[y], v.calls[y])
               /\ v.calls[y].path <=> w.calls[y].path /\ ~(w.calls[x].path /\ y \in Both(w, x))
    BY Destroyed DEF Sound
  <1> HIDE DEF v
  <1>3. ASSUME NEW y \in DOMAIN v.calls PROVE CalledAt(v, y)
    BY <1>2 DEF AsWas, Sound, CalledAt
  <1>4. ASSUME NEW y \in DOMAIN v.calls, v.calls[y].path
        PROVE  LET z == w.calls[y].peer
               IN /\ w.calls[y].path /\ v.calls[y].state = "N10"
                  /\ z # NoPeer => z \in DOMAIN v.calls /\ v.calls[z].path
    <2> DEFINE z == w.calls[y].peer
    <2>1. y \in DOMAIN w.calls /\ w.calls[y].path /\ ~(w.calls[x].path /\ y \in Both(w, x))
      BY <1>2, <1>4
    <2>2. PathAt(w, y) /\ PathAt(w, x)
      BY <2>1 DEF Sound
    <2>3. v.calls[y].state = "N10"
      BY <1>2, <2>1, <2>2 DEF PathAt, AsWas
    <2>4. ASSUME z # NoPeer PROVE z \in DOMAIN v.calls /\ v.calls[z].path
      <3>1. z \in DOMAIN w.calls /\ w.calls[z].peer = y /\ w.calls[z].path
        BY <2>1, <2>2, <2>4 DEF PathAt
      <3>2. ~(w.calls[x].path /\ z \in Both(w, x))
        <4>1. SUFFICES ASSUME w.calls[x].path, z \in Both(w, x) PROVE FALSE
          OBVIOUS
        <4>2. CASE z = x
          BY <2>1, <3>1, <4>1, <4>2 DEF Both
        <4>3. CASE z = w.calls[x].peer
          BY <2>1, <2>2, <2>4, <3>1, <4>1, <4>3 DEF PathAt, Both
        <4> QED  BY <4>1, <4>2, <4>3 DEF Both
      <3> QED  BY <1>2, <3>1, <3>2
    <2> QED  BY <2>1, <2>3, <2>4
  <1>5. Thins(w, v)
    BY <1>1, <1>2, <1>3, <1>4, Thinned
  <1>6. QED
    BY <1>2, <1>5 DEF v

LEMMA FreeThins ==
    ASSUME NEW w, Good(w), Sound(w), NEW x \in DOMAIN w.calls
    PROVE  /\ Thins(w, FreeCall(w, x)) /\ DOMAIN FreeCall(w, x).calls = DOMAIN w.calls \ {x}
  <1> DEFINE w1 == Given(w, x)
             w2 == DestroyDataPvcs(w1, x)
             c == [y \in DOMAIN w2.calls \ {x} |-> w2.calls[y]]
             v == [w2 EXCEPT !.calls = Restrict(@, DOMAIN @ \ {x})]
  <1>1. FreeCall(w, x) = v
    BY Zenon DEF FreeCall, Given
  <1>2. Good(v) /\ DOMAIN v.calls = DOMAIN w.calls \ {x}
    <2>1. Good(FreeCall(w, x)) /\ DOMAIN FreeCall(w, x).calls = DOMAIN w.calls \ {x}
      BY CallFreed DEF Sheds
    <2> HIDE DEF v
    <2> QED  BY <1>1, <2>1
  <1>3. v = [w2 EXCEPT !.calls = c]
    BY DEF Restrict
  <1>4. Good(w1) /\ DOMAIN w1.calls = DOMAIN w.calls
    BY Gives
  <1>5. w1.tab = w.tab /\ w1.shared = w.shared /\ \A y \in DOMAIN w.calls : y # x => w1.calls[y] = w.calls[y]
    BY DEF Good, Given
  <1>6. w1.calls[x].path = w.calls[x].path /\ w1.calls[x].peer = w.calls[x].peer
    BY DEF Good, LegsTyped, IsLeg, Given
  <1> HIDE DEF w1
  <1>7. /\ DOMAIN w2.calls = DOMAIN w.calls /\ Fewer(w.tab, w2.tab) /\ w2.shared = w.shared
        /\ \A y \in DOMAIN w.calls :
               /\ AsWas(w1.calls[y], w2.calls[y]) /\ SamePlace(w1.calls[y], w2.calls[y])
               /\ w2.calls[y].path <=> w1.calls[y].path /\ ~(w1.calls[x].path /\ y \in Both(w1, x))
    BY <1>4, <1>5, Destroyed DEF Sound, Tabled
  <1>8. Good(w2)
    BY <1>4, PathDestroyed DEF Sheds
  <1> HIDE DEF w2
  <1>9. v.calls = c /\ v.tab = w2.tab /\ v.shared = w2.shared
    <2> HIDE DEF c, v
    <2> QED  BY <1>3, <1>8 DEF Good
  <1>10. ASSUME NEW y \in DOMAIN v.calls
         PROVE  /\ y \in DOMAIN w.calls /\ y # x
                /\ AsWas(w.calls[y], v.calls[y]) /\ SamePlace(w.calls[y], v.calls[y])
                /\ v.calls[y].path <=> w.calls[y].path /\ ~(w.calls[x].path /\ y = w.calls[x].peer)
    <2>1. y \in DOMAIN w.calls /\ y # x /\ v.calls[y] = w2.calls[y] /\ w1.calls[y] = w.calls[y]
      BY <1>2, <1>5, <1>7, <1>9
    <2> QED  BY <1>6, <1>7, <2>1 DEF Both
  <1> HIDE DEF v, c
  <1>11. ASSUME NEW y \in DOMAIN v.calls PROVE CalledAt(v, y)
    BY <1>10 DEF AsWas, Sound, CalledAt
  <1>12. ASSUME NEW y \in DOMAIN v.calls, v.calls[y].path
         PROVE  LET z == w.calls[y].peer
                IN /\ w.calls[y].path /\ v.calls[y].state = "N10"
                   /\ z # NoPeer => z \in DOMAIN v.calls /\ v.calls[z].path
    <2> DEFINE z == w.calls[y].peer
    <2>1. y \in DOMAIN w.calls /\ y # x /\ w.calls[y].path /\ ~(w.calls[x].path /\ y = w.calls[x].peer)
      BY <1>10, <1>12
    <2>2. PathAt(w, y) /\ PathAt(w, x)
      BY <2>1 DEF Sound
    <2>3. v.calls[y].state = "N10"
      BY <1>10, <2>1, <2>2 DEF PathAt, AsWas
    <2>4. ASSUME z # NoPeer PROVE z \in DOMAIN v.calls /\ v.calls[z].path
      <3>1. z \in DOMAIN w.calls /\ w.calls[z].peer = y /\ w.calls[z].path
        BY <2>1, <2>2, <2>4 DEF PathAt
      <3>2. z # x
        BY <2>1, <3>1
      <3>3. ~(w.calls[x].path /\ z = w.calls[x].peer)
        <4> SUFFICES ASSUME w.calls[x].path, z = w.calls[x].peer PROVE FALSE
          OBVIOUS
        <4>1. w.calls[w.calls[x].peer].peer = x
          BY <2>2, <2>4 DEF PathAt
        <4> QED  BY <2>1, <3>1, <4>1
      <3>4. z \in DOMAIN v.calls
        BY <1>2, <3>1, <3>2
      <3> HIDE DEF z
      <3> QED  BY <1>10, <3>1, <3>3, <3>4
    <2> QED  BY <2>1, <2>3, <2>4
  <1>13. Fewer(w.tab, v.tab) /\ v.shared = w.shared
    BY <1>7, <1>9
  <1>14. Thins(w, v)
    BY <1>2, <1>10, <1>11, <1>12, <1>13, Thinned
  <1>15. QED
    BY <1>1, <1>2, <1>14

LEMMA ThenFreedThins ==
    ASSUME NEW w, NEW v, Thins(w, v), NEW x \in DOMAIN v.calls
    PROVE  Thins(w, FreeCall(v, x))
  <1>1. Thins(v, FreeCall(v, x))
    BY FreeThins DEF Thins
  <1>2. QED
    BY <1>1, ThinsAgain

LEMMA ClearThins ==
    ASSUME NEW w, Good(w), Sound(w), NEW x \in DOMAIN w.calls
    PROVE  /\ Thins(w, ClearBeforeActive(w, x)) /\ Thins(w, NniClear(w, x)) /\ Thins(w, Clear(w, x))
           /\ \A v \in {ClearBeforeActive(w, x), NniClear(w, x), Clear(w, x)} :
                  /\ DOMAIN w.calls \ {x} \subseteq DOMAIN v.calls
                  /\ x \in DOMAIN v.calls => ~v.calls[x].path
  <1> DEFINE w1 == DestroyDataPvcs(w, x)
             U == {Await(w1, x, "N12", {"T305"}), Await(w1, x, "N19", {"T308"}), Await(w1, x, "N11", {"T308"}),
                   FreeCall(w1, x)}
  <1>1. Thins(w, w1) /\ DOMAIN w1.calls = DOMAIN w.calls /\ ~w1.calls[x].path
    BY DestroyThins
  <1>2. ClearBeforeActive(w, x) \in U /\ NniClear(w, x) \in U
    BY Zenon DEF ClearBeforeActive, NniClear
  <1> HIDE DEF w1
  <1>3. ASSUME NEW s \in {"N12", "N19", "N11"}, NEW t \in {"T305", "T308"}
        PROVE  /\ Thins(w, Await(w1, x, s, {t})) /\ DOMAIN Await(w1, x, s, {t}).calls = DOMAIN w.calls
               /\ ~Await(w1, x, s, {t}).calls[x].path
    <2> DEFINE v == Await(w1, x, s, {t})
    <2>1. s \in LegStates \ {"N6", "N9"} /\ {t} \in SUBSET Timers /\ "T310" \notin {t}
      BY DEF LegStates, Timers
    <2>2. Good(w1) /\ Sound(w1) /\ x \in DOMAIN w1.calls
      BY <1>1 DEF Thins
    <2>3. Thins(w1, v) /\ ~v.calls[x].path
      BY <1>1, <2>1, <2>2, AwaitThins
    <2>4. DOMAIN v.calls = DOMAIN w1.calls
      BY <2>2 DEF Await, Good
    <2> HIDE DEF v
    <2>5. Thins(w, v)
      BY <1>1, <2>3, ThinsAgain
    <2> QED  BY <1>1, <2>3, <2>4, <2>5 DEF v
  <1>4. Thins(w, FreeCall(w1, x)) /\ DOMAIN FreeCall(w1, x).calls = DOMAIN w.calls \ {x}
    <2>1. Good(w1) /\ Sound(w1) /\ x \in DOMAIN w1.calls
      BY <1>1 DEF Thins
    <2> QED  BY <1>1, <2>1, ThenFreedThins, FreeThins
  <1>5. \A v \in U : /\ Thins(w, v) /\ DOMAIN w.calls \ {x} \subseteq DOMAIN v.calls
                     /\ x \in DOMAIN v.calls => ~v.calls[x].path
    BY <1>3, <1>4
  <1>6. Clear(w, x) \in {ClearBeforeActive(w, x), NniClear(w, x)}
    BY DEF Clear
  <1> HIDE DEF U
  <1>7. QED
    BY <1>2, <1>5, <1>6

LEMMA ForwardThins ==
    ASSUME NEW w, Good(w), Sound(w), NEW x \in DOMAIN w.calls
    PROVE  Thins(w, ForwardClearing(w, x)) /\ x \in DOMAIN ForwardClearing(w, x).calls
  <1> DEFINE y == w.calls[x].peer
             w1 == DestroyDataPvcs(w, y)
  <1>1. CASE HasPeer(w, x)
    <2>1. y \in DOMAIN w.calls
      BY <1>1 DEF HasPeer
    <2>2. Thins(w, w1) /\ y \in DOMAIN w1.calls
      BY <2>1, DestroyThins
    <2>3. ForwardClearing(w, x) = Clear(w1, y)
      BY <1>1, Zenon DEF ForwardClearing
    <2> HIDE DEF w1, y
    <2>4. Thins(w1, Clear(w1, y))
      BY <2>2, ClearThins DEF Thins
    <2> QED  BY <2>2, <2>3, <2>4, ThinsAgain, Forwarded
  <1>2. CASE ~HasPeer(w, x)
    BY <1>2, ThinsNone, Zenon DEF ForwardClearing
  <1>3. QED
    BY <1>1, <1>2

LEMMA DropThins ==
    ASSUME NEW w, Good(w), Sound(w), NEW x
    PROVE  Thins(w, NniDrop(w, x))
  <1>1. CASE x \in DOMAIN w.calls
    <2> DEFINE w1 == DestroyDataPvcs(w, x)
               w2 == ForwardClearing(w1, x)
    <2>1. NniDrop(w, x) = FreeCall(w2, x)
      BY <1>1 DEF NniDrop
    <2>2. Thins(w, w1) /\ x \in DOMAIN w1.calls
      BY <1>1, DestroyThins
    <2> HIDE DEF w1
    <2>3. Thins(w1, w2) /\ x \in DOMAIN w2.calls
      BY <2>2, ForwardThins DEF Thins
    <2> HIDE DEF w2
    <2>4. Thins(w, w2)
      BY <2>2, <2>3, ThinsAgain
    <2> QED  BY <2>1, <2>3, <2>4, ThenFreedThins
  <1>2. CASE x \notin DOMAIN w.calls
    BY <1>2, ThinsNone DEF NniDrop
  <1>3. QED
    BY <1>1, <1>2

-----------------------------------------------------------------------------
(***************************************************************************)
(* The timers.                                                             *)
(***************************************************************************)
\* Neither leg has a path.
Parted(w, x) == DestroyDataPvcs(DestroyDataPvcs(w, x), w.calls[x].peer)

LEMMA PartedThins ==
    ASSUME NEW w, Good(w), Sound(w), NEW x \in DOMAIN w.calls, HasPeer(w, x)
    PROVE  /\ Thins(w, Parted(w, x)) /\ DOMAIN Parted(w, x).calls = DOMAIN w.calls
           /\ ~Parted(w, x).calls[x].path /\ ~Parted(w, x).calls[w.calls[x].peer].path
           /\ \A z \in DOMAIN w.calls : AsWas(w.calls[z], Parted(w, x).calls[z])
  <1> DEFINE y == w.calls[x].peer
             w1 == DestroyDataPvcs(w, x)
             w2 == DestroyDataPvcs(w1, y)
  <1>1. y \in DOMAIN w.calls
    BY DEF HasPeer
  <1>2. /\ Thins(w, w1) /\ DOMAIN w1.calls = DOMAIN w.calls /\ ~w1.calls[x].path
        /\ \A z \in DOMAIN w.calls : AsWas(w.calls[z], w1.calls[z])
    BY DestroyThins
  <1>3. Parted(w, x) = w2
    BY DEF Parted
  <1> HIDE DEF w1, y
  <1>4. /\ Thins(w1, w2) /\ DOMAIN w2.calls = DOMAIN w1.calls /\ ~w2.calls[y].path
        /\ \A z \in DOMAIN w1.calls : AsWas(w1.calls[z], w2.calls[z])
    BY <1>1, <1>2, DestroyThins DEF Thins
  <1> HIDE DEF w2
  <1>5. Thins(w, w2) /\ ~w2.calls[x].path
    BY <1>2, <1>4, ThinsAgain DEF Thins
  <1>6. \A z \in DOMAIN w.calls : AsWas(w.calls[z], w2.calls[z])
    BY <1>2, <1>4 DEF AsWas
  <1>7. QED
    BY <1>2, <1>3, <1>4, <1>5, <1>6 DEF y

\* The other leg, without its path, is told to wait or is freed.
LEMMA PeerTold ==
    ASSUME NEW w, Good(w), Sound(w), NEW x \in DOMAIN w.calls, HasPeer(w, x), NEW y, y = w.calls[x].peer,
           NEW state \in LegStates \ {"N6", "N9"}, NEW timers \in SUBSET Timers,
           "T310" \in timers => "T310" \in w.calls[y].timers
    PROVE  LET v == Await(Parted(w, x), y, state, timers)
           IN Thins(w, v) /\ DOMAIN v.calls = DOMAIN w.calls /\ ~v.calls[x].path
  <1> DEFINE u == Parted(w, x)
             v == Await(u, y, state, timers)
  <1>1. /\ Thins(w, u) /\ DOMAIN u.calls = DOMAIN w.calls /\ ~u.calls[x].path /\ ~u.calls[y].path
        /\ \A z \in DOMAIN w.calls : AsWas(w.calls[z], u.calls[z])
    BY PartedThins
  <1>2. y \in DOMAIN w.calls
    BY DEF HasPeer
  <1> HIDE DEF u
  <1>3. Good(u) /\ Sound(u) /\ "T310" \in timers => "T310" \in u.calls[y].timers
    BY <1>1, <1>2 DEF AsWas
  <1>4. Thins(u, v)
    BY <1>1, <1>2, <1>3, AwaitThins DEF Thins
  <1>5. DOMAIN v.calls = DOMAIN u.calls
    BY <1>1 DEF Await, Thins, Good
  <1> HIDE DEF v
  <1>6. Thins(w, v) /\ DOMAIN v.calls = DOMAIN w.calls /\ ~v.calls[x].path
    BY <1>1, <1>4, <1>5, ThinsAgain DEF Thins
  <1>7. QED
    BY <1>6 DEF v, u

LEMMA PeerGone ==
    ASSUME NEW w, Good(w), Sound(w), NEW x \in DOMAIN w.calls, HasPeer(w, x), NEW y, y = w.calls[x].peer
    PROVE  Thins(w, FreeCall(Parted(w, x), y)) /\ x \in DOMAIN FreeCall(Parted(w, x), y).calls
  <1> DEFINE u == Parted(w, x)
  <1>1. Thins(w, u) /\ DOMAIN u.calls = DOMAIN w.calls
    BY PartedThins
  <1>2. y \in DOMAIN w.calls /\ x # y
    BY DEF HasPeer, Good, LegsTyped
  <1> HIDE DEF u
  <1>3. Good(u) /\ Sound(u)
    BY <1>1 DEF Thins
  <1>4. Thins(w, FreeCall(u, y)) /\ x \in DOMAIN FreeCall(u, y).calls
    BY <1>1, <1>2, <1>3, ThenFreedThins, FreeThins
  <1>5. QED
    BY <1>4 DEF u

LEMMA GiveUpThins ==
    ASSUME NEW w, Good(w), Sound(w), NEW x \in DOMAIN w.calls
    PROVE  Thins(w, GiveUpSetup(w, x)) /\ Thins(w, GiveUpRelease(w, x))
  <1> DEFINE y == w.calls[x].peer
             w1 == DestroyDataPvcs(w, x)
             w2 == DestroyDataPvcs(w1, y)
             timers == w2.calls[y].timers \cup {"T308"}
             told == Await(w2, y, "N11", timers)
             gone == FreeCall(w2, y)
             w3 == IF ~HasPeer(w, x) THEN w1 ELSE IF y[1] \in Nni THEN told ELSE gone
             w4 == IF HasPeer(w, x) THEN gone ELSE w1
  <1>1. GiveUpSetup(w, x) = FreeCall(w3, x) /\ GiveUpRelease(w, x) = FreeCall(w4, x)
    BY Zenon DEF GiveUpSetup, GiveUpRelease
  <1>2. Thins(w, w1) /\ x \in DOMAIN w1.calls
    BY DestroyThins
  <1>3. w2 = Parted(w, x)
    BY DEF Parted
  <1>4. HasPeer(w, x) => /\ Thins(w, told) /\ x \in DOMAIN told.calls
                         /\ Thins(w, gone) /\ x \in DOMAIN gone.calls
    <2> SUFFICES ASSUME HasPeer(w, x)
                 PROVE  Thins(w, told) /\ x \in DOMAIN told.calls /\ Thins(w, gone) /\ x \in DOMAIN gone.calls
      OBVIOUS
    <2> HIDE DEF w2
    <2>1. Thins(w, gone) /\ x \in DOMAIN gone.calls
      BY <1>3, PeerGone
    <2>2. w2.calls[y].timers = w.calls[y].timers /\ y \in DOMAIN w.calls
      BY <1>3, PartedThins DEF HasPeer, AsWas
    <2>3. timers \in SUBSET Timers /\ ("T310" \in timers => "T310" \in w.calls[y].timers)
      BY <2>2 DEF Good, LegsTyped, IsLeg, Timers
    <2>4. "N11" \in LegStates \ {"N6", "N9"}
      BY DEF LegStates
    <2> HIDE DEF timers
    <2>5. Thins(w, told) /\ x \in DOMAIN told.calls
      BY <1>3, <2>2, <2>3, <2>4, PeerTold
    <2> QED  BY <2>1, <2>5
  <1>5. (w3 = w1 \/ (HasPeer(w, x) /\ w3 \in {told, gone})) /\ (w4 = w1 \/ (HasPeer(w, x) /\ w4 = gone))
    OBVIOUS
  <1> HIDE DEF w1, w2, w3, w4, told, gone
  <1>6. QED
    BY <1>1, <1>2, <1>4, <1>5, ThenFreedThins

LEMMA NoConnectThins ==
    ASSUME NEW w, Good(w), Sound(w), NEW x \in DOMAIN w.calls, x[1] \in Nni => ~w.calls[x].path
    PROVE  Thins(w, NoConnect(w, x))
  <1> DEFINE y == w.calls[x].peer
             timers == w.calls[x].timers \cup {"T308"}
             w1 == IF HasPeer(w, x) THEN ClearBeforeActive(w, y) ELSE w
  <1>1. CASE x[1] \in Nni
    <2>1. NoConnect(w, x) = Await(w, x, "N11", timers)
      BY <1>1, Zenon DEF NoConnect
    <2>2. /\ timers \in SUBSET Timers /\ "N11" \in LegStates \ {"N6", "N9"}
          /\ "T310" \in timers => "T310" \in w.calls[x].timers
      BY DEF Good, LegsTyped, IsLeg, Timers, LegStates
    <2> HIDE DEF timers
    <2> QED  BY <1>1, <2>1, <2>2, AwaitThins
  <1>2. CASE x[1] \notin Nni
    <2>1. NoConnect(w, x) = ClearBeforeActive(w1, x)
      BY <1>2, Zenon DEF NoConnect
    <2>2. Thins(w, w1) /\ x \in DOMAIN w1.calls
      <3>1. x # y
        BY DEF Good, LegsTyped
      <3>2. CASE HasPeer(w, x)
        BY <3>1, <3>2, ClearThins DEF HasPeer
      <3>3. CASE ~HasPeer(w, x)
        BY <3>3, ThinsNone
      <3> QED  BY <3>2, <3>3
    <2> HIDE DEF w1
    <2>3. Thins(w1, ClearBeforeActive(w1, x))
      BY <2>2, ClearThins DEF Thins
    <2> QED  BY <2>1, <2>2, <2>3, ThinsAgain
  <1>3. QED
    BY <1>1, <1>2

LEMMA ExpiredThins ==
    ASSUME NEW w, Good(w), Sound(w), NEW x \in DOMAIN w.calls, NEW t \in w.calls[x].timers
    PROVE  Thins(w, Expired(w, x, t))
  <1> DEFINE off == [w EXCEPT !.calls[x].timers = @ \ {t}]
             n303 == [w EXCEPT !.calls[x].n303 = 1]
             n308 == [w EXCEPT !.calls[x].n308 = 1]
             w1 == DestroyDataPvcs(off, x)
             timers == off.calls[x].timers \cup {"T308"}
             disc == Await(w1, x, ReleaseState(x[1]), timers)
  <1>1. t \in Timers
    BY DEF Good, LegsTyped, IsLeg
  <1>2. \/ Expired(w, x, t) = n303 \/ Expired(w, x, t) = n308
        \/ Expired(w, x, t) = GiveUpSetup(off, x) \/ Expired(w, x, t) = GiveUpRelease(off, x)
        \/ t = "T310" /\ Expired(w, x, t) = NoConnect(off, x)
        \/ Expired(w, x, t) = disc
    <2>1. t = "T303" \/ t = "T305" \/ t = "T308" \/ t = "T310"
      BY <1>1 DEF Timers
    <2> QED  BY <2>1, Zenon DEF Expired
  <1>3. CalledAt(w, x) /\ (w.calls[x].path => w.calls[x].state = "N10")
    BY DEF Sound, PathAt
  <1>4. \A v \in {off, n303, n308} :
            /\ ButFor(w, v, x) /\ v.tab = w.tab
            /\ IsLeg(v.calls[x]) /\ SamePlace(w.calls[x], v.calls[x]) /\ v.calls[x].path = w.calls[x].path
            /\ v.calls[x].state = w.calls[x].state /\ v.calls[x].timers \subseteq w.calls[x].timers
    BY DEF ButFor, Good, LegsTyped, IsLeg, SamePlace
  <1> HIDE DEF off, n303, n308
  <1>5. \A v \in {off, n303, n308} : Thins(w, v) /\ x \in DOMAIN v.calls
    <2> TAKE v \in {off, n303, n308}
    <2>1. Good(v) /\ x \in DOMAIN v.calls
      BY <1>4, Edit DEF Sheds, SamePlace, ButFor
    <2>2. CalledAt(v, x)
      BY <1>3, <1>4 DEF CalledAt
    <2> QED  BY <1>3, <1>4, <2>1, <2>2, Retold
  <1>6. Good(off) /\ Sound(off) /\ x \in DOMAIN off.calls
    BY <1>5 DEF Thins
  <1>7. Thins(off, GiveUpSetup(off, x)) /\ Thins(off, GiveUpRelease(off, x))
    BY <1>6, GiveUpThins
  <1>8. t = "T310" => Thins(off, NoConnect(off, x))
    <2>1. t = "T310" /\ x[1] \in Nni => ~off.calls[x].path
      BY <1>3, <1>4 DEF CalledAt
    <2> QED  BY <1>6, <2>1, NoConnectThins
  <1>9. Thins(off, disc)
    <2>1. Thins(off, w1) /\ x \in DOMAIN w1.calls /\ ~w1.calls[x].path /\ w1.calls[x].timers = off.calls[x].timers
      BY <1>6, DestroyThins DEF AsWas
    <2>2. timers \in SUBSET Timers /\ ("T310" \in timers => "T310" \in off.calls[x].timers)
      BY <1>4 DEF IsLeg, Timers
    <2>3. ReleaseState(x[1]) \in LegStates \ {"N6", "N9"}
      BY DEF ReleaseState, LegStates
    <2> HIDE DEF w1, timers
    <2>4. Thins(w1, disc)
      BY <2>1, <2>2, <2>3, AwaitThins DEF Thins
    <2> QED  BY <2>1, <2>4, ThinsAgain
  <1> HIDE DEF disc
  <1>10. QED
    BY <1>2, <1>5, <1>7, <1>8, <1>9, ThinsAgain

-----------------------------------------------------------------------------
(***************************************************************************)
(* Messages that open no path.                                             *)
(***************************************************************************)
LEMMA BothClearedThins ==
    ASSUME NEW w, Good(w), Sound(w), NEW x \in DOMAIN w.calls
    PROVE  Thins(w, ClearBoth(w, x))
  <1> DEFINE w1 == ClearBeforeActive(w, x)
             y == w.calls[x].peer
  <1>1. ClearBoth(w, x) = IF HasPeer(w, x) THEN ClearBeforeActive(w1, y) ELSE w1
    BY Zenon DEF ClearBoth
  <1>2. Thins(w, w1) /\ DOMAIN w.calls \ {x} \subseteq DOMAIN w1.calls
    BY ClearThins
  <1>3. CASE HasPeer(w, x)
    <2>1. y \in DOMAIN w.calls /\ y # x
      BY <1>3 DEF HasPeer, Good, LegsTyped
    <2> HIDE DEF w1, y
    <2>2. Good(w1) /\ Sound(w1) /\ y \in DOMAIN w1.calls
      BY <1>2, <2>1 DEF Thins
    <2>3. Thins(w1, ClearBeforeActive(w1, y))
      BY <2>2, ClearThins
    <2> QED  BY <1>1, <1>2, <1>3, <2>3, ThinsAgain
  <1>4. CASE ~HasPeer(w, x)
    BY <1>1, <1>2, <1>4
  <1>5. QED
    BY <1>3, <1>4

LEMMA ProceedThins ==
    ASSUME NEW w, Good(w), Sound(w), NEW x \in DOMAIN w.calls, NEW q
    PROVE  Thins(w, UniCallProceeding(w, x, q)) /\ Thins(w, NniCallProceeding(w, x))
  <1> DEFINE v == [w EXCEPT !.calls[x].state = "N9", !.calls[x].timers = (@ \ {"T303"}) \cup {"T310"}]
  <1>1. \/ UniCallProceeding(w, x, q) = w
        \/ UniCallProceeding(w, x, q) = ClearBoth(w, x)
        \/ w.calls[x].state = "N6" /\ UniCallProceeding(w, x, q) = v
    BY Zenon DEF UniCallProceeding
  <1>2. \/ NniCallProceeding(w, x) = w
        \/ w.calls[x].state = "N6" /\ NniCallProceeding(w, x) = v
    BY Zenon DEF NniCallProceeding
  <1>3. w.calls[x].state = "N6" => Thins(w, v)
    <2> SUFFICES ASSUME w.calls[x].state = "N6" PROVE Thins(w, v)
      OBVIOUS
    <2>1. ButFor(w, v, x) /\ v.tab = w.tab
      BY DEF ButFor, Good
    <2>2. IsLeg(v.calls[x]) /\ SamePlace(w.calls[x], v.calls[x]) /\ v.calls[x].path = w.calls[x].path
      BY DEF Good, LegsTyped, IsLeg, SamePlace, LegStates, Timers
    <2> HIDE DEF v
    <2>3. Good(v)
      BY <2>1, <2>2, Edit DEF Sheds, SamePlace
    <2>4. CalledAt(w, x) /\ PathAt(w, x)
      BY DEF Sound
    <2>5. ~w.calls[x].path /\ x[3] = 0
      BY <2>4 DEF PathAt, CalledAt
    <2>6. CalledAt(v, x)
      BY <2>2, <2>5 DEF CalledAt
    <2> QED  BY <2>1, <2>2, <2>3, <2>5, <2>6, Retold
  <1> HIDE DEF v
  <1>4. QED
    BY <1>1, <1>2, <1>3, ThinsNone, BothClearedThins

LEMMA UniDisconnectThins ==
    ASSUME NEW w, Good(w), Sound(w), NEW x \in DOMAIN w.calls
    PROVE  Thins(w, UniDisconnect(w, x))
  <1> DEFINE c == w.calls[x]
             y == c.peer
             w1 == DestroyDataPvcs(w, x)
             w2 == DestroyDataPvcs(w1, y)
             told == Await(w2, y, "N12", {"T305"})
             w3 == IF ~HasPeer(w, x) THEN w1 ELSE IF y[1] \in Nni THEN NniClear(w2, y) ELSE told
             kept == IF c.state = "N12" THEN c.timers \ {"T305"} ELSE c.timers
             timers == kept \cup {"T308"}
             v == [w3 EXCEPT !.calls[x].state = "N19", !.calls[x].timers = timers]
  <1>1. UniDisconnect(w, x) = w \/ UniDisconnect(w, x) = v
    BY Zenon DEF UniDisconnect
  <1>2. Thins(w, w1) /\ x \in DOMAIN w1.calls /\ ~w1.calls[x].path
    BY DestroyThins
  <1>3. w2 = Parted(w, x)
    BY DEF Parted
  <1>4. HasPeer(w, x) => /\ Thins(w, told) /\ x \in DOMAIN told.calls /\ ~told.calls[x].path
                         /\ Thins(w, NniClear(w2, y)) /\ x \in DOMAIN NniClear(w2, y).calls
                         /\ ~NniClear(w2, y).calls[x].path
    <2> SUFFICES ASSUME HasPeer(w, x)
                 PROVE  /\ Thins(w, told) /\ x \in DOMAIN told.calls /\ ~told.calls[x].path
                        /\ Thins(w, NniClear(w2, y)) /\ x \in DOMAIN NniClear(w2, y).calls
                        /\ ~NniClear(w2, y).calls[x].path
      OBVIOUS
    <2> HIDE DEF w2
    <2>1. "N12" \in LegStates \ {"N6", "N9"} /\ {"T305"} \in SUBSET Timers /\ "T310" \notin {"T305"}
      BY DEF LegStates, Timers
    <2>2. Thins(w, told) /\ x \in DOMAIN told.calls /\ ~told.calls[x].path
      BY <1>3, <2>1, PeerTold
    <2>3. Thins(w, w2) /\ DOMAIN w2.calls = DOMAIN w.calls /\ ~w2.calls[x].path
      BY <1>3, PartedThins
    <2>4. y \in DOMAIN w.calls /\ x # y
      BY DEF HasPeer, Good, LegsTyped
    <2> HIDE DEF y
    <2>5. Thins(w2, NniClear(w2, y)) /\ x \in DOMAIN NniClear(w2, y).calls
      BY <2>3, <2>4, ClearThins DEF Thins
    <2>6. Thins(w, NniClear(w2, y)) /\ ~NniClear(w2, y).calls[x].path
      BY <2>3, <2>5, ThinsAgain DEF Thins
    <2> QED  BY <2>2, <2>5, <2>6
  <1>5. w3 = w1 \/ (HasPeer(w, x) /\ w3 \in {told, NniClear(w2, y)})
    OBVIOUS
  <1> HIDE DEF w1, w2, w3, told
  <1>6. Thins(w, w3) /\ x \in DOMAIN w3.calls /\ ~w3.calls[x].path
    BY <1>2, <1>4, <1>5
  <1>7. UniDisconnect(w, x) = v => Good(v)
    <2>1. Good(UniDisconnect(w, x))
      BY UniDisconnects
    <2> HIDE DEF v
    <2> QED  BY <2>1
  <1>8. timers \in SUBSET Timers /\ timers \subseteq w.calls[x].timers \cup {"T308"}
    BY DEF Good, LegsTyped, IsLeg, Timers
  <1> HIDE DEF timers, kept
  <1>9. Good(w3) /\ Sound(w3)
    BY <1>6 DEF Thins
  <1>10. ButFor(w3, v, x) /\ v.tab = w3.tab
    BY <1>9 DEF ButFor, Good
  <1>11. SamePlace(w3.calls[x], v.calls[x]) /\ v.calls[x].path = w3.calls[x].path /\ v.calls[x].state = "N19" /\ v.calls[x].timers = timers
    BY <1>6, <1>9 DEF SamePlace, Good, LegsTyped, IsLeg
  <1> HIDE DEF v
  <1>12. CalledAt(v, x)
    <2>1. CalledAt(w, x)
      BY DEF Sound
    <2> QED  BY <1>6, <1>8, <1>11, <2>1 DEF CalledAt
  <1>13. UniDisconnect(w, x) = v => Thins(w, v)
    <2>1. UniDisconnect(w, x) = v => Thins(w3, v)
      BY <1>6, <1>7, <1>9, <1>10, <1>11, <1>12, Retold
    <2> QED  BY <1>6, <2>1, ThinsAgain
  <1>14. QED
    BY <1>1, <1>13, ThinsNone

LEMMA UniReleaseThins ==
    ASSUME NEW w, Good(w), Sound(w), NEW x \in DOMAIN w.calls
    PROVE  Thins(w, UniRelease(w, x))
  <1> DEFINE v == DestroyDataPvcs(w, x)
             y == v.calls[x].peer
             v1 == DestroyDataPvcs(v, y)
             told == Await(v1, y, "N19", {"T308"})
             u == ReleasePeer(v, x)
  <1>1. UniRelease(w, x) = FreeCall(u, x)
    BY DEF UniRelease
  <1>2. Thins(w, v) /\ DOMAIN v.calls = DOMAIN w.calls /\ AsWas(w.calls[x], v.calls[x])
    BY DestroyThins
  <1>3. u = v \/ (HasPeer(v, x) /\ u \in {v1, told})
    BY Zenon DEF ReleasePeer
  <1>4. y = w.calls[x].peer /\ (HasPeer(v, x) => HasPeer(w, x))
    <2> HIDE DEF v
    <2> QED  BY <1>2 DEF HasPeer, AsWas
  <1>5. v1 = Parted(w, x)
    BY <1>4 DEF Parted
  <1> HIDE DEF v, v1, y, u
  <1>6. HasPeer(w, x) => Thins(w, v1) /\ x \in DOMAIN v1.calls /\ Thins(w, told) /\ x \in DOMAIN told.calls
    <2>1. "N19" \in LegStates \ {"N6", "N9"} /\ {"T308"} \in SUBSET Timers /\ "T310" \notin {"T308"}
      BY DEF LegStates, Timers
    <2> QED  BY <1>4, <1>5, <2>1, PartedThins, PeerTold
  <1> HIDE DEF told
  <1>7. QED
    BY <1>1, <1>2, <1>3, <1>4, <1>6, ThenFreedThins

LEMMA UniStatusThins ==
    ASSUME NEW w, Good(w), Sound(w), NEW x \in DOMAIN w.calls, NEW reported
    PROVE  Thins(w, UniStatus(w, x, reported))
  <1> DEFINE y == w.calls[x].peer
             w1 == DestroyDataPvcs(w, x)
             w0 == DestroyDataPvcs(w1, y)
             timers == w.calls[y].timers \cup {"T308"}
             told == Await(w0, y, "N19", timers)
             w2 == IF HasPeer(w, x) THEN told ELSE w1
  <1>1. UniStatus(w, x, reported) = w \/ UniStatus(w, x, reported) = FreeCall(w2, x)
    BY Zenon DEF UniStatus
  <1>2. Thins(w, w1) /\ x \in DOMAIN w1.calls
    BY DestroyThins
  <1>3. w0 = Parted(w, x)
    BY DEF Parted
  <1>4. HasPeer(w, x) => timers \in SUBSET Timers /\ ("T310" \in timers => "T310" \in w.calls[y].timers)
    BY DEF HasPeer, Good, LegsTyped, IsLeg, Timers
  <1>5. w2 = w1 \/ (HasPeer(w, x) /\ w2 = told)
    OBVIOUS
  <1> HIDE DEF w0, w1, w2, timers
  <1>6. HasPeer(w, x) => Thins(w, told) /\ x \in DOMAIN told.calls
    <2>1. "N19" \in LegStates \ {"N6", "N9"}
      BY DEF LegStates
    <2> QED  BY <1>3, <1>4, <2>1, PeerTold
  <1> HIDE DEF told
  <1>7. QED
    BY <1>1, <1>2, <1>5, <1>6, ThenFreedThins, ThinsNone

\* The legs of the port in turn, each of them once.
LEMMA UniRestartThins ==
    ASSUME NEW w, Good(w), Sound(w), NEW S \in SUBSET DOMAIN w.calls, NEW order \in Seq(S), Once(order)
    PROVE  Thins(w, UniRestart(w, order))
  <1> DEFINE F(s) == UniLoop!Fold(0, w, s)
             At(s) == {s[i] : i \in 1 .. Len(s)}
             T == {s \in Seq(S) : Once(s) => Thins(w, F(s)) /\ DOMAIN w.calls \ At(s) \subseteq DOMAIN F(s).calls}
  <1>1. <<>> \in T
    <2>1. F(<<>>) = w /\ <<>> \in Seq(S)
      BY UniLoop!FoldEmpty
    <2> HIDE DEF F, At
    <2>2. Thins(w, F(<<>>)) /\ DOMAIN w.calls \ At(<<>>) \subseteq DOMAIN F(<<>>).calls
      BY <2>1, ThinsNone
    <2> QED  BY <2>1, <2>2
  <1>2. ASSUME NEW rest \in Seq(S), NEW x \in S, rest \in T PROVE Append(rest, x) \in T
    <2> DEFINE s == Append(rest, x)
               n == Len(rest)
               u == F(rest)
               u1 == DestroyDataPvcs(u, x)
    <2>1. F(s) = FreeCall(u1, x)
      BY UniLoop!FoldAppend DEF UniRestartStep
    <2>2. /\ s \in Seq(S) /\ n \in Nat /\ Len(s) = n + 1 /\ s[n + 1] = x
          /\ \A i \in 1 .. n : s[i] = rest[i]
      OBVIOUS
    <2>3. At(s) = At(rest) \cup {x}
      <3> HIDE DEF s
      <3> QED  BY <2>2
    <2> HIDE DEF F
    <2> SUFFICES ASSUME Once(s) PROVE Thins(w, F(s)) /\ DOMAIN w.calls \ At(s) \subseteq DOMAIN F(s).calls
      BY <2>2
    <2> HIDE DEF s
    <2>4. Once(rest) /\ x \notin At(rest)
      BY <2>2 DEF Once
    <2> HIDE DEF At
    <2>5. Thins(w, u) /\ DOMAIN w.calls \ At(rest) \subseteq DOMAIN u.calls /\ x \in DOMAIN u.calls
      BY <1>2, <2>4
    <2> HIDE DEF u
    <2>6. Thins(u, u1) /\ DOMAIN u1.calls = DOMAIN u.calls
      BY <2>5, DestroyThins DEF Thins
    <2> HIDE DEF u1
    <2>7. Thins(w, u1)
      BY <2>5, <2>6, ThinsAgain
    <2>8. Thins(w, FreeCall(u1, x)) /\ DOMAIN FreeCall(u1, x).calls = DOMAIN u1.calls \ {x}
      BY <2>5, <2>6, <2>7, ThenFreedThins, FreeThins DEF Thins
    <2> QED  BY <2>1, <2>3, <2>5, <2>6, <2>8
  <1>3. Seq(S) \subseteq T
    <2> HIDE DEF T
    <2> QED  BY <1>1, <1>2, UniLoop!SequenceInduction
  <1>4. Thins(w, F(order))
    BY <1>3
  <1>5. QED
    BY <1>4, UniRestartIsFold

-----------------------------------------------------------------------------
(***************************************************************************)
(* Soft PVCs and the messages of a network.                                *)
(***************************************************************************)
LEMMA SameLegs ==
    ASSUME NEW w, Good(w), Sound(w), NEW v, Good(v), v.calls = w.calls, v.shared = w.shared, Fewer(w.tab, v.tab)
    PROVE  Thins(w, v)
  <1>1. \A x \in DOMAIN v.calls : SamePlace(w.calls[x], v.calls[x]) /\ CalledAt(v, x)
    BY DEF SamePlace, Sound, CalledAt
  <1>2. \A x \in DOMAIN v.calls : v.calls[x].path =>
            LET y == w.calls[x].peer
            IN /\ w.calls[x].path /\ v.calls[x].state = "N10"
               /\ y # NoPeer => y \in DOMAIN v.calls /\ v.calls[y].path
    BY DEF Sound, PathAt
  <1>3. QED
    BY <1>1, <1>2, Thinned

LEMMA SpvcReleasedThins ==
    ASSUME NEW w, Good(w), Sound(w), NEW x
    PROVE  Thins(w, SpvcReleased(w, x)) /\ SpvcReleased(w, x).calls = w.calls
  <1> DEFINE i == SpvcOf(w, x)
             t1 == DelPvc(w.tab, AccessPoint(i))
             t2 == DelPvc(t1, NearEnd(w, x))
             v == [w EXCEPT !.tab = t2, !.spvc[i].state = "retry", !.spvc[i].crv = 0]
  <1>1. SpvcReleased(w, x) = w \/ SpvcReleased(w, x) = v
    BY Zenon DEF SpvcReleased
  <1>2. Fewer(w.tab, t1)
    BY PvcDeleted DEF Sound, Tabled
  <1> HIDE DEF t1, i
  <1>3. Fewer(t1, t2)
    BY <1>2, PvcDeleted DEF Sound, Tabled, Fewer
  <1> HIDE DEF t2
  <1>4. v.calls = w.calls /\ v.tab = t2 /\ v.shared = w.shared
    BY DEF Good
  <1> HIDE DEF v
  <1>5. Good(SpvcReleased(w, x))
    BY SpvcLetGo DEF Sheds
  <1>6. Fewer(w.tab, t2)
    BY <1>2, <1>3 DEF Fewer
  <1>7. QED
    BY <1>1, <1>4, <1>5, <1>6, SameLegs, ThinsNone

LEMMA NniReleaseThins ==
    ASSUME NEW w, Good(w), Sound(w), NEW x \in DOMAIN w.calls
    PROVE  Thins(w, NniRelease(w, x)) /\ Thins(w, NniReleaseComplete(w, x))
  <1> DEFINE w0 == DestroyDataPvcs(w, x)
             w1 == SpvcReleased(w0, x)
             w2 == ForwardClearing(w1, x)
             w3 == SpvcReleased(w, x)
  <1>1. NniRelease(w, x) \in {FreeCall(w2, x), FreeCall(w3, x)} /\ NniReleaseComplete(w, x) = FreeCall(w2, x)
    BY Zenon DEF NniRelease, NniReleaseComplete
  <1>2. Thins(w, w0) /\ x \in DOMAIN w0.calls
    BY DestroyThins
  <1>3. Thins(w, w3) /\ x \in DOMAIN w3.calls
    BY SpvcReleasedThins
  <1> HIDE DEF w0, w3
  <1>4. Thins(w0, w1) /\ x \in DOMAIN w1.calls
    BY <1>2, SpvcReleasedThins DEF Thins
  <1> HIDE DEF w1
  <1>5. Thins(w1, w2) /\ x \in DOMAIN w2.calls
    BY <1>4, ForwardThins DEF Thins
  <1> HIDE DEF w2
  <1>6. Thins(w, w2)
    BY <1>2, <1>4, <1>5, ThinsAgain
  <1>7. QED
    BY <1>1, <1>3, <1>5, <1>6, ThenFreedThins

LEMMA DropsThin ==
    ASSUME NEW w, Good(w), Sound(w), NEW S, NEW order \in Seq(S)
    PROVE  Thins(w, FoldLeft(NniDrop, w, order))
  <1> DEFINE F(s) == NniLoop!Fold(0, w, s)
             T == {s \in Seq(S) : Thins(w, F(s))}
  <1>1. <<>> \in T
    <2>1. F(<<>>) = w /\ <<>> \in Seq(S)
      BY NniLoop!FoldEmpty
    <2> HIDE DEF F
    <2>2. Thins(w, F(<<>>))
      BY <2>1, ThinsNone
    <2> QED  BY <2>1, <2>2
  <1>2. ASSUME NEW rest \in Seq(S), NEW x \in S, rest \in T PROVE Append(rest, x) \in T
    <2> DEFINE u == F(rest)
    <2>1. F(Append(rest, x)) = NniDrop(u, x)
      BY NniLoop!FoldAppend DEF NniRestartStep
    <2>2. Append(rest, x) \in Seq(S)
      OBVIOUS
    <2> HIDE DEF F
    <2>3. Thins(w, u)
      BY <1>2
    <2> HIDE DEF u
    <2>4. Thins(u, NniDrop(u, x))
      BY <2>3, DropThins DEF Thins
    <2>5. Thins(w, NniDrop(u, x))
      BY <2>3, <2>4, ThinsAgain
    <2> QED  BY <2>1, <2>2, <2>5
  <1>3. Seq(S) \subseteq T
    <2> HIDE DEF T
    <2> QED  BY <1>1, <1>2, NniLoop!SequenceInduction
  <1>4. Thins(w, F(order))
    BY <1>3
  <1>5. QED
    BY <1>4, NniRestartIsFold

LEMMA RestartingThins ==
    ASSUME NEW w, Good(w), Sound(w), NEW p \in Ports, NEW n \in 0 .. 3
    PROVE  Thins(w, [w EXCEPT !.restart[p] = n])
  <1> DEFINE v == [w EXCEPT !.restart[p] = n]
  <1>1. Good(v)
    BY Restarting DEF Sheds
  <1>2. v.calls = w.calls /\ v.tab = w.tab /\ v.shared = w.shared
    BY DEF Good
  <1> HIDE DEF v
  <1>3. Thins(w, v)
    BY <1>1, <1>2, SameLegs DEF Fewer
  <1>4. QED
    BY <1>3 DEF v

LEMMA NniRestartThins ==
    ASSUME NEW w, Good(w), Sound(w), NEW p \in Ports, NEW S, NEW order \in Seq(S), NEW dlci
    PROVE  /\ Thins(w, NniRestart(w, p, order)) /\ Thins(w, NniRestartChannel(w, p, dlci, order))
           /\ Thins(w, InitiateRestart(w, p, order))
  <1> DEFINE w1 == [w EXCEPT !.restart[p] = 0]
             i == SelectInSeq(order, LAMBDA x : dlci \in {w.calls[x].in, w.calls[x].out})
             w2 == FoldLeft(NniDrop, w, order)
             w3 == [w2 EXCEPT !.restart[p] = 1]
  <1>1. NniRestart(w, p, order) = FoldLeft(NniDrop, w1, order)
    BY Zenon DEF NniRestart
  <1>2. NniRestartChannel(w, p, dlci, order) = w1 \/ NniRestartChannel(w, p, dlci, order) = NniDrop(w1, order[i])
    BY Zenon DEF NniRestartChannel
  <1>3. InitiateRestart(w, p, order) = w3
    BY Zenon DEF InitiateRestart
  <1>4. 0 \in 0 .. 3 /\ 1 \in 0 .. 3
    OBVIOUS
  <1>5. Thins(w, w1) /\ Thins(w, w2)
    BY <1>4, RestartingThins, DropsThin
  <1> HIDE DEF w1, w2, i
  <1>6. Thins(w2, w3)
    BY <1>4, <1>5, RestartingThins DEF Thins
  <1> HIDE DEF w3
  <1> DEFINE all == FoldLeft(NniDrop, w1, order)
             one == NniDrop(w1, order[i])
  <1>7. Thins(w1, all) /\ Thins(w1, one)
    BY <1>5, DropsThin, DropThins DEF Thins
  <1>8. NniRestart(w, p, order) = all /\ NniRestartChannel(w, p, dlci, order) \in {w1, one}
    BY <1>1, <1>2
  <1> HIDE DEF all, one
  <1>9. QED
    BY <1>3, <1>5, <1>6, <1>7, <1>8, ThinsAgain

-----------------------------------------------------------------------------
(***************************************************************************)
(* Paths that open.                                                        *)
(***************************************************************************)
LEMMA DiffersAgain ==
    ASSUME NEW t, NEW u, NEW s, NEW P, NEW Q, Differs(t, u, P), Differs(u, s, P), P \subseteq Q
    PROVE  Differs(t, s, Q)
  BY DEF Differs

\* A leg that has no peer and none that takes it for one does as it likes with
\* its own entry and with those of access PVCs: no other path is there.
LEMMA LoneSound ==
    ASSUME NEW w, Good(w), Sound(w), NEW x \in DOMAIN w.calls, w.calls[x].peer = NoPeer, NEW v,
           v.shared = w.shared, DOMAIN v.calls = DOMAIN w.calls,
           \A z \in DOMAIN w.calls : z # x => v.calls[z] = w.calls[z],
           v.calls[x].peer = NoPeer, v.calls[x].in = w.calls[x].in,
           v.calls[x].path => v.calls[x].state = "N10" /\ v.calls[x].in # 0,
           EndsAt(v, x), CalledAt(v, x), Differs(w.tab, v.tab, {NearEnd(w, x)} \cup AccessPoints)
    PROVE  Sound(v)
  <1>1. \A z \in DOMAIN w.calls : /\ NearEnd(v, z) = NearEnd(w, z) /\ v.calls[z].in = w.calls[z].in
                                  /\ v.calls[z].peer = w.calls[z].peer
                                  /\ z # x => FarEnd(v, z) = FarEnd(w, z)
    BY DEF NearEnd, FarEnd
  <1>2. Tabled(v) /\ Alone(v)
    BY <1>1 DEF Sound, Tabled, Alone, Differs
  <1>3. ASSUME NEW z \in DOMAIN w.calls, z # x PROVE PathAt(v, z)
    <2> DEFINE y == w.calls[z].peer
    <2>1. PathAt(w, z) /\ EndsAt(w, z) /\ v.calls[z] = w.calls[z]
      BY <1>3 DEF Sound
    <2>2. SUFFICES ASSUME w.calls[z].path, y # NoPeer
                   PROVE  /\ y \in DOMAIN v.calls /\ v.calls[y].peer = z /\ v.calls[y].path
                          /\ HasEntry(v.tab, NearEnd(v, z)) /\ NearEnd(v, z) \notin v.shared =>
                                 v.tab.lut[NearEnd(v, z)] = NearEnd(v, y)
      BY <2>1 DEF PathAt
    <2>3. y \in DOMAIN w.calls /\ w.calls[y].peer = z /\ w.calls[y].path /\ w.calls[z].in # 0
      BY <2>1, <2>2 DEF PathAt
    <2>4. y # x
      BY <2>2, <2>3, NoPeerIsNoLeg DEF Good, LegsTyped
    <2>5. NearEnd(w, z) \notin w.shared => NearEnd(w, z) \notin {NearEnd(w, x)} \cup AccessPoints
      BY <1>3, <2>1, <2>3 DEF Sound, Alone
    <2>6. HasEntry(w.tab, NearEnd(w, z)) /\ NearEnd(w, z) \notin w.shared => w.tab.lut[NearEnd(w, z)] = NearEnd(w, y)
      BY <2>1, <2>2 DEF PathAt
    <2> HIDE DEF y
    <2> QED  BY <1>1, <2>3, <2>4, <2>5, <2>6 DEF Differs, HasEntry
  <1>4. ASSUME NEW z \in DOMAIN w.calls, z # x PROVE EndsAt(v, z) /\ CalledAt(v, z)
    <2>1. EndsAt(w, z) /\ CalledAt(w, z) /\ v.calls[z] = w.calls[z]
      BY <1>4 DEF Sound
    <2>2. \A y \in DOMAIN w.calls : NearEnd(v, y) = NearEnd(w, y)
      BY <1>1
    <2>3. FarEnd(v, z) = FarEnd(w, z) /\ NearEnd(v, z) = NearEnd(w, z)
      BY <1>1, <1>4
    <2> QED  BY <2>1, <2>2, <2>3 DEF EndsAt, CalledAt
  <1>5. PathAt(v, x)
    BY DEF PathAt
  <1>6. QED
    BY <1>2, <1>3, <1>4, <1>5 DEF Sound

\* What CreateDataPvcs does if it does anything.
LEMMA Created ==
    ASSUME NEW w, Good(w), Sound(w), NEW x \in DOMAIN w.calls
    PROVE  LET v == CreateDataPvcs(w, x)
           IN \/ v = w
              \/ /\ w.calls[x].in # 0 /\ w.calls[x].out # 0 /\ w.calls[x].outPort \in Ports
                 /\ Differs(w.tab, v.tab, {NearEnd(w, x), FarEnd(w, x)})
                 /\ HasEntry(v.tab, NearEnd(w, x)) /\ v.tab.lut[NearEnd(w, x)] = FarEnd(w, x)
                 /\ HasEntry(v.tab, FarEnd(w, x)) /\ v.tab.lut[FarEnd(w, x)] = NearEnd(w, x)
                 /\ DOMAIN v.calls = DOMAIN w.calls /\ v.shared = w.shared
                 /\ \A z \in DOMAIN w.calls :
                        /\ AsWas(w.calls[z], v.calls[z]) /\ SamePlace(w.calls[z], v.calls[z])
                        /\ v.calls[z].path <=> w.calls[z].path \/ z \in Both(w, x)
                        /\ z \notin Both(w, x) => v.calls[z] = w.calls[z]
  <1> DEFINE n == NearEnd(w, x)
             f == FarEnd(w, x)
             t1 == AddEntry(w.tab, n, f)
             t2 == AddEntry(t1, f, n)
             u == [w EXCEPT !.tab = t2]
             v == CreateDataPvcs(w, x)
  <1>1. \/ v = w
        \/ /\ w.calls[x].in # 0 /\ w.calls[x].out # 0 /\ w.calls[x].outPort \in Ports
           /\ v = SetPath(u, x, TRUE)
    BY Zenon DEF CreateDataPvcs
  <1>2. Differs(w.tab, t1, {n}) /\ n \in DOMAIN t1.lut /\ t1.lut[n] = f
    BY EntryAdded DEF Sound, Tabled
  <1> HIDE DEF t1, n, f
  <1>3. Differs(t1, t2, {f}) /\ f \in DOMAIN t2.lut /\ t2.lut[f] = n
    BY <1>2, EntryAdded DEF Sound, Tabled, Differs
  <1>4. n \in DOMAIN t2.lut /\ t2.lut[n] = f
    <2>1. CASE n = f
      BY <1>3, <2>1
    <2>2. CASE n # f
      <3>1. AddEntry(t1, f, n) = [t1 EXCEPT !.lut = [z \in DOMAIN t1.lut \cup {f} |-> IF z = f THEN n ELSE t1.lut[z]]]
        BY DEF AddEntry
      <3>2. t2.lut = [z \in DOMAIN t1.lut \cup {f} |-> IF z = f THEN n ELSE t1.lut[z]]
        <4>1. DOMAIN t1 = {"lut", "pvcs"}
          BY <1>2 DEF Sound, Tabled, Differs
        <4> QED  BY <3>1, <4>1
      <3> HIDE DEF t2
      <3> QED  BY <1>2, <2>2, <3>2
    <2> QED  BY <2>1, <2>2
  <1> HIDE DEF t2
  <1>5. Differs(w.tab, t2, {n, f})
    BY <1>2, <1>3 DEF Differs
  <1>6. u.calls = w.calls /\ u.tab = t2 /\ DOMAIN u = DOMAIN w /\ u.shared = w.shared
    BY DEF Good
  <1> HIDE DEF u
  <1> DEFINE c == [z \in DOMAIN w.calls |-> IF z \in Both(w, x) THEN [w.calls[z] EXCEPT !.path = TRUE] ELSE w.calls[z]]
  <1>7. SetPath(u, x, TRUE) = [u EXCEPT !.calls = c]
    BY <1>6 DEF SetPath, Both
  <1>8. ASSUME NEW z \in DOMAIN w.calls
        PROVE  /\ AsWas(w.calls[z], c[z]) /\ SamePlace(w.calls[z], c[z])
               /\ c[z].path <=> w.calls[z].path \/ z \in Both(w, x)
               /\ z \notin Both(w, x) => c[z] = w.calls[z]
    <2>1. IsLeg(w.calls[z])
      BY DEF Good, LegsTyped
    <2>2. c[z] = IF z \in Both(w, x) THEN [w.calls[z] EXCEPT !.path = TRUE] ELSE w.calls[z]
      OBVIOUS
    <2> HIDE DEF c
    <2>3. CASE z \in Both(w, x)
      BY <2>1, <2>2, <2>3 DEF IsLeg, AsWas, SamePlace
    <2>4. CASE z \notin Both(w, x)
      BY <2>1, <2>2, <2>4 DEF IsLeg, AsWas, SamePlace
    <2> QED  BY <2>3, <2>4
  <1>9. DOMAIN c = DOMAIN w.calls
    OBVIOUS
  <1> HIDE DEF c
  <1>10. SetPath(u, x, TRUE).calls = c /\ SetPath(u, x, TRUE).tab = t2 /\ SetPath(u, x, TRUE).shared = w.shared
    BY <1>6, <1>7 DEF Good
  <1> HIDE DEF v
  <1>11. QED
    BY <1>1, <1>3, <1>4, <1>5, <1>8, <1>9, <1>10 DEF v, n, f, HasEntry

\* The two legs of a call, both active, are joined, and nothing else is changed.
LEMMA PairOpens ==
    ASSUME NEW w, Good(w), Sound(w), NEW x \in DOMAIN w.calls, NEW y \in DOMAIN w.calls,
           w.calls[x].peer = y, w.calls[y].peer = x, x[3] = 0,
           w.calls[x].state = "N10", w.calls[y].state = "N10",
           \A z \in {x, y} : z[1] \in Nni => "T310" \notin w.calls[z].timers
    PROVE  Sound(CreateDataPvcs(w, x))
  <1> DEFINE v == CreateDataPvcs(w, x)
  <1>1. FarEnd(w, x) = NearEnd(w, y) /\ x # y
    BY DEF Sound, EndsAt, Good, LegsTyped
  <1>2. \/ v = w
        \/ /\ w.calls[x].in # 0 /\ w.calls[x].out # 0
           /\ Differs(w.tab, v.tab, {NearEnd(w, x), FarEnd(w, x)})
           /\ HasEntry(v.tab, NearEnd(w, x)) /\ v.tab.lut[NearEnd(w, x)] = FarEnd(w, x)
           /\ HasEntry(v.tab, FarEnd(w, x)) /\ v.tab.lut[FarEnd(w, x)] = NearEnd(w, x)
           /\ DOMAIN v.calls = DOMAIN w.calls /\ v.shared = w.shared
           /\ \A z \in DOMAIN w.calls :
                  /\ AsWas(w.calls[z], v.calls[z]) /\ SamePlace(w.calls[z], v.calls[z])
                  /\ v.calls[z].path <=> w.calls[z].path \/ z \in Both(w, x)
    BY Created
  <1> HIDE DEF v
  <1>3. SUFFICES ASSUME v # w PROVE Sound(v)
    BY DEF v
  <1>4. Both(w, x) = {x, y}
    BY DEF Both
  <1>5. \A z \in DOMAIN w.calls : NearEnd(v, z) = NearEnd(w, z) /\ FarEnd(v, z) = FarEnd(w, z)
    BY <1>2, <1>3 DEF SamePlace, NearEnd, FarEnd
  <1>6. w.calls[y].in # 0 /\ w.calls[x].in # 0
    BY <1>1, <1>2, <1>3 DEF NearEnd, FarEnd
  <1>7. Tabled(v) /\ Alone(v)
    BY <1>2, <1>3, <1>5 DEF Sound, Tabled, Alone, Differs, SamePlace
  <1>8. PathAt(v, x) /\ PathAt(v, y)
    BY <1>1, <1>2, <1>3, <1>4, <1>5, <1>6 DEF PathAt, SamePlace, AsWas, HasEntry
  <1>9. ASSUME NEW z \in DOMAIN w.calls, z # x, z # y PROVE PathAt(v, z)
    <2> DEFINE r == w.calls[z].peer
    <2>1. PathAt(w, z)
      BY DEF Sound
    <2>2. SUFFICES ASSUME v.calls[z].path PROVE PathAt(v, z)
      BY DEF PathAt
    <2>3. w.calls[z].path
      BY <1>2, <1>3, <1>4, <1>9, <2>2
    <2>4. w.calls[z].state = "N10" /\ w.calls[z].in # 0
      BY <2>1, <2>3 DEF PathAt
    <2>5. r # NoPeer => /\ r \in DOMAIN w.calls /\ w.calls[r].peer = z /\ w.calls[r].path
                        /\ HasEntry(w.tab, NearEnd(w, z)) /\ NearEnd(w, z) \notin w.shared =>
                               w.tab.lut[NearEnd(w, z)] = NearEnd(w, r)
      BY <2>1, <2>3 DEF PathAt
    <2>6. NearEnd(w, z) \notin w.shared => NearEnd(w, z) \notin {NearEnd(w, x), FarEnd(w, x)}
      BY <1>1, <1>6, <1>9, <2>4 DEF Sound, Alone
    <2>7. v.calls[z].peer = r /\ v.calls[z].in = w.calls[z].in /\ v.calls[z].state = "N10"
      BY <1>2, <1>3, <2>4 DEF AsWas, SamePlace
    <2>8. HasEntry(v.tab, NearEnd(w, z)) /\ NearEnd(w, z) \notin w.shared =>
              HasEntry(w.tab, NearEnd(w, z)) /\ v.tab.lut[NearEnd(w, z)] = w.tab.lut[NearEnd(w, z)]
      BY <1>2, <1>3, <2>6 DEF Differs, HasEntry
    <2> HIDE DEF r
    <2>9. r # NoPeer => /\ r \in DOMAIN v.calls /\ v.calls[r].peer = z /\ v.calls[r].path
                        /\ HasEntry(v.tab, NearEnd(v, z)) /\ NearEnd(v, z) \notin v.shared =>
                               v.tab.lut[NearEnd(v, z)] = NearEnd(v, r)
      BY <1>2, <1>3, <1>5, <2>5, <2>8 DEF SamePlace
    <2> QED  BY <2>4, <2>7, <2>9 DEF PathAt
  <1>10. ASSUME NEW z \in DOMAIN w.calls PROVE EndsAt(v, z)
    <2>1. EndsAt(w, z) /\ SamePlace(w.calls[z], v.calls[z])
      BY <1>2, <1>3 DEF Sound
    <2> QED  BY <1>2, <1>3, <1>5, <2>1 DEF EndsAt, SamePlace
  <1>11. ASSUME NEW z \in DOMAIN w.calls PROVE CalledAt(v, z)
    <2>1. CalledAt(w, z) /\ AsWas(w.calls[z], v.calls[z]) /\ (v.calls[z].path <=> w.calls[z].path \/ z \in {x, y})
      BY <1>2, <1>3, <1>4 DEF Sound
    <2> QED  BY <2>1 DEF CalledAt, AsWas
  <1>12. QED
    BY <1>2, <1>3, <1>7, <1>8, <1>9, <1>10, <1>11 DEF Sound

-----------------------------------------------------------------------------
(***************************************************************************)
(* Soft PVCs: their circuits are at access points and where the call is.   *)
(***************************************************************************)
\* What SpvcWhere selects is a soft PVC.
LEMMA FirstIsSpvc ==
    ASSUME NEW I \in SUBSET (1 .. Len([i \in DOMAIN Spvcs |-> i]))
    PROVE  (IF I # {} THEN Min(I) ELSE 0) # 0 => (IF I # {} THEN Min(I) ELSE 0) \in DOMAIN Spvcs
  <1>1. Len([i \in DOMAIN Spvcs |-> i]) = Len(Spvcs) /\ DOMAIN Spvcs = 1 .. Len(Spvcs) /\ Len(Spvcs) \in Nat
    BY SpvcAssumption
  <1>2. I \in SUBSET Nat /\ I \subseteq DOMAIN Spvcs
    BY <1>1
  <1>3. I # {} => Min(I) \in I
    BY <1>2, SmallestOf
  <1>4. QED
    BY <1>2, <1>3

LEMMA SelectedSpvcs ==
    ASSUME NEW w, NEW x, NEW number, NEW m
    PROVE  /\ SpvcOf(w, x) # 0 => SpvcOf(w, x) \in DOMAIN Spvcs
           /\ SvcToPvc(w, number) # 0 => SvcToPvc(w, number) \in DOMAIN Spvcs
           /\ CalledSpvc(m) # 0 => CalledSpvc(m) \in DOMAIN Spvcs
  <1> DEFINE s == [i \in DOMAIN Spvcs |-> i]
             I == {k \in 1 .. Len(s) : w.spvc[s[k]].crv = x[2] /\ w.spvc[s[k]].port = x[1]}
             J == {k \in 1 .. Len(s) : Spvcs[s[k]].mode = "svc_to_pvc" /\ Spvcs[s[k]].addr = number}
             K == {k \in 1 .. Len(s) : /\ Spvcs[s[k]].mode = "inter"
                                       /\ \/ Spvcs[s[k]].addr = m.called
                                          \/ Spvcs[s[k]].target > 0 /\ Spvcs[s[k]].target = m.target}
  <1>1. SpvcOf(w, x) = IF I # {} THEN Min(I) ELSE 0
    BY Zenon DEF SpvcOf, SpvcWhere, SelectInSeq
  <1>2. SvcToPvc(w, number) # 0 => SvcToPvc(w, number) = IF J # {} THEN Min(J) ELSE 0
    BY Zenon DEF SvcToPvc, SpvcWhere, SelectInSeq
  <1>3. CalledSpvc(m) # 0 => CalledSpvc(m) = IF K # {} THEN Min(K) ELSE 0
    BY Zenon DEF CalledSpvc, SpvcWhere, SelectInSeq
  <1>4. I \in SUBSET (1 .. Len(s)) /\ J \in SUBSET (1 .. Len(s)) /\ K \in SUBSET (1 .. Len(s))
    OBVIOUS
  <1> HIDE DEF I, J, K
  <1>5. QED
    BY <1>1, <1>2, <1>3, <1>4, FirstIsSpvc

LEMMA AcceptSound ==
    ASSUME NEW w, Good(w), Sound(w), NEW x \in DOMAIN w.calls, w.calls[x].peer = NoPeer, ~w.calls[x].path,
           NEW i \in DOMAIN Spvcs
    PROVE  Sound(Accept(w, x, i)) /\ Sound(AcceptSvcToPvc(w, x, i))
  <1> DEFINE n == NearEnd(w, x)
             a == AccessPoint(i)
             w0 == [w EXCEPT !.calls[x].outPort = Spvcs[i].port, !.calls[x].out = Spvcs[i].dlci]
  <1>1. ASSUME NEW u, Good(u), Tabled(u), x \in DOMAIN u.calls
        PROVE  LET v == Accept(u, x, i)
               IN /\ DOMAIN v.calls = DOMAIN u.calls /\ \A z \in DOMAIN u.calls : z # x => v.calls[z] = u.calls[z]
                  /\ v.calls[x] = [u.calls[x] EXCEPT !.state = "N10"]
                  /\ Differs(u.tab, v.tab, {NearEnd(u, x), a}) /\ v.shared = u.shared
    <2> DEFINE t == AddPvc(u.tab, NearEnd(u, x), a)
               u1 == SpvcTo(u, i, "connected", x)
               v == [u1 EXCEPT !.tab = t, !.calls[x].state = "N10"]
    <2>1. DOMAIN u1 = DOMAIN u /\ u1.calls = u.calls /\ u1.tab = u.tab /\ u1.shared = u.shared
      BY <1>1 DEF Good, SpvcTo
    <2>2. Differs(u.tab, t, {NearEnd(u, x), a})
      <3> HIDE DEF a
      <3> QED  BY <1>1, PvcAdded DEF Tabled
    <2> HIDE DEF t, u1
    <2>3. Accept(u, x, i) = v
      BY <2>1, Zenon DEF Accept, t, u1
    <2>4. v.calls = [u.calls EXCEPT ![x].state = "N10"] /\ v.tab = t /\ v.shared = u.shared
      BY <1>1, <2>1 DEF Good
    <2> HIDE DEF v
    <2> QED  BY <1>1, <2>2, <2>3, <2>4
  <1>2. n \in {n} \cup AccessPoints /\ a \in AccessPoints
    BY DEF AccessPoints
  <1>3. EndsAt(w, x) /\ CalledAt(w, x) /\ IsLeg(w.calls[x])
    BY DEF Sound, Good, LegsTyped
  <1>4. /\ DOMAIN w0.calls = DOMAIN w.calls /\ \A z \in DOMAIN w.calls : z # x => w0.calls[z] = w.calls[z]
        /\ w0.calls[x] = [w.calls[x] EXCEPT !.outPort = Spvcs[i].port, !.out = Spvcs[i].dlci]
        /\ w0.tab = w.tab /\ w0.shared = w.shared
    BY DEF Good
  <1>5. Good(w0)
    <2>1. ButFor(w, w0, x)
      BY DEF ButFor, Good
    <2>2. IsLeg(w0.calls[x]) /\ w0.calls[x].peer = w.calls[x].peer /\ w0.calls[x].in = w.calls[x].in
      BY <1>3, <1>4 DEF IsLeg
    <2> HIDE DEF w0
    <2> QED  BY <2>1, <2>2, Edit DEF Sheds
  <1> HIDE DEF w0
  <1>6. ASSUME NEW u \in {w, w0} PROVE Sound(Accept(u, x, i))
    <2> DEFINE v == Accept(u, x, i)
    <2>1. Good(u) /\ Tabled(u) /\ x \in DOMAIN u.calls /\ u.tab = w.tab /\ u.shared = w.shared
      BY <1>4, <1>5 DEF Sound, Tabled
    <2>2. /\ DOMAIN v.calls = DOMAIN u.calls /\ \A z \in DOMAIN u.calls : z # x => v.calls[z] = u.calls[z]
          /\ v.calls[x] = [u.calls[x] EXCEPT !.state = "N10"]
          /\ Differs(u.tab, v.tab, {NearEnd(u, x), a}) /\ v.shared = u.shared
      BY <1>1, <2>1
    <2> HIDE DEF v
    <2> DEFINE c == w.calls[x]
               c0 == u.calls[x]
               c1 == v.calls[x]
    <2>a. DOMAIN u.calls = DOMAIN w.calls /\ \A z \in DOMAIN w.calls : z # x => u.calls[z] = w.calls[z]
      BY <1>4
    <2>b. /\ c0.peer = c.peer /\ c0.in = c.in /\ c0.path = c.path /\ c0.timers = c.timers
          /\ \/ c0.out = c.out /\ c0.outPort = c.outPort
             \/ c0.outPort = Spvcs[i].port /\ c0.out = Spvcs[i].dlci
      <3>1. CASE u = w
        BY <3>1
      <3>2. CASE u = w0
        <4>1. c0 = [c EXCEPT !.outPort = Spvcs[i].port, !.out = Spvcs[i].dlci]
          BY <1>4, <3>2
        <4> HIDE DEF c, c0
        <4>2. QED
          BY <1>3, <4>1 DEF IsLeg, c
      <3> QED  BY <3>1, <3>2
    <2>c. IsLeg(c0)
      BY <2>1 DEF Good, LegsTyped
    <2>d. /\ c1.peer = c0.peer /\ c1.in = c0.in /\ c1.path = c0.path /\ c1.timers = c0.timers
          /\ c1.out = c0.out /\ c1.outPort = c0.outPort /\ c1.state = "N10"
      <3>1. c1 = [c0 EXCEPT !.state = "N10"]
        BY <2>2
      <3> HIDE DEF c0, c1
      <3> QED  BY <2>c, <3>1 DEF IsLeg
    <2>3. /\ DOMAIN v.calls = DOMAIN w.calls /\ \A z \in DOMAIN w.calls : z # x => v.calls[z] = w.calls[z]
          /\ v.calls[x].peer = NoPeer /\ v.calls[x].in = w.calls[x].in /\ ~v.calls[x].path
          /\ v.calls[x].state = "N10" /\ v.calls[x].timers = w.calls[x].timers /\ v.shared = w.shared
      BY <2>1, <2>2, <2>a, <2>b, <2>d
    <2>4. \/ v.calls[x].out = w.calls[x].out /\ v.calls[x].outPort = w.calls[x].outPort
          \/ FarEnd(v, x) = a
      BY <2>b, <2>d DEF FarEnd, AccessPoint
    <2>5. NearEnd(v, x) = n /\ NearEnd(u, x) = n
      BY <1>3, <1>4, <2>3 DEF NearEnd, IsLeg
    <2>6. NoPeer \notin DOMAIN v.calls
      BY <2>3, NoPeerIsNoLeg DEF Good, LegsTyped
    <2>7. EndsAt(v, x)
      BY <1>2, <1>3, <2>3, <2>4, <2>5, <2>6 DEF EndsAt, FarEnd
    <2>8. CalledAt(v, x)
      BY <1>3, <2>3 DEF CalledAt
    <2>9. Differs(w.tab, v.tab, {n} \cup AccessPoints)
      <3> HIDE DEF n, a
      <3> QED  BY <1>2, <2>1, <2>2, <2>5 DEF Differs
    <2>10. Sound(v)
      BY <2>3, <2>7, <2>8, <2>9, LoneSound
    <2> QED  BY <2>10 DEF v
  <1>7. AcceptSvcToPvc(w, x, i) = Accept(w0, x, i)
    BY Zenon DEF AcceptSvcToPvc, w0
  <1>8. QED
    BY <1>6, <1>7

LEMMA SpvcConnectedSound ==
    ASSUME NEW w, Good(w), Sound(w), NEW x \in DOMAIN w.calls, w.calls[x].peer = NoPeer, NEW assigned
    PROVE  Sound(SpvcConnected(w, x, assigned))
  <1> DEFINE i == SpvcOf(w, x)
             n == NearEnd(w, x)
             t == AddPvc(w.tab, AccessPoint(i), n)
             v == [w EXCEPT !.spvc[i].state = "connected", !.tab = t]
  <1>1. \/ SpvcConnected(w, x, assigned) = w
        \/ i # 0 /\ SpvcConnected(w, x, assigned) = v
        \/ SpvcConnected(w, x, assigned) = NniClear(w, x)
    BY Zenon DEF SpvcConnected
  <1>2. Differs(w.tab, t, {AccessPoint(i), n})
    BY PvcAdded DEF Sound, Tabled
  <1>3. i # 0 => AccessPoint(i) \in AccessPoints
    BY SelectedSpvcs DEF AccessPoints
  <1> HIDE DEF t, i
  <1>4. v.calls = w.calls /\ v.tab = t /\ v.shared = w.shared
    BY DEF Good
  <1> HIDE DEF v
  <1>5. i # 0 => Sound(v)
    <2> SUFFICES ASSUME i # 0 PROVE Sound(v)
      OBVIOUS
    <2>1. Differs(w.tab, v.tab, {n} \cup AccessPoints)
      <3> HIDE DEF n
      <3> QED  BY <1>2, <1>3, <1>4 DEF Differs
    <2>2. EndsAt(w, x) /\ CalledAt(w, x) /\ PathAt(w, x)
      BY DEF Sound
    <2>3. EndsAt(v, x) /\ CalledAt(v, x) /\ (v.calls[x].path => v.calls[x].state = "N10" /\ v.calls[x].in # 0)
      BY <1>4, <2>2 DEF EndsAt, CalledAt, PathAt, NearEnd, FarEnd
    <2> QED  BY <1>4, <2>1, <2>3, LoneSound
  <1>6. Sound(NniClear(w, x))
    BY ClearThins DEF Thins
  <1>7. QED
    BY <1>1, <1>5, <1>6

-----------------------------------------------------------------------------
(***************************************************************************)
(* Answers.  A leg that waits for one was set up by the switch, so that a  *)
(* path it opens joins the two legs of its call.                           *)
(***************************************************************************)
LEMMA LoneOpens ==
    ASSUME NEW w, Good(w), Sound(w), NEW x \in DOMAIN w.calls, w.calls[x].peer = NoPeer, w.calls[x].state = "N10",
           x[1] \in Nni => "T310" \notin w.calls[x].timers
    PROVE  Sound(CreateDataPvcs(w, x))
  <1> DEFINE v == CreateDataPvcs(w, x)
             n == NearEnd(w, x)
             f == FarEnd(w, x)
  <1>1. \/ v = w
        \/ /\ w.calls[x].in # 0 /\ w.calls[x].out # 0 /\ w.calls[x].outPort \in Ports
           /\ Differs(w.tab, v.tab, {NearEnd(w, x), FarEnd(w, x)})
           /\ HasEntry(v.tab, NearEnd(w, x)) /\ v.tab.lut[NearEnd(w, x)] = FarEnd(w, x)
           /\ HasEntry(v.tab, FarEnd(w, x)) /\ v.tab.lut[FarEnd(w, x)] = NearEnd(w, x)
           /\ DOMAIN v.calls = DOMAIN w.calls /\ v.shared = w.shared
           /\ \A z \in DOMAIN w.calls :
                  /\ AsWas(w.calls[z], v.calls[z]) /\ SamePlace(w.calls[z], v.calls[z])
                  /\ v.calls[z].path <=> w.calls[z].path \/ z \in Both(w, x)
                  /\ z \notin Both(w, x) => v.calls[z] = w.calls[z]
    BY Created
  <1> HIDE DEF v
  <1>2. SUFFICES ASSUME v # w PROVE Sound(v)
    BY DEF v
  <1>3. NoPeer \notin DOMAIN w.calls
    BY NoPeerIsNoLeg DEF Good, LegsTyped
  <1>4. EndsAt(w, x)
    BY DEF Sound
  <1>5. f \in {n} \cup AccessPoints
    BY <1>1, <1>2, <1>4 DEF EndsAt
  <1>6. NearEnd(v, x) = n /\ FarEnd(v, x) = f
    BY <1>1, <1>2 DEF NearEnd, FarEnd, SamePlace
  <1>7. Differs(w.tab, v.tab, {n} \cup AccessPoints)
    <2>1. Differs(w.tab, v.tab, {n, f})
      BY <1>1, <1>2
    <2> HIDE DEF n, f
    <2> QED  BY <1>5, <2>1 DEF Differs
  <1> HIDE DEF n, f
  <1>8. /\ DOMAIN v.calls = DOMAIN w.calls /\ v.shared = w.shared
        /\ v.calls[x].peer = NoPeer /\ v.calls[x].in = w.calls[x].in
        /\ v.calls[x].in # 0 /\ v.calls[x].state = "N10" /\ v.calls[x].timers = w.calls[x].timers
    BY <1>1, <1>2 DEF AsWas, SamePlace
  <1>9. \A z \in DOMAIN w.calls : z # x => v.calls[z] = w.calls[z]
    BY <1>1, <1>2, <1>3 DEF Both
  <1>10. EndsAt(v, x)
    BY <1>3, <1>4, <1>5, <1>6, <1>8 DEF EndsAt, n
  <1>11. CalledAt(v, x)
    BY <1>8 DEF CalledAt
  <1>12. QED
    BY <1>7, <1>8, <1>9, <1>10, <1>11, LoneSound DEF n

LEMMA SwitchSound ==
    ASSUME NEW w, Good(w), Sound(w), NEW x \in DOMAIN w.calls, w.calls[x].peer = NoPeer, ~w.calls[x].path,
           x[1] \notin Nni
    PROVE  Sound(VirtualSwitch(w, x))
  <1> DEFINE v == [w EXCEPT !.calls[x] = [@ EXCEPT !.state = "N10", !.out = w.calls[x].in, !.outPort = x[1]]]
  <1>1. VirtualSwitch(w, x) = CreateDataPvcs(v, x)
    BY Zenon DEF VirtualSwitch
  <1>2. ButFor(w, v, x) /\ v.tab = w.tab
    BY DEF ButFor, Good
  <1>3. IsLeg(v.calls[x]) /\ v.calls[x].peer = w.calls[x].peer /\ v.calls[x].in = w.calls[x].in /\ v.calls[x].state = "N10"
    BY DEF Good, LegsTyped, IsLeg, LegStates
  <1>4. v.calls[x].out = w.calls[x].in /\ v.calls[x].outPort = x[1] /\ ~v.calls[x].path
    BY DEF Good, LegsTyped, IsLeg
  <1> HIDE DEF v
  <1>5. Good(v)
    BY <1>2, <1>3, Edit DEF Sheds
  <1>6. NearEnd(v, x) = NearEnd(w, x) /\ FarEnd(v, x) = NearEnd(v, x)
    BY <1>3, <1>4 DEF NearEnd, FarEnd
  <1>7. EndsAt(v, x)
    <2>1. EndsAt(w, x) /\ NoPeer \notin DOMAIN v.calls
      BY <1>5, NoPeerIsNoLeg DEF Sound, Good, LegsTyped
    <2> QED  BY <1>3, <1>6, <2>1 DEF EndsAt
  <1>8. CalledAt(v, x)
    BY <1>3 DEF CalledAt
  <1>9. Differs(w.tab, v.tab, {NearEnd(w, x)} \cup AccessPoints)
    BY <1>2 DEF Differs
  <1>10. Sound(v)
    BY <1>2, <1>3, <1>4, <1>7, <1>8, <1>9, LoneSound DEF ButFor
  <1>11. QED
    BY <1>1, <1>2, <1>3, <1>5, <1>10, LoneOpens DEF ButFor

LEMMA AckSound ==
    ASSUME NEW w, Good(w), Sound(w), NEW x \in DOMAIN w.calls, x[1] \notin Nni, Acknowledges(w.calls[x])
    PROVE  Sound(UniConnectAck(w, x))
  <1> DEFINE v == [w EXCEPT !.calls[x].state = "N10"]
  <1>1. UniConnectAck(w, x) = CreateDataPvcs(v, x)
    BY Zenon DEF UniConnectAck
  <1>2. ButFor(w, v, x) /\ v.tab = w.tab /\ IsLeg(v.calls[x]) /\ v.calls[x].in = w.calls[x].in
    BY DEF ButFor, Good, LegsTyped, IsLeg, LegStates
  <1>3. /\ v.calls[x].peer = w.calls[x].peer /\ v.calls[x].state = "N10" /\ v.calls[x].path = w.calls[x].path
        /\ SamePlace(w.calls[x], v.calls[x])
    BY DEF Good, LegsTyped, IsLeg, SamePlace
  <1> HIDE DEF v
  <1>4. Good(v)
    BY <1>2, <1>3, Edit DEF Sheds
  <1>5. CalledAt(v, x)
    BY <1>3 DEF CalledAt
  <1>6. Sound(v)
    BY <1>2, <1>3, <1>4, <1>5, Retold DEF Thins
  <1>7. CASE w.calls[x].path
    <2>1. CreateDataPvcs(v, x) = v
      BY <1>3, <1>7, Zenon DEF CreateDataPvcs
    <2> QED  BY <1>1, <1>6, <2>1
  <1>8. CASE w.calls[x].peer = NoPeer
    BY <1>1, <1>2, <1>3, <1>4, <1>6, <1>8, LoneOpens DEF ButFor
  <1>9. QED
    BY <1>7, <1>8 DEF Acknowledges

LEMMA AnsweredThins ==
    ASSUME NEW w, Good(w), Sound(w), NEW x \in DOMAIN w.calls
    PROVE  /\ Thins(w, Answered(w, x)) /\ ButFor(w, Answered(w, x), x)
           /\ Answered(w, x).calls[x].peer = w.calls[x].peer
           /\ Answered(w, x).calls[x].state = "N10" /\ "T310" \notin Answered(w, x).calls[x].timers
  <1> DEFINE v == Answered(w, x)
  <1>1. Good(v)
    BY AnsweredIs DEF Sheds
  <1>2. ButFor(w, v, x) /\ v.tab = w.tab
    BY DEF ButFor, Good, Answered
  <1>3. /\ v.calls[x].state = "N10" /\ "T310" \notin v.calls[x].timers /\ v.calls[x].path = w.calls[x].path
        /\ SamePlace(w.calls[x], v.calls[x])
    BY DEF Good, LegsTyped, IsLeg, Answered, SamePlace
  <1> HIDE DEF v
  <1>4. CalledAt(v, x)
    BY <1>3 DEF CalledAt
  <1>5. Thins(w, v)
    BY <1>1, <1>2, <1>3, <1>4, Retold
  <1>6. QED
    BY <1>2, <1>3, <1>5 DEF v, SamePlace

LEMMA PeerAnswered ==
    ASSUME NEW w, Good(w), Sound(w), Together(w), NEW x \in DOMAIN w.calls, HasPeer(w, x),
           w.calls[x].state \in {"N6", "N9"}, NEW w1, w1 = Answered(w, x),
           NEW y, y = w.calls[x].peer, NEW w2, ButFor(w1, w2, y), w2.tab = w1.tab,
           IsLeg(w2.calls[y]), SamePlace(w1.calls[y], w2.calls[y]), w2.calls[y].path = w1.calls[y].path,
           w2.calls[y].state = "N10", w2.calls[y].timers \subseteq w1.calls[y].timers
    PROVE  Sound(CreateDataPvcs(w2, x))
  <1>1. /\ Thins(w, w1) /\ ButFor(w, w1, x)
        /\ w1.calls[x].peer = y /\ w1.calls[x].state = "N10" /\ "T310" \notin w1.calls[x].timers
    BY AnsweredThins
  <1>2. y \in DOMAIN w.calls /\ y # x /\ w.calls[y].peer = x
    BY DEF HasPeer, Good, LegsTyped, Together, TogetherAt
  <1>3. x[3] = 0 /\ y[3] # x[3]
    BY <1>2, NoPeerIsNoLeg DEF Sound, CalledAt, EndsAt, Good, LegsTyped
  <1>4. Good(w1) /\ Sound(w1) /\ y \in DOMAIN w1.calls /\ w1.calls[y] = w.calls[y] /\ DOMAIN w1.calls = DOMAIN w.calls
    BY <1>1, <1>2 DEF Thins, ButFor
  <1>5. Good(w2)
    BY <1>4, Edit DEF Sheds, SamePlace
  <1>6. y[1] \in Nni => "T310" \notin w2.calls[y].timers
    <2>1. CalledAt(w1, y)
      BY <1>4 DEF Sound
    <2> QED  BY <1>3, <2>1 DEF CalledAt
  <1>7. CalledAt(w2, y)
    BY <1>6 DEF CalledAt
  <1>8. Thins(w1, w2)
    BY <1>4, <1>5, <1>7, Retold
  <1>9. /\ x \in DOMAIN w2.calls /\ y \in DOMAIN w2.calls /\ w2.calls[x] = w1.calls[x] /\ w2.calls[y].peer = x
    BY <1>2, <1>4 DEF ButFor, SamePlace
  <1>10. Good(w2) /\ Sound(w2)
    BY <1>8 DEF Thins
  <1>11. /\ w2.calls[x].peer = y /\ w2.calls[y].peer = x
         /\ w2.calls[x].state = "N10" /\ w2.calls[y].state = "N10"
         /\ \A z \in {x, y} : z[1] \in Nni => "T310" \notin w2.calls[z].timers
    BY <1>1, <1>6, <1>9
  <1>12. QED
    BY <1>3, <1>9, <1>10, <1>11, PairOpens

LEMMA UniConnectSound ==
    ASSUME NEW w, Good(w), Sound(w), Together(w), NEW x \in DOMAIN w.calls, NEW q
    PROVE  Sound(UniConnect(w, x, q))
  <1> DEFINE y == w.calls[x].peer
             s == w.calls[x].state
             w1 == Answered(w, x)
             w2 == [w1 EXCEPT !.calls[y].state = "N10", !.calls[y].timers = @ \ {"T310"}]
  <1>1. \/ UniConnect(w, x, q) = w
        \/ UniConnect(w, x, q) = ClearBeforeActive(w, x)
        \/ UniConnect(w, x, q) = ClearBoth(w, x)
        \/ UniConnect(w, x, q) = w1
        \/ s \in {"N6", "N9"} /\ HasPeer(w, x) /\ UniConnect(w, x, q) = CreateDataPvcs(w2, x)
    BY Zenon DEF UniConnect
  <1>2. ASSUME HasPeer(w, x), s \in {"N6", "N9"} PROVE Sound(CreateDataPvcs(w2, x))
    <2>1. Good(w1) /\ y \in DOMAIN w1.calls
      BY <1>2, AnsweredThins DEF Thins, ButFor, HasPeer
    <2>2. ASSUME NEW u, u = w1
          PROVE  LET u2 == [u EXCEPT !.calls[y].state = "N10", !.calls[y].timers = @ \ {"T310"}]
                 IN /\ ButFor(u, u2, y) /\ u2.tab = u.tab /\ IsLeg(u2.calls[y]) /\ SamePlace(u.calls[y], u2.calls[y])
                    /\ u2.calls[y].path = u.calls[y].path
                    /\ u2.calls[y].state = "N10" /\ u2.calls[y].timers \subseteq u.calls[y].timers
      <3>1. Good(u) /\ y \in DOMAIN u.calls
        BY <2>1, <2>2
      <3> HIDE DEF w1, y
      <3> QED  BY <3>1 DEF ButFor, Good, LegsTyped, IsLeg, LegStates, SamePlace
    <2> HIDE DEF y
    <2>3. /\ ButFor(w1, w2, y) /\ w2.tab = w1.tab /\ IsLeg(w2.calls[y]) /\ SamePlace(w1.calls[y], w2.calls[y])
          /\ w2.calls[y].path = w1.calls[y].path
          /\ w2.calls[y].state = "N10" /\ w2.calls[y].timers \subseteq w1.calls[y].timers
      BY <2>2
    <2> HIDE DEF w2
    <2> QED  BY <1>2, <2>3, PeerAnswered DEF y
  <1> HIDE DEF w2
  <1>3. QED
    BY <1>1, <1>2, AnsweredThins, ClearThins, BothClearedThins DEF Thins

LEMMA NniConnectSound ==
    ASSUME NEW w, Good(w), Sound(w), Together(w), NEW x \in DOMAIN w.calls, NEW q
    PROVE  Sound(NniConnect(w, x, q))
  <1> DEFINE y == w.calls[x].peer
             s == w.calls[x].state
             w1 == Answered(w, x)
             w2 == [w1 EXCEPT !.calls[y].state = "N10"]
  <1>1. \/ NniConnect(w, x, q) = w
        \/ NniConnect(w, x, q) = NniClear(w, x)
        \/ y = NoPeer /\ NniConnect(w, x, q) = SpvcConnected(w1, x, q)
        \/ NniConnect(w, x, q) = w1
        \/ s \in {"N6", "N9"} /\ HasPeer(w, x) /\ NniConnect(w, x, q) = CreateDataPvcs(w2, x)
    BY Zenon DEF NniConnect
  <1>2. ASSUME HasPeer(w, x), s \in {"N6", "N9"} PROVE Sound(CreateDataPvcs(w2, x))
    <2>1. Good(w1) /\ y \in DOMAIN w1.calls
      BY <1>2, AnsweredThins DEF Thins, ButFor, HasPeer
    <2>2. ASSUME NEW u, u = w1
          PROVE  LET u2 == [u EXCEPT !.calls[y].state = "N10"]
                 IN /\ ButFor(u, u2, y) /\ u2.tab = u.tab /\ IsLeg(u2.calls[y]) /\ SamePlace(u.calls[y], u2.calls[y])
                    /\ u2.calls[y].path = u.calls[y].path
                    /\ u2.calls[y].state = "N10" /\ u2.calls[y].timers \subseteq u.calls[y].timers
      <3>1. Good(u) /\ y \in DOMAIN u.calls
        BY <2>1, <2>2
      <3> HIDE DEF w1, y
      <3> QED  BY <3>1 DEF ButFor, Good, LegsTyped, IsLeg, LegStates, SamePlace
    <2> HIDE DEF y
    <2>3. /\ ButFor(w1, w2, y) /\ w2.tab = w1.tab /\ IsLeg(w2.calls[y]) /\ SamePlace(w1.calls[y], w2.calls[y])
          /\ w2.calls[y].path = w1.calls[y].path
          /\ w2.calls[y].state = "N10" /\ w2.calls[y].timers \subseteq w1.calls[y].timers
      BY <2>2
    <2> HIDE DEF w2
    <2> QED  BY <1>2, <2>3, PeerAnswered DEF y
  <1> HIDE DEF w2
  <1>3. y = NoPeer => Sound(SpvcConnected(w1, x, q))
    <2>1. Good(w1) /\ Sound(w1) /\ x \in DOMAIN w1.calls /\ w1.calls[x].peer = y
      BY AnsweredThins DEF Thins, ButFor
    <2> HIDE DEF w1, y
    <2> QED  BY <2>1, SpvcConnectedSound
  <1>4. QED
    BY <1>1, <1>2, <1>3, AnsweredThins, ClearThins DEF Thins

-----------------------------------------------------------------------------
(***************************************************************************)
(* New legs.  The point one is given is shared, or else no other leg is    *)
(* there and no access PVC; and nothing has the leg for a peer yet.        *)
(***************************************************************************)
LEMMA LegPlaced ==
    ASSUME NEW w, Good(w), Sound(w), NEW x, Unknown(w, {x}), NEW v, Good(v), v.tab = w.tab, v.shared = w.shared,
           DOMAIN v.calls = DOMAIN w.calls \cup {x}, \A z \in DOMAIN w.calls : z # x => v.calls[z] = w.calls[z],
           v.calls[x].peer = NoPeer, ~v.calls[x].path, EndsAt(v, x), CalledAt(v, x),
           v.calls[x].in # 0 /\ NearEnd(v, x) \notin v.shared =>
               \A z \in DOMAIN w.calls : z # x => NearEnd(w, z) # NearEnd(v, x)
    PROVE  Sound(v)
  <1>1. \A z \in DOMAIN w.calls : z # x => NearEnd(v, z) = NearEnd(w, z) /\ FarEnd(v, z) = FarEnd(w, z)
    BY DEF NearEnd, FarEnd
  <1>2. ASSUME NEW y \in DOMAIN v.calls, NEW z \in DOMAIN v.calls,
               v.calls[y].in # 0, NearEnd(v, y) \notin v.shared, NearEnd(v, y) = NearEnd(v, z)
        PROVE  y = z
    <2>1. v.calls[z].in # 0
      BY <1>2 DEF NearEnd
    <2>2. CASE y = x \/ z = x
      BY <1>1, <1>2, <2>1, <2>2
    <2>3. CASE y # x /\ z # x
      BY <1>1, <1>2, <2>3 DEF Sound, Alone
    <2> QED  BY <2>2, <2>3
  <1>3. Tabled(v) /\ Alone(v)
    BY <1>2 DEF Sound, Tabled, Alone
  <1>4. ASSUME NEW z \in DOMAIN w.calls, z # x PROVE PathAt(v, z) /\ EndsAt(v, z) /\ CalledAt(v, z)
    <2> DEFINE y == w.calls[z].peer
    <2>1. PathAt(w, z) /\ EndsAt(w, z) /\ CalledAt(w, z) /\ v.calls[z] = w.calls[z] /\ y # x
      BY <1>4 DEF Sound, Unknown
    <2>2. y \in DOMAIN v.calls => y \in DOMAIN w.calls /\ v.calls[y] = w.calls[y] /\ NearEnd(v, y) = NearEnd(w, y)
      BY <1>1, <2>1
    <2>3. y \in DOMAIN w.calls => y \in DOMAIN v.calls
      OBVIOUS
    <2>4. NearEnd(v, z) = NearEnd(w, z) /\ FarEnd(v, z) = FarEnd(w, z)
      BY <1>1, <1>4
    <2>5. CalledAt(v, z)
      BY <2>1 DEF CalledAt
    <2>6. PathAt(v, z)
      BY <2>1, <2>2, <2>3, <2>4 DEF PathAt
    <2>7. EndsAt(v, z)
      BY <2>1, <2>2, <2>4 DEF EndsAt
    <2> QED  BY <2>5, <2>6, <2>7
  <1>5. PathAt(v, x)
    BY DEF PathAt
  <1>6. QED
    BY <1>3, <1>4, <1>5 DEF Sound

LEMMA FreshDlci ==
    ASSUME NEW w, Good(w), NEW q \in Ports, NEW dlci, dlci = DlciAlloc(w.pool[q]).dlci, dlci # 0, <<q, dlci>> \notin w.shared
    PROVE  \A z \in DOMAIN w.calls : NearEnd(w, z) # <<q, dlci>>
  <1>1. /\ w.pool[q] \in Seq(Interval) /\ WellFormedPool(w.pool[q]) /\ FreeDlcis(w.pool[q]) \subseteq OwnRange
        /\ \A z \in LegsAt(w, q) : w.calls[z].in \in Proper(w, q) => w.calls[z].in \notin FreeDlcis(w.pool[q])
    BY Zenon DEF Good, Accounted
  <1>2. dlci \in FreeDlcis(w.pool[q])
    BY <1>1, AllocWorks
  <1>3. dlci \in Proper(w, q)
    BY <1>1, <1>2 DEF Proper
  <1>4. QED
    BY <1>1, <1>2, <1>3 DEF NearEnd, LegsAt

\* What a neighbour proposes is shared from then on, if another leg has it.
LEMMA ClaimSound ==
    ASSUME NEW w, Good(w), Sound(w), NEW p, NEW dlci
    PROVE  LET v == Claim(w, <<p, dlci>>)
           IN /\ Sound(v) /\ v.tab = w.tab
              /\ dlci # 0 /\ <<p, dlci>> \notin v.shared => \A z \in DOMAIN w.calls : NearEnd(w, z) # <<p, dlci>>
  <1> DEFINE at == <<p, dlci>>
             u == [w EXCEPT !.shared = @ \cup {at}]
             v == Claim(w, at)
             taken == \E y \in LegsAt(w, p) : w.calls[y].in = dlci
  <1>1. v = u \/ (v = w /\ ~(dlci # 0 /\ taken))
    BY DEF Claim
  <1>2. u.calls = w.calls /\ u.tab = w.tab /\ u.shared = w.shared \cup {at}
    BY DEF Good
  <1> HIDE DEF u
  <1>3. \A z : NearEnd(u, z) = NearEnd(w, z) /\ FarEnd(u, z) = FarEnd(w, z)
    BY <1>2 DEF NearEnd, FarEnd
  <1>4. Tabled(u) /\ Alone(u) /\ AccessPoints \subseteq u.shared
    BY <1>2, <1>3 DEF Sound, Tabled, Alone
  <1>5. ASSUME NEW x \in DOMAIN u.calls PROVE PathAt(u, x) /\ EndsAt(u, x) /\ CalledAt(u, x)
    <2>1. PathAt(w, x) /\ EndsAt(w, x) /\ CalledAt(w, x)
      BY <1>2 DEF Sound
    <2> QED  BY <1>2, <1>3, <2>1 DEF PathAt, EndsAt, CalledAt
  <1>6. Sound(u)
    BY <1>4, <1>5 DEF Sound
  <1>7. taken \/ \A z \in DOMAIN w.calls : NearEnd(w, z) # at
    BY DEF LegsAt, NearEnd
  <1>8. at \in u.shared
    BY <1>2
  <1> HIDE DEF taken, v
  <1>9. QED
    BY <1>1, <1>2, <1>6, <1>7, <1>8 DEF v

\* The leg of a call that has just come in.
Fresh(w, x) ==
    /\ Good(w) /\ Sound(w) /\ Unknown(w, {x})
    /\ x \in DOMAIN w.calls
    /\ w.calls[x].peer = NoPeer /\ w.calls[x].out = 0 /\ ~w.calls[x].path
    /\ w.calls[x].state \in {"N0", "N1"} /\ w.calls[x].timers = {}

LEMMA LegBegun ==
    ASSUME NEW w, Good(w), Sound(w), NEW x \in LegIds, x \notin DOMAIN w.calls, HasRoom(w, x[1]), Unknown(w, {x}),
           NEW state \in {"N0", "N1"}, NEW dlci
    PROVE  LET u == SetLeg(Claim(w, <<x[1], dlci>>), x, NewLeg(state, dlci))
           IN Fresh(u, x) /\ u.calls[x].in = dlci /\ u.calls[x].state = state /\ u.pool = w.pool
  <1> DEFINE w0 == Claim(w, <<x[1], dlci>>)
             leg == NewLeg(state, dlci)
             u == SetLeg(w0, x, leg)
             c == [y \in DOMAIN w0.calls \cup {x} |-> IF y = x THEN leg ELSE w0.calls[y]]
  <1>0. /\ Good(w0) /\ Sound(w0) /\ w0.calls = w.calls /\ w0.pool = w.pool /\ dlci \notin Proper(w0, x[1])
        /\ dlci # 0 /\ <<x[1], dlci>> \notin w0.shared => \A z \in DOMAIN w.calls : NearEnd(w, z) # <<x[1], dlci>>
    BY Claimed, ClaimSound
  <1>1. IsLeg(leg) /\ leg.peer = NoPeer /\ leg.in = dlci /\ leg.state = state /\ leg.peer # x
    BY NewLegTyped, NoPeerIsNoLeg DEF LegStates, NewLeg
  <1>2. leg.out = 0 /\ ~leg.path /\ leg.timers = {}
    BY DEF NewLeg
  <1> HIDE DEF leg, w0
  <1>a. \A z \in DOMAIN w.calls : NearEnd(w0, z) = NearEnd(w, z)
    BY <1>0 DEF NearEnd
  <1>3. u = [w0 EXCEPT !.calls = c]
    BY DEF SetLeg
  <1>4. u.calls = c /\ u.tab = w0.tab /\ u.pool = w0.pool /\ u.shared = w0.shared
    <2> HIDE DEF u, c
    <2> QED  BY <1>0, <1>3 DEF Good
  <1>5. Good(u)
    <2>1. x \notin DOMAIN w0.calls /\ HasRoom(w0, x[1])
      BY <1>0 DEF HasRoom, LegsAt
    <2> QED  BY <1>0, <1>1, <2>1, Adds
  <1>b. Unknown(w0, {x})
    BY <1>0 DEF Unknown
  <1> HIDE DEF u
  <1>6. /\ DOMAIN u.calls = DOMAIN w0.calls \cup {x} /\ u.calls[x] = leg
        /\ \A z \in DOMAIN w0.calls : z # x => u.calls[z] = w0.calls[z]
    BY <1>4
  <1>7. NearEnd(u, x) = <<x[1], dlci>>
    BY <1>1, <1>6 DEF NearEnd
  <1>8. EndsAt(u, x) /\ CalledAt(u, x)
    <2>1. NoPeer \notin DOMAIN u.calls
      BY <1>5, NoPeerIsNoLeg DEF Good, LegsTyped
    <2> QED  BY <1>1, <1>2, <1>6, <1>7, <2>1 DEF EndsAt, CalledAt
  <1> HIDE DEF c
  <1>c. u.calls[x].in # 0 /\ NearEnd(u, x) \notin u.shared => \A z \in DOMAIN w0.calls : z # x => NearEnd(w0, z) # NearEnd(u, x)
    BY <1>0, <1>1, <1>4, <1>6, <1>7, <1>a
  <1>9. Sound(u)
    BY <1>0, <1>1, <1>2, <1>4, <1>5, <1>6, <1>8, <1>b, <1>c, LegPlaced
  <1>10. Unknown(u, {x})
    BY <1>1, <1>6, <1>b DEF Unknown
  <1>11. QED
    BY <1>0, <1>1, <1>2, <1>4, <1>5, <1>6, <1>9, <1>10 DEF Fresh, u, leg, w0

LEMMA DlciBegun ==
    ASSUME NEW w, NEW x, Fresh(w, x), w.calls[x].in = 0
    PROVE  LET got == DlciAlloc(w.pool[x[1]])
           IN Fresh([w EXCEPT !.pool[x[1]] = got.pool, !.calls[x].in = got.dlci], x)
  <1> DEFINE got == DlciAlloc(w.pool[x[1]])
             v == [w EXCEPT !.pool[x[1]] = got.pool, !.calls[x].in = got.dlci]
  <1>1. Good(w) /\ Sound(w) /\ Unknown(w, {x}) /\ x \in DOMAIN w.calls /\ IsLeg(w.calls[x]) /\ x[1] \in Ports
    BY DEF Fresh, Good, LegsTyped, LegIds
  <1>2. Good(v) /\ DOMAIN v.calls = DOMAIN w.calls
    <2>1. w.calls[x].in \notin OwnRange
      BY DlciPoolAssumption DEF OwnRange
    <2>2. Good(w) /\ x \in DOMAIN w.calls /\ got = DlciAlloc(w.pool[x[1]])
      BY <1>1
    <2>3. Allotted(w, v, x, got)
      BY DEF Allotted
    <2> HIDE DEF got, v
    <2> QED  BY <2>1, <2>2, <2>3, GetsDlci
  <1>3. v.tab = w.tab /\ v.shared = w.shared /\ \A z \in DOMAIN w.calls : z # x => v.calls[z] = w.calls[z]
    BY <1>1 DEF Good
  <1>4. /\ v.calls[x].peer = NoPeer /\ v.calls[x].out = 0 /\ ~v.calls[x].path
        /\ v.calls[x].state = w.calls[x].state /\ v.calls[x].timers = {} /\ v.calls[x].in = got.dlci
    BY <1>1 DEF Good, IsLeg, Fresh
  <1> HIDE DEF v
  <1>5. NearEnd(v, x) = <<x[1], got.dlci>>
    BY <1>4 DEF NearEnd
  <1>6. got.dlci # 0 /\ NearEnd(v, x) \notin w.shared => \A z \in DOMAIN w.calls : NearEnd(w, z) # NearEnd(v, x)
    <2> DEFINE new == got.dlci
    <2>1. new = DlciAlloc(w.pool[x[1]]).dlci /\ NearEnd(v, x) = <<x[1], new>>
      BY <1>5
    <2> HIDE DEF new
    <2>2. new # 0 /\ NearEnd(v, x) \notin w.shared => \A z \in DOMAIN w.calls : NearEnd(w, z) # NearEnd(v, x)
      BY <1>1, <2>1, FreshDlci
    <2> QED  BY <2>2 DEF new
  <1>7. EndsAt(v, x) /\ CalledAt(v, x)
    <2>1. NoPeer \notin DOMAIN v.calls
      BY <1>2, NoPeerIsNoLeg DEF Good, LegsTyped
    <2>2. v.calls[x].state \in {"N0", "N1"}
      BY <1>4 DEF Fresh
    <2> QED  BY <1>4, <2>1, <2>2 DEF EndsAt, CalledAt
  <1>8. Sound(v)
    BY <1>1, <1>2, <1>3, <1>4, <1>6, <1>7, LegPlaced
  <1>9. Unknown(v, {x})
    BY <1>1, <1>2, <1>3, <1>4 DEF Unknown, Fresh
  <1>10. Fresh(v, x)
    BY <1>1, <1>2, <1>4, <1>8, <1>9 DEF Fresh
  <1>11. QED
    BY <1>10 DEF v

LEMMA LegsJoined ==
    ASSUME NEW w, Good(w), Sound(w), NEW x \in DOMAIN w.calls, Unknown(w, {x}),
           NEW y \in LegIds, y \notin DOMAIN w.calls, Unknown(w, {y}), y[3] = 0, x[3] = 1,
           NEW v, Good(v), v.tab = w.tab, v.shared = w.shared, DOMAIN v.calls = DOMAIN w.calls \cup {y},
           \A z \in DOMAIN w.calls : z # x => v.calls[z] = w.calls[z],
           v.calls[x].peer = y, ~v.calls[x].path, v.calls[x].in = w.calls[x].in, CalledAt(v, x),
           v.calls[y].peer = x, ~v.calls[y].path, FarEnd(v, y) = NearEnd(v, x), CalledAt(v, y),
           v.calls[y].in # 0 /\ NearEnd(v, y) \notin v.shared =>
               \A z \in DOMAIN w.calls : NearEnd(w, z) # NearEnd(v, y)
    PROVE  Sound(v)
  <1>1. \A z \in DOMAIN w.calls : /\ v.calls[z].in = w.calls[z].in /\ NearEnd(v, z) = NearEnd(w, z)
                                  /\ z # x => FarEnd(v, z) = FarEnd(w, z)
    BY DEF NearEnd, FarEnd
  <1>2. ASSUME NEW r \in DOMAIN v.calls, NEW z \in DOMAIN v.calls,
               v.calls[r].in # 0, NearEnd(v, r) \notin v.shared, NearEnd(v, r) = NearEnd(v, z)
        PROVE  r = z
    <2>1. v.calls[z].in # 0
      BY <1>2 DEF NearEnd
    <2>2. CASE r = y \/ z = y
      BY <1>1, <1>2, <2>1, <2>2
    <2>3. CASE r # y /\ z # y
      BY <1>1, <1>2, <2>3 DEF Sound, Alone
    <2> QED  BY <2>2, <2>3
  <1>3. Tabled(v) /\ Alone(v)
    BY <1>2 DEF Sound, Tabled, Alone
  <1>4. ASSUME NEW z \in DOMAIN w.calls, z # x PROVE PathAt(v, z) /\ EndsAt(v, z) /\ CalledAt(v, z)
    <2> DEFINE r == w.calls[z].peer
    <2>1. PathAt(w, z) /\ EndsAt(w, z) /\ CalledAt(w, z) /\ v.calls[z] = w.calls[z] /\ r # x /\ r # y
      BY <1>4 DEF Sound, Unknown
    <2>2. r \in DOMAIN v.calls => r \in DOMAIN w.calls /\ v.calls[r] = w.calls[r] /\ NearEnd(v, r) = NearEnd(w, r)
      BY <1>1, <2>1
    <2>3. r \in DOMAIN w.calls => r \in DOMAIN v.calls
      OBVIOUS
    <2>4. NearEnd(v, z) = NearEnd(w, z) /\ FarEnd(v, z) = FarEnd(w, z)
      BY <1>1, <1>4
    <2>5. CalledAt(v, z)
      BY <2>1 DEF CalledAt
    <2>6. PathAt(v, z)
      BY <2>1, <2>2, <2>3, <2>4 DEF PathAt
    <2>7. EndsAt(v, z)
      BY <2>1, <2>2, <2>4 DEF EndsAt
    <2> QED  BY <2>5, <2>6, <2>7
  <1>5. x \in LegIds /\ NoPeer \notin LegIds
    BY NoPeerIsNoLeg DEF Good, LegsTyped
  <1>6. EndsAt(v, x)
    <2>1. EndsAt(w, x)
      BY DEF Sound
    <2> QED  BY <1>1, <1>5, <2>1 DEF EndsAt
  <1>7. EndsAt(v, y)
    BY <1>5 DEF EndsAt
  <1>8. PathAt(v, x) /\ PathAt(v, y)
    BY DEF PathAt
  <1>9. QED
    BY <1>3, <1>4, <1>6, <1>7, <1>8 DEF Sound

LEMMA LegSet ==
    ASSUME NEW u, {"calls", "tab", "shared"} \subseteq DOMAIN u, NEW y, NEW leg
    PROVE  /\ DOMAIN SetLeg(u, y, leg).calls = DOMAIN u.calls \cup {y} /\ SetLeg(u, y, leg).calls[y] = leg
           /\ \A z \in DOMAIN u.calls : z # y => SetLeg(u, y, leg).calls[z] = u.calls[z]
           /\ SetLeg(u, y, leg).tab = u.tab /\ SetLeg(u, y, leg).shared = u.shared
  <1> DEFINE c == [z \in DOMAIN u.calls \cup {y} |-> IF z = y THEN leg ELSE u.calls[z]]
  <1>1. SetLeg(u, y, leg) = [u EXCEPT !.calls = c]
    BY DEF SetLeg
  <1>2. DOMAIN c = DOMAIN u.calls \cup {y} /\ c[y] = leg /\ \A z \in DOMAIN u.calls : z # y => c[z] = u.calls[z]
    OBVIOUS
  <1> HIDE DEF c
  <1>3. SetLeg(u, y, leg).calls = c /\ SetLeg(u, y, leg).tab = u.tab /\ SetLeg(u, y, leg).shared = u.shared
    BY <1>1
  <1>4. QED
    BY <1>2, <1>3

LEMMA OfferSound ==
    ASSUME NEW w, NEW x, Fresh(w, x), x[3] = 1, x[1] \notin Nni, NEW q \in Ports, HasRoom(w, q)
    PROVE  Sound(Offer(w, x, q))
  <1> DEFINE y == <<q, NewCrv(w, q), 0>>
             dlci == w.calls[x].in
             got == DlciAlloc(w.pool[q])
             leg == [NewLeg("N6", got.dlci) EXCEPT !.peer = x, !.out = dlci, !.outPort = x[1],
                                               !.timers = IF q \in Nni \cup w.lapf THEN {"T303"} ELSE {}]
             l == [w.calls[x] EXCEPT !.state = "N3", !.timers = {"T310"}, !.peer = y, !.out = dlci, !.outPort = q]
             u == [w EXCEPT !.pool[q] = got.pool, !.calls[x] = l]
             v == Offer(w, x, q)
  <1>0. Good(w) /\ Sound(w) /\ Unknown(w, {x}) /\ x \in DOMAIN w.calls /\ ~w.calls[x].path
    BY DEF Fresh
  <1>1. v = SetLeg(u, y, leg)
    BY Zenon DEF Offer
  <1>2. Good(v) /\ IsLeg(w.calls[x])
    BY <1>0, Offered DEF Good, LegsTyped
  <1>3. /\ leg.peer = x /\ leg.state = "N6" /\ leg.timers \subseteq {"T303"} /\ leg.in = got.dlci
        /\ leg.out = dlci /\ leg.outPort = x[1] /\ ~leg.path
    BY DEF NewLeg
  <1>4. l.peer = y /\ l.state = "N3" /\ l.in = dlci /\ ~l.path
    <2> HIDE DEF y
    <2> QED  BY <1>0, <1>2 DEF IsLeg
  <1>u. /\ DOMAIN u.calls = DOMAIN w.calls /\ u.calls[x] = l /\ u.tab = w.tab
         /\ u.shared = w.shared /\ {"calls", "tab", "shared"} \subseteq DOMAIN u
         /\ \A z \in DOMAIN w.calls : z # x => u.calls[z] = w.calls[z]
    <2> HIDE DEF l, got
    <2> QED  BY <1>0 DEF Good
  <1> DEFINE new == got.dlci
  <1>5. new # 0 /\ <<q, new>> \notin w.shared => \A z \in DOMAIN w.calls : NearEnd(w, z) # <<q, new>>
    <2>1. new = DlciAlloc(w.pool[q]).dlci
      OBVIOUS
    <2> HIDE DEF new
    <2> QED  BY <1>0, <2>1, FreshDlci
  <1>6. y \in LegIds /\ y \notin DOMAIN w.calls /\ Unknown(w, {y}) /\ y[3] = 0 /\ y[1] = q
    BY <1>0, FreshCrv DEF Unknown
  <1>7. v = SetLeg(u, y, leg)
    BY <1>1
  <1>8. leg.in = new
    BY <1>3
  <1> HIDE DEF l, leg, u, new, v, y
  <1>9. /\ DOMAIN v.calls = DOMAIN w.calls \cup {y} /\ v.calls[x] = l /\ v.calls[y] = leg /\ v.tab = w.tab /\ v.shared = w.shared
        /\ \A z \in DOMAIN w.calls : z # x => v.calls[z] = w.calls[z]
    BY <1>0, <1>u, <1>6, <1>7, LegSet
  <1>10. NearEnd(v, x) = <<x[1], dlci>> /\ FarEnd(v, y) = <<x[1], dlci>> /\ NearEnd(v, y) = <<q, new>>
    BY <1>3, <1>4, <1>6, <1>8, <1>9 DEF NearEnd, FarEnd
  <1>11. CalledAt(v, x) /\ CalledAt(v, y)
    BY <1>3, <1>4, <1>6, <1>9 DEF CalledAt
  <1>12. v.calls[y].in # 0 /\ NearEnd(v, y) \notin v.shared => \A z \in DOMAIN w.calls : NearEnd(w, z) # NearEnd(v, y)
    BY <1>5, <1>8, <1>9, <1>10
  <1>13. /\ v.calls[x].peer = y /\ ~v.calls[x].path /\ v.calls[x].in = w.calls[x].in
         /\ v.calls[y].peer = x /\ ~v.calls[y].path /\ FarEnd(v, y) = NearEnd(v, x)
    BY <1>3, <1>4, <1>9, <1>10
  <1>14. Sound(v)
    BY <1>0, <1>2, <1>6, <1>9, <1>11, <1>12, <1>13, LegsJoined
  <1>15. QED
    BY <1>14 DEF v

LEMMA NniOfferSound ==
    ASSUME NEW w, NEW x, Fresh(w, x), x[3] = 1, NEW q \in Ports, HasRoom(w, q)
    PROVE  Sound(NniOffer(w, x, q))
  <1> DEFINE y == <<q, NewCrv(w, q), 0>>
             dlci == w.calls[x].in
             got == DlciAlloc(w.pool[q])
             leg == [NewLeg("N6", got.dlci) EXCEPT !.peer = x, !.out = w.calls[x].in, !.outPort = x[1], !.timers = {"T303"}]
             l == [w.calls[x] EXCEPT !.state = "N3", !.peer = y, !.out = got.dlci, !.outPort = q]
             u == [w EXCEPT !.pool[q] = got.pool, !.calls[x] = l]
             v == NniOffer(w, x, q)
  <1>0. /\ Good(w) /\ Sound(w) /\ Unknown(w, {x}) /\ x \in DOMAIN w.calls /\ ~w.calls[x].path
        /\ w.calls[x].timers = {}
    BY DEF Fresh
  <1>1. \/ v = NniClear(w, x)
        \/ v = SetLeg(u, y, leg)
    BY Zenon DEF NniOffer
  <1>2. Good(v) /\ IsLeg(w.calls[x])
    BY <1>0, NniOffered DEF Good, LegsTyped
  <1>3. /\ leg.peer = x /\ leg.state = "N6" /\ leg.timers = {"T303"} /\ leg.in = got.dlci
        /\ leg.out = dlci /\ leg.outPort = x[1] /\ ~leg.path
    BY DEF NewLeg
  <1>4. l.peer = y /\ l.state = "N3" /\ l.in = dlci /\ ~l.path /\ l.timers = {}
    <2> HIDE DEF y
    <2> QED  BY <1>0, <1>2 DEF IsLeg
  <1>u. /\ DOMAIN u.calls = DOMAIN w.calls /\ u.calls[x] = l /\ u.tab = w.tab
         /\ u.shared = w.shared /\ {"calls", "tab", "shared"} \subseteq DOMAIN u
         /\ \A z \in DOMAIN w.calls : z # x => u.calls[z] = w.calls[z]
    <2> HIDE DEF l, got
    <2> QED  BY <1>0 DEF Good
  <1> DEFINE new == got.dlci
  <1>5. new # 0 /\ <<q, new>> \notin w.shared => \A z \in DOMAIN w.calls : NearEnd(w, z) # <<q, new>>
    <2>1. new = DlciAlloc(w.pool[q]).dlci
      OBVIOUS
    <2> HIDE DEF new
    <2> QED  BY <1>0, <2>1, FreshDlci
  <1>6. y \in LegIds /\ y \notin DOMAIN w.calls /\ Unknown(w, {y}) /\ y[3] = 0 /\ y[1] = q
    BY <1>0, FreshCrv DEF Unknown
  <1>7. v = NniClear(w, x) \/ v = SetLeg(u, y, leg)
    BY <1>1
  <1>8. leg.in = new
    BY <1>3
  <1> HIDE DEF l, leg, u, new, v, y
  <1>9. CASE v = NniClear(w, x)
    BY <1>0, <1>9, ClearThins DEF Thins, v
  <1>10. CASE v = SetLeg(u, y, leg)
    <2>1. /\ DOMAIN v.calls = DOMAIN w.calls \cup {y} /\ v.calls[x] = l /\ v.calls[y] = leg /\ v.tab = w.tab /\ v.shared = w.shared
          /\ \A z \in DOMAIN w.calls : z # x => v.calls[z] = w.calls[z]
      BY <1>0, <1>u, <1>6, <1>10, LegSet
    <2>2. NearEnd(v, x) = <<x[1], dlci>> /\ FarEnd(v, y) = <<x[1], dlci>> /\ NearEnd(v, y) = <<q, new>>
      BY <1>3, <1>4, <1>6, <1>8, <2>1 DEF NearEnd, FarEnd
    <2>3. CalledAt(v, x) /\ CalledAt(v, y)
      BY <1>3, <1>4, <1>6, <2>1 DEF CalledAt
    <2>4. v.calls[y].in # 0 /\ NearEnd(v, y) \notin v.shared => \A z \in DOMAIN w.calls : NearEnd(w, z) # NearEnd(v, y)
      BY <1>5, <1>8, <2>1, <2>2
    <2>5. /\ v.calls[x].peer = y /\ ~v.calls[x].path /\ v.calls[x].in = w.calls[x].in
          /\ v.calls[y].peer = x /\ ~v.calls[y].path /\ FarEnd(v, y) = NearEnd(v, x)
      BY <1>3, <1>4, <2>1, <2>2
    <2>6. Sound(v)
      BY <1>0, <1>2, <1>6, <2>1, <2>3, <2>4, <2>5, LegsJoined
    <2> QED  BY <2>6 DEF v
  <1>11. QED
    BY <1>7, <1>9, <1>10

LEMMA UniSetupSound ==
    ASSUME NEW w, Good(w), Sound(w), NEW x \in LegIds, x[3] = 1, x[1] \notin Nni,
           x \notin DOMAIN w.calls => Unknown(w, {x}), NEW d, Len(d.subs) \in Nat, NEW m
    PROVE  Sound(UniSetup(w, d, x, m))
  <1> DEFINE w1 == SetLeg(Claim(w, <<x[1], m.dlci>>), x, NewLeg("N1", m.dlci))
             got == DlciAlloc(w.pool[x[1]])
             w0 == [w1 EXCEPT !.pool[x[1]] = got.pool, !.calls[x].in = got.dlci]
             w2 == IF m.dlci # 0 THEN w1 ELSE w0
             number == PrimaryNumber(d, m.called)
             q == RouteLookup(d, number, m.tns, {})
             i == SvcToPvc(w2, number)
  <1>1. CASE x \in DOMAIN w.calls \/ ~HasRoom(w, x[1])
    BY <1>1, Zenon DEF UniSetup
  <1>2. CASE x \notin DOMAIN w.calls /\ HasRoom(w, x[1])
    <2>1. \/ UniSetup(w, d, x, m) = ClearBeforeActive(w1, x)
          \/ UniSetup(w, d, x, m) = ClearBeforeActive(w2, x)
          \/ UniSetup(w, d, x, m) = PlaceCall(w2, d, x, m, number)
      BY <1>2, Zenon DEF UniSetup
    <2>3. Fresh(w1, x) /\ w1.calls[x].in = m.dlci /\ w1.pool = w.pool
      <3> DEFINE dlci == m.dlci
      <3>1. Unknown(w, {x}) /\ "N1" \in {"N0", "N1"} /\ x \notin DOMAIN w.calls /\ HasRoom(w, x[1])
        BY <1>2
      <3> HIDE DEF dlci
      <3>2. LET u == SetLeg(Claim(w, <<x[1], dlci>>), x, NewLeg("N1", dlci))
            IN Fresh(u, x) /\ u.calls[x].in = dlci /\ u.calls[x].state = "N1" /\ u.pool = w.pool
        BY <3>1, LegBegun
      <3> QED  BY <3>2 DEF dlci
    <2>4. \/ PlaceCall(w2, d, x, m, number) = VirtualSwitch(w2, x)
          \/ i # 0 /\ PlaceCall(w2, d, x, m, number) = AcceptSvcToPvc(w2, x, i)
          \/ PlaceCall(w2, d, x, m, number) = ClearBeforeActive(w2, x)
          \/ q # NoPort /\ HasRoom(w2, q) /\ PlaceCall(w2, d, x, m, number) = Offer(w2, x, q)
      BY Zenon DEF PlaceCall
    <2>5. q \in Ports \cup {NoPort} /\ (i # 0 => i \in DOMAIN Spvcs)
      BY Routed, SelectedSpvcs
    <2> HIDE DEF w1, q, number
    <2>6. Fresh(w2, x)
      <3>1. m.dlci = 0 => Fresh(w0, x)
        <4>1. \A pool : w1.pool = pool => w0 = [w1 EXCEPT !.pool[x[1]] = DlciAlloc(pool[x[1]]).pool,
                                                          !.calls[x].in = DlciAlloc(pool[x[1]]).dlci]
          BY <2>3
        <4> HIDE DEF w0, w1
        <4> QED  BY <2>3, <4>1, DlciBegun
      <3> HIDE DEF w0
      <3> QED  BY <2>3, <3>1
    <2> HIDE DEF w2, i
    <2>7. ASSUME NEW u, Fresh(u, x) PROVE Sound(ClearBeforeActive(u, x)) /\ Sound(VirtualSwitch(u, x))
      BY <2>7, ClearThins, SwitchSound DEF Fresh, Thins
    <2>8. i # 0 => Sound(AcceptSvcToPvc(w2, x, i))
      BY <2>5, <2>6, AcceptSound DEF Fresh
    <2> QED  BY <2>1, <2>3, <2>4, <2>5, <2>6, <2>7, <2>8, OfferSound
  <1>3. QED
    BY <1>1, <1>2

LEMMA NniSetupSound ==
    ASSUME NEW w, Good(w), Sound(w), NEW x \in LegIds, x[3] = 1,
           x \notin DOMAIN w.calls => Unknown(w, {x}), NEW d, Len(d.subs) \in Nat, NEW m
    PROVE  Sound(NniSetup(w, d, x, m))
  <1> DEFINE w1 == SetLeg(Claim(w, <<x[1], m.dlci>>), x, NewLeg("N0", m.dlci))
             i == CalledSpvc(m)
             q == RouteLookup(d, m.called, m.tns, m.tni \cup (IF Cardinality(m.tni) < MaxTnis THEN {OwnNet} ELSE {}))
  <1>1. CASE x \in DOMAIN w.calls \/ ~HasRoom(w, x[1])
    BY <1>1, Zenon DEF NniSetup
  <1>2. CASE x \notin DOMAIN w.calls /\ HasRoom(w, x[1])
    <2>1. \/ NniSetup(w, d, x, m) = NniClear(w1, x)
          \/ i # 0 /\ NniSetup(w, d, x, m) = IncomingSpvc(w1, x, i)
          \/ NniSetup(w, d, x, m) = NniPlaceCall(w1, d, x, m)
      BY <1>2, Zenon DEF NniSetup
    <2>2. IncomingSpvc(w1, x, i) = w1 \/ IncomingSpvc(w1, x, i) = Accept(w1, x, i)
      BY Zenon DEF IncomingSpvc
    <2>3. \/ NniPlaceCall(w1, d, x, m) = NniClear(w1, x)
          \/ q # NoPort /\ HasRoom(w1, q) /\ NniPlaceCall(w1, d, x, m) = NniOffer(w1, x, q)
      BY Zenon DEF NniPlaceCall
    <2>4. q \in Ports \cup {NoPort} /\ (i # 0 => i \in DOMAIN Spvcs)
      BY Routed, SelectedSpvcs
    <2>5. Fresh(w1, x)
      BY <1>2, LegBegun
    <2> HIDE DEF w1, i, q
    <2>6. Sound(w1) /\ Sound(NniClear(w1, x))
      BY <2>5, ClearThins DEF Fresh, Thins
    <2>7. i # 0 => Sound(Accept(w1, x, i))
      BY <2>4, <2>5, AcceptSound DEF Fresh
    <2> QED  BY <2>1, <2>2, <2>3, <2>4, <2>5, <2>6, <2>7, NniOfferSound
  <1>3. QED
    BY <1>1, <1>2

LEMMA DialSound ==
    ASSUME NEW w, Good(w), Sound(w), NEW d, Len(d.subs) \in Nat, NEW i \in DOMAIN Spvcs
    PROVE  Sound(Dial(w, d, i))
  <1> DEFINE q == RouteLookup(d, Spvcs[i].addr, NoNet, {})
             got == DlciAlloc(w.pool[q])
             new == got.dlci
             x == <<q, NewCrv(w, q), 0>>
             leg == [NewLeg("N1", new) EXCEPT !.out = Spvcs[i].dlci, !.outPort = Spvcs[i].port, !.timers = {"T303"}]
             w0 == [w EXCEPT !.pool[q] = got.pool]
             c == [z \in DOMAIN w0.calls \cup {x} |-> IF z = x THEN leg ELSE w0.calls[z]]
             w1 == [w0 EXCEPT !.calls = c]
             v == [w1 EXCEPT !.spvc[i] = [state |-> "setup", crv |-> x[2], port |-> x[1]]]
             retry == [w EXCEPT !.spvc[i].state = "retry"]
  <1>1. \/ Dial(w, d, i) = retry
        \/ q # NoPort /\ new # 0 /\ Dial(w, d, i) = SpvcTo(SetLeg(w0, x, leg), i, "setup", x)
    BY Zenon DEF Dial
  <1>2. Sound(retry)
    <2>1. Good(retry) /\ retry.calls = w.calls /\ retry.tab = w.tab /\ retry.shared = w.shared
      BY SpvcStateSet DEF Sheds, Good
    <2>2. Fewer(w.tab, retry.tab)
      BY <2>1 DEF Fewer
    <2> HIDE DEF retry
    <2> QED  BY <2>1, <2>2, SameLegs DEF Thins
  <1>3. SpvcTo(SetLeg(w0, x, leg), i, "setup", x) = v
    BY Zenon DEF SpvcTo, SetLeg
  <1>4. q \in Ports \cup {NoPort}
    BY Routed
  <1>5. Good(Dial(w, d, i))
    BY Dialled
  <1>6. leg.peer = NoPeer /\ leg.state = "N1" /\ leg.timers = {"T303"} /\ leg.in = new /\ ~leg.path
    BY DEF NewLeg
  <1>7. <<leg.outPort, leg.out>> = AccessPoint(i)
    BY DEF NewLeg, AccessPoint
  <1>8. new = DlciAlloc(w.pool[q]).dlci
    OBVIOUS
  <1> HIDE DEF q, retry, new
  <1>9. CASE q # NoPort /\ new # 0 /\ Dial(w, d, i) = v
    <2>1. x \notin DOMAIN w.calls /\ Unknown(w, {x}) /\ x[1] = q
      BY <1>4, <1>9, FreshCrv DEF Unknown
    <2>2. w0.calls = w.calls /\ DOMAIN w0 = DOMAIN w /\ w0.tab = w.tab /\ w0.shared = w.shared
      BY DEF Good
    <2>3. <<q, new>> \notin w.shared => \A z \in DOMAIN w.calls : NearEnd(w, z) # <<q, new>>
      BY <1>4, <1>8, <1>9, FreshDlci
    <2> HIDE DEF x, leg, w0
    <2>4. c[x] = leg /\ DOMAIN c = DOMAIN w.calls \cup {x} /\ \A z \in DOMAIN w.calls : c[z] = w.calls[z]
      BY <2>1, <2>2
    <2>5. v.calls = c /\ v.tab = w.tab /\ v.shared = w.shared
      <3> HIDE DEF c
      <3> QED  BY <2>2 DEF Good
    <2> HIDE DEF c, v
    <2>6. Good(v) /\ NoPeer \notin DOMAIN v.calls
      BY <1>5, <1>9, NoPeerIsNoLeg DEF Good, LegsTyped
    <2>7. NearEnd(v, x) = <<q, new>> /\ FarEnd(v, x) = AccessPoint(i)
      BY <1>6, <1>7, <2>1, <2>4, <2>5 DEF NearEnd, FarEnd
    <2>8. EndsAt(v, x)
      BY <1>6, <2>4, <2>5, <2>6, <2>7 DEF EndsAt, AccessPoints
    <2>9. CalledAt(v, x)
      BY <1>6, <2>4, <2>5 DEF CalledAt
    <2>10. Sound(v)
      BY <1>6, <2>1, <2>3, <2>4, <2>5, <2>6, <2>7, <2>8, <2>9, LegPlaced
    <2> QED  BY <1>9, <2>10
  <1>10. QED
    BY <1>1, <1>2, <1>3, <1>9

LEMMA PollSound ==
    ASSUME NEW w, Good(w), Sound(w), NEW d, Len(d.subs) \in Nat, NEW i \in DOMAIN Spvcs, NEW accessUp
    PROVE  Sound(PollSpvc(w, d, i, accessUp))
  <1> DEFINE x == <<w.spvc[i].port, w.spvc[i].crv, 0>>
             w1 == IF x \in DOMAIN w.calls THEN NniClear(w, x) ELSE w
             v == [w1 EXCEPT !.spvc[i].state = "idle"]
  <1>1. PollSpvc(w, d, i, accessUp) = w \/ PollSpvc(w, d, i, accessUp) = Dial(w, d, i) \/ PollSpvc(w, d, i, accessUp) = v
    BY Zenon DEF PollSpvc
  <1>2. Good(w1) /\ Sound(w1)
    <2> HIDE DEF x
    <2> QED  BY ClearThins DEF Thins
  <1> HIDE DEF w1
  <1>3. Good(v) /\ v.calls = w1.calls /\ v.tab = w1.tab /\ v.shared = w1.shared
    BY <1>2, SpvcStateSet DEF Sheds, Good
  <1>4. Fewer(w1.tab, v.tab)
    BY <1>3 DEF Fewer
  <1> HIDE DEF v
  <1>5. Sound(v)
    BY <1>2, <1>3, <1>4, SameLegs DEF Thins
  <1>6. QED
    BY <1>1, <1>5, DialSound

-----------------------------------------------------------------------------
(***************************************************************************)
(* The actions.                                                            *)
(***************************************************************************)
AccessStep(env, t, a) == AddPvc(t, a[1], a[2])

AccessLoop == INSTANCE FoldProofs WITH Step <- AccessStep

LEMMA AccessIsFold ==
    FoldLeft(LAMBDA t, a : AddPvc(t, a[1], a[2]), EmptyTable, Access) = AccessLoop!Fold(0, EmptyTable, Access)
  BY Zenon DEF AccessStep, FoldLeft, MapThenFoldSet, Max,
           AccessLoop!Fold, AccessLoop!FoldLeft, AccessLoop!MapThenFoldSet, AccessLoop!Max

LEMMA StartsSound == Init => Sound(sw)
  <1> SUFFICES ASSUME Init PROVE Sound(sw)
    OBVIOUS
  <1> DEFINE table == FoldLeft(LAMBDA t, a : AddPvc(t, a[1], a[2]), EmptyTable, Access)
             S == Range(Access)
             F(s) == AccessLoop!Fold(0, EmptyTable, s)
             T == {s \in Seq(S) : DOMAIN F(s) = {"lut", "pvcs"}}
  <1>1. sw.tab = table /\ DOMAIN sw.calls = {} /\ sw.shared = AccessPoints
    <2>1. PICK config \in Configs :
              sw = [calls   |-> <<>>,
                    pool    |-> [p \in Ports |-> AllocInit],
                    tab     |-> table,
                    spvc    |-> [i \in DOMAIN Spvcs |-> SpvcIdle],
                    restart |-> [p \in Ports |-> 0],
                    lapf    |-> config.lapf,
                    shared  |-> {AccessPoint(i) : i \in DOMAIN Spvcs}]
      BY Zenon DEF Init
    <2> HIDE DEF table
    <2> QED  BY <2>1 DEF AccessPoints
  <1>2. <<>> \in T
    <2>1. F(<<>>) = EmptyTable
      BY AccessLoop!FoldEmpty
    <2> HIDE DEF F
    <2> QED  BY <2>1 DEF EmptyTable
  <1>3. ASSUME NEW rest \in Seq(S), NEW a \in S, rest \in T PROVE Append(rest, a) \in T
    <2>1. F(Append(rest, a)) = AddPvc(F(rest), a[1], a[2])
      BY AccessLoop!FoldAppend DEF AccessStep
    <2>2. DOMAIN F(rest) = {"lut", "pvcs"} /\ Append(rest, a) \in Seq(S)
      BY <1>3
    <2> HIDE DEF F, S
    <2>3. DOMAIN AddPvc(F(rest), a[1], a[2]) = {"lut", "pvcs"}
      BY <2>2, PvcAdded DEF Differs
    <2> QED  BY <2>1, <2>2, <2>3
  <1>4. Seq(S) \subseteq T
    <2> HIDE DEF T, S
    <2> QED  BY <1>2, <1>3, AccessLoop!SequenceInduction
  <1>5. Access \in Seq(S)
    BY SpvcAssumption
  <1>6. DOMAIN F(Access) = {"lut", "pvcs"}
    BY <1>4, <1>5
  <1>7. table = F(Access)
    BY AccessIsFold
  <1> HIDE DEF table, F
  <1>8. QED
    BY <1>1, <1>6, <1>7 DEF Sound, Tabled, Alone

LEMMA AnswersSound ==
    IInv /\ Together(sw) /\ Sound(sw) /\ ~mishap' /\ (Setup \/ Establish \/ CallProceeding \/ Connect \/ ConnectAck)
        => Sound(sw')
  <1> SUFFICES ASSUME IInv, Together(sw), Sound(sw), ~mishap', Setup \/ Establish \/ CallProceeding \/ Connect \/ ConnectAck
               PROVE  Sound(sw')
    OBVIOUS
  <1>0. Good(sw) /\ Len(dir.subs) \in Nat
    BY DirTyped DEF IInv
  <1>1. UniLegs \subseteq DOMAIN sw.calls /\ NniLegs \subseteq DOMAIN sw.calls /\ \A x \in UniLegs : x[1] \notin Nni
    BY DEF UniLegs, NniLegs, Legs, LegsAt
  <1>2. CASE Setup
    <2>1. PICK m \in Setups, c \in NeighbourCrvs :
              /\ sw' = IF m.port \in Nni THEN NniSetup(sw, dir, <<m.port, c, 1>>, m) ELSE UniSetup(sw, dir, <<m.port, c, 1>>, m)
              /\ mishap' = (mishap \/ (<<m.port, c, 1>> \notin Legs(m.port)
                                        /\ \E y \in DOMAIN sw.calls : sw.calls[y].peer = <<m.port, c, 1>>))
      BY <1>2, Zenon DEF Setup, Arrives
    <2> DEFINE x == <<m.port, c, 1>>
    <2>2. x \in LegIds /\ x[1] = m.port /\ x[3] = 1
      BY SvcSwitchAssumption DEF LegIds
    <2>3. x \notin DOMAIN sw.calls => Unknown(sw, {x})
      BY <2>1 DEF Unknown, Legs, LegsAt
    <2>4. IF m.port \in Nni THEN sw' = NniSetup(sw, dir, x, m) ELSE sw' = UniSetup(sw, dir, x, m)
      BY <2>1
    <2> HIDE DEF x
    <2>5. CASE m.port \in Nni
      BY <1>0, <2>2, <2>3, <2>4, <2>5, NniSetupSound
    <2>6. CASE m.port \notin Nni
      BY <1>0, <2>2, <2>3, <2>4, <2>6, UniSetupSound
    <2> QED  BY <2>5, <2>6
  <1>a. CASE Establish
    <2>1. Good(sw') /\ sw'.calls = sw.calls /\ sw'.tab = sw.tab /\ sw'.shared = sw.shared
      BY <1>0, <1>a, EstablishGood DEF Establish, Arrives, Good
    <2>2. Fewer(sw.tab, sw'.tab)
      BY <2>1 DEF Fewer
    <2> QED  BY <1>0, <2>1, <2>2, SameLegs DEF Thins
  <1>3. CASE CallProceeding
    <2>1. \/ \E x \in UniLegs, q \in {"ok", "nodlci", "baddlci"} : sw' = UniCallProceeding(sw, x, q)
          \/ \E x \in NniLegs : sw' = NniCallProceeding(sw, x)
      BY <1>3, Zenon DEF CallProceeding, Arrives
    <2> QED  BY <1>0, <1>1, <2>1, ProceedThins DEF Thins
  <1>4. CASE Connect
    <2>1. \/ \E x \in UniLegs, q \in {"ok", "nodlci", "baddlci", "refused"} : sw' = UniConnect(sw, x, q)
          \/ \E x \in NniLegs, q \in {"ok", "wrong", "refused"} : sw' = NniConnect(sw, x, q)
      BY <1>4, Zenon DEF Connect, Arrives
    <2> QED  BY <1>0, <1>1, <2>1, UniConnectSound, NniConnectSound
  <1>5. CASE ConnectAck
    <2>1. PICK x \in UniLegs : sw' = UniConnectAck(sw, x) /\ mishap' = (mishap \/ ~Acknowledges(sw.calls[x]))
      BY <1>5, Zenon DEF ConnectAck, Arrives
    <2> QED  BY <1>0, <1>1, <2>1, AckSound
  <1>6. QED
    BY <1>2, <1>3, <1>4, <1>5, <1>a

LEMMA ClearingSound ==
    IInv /\ Sound(sw) /\ (Disconnect \/ Release \/ ReleaseComplete \/ Status) => Sound(sw')
  <1> SUFFICES ASSUME IInv, Sound(sw), Disconnect \/ Release \/ ReleaseComplete \/ Status PROVE Sound(sw')
    OBVIOUS
  <1>0. Good(sw)
    BY DEF IInv
  <1>1. UniLegs \subseteq DOMAIN sw.calls /\ NniLegs \subseteq DOMAIN sw.calls
    BY DEF UniLegs, NniLegs, Legs, LegsAt
  <1>2. CASE Disconnect
    <2>1. \E x \in UniLegs : sw' = UniDisconnect(sw, x)
      BY <1>2, Zenon DEF Disconnect, Arrives
    <2> QED  BY <1>0, <1>1, <2>1, UniDisconnectThins DEF Thins
  <1>3. CASE Release \/ ReleaseComplete
    <2>1. \/ \E x \in UniLegs : sw' = UniRelease(sw, x)
          \/ \E x \in NniLegs : sw' = NniRelease(sw, x) \/ sw' = NniReleaseComplete(sw, x)
      BY <1>3, Zenon DEF Release, ReleaseComplete, Arrives
    <2> QED  BY <1>0, <1>1, <2>1, UniReleaseThins, NniReleaseThins DEF Thins
  <1>4. CASE Status
    <2>1. \/ \E x \in UniLegs, s \in {"N0", "same", "other"} : sw' = UniStatus(sw, x, s)
          \/ \E x \in NniLegs, s \in {"N0", "other"} : sw' = NniStatus(sw, x, s)
      BY <1>4, Zenon DEF Status, Arrives
    <2>2. \A x, s : NniStatus(sw, x, s) = sw \/ NniStatus(sw, x, s) = NniDrop(sw, x)
      BY Zenon DEF NniStatus
    <2> QED  BY <1>0, <1>1, <2>1, <2>2, UniStatusThins, DropThins DEF Thins
  <1>5. QED
    BY <1>2, <1>3, <1>4

LEMMA RestartsSound ==
    IInv /\ Sound(sw) /\ (Restart \/ RestartAck \/ OperatorRestart) => Sound(sw')
  <1> SUFFICES ASSUME IInv, Sound(sw), Restart \/ RestartAck \/ OperatorRestart PROVE Sound(sw')
    OBVIOUS
  <1>1. Good(sw) /\ \A p : Legs(p) = LegsAt(sw, p)
    BY DEF Legs, IInv
  <1>2. CASE Restart
    <2>1. PICK p \in Ports : \E order \in SetToSeqs(LegsAt(sw, p)) :
              \/ sw' = UniRestart(sw, order)
              \/ sw' = NniRestart(sw, p, order)
              \/ \E x \in Legs(p) : sw' = NniRestartChannel(sw, p, sw.calls[x].in, order)
      BY <1>1, <1>2, Zenon DEF Restart, Arrives
    <2>2. PICK order \in SetToSeqs(LegsAt(sw, p)) :
              \/ sw' = UniRestart(sw, order)
              \/ sw' = NniRestart(sw, p, order)
              \/ \E x \in Legs(p) : sw' = NniRestartChannel(sw, p, sw.calls[x].in, order)
      BY <2>1
    <2>3. LegsAt(sw, p) \in SUBSET DOMAIN sw.calls /\ order \in Seq(LegsAt(sw, p)) /\ Once(order)
      BY <1>1, OrdersOf
    <2> QED  BY <1>1, <2>2, <2>3, UniRestartThins, NniRestartThins DEF Thins
  <1>3. CASE RestartAck
    <2>1. PICK p \in Ports : sw' = [sw EXCEPT !.restart[p] = 0]
      BY <1>3, Zenon DEF RestartAck, Arrives
    <2>2. 0 \in 0 .. 3
      OBVIOUS
    <2>3. Thins(sw, [sw EXCEPT !.restart[p] = 0])
      BY <1>1, <2>2, RestartingThins
    <2> QED  BY <2>1, <2>3 DEF Thins
  <1>4. CASE OperatorRestart
    <2>1. PICK p \in Nni : \E order \in SetToSeqs(LegsAt(sw, p)) : sw' = InitiateRestart(sw, p, order)
      BY <1>1, <1>4, Zenon DEF OperatorRestart, Arrives
    <2>2. PICK order \in SetToSeqs(LegsAt(sw, p)) : sw' = InitiateRestart(sw, p, order)
      BY <2>1
    <2>3. p \in Ports /\ order \in Seq(LegsAt(sw, p))
      BY <1>1, OrdersOf, SvcCallsAssumption
    <2> QED  BY <1>1, <2>2, <2>3, NniRestartThins DEF Thins
  <1>5. QED
    BY <1>2, <1>3, <1>4

LEMMA OthersSound ==
    IInv /\ Sound(sw) /\ (OperatorClear \/ TimerRunsOut \/ \E i \in DOMAIN Spvcs : Poll(i)) => Sound(sw')
  <1> SUFFICES ASSUME IInv, Sound(sw), OperatorClear \/ TimerRunsOut \/ \E i \in DOMAIN Spvcs : Poll(i)
               PROVE  Sound(sw')
    OBVIOUS
  <1>1. Good(sw) /\ Len(dir.subs) \in Nat /\ \A p : Legs(p) \subseteq DOMAIN sw.calls
    BY DirTyped DEF Legs, LegsAt, IInv
  <1>2. CASE OperatorClear
    <2>1. \E p \in Ports : \E x \in Legs(p) : sw' = Clear(sw, x)
      BY <1>2, Zenon DEF OperatorClear, Arrives
    <2>2. \E x \in DOMAIN sw.calls : sw' = Clear(sw, x)
      BY <1>1, <2>1
    <2> QED  BY <1>1, <2>2, ClearThins DEF Thins
  <1>3. CASE \E x \in DOMAIN sw.calls : Expire(x)
    <2>1. \E x \in DOMAIN sw.calls : \E t \in sw.calls[x].timers : sw' = Expired(sw, x, t)
      BY <1>3, Zenon DEF Expire
    <2> QED  BY <1>1, <2>1, ExpiredThins DEF Thins
  <1>4. CASE \E p \in Ports : ExpireRestart(p)
    <2>1. PICK p \in Ports : sw' = RestartExpired(sw, p)
      BY <1>4, Zenon DEF ExpireRestart
    <2> DEFINE n == IF sw.restart[p] < 3 THEN sw.restart[p] + 1 ELSE 0
    <2>2. sw' = [sw EXCEPT !.restart[p] = n]
      BY <1>1, <2>1 DEF RestartExpired, Good, PortsTyped
    <2>3. n \in 0 .. 3
      BY <1>1 DEF Good, PortsTyped
    <2> HIDE DEF n
    <2>4. Thins(sw, [sw EXCEPT !.restart[p] = n])
      BY <1>1, <2>3, RestartingThins
    <2> QED  BY <2>2, <2>4 DEF Thins
  <1>5. CASE \E i \in DOMAIN Spvcs : Poll(i)
    <2>1. \E i \in DOMAIN Spvcs : \E accessUp \in BOOLEAN : sw' = PollSpvc(sw, dir, i, accessUp)
      BY <1>5, Zenon DEF Poll, Arrives
    <2> QED  BY <1>1, <2>1, PollSound
  <1>6. QED
    BY <1>2, <1>3, <1>4, <1>5, Zenon DEF TimerRunsOut

PInv == SInv /\ (mishap \/ Sound(sw))

LEMMA StaysSound == Spec => []PInv
  <1>1. Init => mishap \/ Sound(sw)
    BY StartsSound
  <1>2. SInv /\ (mishap \/ Sound(sw)) /\ [Next]_vars => (mishap \/ Sound(sw))'
    <2> SUFFICES ASSUME SInv, mishap \/ Sound(sw), [Next]_vars, ~mishap' PROVE Sound(sw')
      OBVIOUS
    <2>1. IInv /\ Together(sw) /\ Sound(sw)
      BY MishapStays DEF SInv
    <2>2. CASE UNCHANGED vars
      BY <2>1, <2>2 DEF vars
    <2>3. CASE Next
      BY <2>1, <2>3, AnswersSound, ClearingSound, RestartsSound, OthersSound, Zenon DEF Next
    <2> QED  BY <2>2, <2>3
  <1>3. QED
    BY <1>1, <1>2, StaysAttended, PTL DEF Spec, PInv

\* svc_create_data_pvcs and svc_destroy_data_pvcs keep the tables and the two
\* legs in step: whatever is set up, refused, answered, cleared or restarted,
\* an entry an answered call still has leads to its own other leg, unless its
\* point is one that a neighbour took without asking or a soft PVC has for its
\* access (shared), or something has separated the legs of a call (mishap).
THEOREM PathsJoin == Spec => []PathJoinsTheCall
  <1>1. PInv => PathJoinsTheCall
    <2> SUFFICES ASSUME PInv, NEW x \in DOMAIN sw.calls, NEW y, y = Leg(x).peer, Leg(x).path, y # NoPeer, ~mishap
                 PROVE  /\ Paired(x) /\ Leg(y).path
                        /\ Leg(x).state = "N10" /\ Leg(y).state = "N10"
                        /\ HasEntry(sw.tab, NearEnd(sw, x)) /\ NearEnd(sw, x) \notin sw.shared =>
                               sw.tab.lut[NearEnd(sw, x)] = NearEnd(sw, y)
      BY Zenon DEF PathJoinsTheCall
    <2>1. Sound(sw)
      BY DEF PInv
    <2>2. PathAt(sw, x)
      BY <2>1 DEF Sound
    <2>3. y \in DOMAIN sw.calls /\ sw.calls[y].peer = x /\ sw.calls[y].path /\ sw.calls[x].state = "N10"
      BY <2>2 DEF PathAt, Leg
    <2>4. PathAt(sw, y)
      BY <2>1, <2>3 DEF Sound
    <2> QED  BY <2>2, <2>3, <2>4 DEF PathAt, Leg, Paired, HasPeer
  <1>2. QED
    BY <1>1, StaysSound, PTL
=============================================================================
