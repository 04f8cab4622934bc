----------------------------- MODULE DlciPool ------------------------------
(***************************************************************************)
(* The DLCI allocator of an SVC port: the free DLCIs of its range as a     *)
(* short sorted list of intervals.  A DLCI is taken from either end of the *)
(* list; one that is given back becomes an interval of its own, which is   *)
(* then joined with its neighbours.  The list has room for MaxFreeRanges   *)
(* intervals, and room is asked for before the join.                       *)
(***************************************************************************)
EXTENDS Naturals, Sequences, SequencesExt

CONSTANTS
    RangeLow, RangeHigh,  \* the range of every port
    MaxFreeRanges,        \* SVC_MAX_FREE_RANGES
    Descending            \* the direction DLCIs are taken in

ASSUME DlciPoolAssumption ==
    /\ RangeLow \in Nat \ {0} /\ RangeHigh \in Nat /\ RangeLow =< RangeHigh
    /\ MaxFreeRanges \in Nat \ {0}
    /\ Descending \in BOOLEAN

OwnRange == RangeLow .. RangeHigh

FreeDlcis(pool) == UNION {r.start .. r.end : r \in Range(pool)}

AllocInit == <<[start |-> RangeLow, end |-> RangeHigh]>>

\* Mutant: the interval is cut at its other end.
DlciAlloc_OtherEnd(pool) ==
    LET i == IF Descending THEN Len(pool) ELSE 1
        r == pool[i]
        rest == IF r.start = r.end THEN RemoveAt(pool, i)
                ELSE IF Descending THEN [pool EXCEPT ![i].start = @ + 1]
                ELSE [pool EXCEPT ![i].end = @ - 1]
    IN IF pool = <<>> THEN [dlci |-> 0, pool |-> pool]
       ELSE [dlci |-> IF Descending THEN r.end ELSE r.start, pool |-> rest]

\* The DLCI handed out, 0 when none is left, and the list without it.
DlciAlloc(pool) ==
    LET i == IF Descending THEN Len(pool) ELSE 1
        r == pool[i]
        rest == IF r.start = r.end THEN RemoveAt(pool, i)
                ELSE IF Descending THEN [pool EXCEPT ![i].end = @ - 1]
                ELSE [pool EXCEPT ![i].start = @ + 1]
    IN IF pool = <<>> THEN [dlci |-> 0, pool |-> pool]
       ELSE [dlci |-> IF Descending THEN r.end ELSE r.start, pool |-> rest]

\* Intervals that touch become one.
Joined(pool) ==
    FoldLeft(LAMBDA done, r :
                 IF done # <<>> /\ Last(done).end + 1 >= r.start
                 THEN Append(Front(done), [start |-> Last(done).start, end |-> IF r.end > Last(done).end THEN r.end ELSE Last(done).end])
                 ELSE Append(done, r),
             <<>>, pool)

\* Mutant: the DLCI is put at the end of the list.
DlciFree_Unsorted(pool, dlci) ==
    IF dlci \notin OwnRange \/ dlci \in FreeDlcis(pool) \/ Len(pool) >= MaxFreeRanges THEN pool
    ELSE Joined(Append(pool, [start |-> dlci, end |-> dlci]))

DlciFree(pool, dlci) ==
    LET i == SelectInSeq(pool, LAMBDA r : r.start >= dlci)
        at == [start |-> dlci, end |-> dlci]
    IN IF dlci \notin OwnRange \/ dlci \in FreeDlcis(pool) \/ Len(pool) >= MaxFreeRanges THEN pool
       ELSE Joined(IF i = 0 THEN Append(pool, at) ELSE InsertAt(pool, i, at))

\* What the list is meant to be: sorted, with a gap between two intervals.
WellFormedPool(pool) ==
    /\ \A i \in DOMAIN pool : pool[i].start =< pool[i].end
    /\ \A i \in 1 .. Len(pool) - 1 : pool[i].end + 1 < pool[i + 1].start
=============================================================================
