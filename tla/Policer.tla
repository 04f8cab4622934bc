------------------------------ MODULE Policer ------------------------------
(***************************************************************************)
(* Token buckets and the congestion state of a port:                       *)
(* src/src/congestion/cgst_mgnt.c.  The unit of traffic is the piece, the  *)
(* unit of time the second.                                                *)
(***************************************************************************)
EXTENDS Naturals

CONSTANTS
    MaxIdle,    \* a bucket is refilled for this long at most (10 s)
    AccessRate, \* what a bucket without CIR is refilled with
    CllmEvery   \* seconds between two CLLM messages (10 by default)

ASSUME PolicerAssumption == MaxIdle \in Nat \ {0} /\ AccessRate \in Nat /\ CllmEvery \in Nat \ {0}

\* cgst_dlci_tb_init; age is the time since last_update.
Bucket(q) ==
    IF q.cir > 0 THEN [cir |-> q.cir, bc |-> q.bc, be |-> q.be, tokens |-> q.bc + q.be, age |-> 0]
    ELSE [cir |-> AccessRate, bc |-> 0, be |-> q.be, tokens |-> q.be, age |-> 0]

\* vfrs_add_mcast_group sets up that of a group only if it has a CIR.
GroupBucket(q) ==
    IF q.cir > 0 THEN Bucket(q) ELSE [cir |-> 0, bc |-> 0, be |-> 0, tokens |-> 0, age |-> 0]

Size(tb) == tb.bc + tb.be

\* Mutant of tb_update: more than Bc + Be is saved up.
TbUpdate_NoCap(tb) ==
    IF tb.cir = 0 THEN tb ELSE [tb EXCEPT !.tokens = @ + tb.age * tb.cir, !.age = 0]

TbUpdate(tb) ==
    LET tokens == tb.tokens + tb.age * tb.cir
    IN IF tb.cir = 0 THEN tb
       ELSE [tb EXCEPT !.tokens = IF tokens < Size(tb) THEN tokens ELSE Size(tb), !.age = 0]

\* Time passes for a bucket.  Nothing is gained by waiting when it is full.
Older(tb) == [tb EXCEPT !.age = IF tb.tokens = Size(tb) \/ tb.age = MaxIdle THEN @ ELSE @ + 1]

\* Mutant: what is left of Bc is looked at before the frame has paid.
WithinBc_Before(tb, n) == tb.bc > 0 /\ tb.tokens >= tb.be

WithinBc(tb, n) == tb.bc > 0 /\ tb.tokens - n >= tb.be

\* Best effort without a bucket: nothing is counted, all frames leave with DE.
BestEffort(tb) == tb.bc = 0 /\ (tb.be = 0 \/ tb.cir = 0)

\* cgst_process_frame_tb once the bucket is up to date: what to do with a frame
\* of n pieces, and the bucket after it.
Police(tb, n, de, congested) ==
    LET paid == [tb EXCEPT !.tokens = @ - n]
        Verdict(how, bucket) == [how |-> how, tb |-> bucket]
    IN IF BestEffort(tb) THEN Verdict(IF congested THEN "discard" ELSE "excess", tb)
       ELSE IF tb.cir = 0 THEN Verdict("committed", tb)
       ELSE IF tb.tokens < n \/ (de /\ congested) THEN Verdict("discard", tb)
       ELSE IF ~de /\ WithinBc(tb, n) THEN Verdict("committed", paid)
       ELSE Verdict(IF congested THEN "discard" ELSE "excess", paid)
-----------------------------------------------------------------------------
(* Congestion of a port: by the frames it takes in a second, or by writes  *)
(* that fail.                                                              *)

\* cgst_init, cgst_set_write_failure_threshold and cgst_set_cllm_enabled.
CongestionInit(q) ==
    [rate |-> q.rate, limit |-> q.limit, cllm |-> q.cllm,
     congested |-> FALSE, frames |-> 0, age |-> 0, fails |-> 0, wait |-> 0]

Counted(cg) == IF cg.rate > 0 THEN [cg EXCEPT !.frames = @ + 1] ELSE cg

\* Mutant: the count is not started again.
RateCheck_Accumulates(cg) ==
    LET fps == cg.frames \div cg.age
    IN IF cg.rate = 0 \/ cg.age = 0 THEN cg
       ELSE [cg EXCEPT !.congested = IF @ THEN fps >= cg.rate \div 2 ELSE fps > cg.rate, !.age = 0]

\* The check of cgst_poll_timer, once a second.
RateCheck(cg) ==
    LET fps == cg.frames \div cg.age
    IN IF cg.rate = 0 \/ cg.age = 0 THEN cg
       ELSE [cg EXCEPT !.congested = IF @ THEN fps >= cg.rate \div 2 ELSE fps > cg.rate,
                       !.frames = 0, !.age = 0]

WriteFailure(cg) ==
    IF cg.limit = 0 THEN cg
    ELSE LET n == IF cg.fails < cg.limit THEN cg.fails + 1 ELSE cg.fails
         IN [cg EXCEPT !.fails = n, !.congested = @ \/ n >= cg.limit]

WriteSuccess(cg) == IF cg.limit = 0 \/ cg.fails = 0 THEN cg ELSE [cg EXCEPT !.fails = 0, !.congested = FALSE]

\* A CLLM message is due: at the first poll of a congested port, then at intervals.
CllmDue(cg) == cg.cllm /\ cg.congested /\ cg.wait = 0
CllmTimer(cg, some) ==
    [cg EXCEPT !.wait = IF ~(cg.cllm /\ cg.congested) THEN 0
                        ELSE IF cg.wait = 0 THEN (IF some THEN CllmEvery ELSE 0) ELSE @]

CongestionOlder(cg) ==
    [cg EXCEPT !.age = IF cg.rate = 0 \/ @ = 2 THEN @ ELSE @ + 1,
               !.wait = IF @ = 0 THEN 0 ELSE @ - 1]
=============================================================================
