------------------------------ MODULE Fragment ------------------------------
(***************************************************************************)
(* FRF.12 fragmentation of frames: src/src/switching/fr_fragment.c.        *)
(*                                                                         *)
(* The payload of a frame is a sequence of pieces, the unit in which it is *)
(* cut.  Nothing in a frame says whether it is a fragment: its first two   *)
(* payload octets are read as the header of one or as a control field, as  *)
(* the case may be.  A frame has the fields part (whether it really is a   *)
(* fragment), head (what the two octets are as a header: the bits B and E  *)
(* and the number), form (the first as a control field, for a frame that   *)
(* is no fragment) and body (what follows the header of a fragment, or the *)
(* whole payload of another frame).                                        *)
(***************************************************************************)
EXTENDS Naturals, Sequences, FiniteSets, SequencesExt

CONSTANTS
    FragMod,        \* sequence numbers are modulo FragMod (4096 in the code)
    UiSeqs,        \* those whose first octet, without B and E, is 0x03 (0x300 .. 0x3FF)
    MaxFragments,  \* fragments of one frame (FRF12_MAX_FRAGMENTS, 16)
    MaxPieces,     \* pieces the reassembly buffer holds (FR_MAX_FRAMESZ)
    ReasmLife      \* seconds a frame may wait for its next fragment (1)

ASSUME FragmentAssumption ==
    /\ FragMod \in Nat \ {0} /\ UiSeqs \subseteq 0 .. FragMod - 1
    /\ MaxFragments \in Nat \ {0} /\ MaxPieces \in Nat /\ ReasmLife \in Nat

\* Of a frame that is too short to have a header, or is not read again.
NoHead == [b |-> FALSE, e |-> FALSE, seq |-> FragMod]

\* What the first payload octet says when it is read as a control field.
Control(f) ==
    IF ~f.part THEN f.form
    ELSE IF ~f.head.b /\ ~f.head.e /\ f.head.seq \in UiSeqs THEN "ui" ELSE "other"

\* Mutant: the number is not brought back to twelve bits.
NextSeq_NoWrap(n) == n + 1

NextSeq(n) == (n + 1) % FragMod

\* frf12_fragment_frame: the fragments of a frame that does not fit.  Past
\* MaxFragments the rest is left out, and with it the fragment that has E.
CutUp(f, size, seq) ==
    LET n == Len(f.body)
        needed == (n + size - 1) \div size
        Chunk(i) == SubSeq(f.body, (i - 1) * size + 1, IF i * size < n THEN i * size ELSE n)
    IN [i \in 1 .. (IF needed < MaxFragments THEN needed ELSE MaxFragments) |->
          [f EXCEPT !.body = Chunk(i), !.part = TRUE,
                    !.head = [b |-> i = 1, e |-> i = needed, seq |-> (seq + i - 1) % FragMod]]]

\* What is left when the header is taken off.  A frame that is no fragment loses
\* two octets of its own: its first piece, (n, 1), becomes (n, 0).
Blunted(body) == [i \in DOMAIN body |-> IF i = 1 THEN <<body[i][1], 0>> ELSE body[i]]

Opened(f) ==
    [f EXCEPT !.part = FALSE, !.head = NoHead, !.body = IF f.part THEN f.body ELSE Blunted(f.body)]

\* fr_reasm_ctx_t: the fragment that began the frame, with the body so far.
NoFrame == [form |-> "none", part |-> FALSE, head |-> NoHead, body |-> <<>>]
NoReasm == [busy |-> FALSE, frame |-> NoFrame, expected |-> 0, age |-> 0]

Collecting(f, h) == [busy |-> TRUE, frame |-> f, expected |-> NextSeq(h.seq), age |-> 0]

\* Mutant: fragments are joined in the order they come, whatever their numbers.
InSequence_Any(ctx, h) == TRUE

InSequence(ctx, h) == h.seq = ctx.expected

TimedOut(ctx) == ctx.busy /\ ctx.age > ReasmLife

\* frf12_reassemble_frame: what becomes of the context, and of the frame that is
\* read as a fragment: "complete" (with the frame that results), "kept" until the
\* next one comes, or "refused".
Reassemble(ctx0, f) ==
    LET h == f.head
        ctx == IF TimedOut(ctx0) THEN NoReasm ELSE ctx0
        whole == [ctx.frame EXCEPT !.body = @ \o Opened(f).body]
        Result(c, how, frame) == [ctx |-> c, how |-> how, frame |-> frame]
    IN IF h.b
       THEN IF h.e THEN Result(NoReasm, "complete", Opened(f))
            ELSE Result(Collecting(Opened(f), h), "kept", f)
       ELSE IF ~ctx.busy THEN Result(ctx, "refused", f)
       ELSE IF ~InSequence(ctx, h) \/ Len(whole.body) > MaxPieces THEN Result(NoReasm, "refused", f)
       ELSE IF h.e THEN Result(NoReasm, "complete", whole)
       ELSE Result(Collecting(whole, h), "kept", f)
=============================================================================
