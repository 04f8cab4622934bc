----------------------------- MODULE MCLapfLink -----------------------------
(* Two ends, a window of two out of four numbers: two messages from one end, *)
(* one from the other.                                                       *)
EXTENDS LapfLink

CONSTANTS A, B

MCEnds == {A, B}
MCData == 1 .. 2
MCMessages == (A :> 2) @@ (B :> 1)
=============================================================================
