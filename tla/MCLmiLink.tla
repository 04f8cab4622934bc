----------------------------- MODULE MCLmiLink -----------------------------
(* Two ends with the default N392 and N393, T391 and T392 in their default  *)
(* ratio.                                                                   *)
EXTENDS LmiLink

CONSTANTS A, B

MCEnds == {A, B}
MCOne == {16}
MCAtB == (A :> {}) @@ (B :> {16})
MCThree == {16, 17, 18}
MCAtBoth == (A :> MCThree) @@ (B :> MCThree)
=============================================================================
