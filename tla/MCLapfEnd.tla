------------------------------ MODULE MCLapfEnd ------------------------------
(***************************************************************************)
(* One entity with a window of two frames out of four numbers, against     *)
(* every frame the code tells apart: fields a handler does not read have   *)
(* one value.                                                              *)
(***************************************************************************)
EXTENDS LapfEnd, TLC

Plain == Command("UI", 0, FALSE)

UFrames ==
    {[Plain EXCEPT !.type = t, !.pf = pf] : t \in {"SABME", "DISC", "UA", "DM"}, pf \in BOOLEAN}
        \cup {[Plain EXCEPT !.type = t] : t \in {"FRMR", "unknown"}}
        \cup {[Plain EXCEPT !.type = "XID", !.cr = cr, !.k = 1] : cr \in {"cmd", "rsp"}}
SFrames ==
    {[Plain EXCEPT !.type = t, !.cr = cr, !.pf = pf, !.nr = nr] :
        t \in {"RR", "RNR", "REJ"}, cr \in {"cmd", "rsp"}, pf \in BOOLEAN, nr \in SeqNos}
        \cup {[Plain EXCEPT !.type = "reserved", !.nr = nr] : nr \in SeqNos}
IFrames ==
    {[Plain EXCEPT !.type = "I", !.cr = cr, !.pf = pf, !.nr = nr, !.ns = ns] :
        cr \in {"cmd", "rsp"}, pf \in BOOLEAN, nr \in SeqNos, ns \in 0 .. 1}
        \cup {[Plain EXCEPT !.type = "I", !.nr = nr, !.size = "long"] : nr \in SeqNos}
BadFrames ==
    {[Plain EXCEPT !.type = "I", !.size = "short"], [Plain EXCEPT !.type = "RR", !.size = "short"],
     [Plain EXCEPT !.type = "UA", !.size = "long"], [Plain EXCEPT !.becn = TRUE]}

MCPeer == {Plain} \cup UFrames \cup SFrames \cup IFrames \cup BadFrames

Messages == Permutations(Data)
=============================================================================
