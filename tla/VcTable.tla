------------------------------ MODULE VcTable ------------------------------
(***************************************************************************)
(* The virtual-circuit tables.  "lut" is what frames are switched by: for  *)
(* a port and a DLCI, where to.  "pvcs" is the list of permanent circuits, *)
(* one record per direction, the newest first.  A point is <<port, DLCI>>. *)
(***************************************************************************)
EXTENDS Naturals, Sequences, SequencesExt

EmptyTable == [lut |-> <<>>, pvcs |-> <<>>]

HasEntry(t, x) == x \in DOMAIN t.lut

\* port_add_dlci_entry: the port's own table is overwritten.
AddEntry(t, x, y) == [t EXCEPT !.lut = [z \in DOMAIN @ \cup {x} |-> IF z = x THEN y ELSE @[z]]]

DelEntries(t, X) == [t EXCEPT !.lut = Restrict(@, DOMAIN @ \ X)]

Detail(x, y) == [at |-> x, to |-> y]

FirstPvc(t, x) == SelectInSeq(t.pvcs, LAMBDA d : d.at = x)

\* vfrs_add_pvc: refused when the near point is taken; the far one is not looked at.
AddPvc(t, x, y) ==
    IF HasEntry(t, x) THEN t
    ELSE [AddEntry(AddEntry(t, x, y), y, x)
             EXCEPT !.pvcs = <<Detail(y, x), Detail(x, y)>> \o @]

\* vfrs_del_pvc: nothing to do for a point that no PVC record names.
DelPvc(t, x) ==
    LET i == FirstPvc(t, x)
        y == t.pvcs[i].to
        t1 == DelEntries([t EXCEPT !.pvcs = RemoveAt(@, i)], {x})
        j == FirstPvc(t1, y)
    IN IF i = 0 THEN t
       ELSE IF j = 0 THEN t1
       ELSE DelEntries([t1 EXCEPT !.pvcs = RemoveAt(@, j)], {y})
=============================================================================
