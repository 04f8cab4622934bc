----------------------------- MODULE Multicast -----------------------------
(***************************************************************************)
(* Multicast groups: src/src/pvc/pvc_mcast_uni.c, pvc_mcast_nni.c and the  *)
(* multicast part of vfrs_switch_frame.  A group has a mode ("oneway",     *)
(* "twoway", "nway"), a root, and members, the last added first.  An end   *)
(* of a circuit or of a group is a point <<port, DLCI>>.                   *)
(***************************************************************************)
EXTENDS Naturals, Sequences, SequencesExt

NoGroup == [name |-> "none", mode |-> "none", root |-> <<>>, members |-> <<>>]

EndsOf(g) == {g.root} \cup Range(g.members)

\* vfrs_find_mcast_group_by_endpoint
GroupAt(groups, x) ==
    LET i == SelectInSeq(groups, LAMBDA g : g # NoGroup /\ x \in EndsOf(g))
    IN IF i = 0 THEN NoGroup ELSE groups[i]

IsGroupEnd(groups, x) == GroupAt(groups, x) # NoGroup

\* vfrs_add_mcast_group: refused when the name is taken or the root is an end
\* already, of a group or of a permanent circuit.
AddGroup(groups, pvcPoints, name, mode, root) ==
    IF (\E g \in Range(groups) : g.name = name) \/ IsGroupEnd(groups, root) \/ root \in pvcPoints THEN groups
    ELSE <<[name |-> name, mode |-> mode, root |-> root, members |-> <<>>]>> \o groups

\* vfrs_add_mcast_member: a leaf of a one-way group, and no other member, is
\* the end of a permanent circuit.
AddMember(groups, pvcPoints, name, x) ==
    [i \in DOMAIN groups |->
       IF /\ groups[i].name = name /\ ~IsGroupEnd(groups, x)
          /\ (x \in pvcPoints) = (groups[i].mode = "oneway")
       THEN [groups[i] EXCEPT !.members = <<x>> \o @] ELSE groups[i]]

\* vfrs_mcast_endpoint_is_active: the port's link and one at the other side are
\* up.  A leaf of a one-way group at an NNI needs the root's link only.
EndIsActive(g, x, nni, down) ==
    LET up == {y \in EndsOf(g) : y[1] \notin down}
    IN IF g.mode = "nway" THEN x \in up /\ \E y \in up : y[1] # x[1]
       ELSE IF x = g.root THEN x \in up /\ up \cap Range(g.members) # {}
       ELSE g.root \in up /\ (x \in up \/ (g.mode = "oneway" /\ x[1] \in nni))

\* A permanent circuit between the root's port and a leaf is as active as the
\* root of its group (vfrs_dlci_is_active).
DependsOn(g, x, y) ==
    /\ g.mode = "oneway"
    /\ \/ x[1] = g.root[1] /\ x # g.root /\ y \in Range(g.members)
       \/ y[1] = g.root[1] /\ y # g.root /\ x \in Range(g.members)

\* The ends of a sequence that are not in S.
Without(ends, S) == FoldLeft(LAMBDA left, y : IF y \in S THEN left ELSE Append(left, y), <<>>, ends)

Unreached(g, down) == {y \in EndsOf(g) : y[1] \in down}

\* Where the copies of a frame from x go; the mutant forgets that a member
\* of an N-way group may be the sender.
Copies_WithSender(g, x, down) ==
    IF g.mode = "nway" THEN Without(<<g.root>>, Unreached(g, down) \cup {x}) \o Without(g.members, Unreached(g, down))
    ELSE IF x = g.root THEN Without(g.members, Unreached(g, down))
    ELSE IF g.mode = "twoway" THEN Without(<<g.root>>, Unreached(g, down))
    ELSE <<>>

Copies(g, x, down) ==
    IF g.mode = "nway" THEN Without(<<g.root>> \o g.members, Unreached(g, down) \cup {x})
    ELSE IF x = g.root THEN Without(g.members, Unreached(g, down))
    ELSE IF g.mode = "twoway" THEN Without(<<g.root>>, Unreached(g, down))
    ELSE <<>>
=============================================================================
