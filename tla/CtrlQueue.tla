----------------------------- MODULE CtrlQueue -----------------------------
(***************************************************************************)
(* What the control queue between the two threads promises: the frames put *)
(* in come out once, in the order they went in, and a queue that holds Cap *)
(* frames takes no more.                                                   *)
(***************************************************************************)
EXTENDS Naturals, Sequences

CONSTANTS
    Item,  \* what is queued
    Cap    \* frames held at most

VARIABLE items

Init == items = <<>>

Put == /\ Len(items) < Cap
       /\ \E x \in Item : items' = Append(items, x)

Get == /\ items # <<>>
       /\ items' = Tail(items)

Spec == Init /\ [][Put \/ Get]_items
=============================================================================
