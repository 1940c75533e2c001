---------------------------- MODULE MCConfigLoad ----------------------------
(* ConfigLoad for structs of three leaves: one with a tagged scalar and two  *)
(* leaves behind a pointer, one with tags on a list and a scalar and a       *)
(* pointer, and one whose tagged pointer the flag walk does not support.     *)
EXTENDS ConfigLoad

CONSTANTS l1, l2, l3

ConfOrder == [f \in Leaf |-> CASE f = l1 -> 1 [] f = l2 -> 2 [] f = l3 -> 3]

Kinds(a, b, c) == [f \in Leaf |-> CASE f = l1 -> a [] f = l2 -> b [] f = l3 -> c]

ConfShapes ==
  { [kind |-> Kinds("Scalar", "Slice", "Scalar"), held |-> {l2, l3}, tagged |-> {l1, l2}],
    [kind |-> Kinds("Slice", "Pointer", "Scalar"), held |-> {}, tagged |-> {l1, l3}],
    [kind |-> Kinds("Scalar", "Pointer", "Slice"), held |-> {}, tagged |-> Leaf] }
=============================================================================
