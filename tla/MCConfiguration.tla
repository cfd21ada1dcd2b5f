--------------------------- MODULE MCConfiguration ---------------------------
(***************************************************************************)
(* Small instances of Configuration for TLC.                               *)
(***************************************************************************)
EXTENDS Configuration, TLC

CONSTANTS t1, t2, p1, p2, s1, s2, f1, f2, q1, q2, g1, c1, e1, e2, k1, k2

MCSpans == {<<0, 1>>, <<1, 2>>, <<0, 2>>}

Symmetry ==
  Permutations(EventTypes) \cup Permutations(Codes) \cup Permutations(DeviceTypes)
  \cup Permutations(Parameters) \cup Permutations(Schemas) \cup Permutations(Fields)
  \cup Permutations(Rules)
=============================================================================
