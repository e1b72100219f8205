-------------------------- MODULE MCCommissioning ---------------------------
(* An instance of Commissioning for TLC: two device instances, one or
   two authorities. *)
EXTENDS Commissioning

CONSTANTS c1, c2, d1, d2
MCInstance == {d1, d2}
MCCa == {c1, c2}
MCCa1 == {c1}
Symmetry == Permutations(MCCa) \cup Permutations(MCInstance)
=============================================================================
