---------------------------- MODULE MCCertStore -----------------------------
(* Instances of CertStore for TLC: one or two authorities, three key pairs. *)
EXTENDS CertStore

CONSTANTS c1, c2
MCCa == {c1}
MCCa2 == {c1, c2}

\* Authorities are only ever compared with each other.
Symmetry == Permutations(MCCa2)
=============================================================================
