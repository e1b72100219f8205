----------------------------- MODULE MCPeerPoll -----------------------------
(* Model values and symmetry for checking PeerPoll with TLC. *)
EXTENDS PeerPoll, TLC

CONSTANTS a1, a2, h1, h2, i1, i2, i3, i4

MCAddress  == {a1, a2}
MCAddress1 == {a1}
MCHumidity == {h1, h2}
MCHumidity1 == {h1}
MCInvokeId == {i1, i2, i3, i4}
MCInvokeId3 == {i1, i2, i3}

\* Addresses, readings and ids are only ever compared with each other.
Symmetry == Permutations(MCAddress) \cup Permutations(MCHumidity) \cup Permutations(MCInvokeId)
=============================================================================
