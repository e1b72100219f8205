----------------------------- MODULE KeyCustody -----------------------------
(***************************************************************************)
(* What the certificate procedures promise about keys, with no files and   *)
(* no restarts: the device's operational certificate and its private key   *)
(* change together, in one step, and only to a pair that belongs together; *)
(* a key pair offered for signing (GENERATE_CSR_FILE) waits aside until a  *)
(* certificate for it is installed (cert_store.h, "So the device never     *)
(* runs with a key that has no certificate").                              *)
(***************************************************************************)
CONSTANTS Key, NoKey, Cert  \* a certificate is a record with a field key

VARIABLES cert, key, offered

vars == <<cert, key, offered>>

Init ==
  /\ cert \in Cert /\ key = cert.key
  /\ offered \in Key \cup {NoKey}

\* A certificate for the key in use, or one for the key on offer.
Renew(c) == c.key = key /\ cert' = c /\ UNCHANGED <<key, offered>>
Install(c) ==
  /\ c.key = offered
  /\ cert' = c /\ key' = offered /\ offered' = NoKey

Offer(k) == k # key /\ offered' = k /\ UNCHANGED <<cert, key>>

Next == (\E c \in Cert : Renew(c) \/ Install(c)) \/ \E k \in Key : Offer(k)

Spec == Init /\ [][Next]_vars
=============================================================================
