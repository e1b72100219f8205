--------------------------- MODULE MCHubConnector ---------------------------
(* An instance of HubConnector for TLC: two hubs, and two sockets for them. *)
EXTENDS HubConnector

CONSTANTS s1, s2
MCUris == <<"failover", "primary">>
MCSockets == {s1, s2}
=============================================================================
