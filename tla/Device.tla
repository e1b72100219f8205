------------------------------- MODULE Device -------------------------------
(***************************************************************************)
(* The whole program: main() with what happens inside BACnetStack_Tick()   *)
(* on the data link it runs on, a datagram received and answered, a        *)
(* service executed, or a ReinitializeDevice that activates what is        *)
(* pending and arms the restart in the same call.                          *)
(***************************************************************************)
EXTENDS MainLoop, Transport, Services

dvars == <<vars, transport, services>>

DInit == Init /\ TransportInit /\ ServicesInit

\* Bound: one message in a tick, and Ivory is worked on over BACnet/IP only (the
\* File callbacks do not look at the data link).
Message ==
  \/ link = "ipv4" /\ Udp /\ UNCHANGED services
  \/ link = "ipv6" /\ Udp6 /\ UNCHANGED services
  \/ link = "ipv4" /\ Ivory /\ UNCHANGED transport
  \/ (WritePort(link) \/ DiscardChanges \/ Activate(link)) /\ UNCHANGED transport

Quiet == UNCHANGED <<transport, services>>

\* A warm start is an activation too, so every message goes with a tick that may
\* or may not arm the restart.
DTick == Tick /\ (Quiet \/ Message)

DOpen ==
  /\ Open
  /\ IF link = "ipv6" /\ step' = "objects" THEN \E asked \in Interface \cup {0} : Connect(asked)
     ELSE UNCHANGED transport
  /\ UNCHANGED services

\* The I-Am of the start and of a restart leaves through SendToUdp.
SendsIAm == step \in {"announce", "restart"} /\ IsIpDataLink /\ (step = "restart" => restart = "due")
DSend ==
  /\ Announce \/ Restart
  /\ IF link = "ipv4" /\ SendsIAm THEN Broadcast ELSE UNCHANGED transport
  /\ UNCHANGED services

DOther ==
  /\ \/ Load \/ ReadArgument \/ ParseEnds \/ PrepareCertificates \/ AddObjects
     \/ LinkWork \/ Keys \/ Sleep
  /\ Quiet

DNext == DOpen \/ DSend \/ DTick \/ DOther

\* main() is one thread that never waits for anyone: it always goes on.
DSpec == DInit /\ [][DNext]_dvars
DFairSpec == DSpec /\ WF_dvars(DNext)

-----------------------------------------------------------------------------
\* The types of the three parts together; the length of Ivory stays within FILE_MAX_SIZE
\* (WriteFile), wrapped sums included.
DTypeOK == TypeOK /\ TransportTypeOK /\ ServicesTypeOK

\* ReinitializeDevice accepts before the stack hands over the pending writes, so
\* none of those may be refused then: the activation fails, and every later one until
\* DISCARD_CHANGES, for the value stays pending (main.cpp 640-645).  The set callbacks
\* refuse nothing but what only the IPv6 port has, MS/TP values and a Network_Number never.
OnlyIPv6SettingsAreRefused ==
  \A p \in refused : p \in HeldOnIPv6 /\ link = "ipv6" /\ written[p] # -1
=============================================================================
