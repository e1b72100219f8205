----------------------------- MODULE Transport -----------------------------
(***************************************************************************)
(* The UDP data links as the stack uses them: ReceiveFromUdp and           *)
(* SendToUdp with their copy to the peer on another port (BACnet/IP), and  *)
(* SimpleUDP6 with the interfaces it joined and the link-local senders it  *)
(* remembers (BACnet/IPv6).                                                *)
(***************************************************************************)
EXTENDS Integers, Sequences, FiniteSets

CONSTANTS
  Peer,                \* BACnet/IP hosts on this subnet
  OnOurPort,           \* those that are bound to our UDP port
  Nobody,
  Sender,              \* link-local IPv6 addresses of other nodes
  Interface,           \* interface indexes; 0 is "the host's choice"
  MaxRememberedSenders \* MAX_REMEMBERED_SENDERS

Everyone == "subnet broadcast"

ASSUME TransportAssumption ==
  /\ OnOurPort \subseteq Peer /\ Nobody \notin Peer \cup Sender /\ Everyone \notin Peer
  /\ Interface \subseteq Nat \ {0} /\ IsFiniteSet(Interface) /\ MaxRememberedSenders \in Nat \ {0}

VARIABLES
  lastPeer,   \* g_lastPeerIp and g_lastPeerPort, Nobody while ~g_hasLastPeer
  asker,      \* ghost: whom the last frame answers, Nobody if it answers none
  reach,      \* ghost: how often each peer gets the last frame
  joined,     \* m_interfaces
  senders,    \* m_senders: a slot is <<address, interface>>
  nextSender, \* m_nextSender
  cameBy,     \* ghost: the interface each sender was last heard on, 0 if never
  newest      \* ghost: who was heard last

udp == <<lastPeer, asker, reach>>
udp6 == <<joined, senders, nextSender, cameBy, newest>>
transport == <<udp, udp6>>

Slot == 0 .. MaxRememberedSenders - 1
Free == <<Nobody, 0>>
ToNobody == [p \in Peer |-> 0]

TransportTypeOK ==
  /\ lastPeer \in Peer \cup {Nobody} /\ asker \in Peer \cup {Nobody} /\ reach \in [Peer -> 0 .. 2]
  /\ joined \in Seq(Interface) /\ Len(joined) <= Cardinality(Interface)
  /\ senders \in [Slot -> (Sender \X Interface) \cup {Free}] /\ nextSender \in Slot
  /\ cameBy \in [Sender -> Interface \cup {0}] /\ newest \in Sender \cup {Nobody}

TransportInit ==
  /\ lastPeer = Nobody /\ asker = Nobody /\ reach = ToNobody
  /\ joined = <<>> /\ senders = [s \in Slot |-> Free] /\ nextSender = 0
  /\ cameBy = [p \in Sender |-> 0] /\ newest = Nobody

-----------------------------------------------------------------------------
(* BACnet/IP *)

\* A frame the stack hands over: how its BVLC header names it and what it is.
Frame == [bvlc : {"unicast", "broadcast", "forwarded"}, content : {"network", "I-Am", "I-Have", "event"}]

IsStackChosenBroadcast(frame) ==
  frame.bvlc \in {"unicast", "broadcast"} /\ frame.content \in {"network", "I-Am", "I-Have"}

Reached(destination) == [p \in Peer |-> IF destination = p \/ (destination = Everyone /\ p \in OnOurPort) THEN 1 ELSE 0]

\* SendToUdp: to an address (a peer, or the broadcast address), or with none.
Copies(frame) == lastPeer' # Nobody /\ IsStackChosenBroadcast(frame)

SendToUdp(frame, address) == reach' = Reached(address)
SendToUdpWithout(frame) ==
  reach' = [p \in Peer |-> Reached(Everyone)[p] + (IF Copies(frame) /\ p = lastPeer' THEN 1 ELSE 0)]

\* Mutant: also a peer the broadcast reaches.
ReceiveFromAnyone(from) == lastPeer' = from

\* ReceiveFromUdp: the last peer that is not on our own port is remembered.
ReceiveFromUdp(from) == lastPeer' = IF from \in OnOurPort THEN lastPeer ELSE from

\* One datagram and the stack's answer to it: a request is answered to where it
\* came from, a Who-Is or Who-Has with a broadcast the stack gives no address.
AnswerRequest(from) ==
  /\ ReceiveFromUdp(from) /\ asker' = from
  /\ reach' = Reached(from)
  /\ UNCHANGED udp6

AnswerWhoIs(from) ==
  /\ ReceiveFromUdp(from) /\ asker' = from
  /\ \E content \in {"I-Am", "I-Have", "network"} :
       SendToUdpWithout([bvlc |-> "broadcast", content |-> content])
  /\ UNCHANGED udp6

\* A broadcast of the stack's own: an event notification, or the frame of
\* another device that it forwards.
Notify ==
  /\ UNCHANGED lastPeer /\ asker' = Nobody
  /\ \E frame \in Frame :
       /\ frame.content = "event" \/ frame.bvlc = "forwarded"
       /\ SendToUdpWithout(frame)
  /\ UNCHANGED udp6

\* SendIAmBroadcast and SendWhoIsBroadcast give the broadcast address.
Broadcast ==
  /\ UNCHANGED lastPeer /\ asker' = Nobody
  /\ SendToUdp([bvlc |-> "broadcast", content |-> "I-Am"], Everyone)
  /\ UNCHANGED udp6

Udp == Notify \/ \E from \in Peer : AnswerRequest(from) \/ AnswerWhoIs(from)

-----------------------------------------------------------------------------
(* BACnet/IPv6 *)

Injective(s) == \A i, j \in DOMAIN s : i # j => s[i] # s[j]

\* SimpleUDP6::Connect: the interface asked for, or every one that can
\* multicast; a join may fail, and is left out.
Connect(asked) ==
  /\ LET candidates == IF asked = 0 THEN Interface ELSE {asked} IN
     joined' \in {s \in UNION {[1 .. n -> candidates] : n \in 0 .. Cardinality(candidates)} : Injective(s)}
  /\ UNCHANGED <<udp, senders, nextSender, cameBy, newest>>

Remembered(address) == {s \in Slot : senders[s][1] = address}
FirstSlot(address) == CHOOSE s \in Remembered(address) : \A t \in Remembered(address) : s <= t

\* Mutant: a sender that moved gets a second slot.
RememberSenderAgain(address, interface) ==
  /\ senders' = [senders EXCEPT ![nextSender] = <<address, interface>>]
  /\ nextSender' = (nextSender + 1) % MaxRememberedSenders

RememberSender(address, interface) ==
  IF Remembered(address) # {}
    THEN senders' = [senders EXCEPT ![FirstSlot(address)] = <<address, interface>>] /\ UNCHANGED nextSender
    ELSE /\ senders' = [senders EXCEPT ![nextSender] = <<address, interface>>]
         /\ nextSender' = (nextSender + 1) % MaxRememberedSenders

\* Receive, from a link-local address (the others need no interface).
Receive(address, interface) ==
  /\ RememberSender(address, interface)
  /\ cameBy' = [cameBy EXCEPT ![address] = interface] /\ newest' = address
  /\ UNCHANGED <<udp, joined>>

\* The first slot that has the address; without one the first joined interface.
InterfaceOf(address) ==
  IF Remembered(address) # {} THEN senders[FirstSlot(address)][2]
  ELSE IF joined # <<>> THEN joined[1] ELSE 0

Udp6 == \E address \in Sender, interface \in Interface : Receive(address, interface)

-----------------------------------------------------------------------------
(* Properties *)

\* Who asks is answered, once, on whatever port and by broadcast or not; and no
\* broadcast, copied or not, reaches any peer twice.
AskersHearOnce ==
  /\ asker # Nobody => reach[asker] = 1
  /\ \A p \in Peer : reach[p] <= 1

\* What is sent to a link-local peer leaves by the interface the peer was last
\* heard on, for whom was heard last and for everyone who is still remembered,
\* however often peers move and push each other out of the ring.
AnswersLeaveWhereTheyCame ==
  \A p \in Sender : (p = newest \/ Remembered(p) # {}) => InterfaceOf(p) = cameBy[p]
=============================================================================
