---------------------------- MODULE DeviceProofs ----------------------------
(***************************************************************************)
(* Theorems about Device: the composition is the main loop with something  *)
(* inside its tick, and in it nobody misses the device, for every set of   *)
(* words on the command line, every time-out and every pass length.        *)
(***************************************************************************)
EXTENDS Device, MainLoopProofs, FiniteSetTheorems, TLAPS

-----------------------------------------------------------------------------
(* The composition adds nothing to the loop *)

\* Every behaviour of the whole program is, seen from main() alone, one of
\* MainLoop: what happens inside BACnetStack_Tick keeps to its tick.
THEOREM ImplementsMainLoop == DSpec => Spec
<1>1. DInit => Init
  BY DEF DInit
<1>2. [DNext]_dvars => [Next]_vars
  <2>1. DNext => Next
    BY DEF DNext, DOpen, DSend, DTick, DOther, Next
  <2>2. UNCHANGED dvars => UNCHANGED vars
    BY DEF dvars
  <2> QED BY <2>1, <2>2
<1> QED BY <1>1, <1>2, PTL DEF DSpec, Spec

-----------------------------------------------------------------------------
(* The announcement *)

\* The hub is nobody's before the loop, and MS/TP owes its I-Am until the loop.
Announcing ==
  /\ link \in Link /\ Sound(parse)
  /\ {pending, event, heard} \subseteq BOOLEAN
  /\ step \in StartUp => hub = 0
  /\ NobodyMissesTheDevice

LEMMA InitAnnouncing == Init => Announcing
<1> SUFFICES ASSUME Init PROVE Announcing
  OBVIOUS
<1>1. link \in Link /\ hub = 0 /\ step = "load"
  BY DEF Init, Link
<1>2. Sound(parse)
  BY SoundStart DEF Init
<1>3. pending \in BOOLEAN /\ event \in BOOLEAN /\ heard \in BOOLEAN
  BY DEF Init
<1> QED BY <1>1, <1>2, <1>3 DEF Announcing, NobodyMissesTheDevice, Loop

\* The steps of the start-up stay in it until the I-Am, or end the program.
LEMMA StartUpStep ==
  ASSUME Announcing, Load \/ ReadArgument \/ ParseEnds \/ Open \/ PrepareCertificates \/ AddObjects
  PROVE  Announcing'
<1>1. step' \in StartUp \cup {"exit"} /\ step \in StartUp
  BY DEF Load, ReadArgument, ParseEnds, Open, PrepareCertificates, AddObjects, OrFail, GoOn, Exit, StartUp
<1>2. hub' = hub /\ pending' = pending /\ event' = event /\ heard' = heard
  BY DEF Load, ReadArgument, ParseEnds, Open, PrepareCertificates, AddObjects, sc
<1>3. link' \in Link /\ Sound(parse')
  <2>1. CASE ReadArgument
    BY <2>1, SoundRead DEF ReadArgument, Announcing
  <2>2. CASE ParseEnds
    BY <2>2, SoundStart, ResultLink DEF ParseEnds, Announcing
  <2>3. CASE Load \/ Open \/ PrepareCertificates \/ AddObjects
    BY <2>3 DEF Load, Open, PrepareCertificates, AddObjects, setup, line, Announcing
  <2> QED BY <2>1, <2>2, <2>3
<1>4. step' \notin Loop
  BY <1>1 DEF StartUp, Loop
<1> QED BY <1>1, <1>2, <1>3, <1>4 DEF Announcing, NobodyMissesTheDevice

\* BACnet/IP and BACnet/IPv6 are told at once; no hub is connected yet.
LEMMA AnnounceStep == ASSUME Announcing, Announce PROVE Announcing'
<1>1. step = "announce" /\ step' = "tick" /\ hub' = hub /\ event' = event /\ link' = link /\ parse' = parse
  BY DEF Announce, GoOn, setup, line, sc
<1>2. hub' = 0
  BY <1>1 DEF Announcing, StartUp
<1>3. pending' \in BOOLEAN /\ heard' \in BOOLEAN
  BY DEF Announce
<1>4. link = "mstp" => pending'
  BY DEF Announce, IsIpDataLink
<1>5. link \in {"ipv4", "ipv6"} => heard'
  BY DEF Announce, IsIpDataLink, SendIAmBroadcast
<1> QED BY <1>1, <1>2, <1>3, <1>4, <1>5 DEF Announcing, NobodyMissesTheDevice, StartUp, Loop, Link

\* Changes of the hub that connect nobody leave it as it was or gone.
LEMMA NotConnecting ==
  ASSUME NEW changes \in Changes, ~Connects(changes), changes # <<>>
  PROVE  Last(changes) = 0
<1>1. PICK n \in 0 .. 2 : changes \in [1 .. n -> 0 .. 2]
  BY DEF Changes
<1>2. n # 0 /\ Len(changes) = n
  BY <1>1
<1>3. changes[n] \in 0 .. 2 /\ changes[n] \notin {1, 2}
  BY <1>1, <1>2 DEF Connects
<1> QED BY <1>2, <1>3 DEF Last

\* In a tick hub changes are counted, and an event is kept for each connection.
LEMMA TickStep == ASSUME Announcing, Tick PROVE Announcing'
<1>1. /\ step = "tick" /\ step' = "link" /\ link' = link /\ parse' = parse /\ pending' = pending
      /\ link \in Link /\ pending \in BOOLEAN
  BY DEF Announcing, Tick, GoOn, setup, line
<1>2. PICK changes \in Changes : StateChanges(changes)
  BY DEF Tick
<1>3. event' \in BOOLEAN /\ heard' \in BOOLEAN
  BY <1>2 DEF StateChanges, Connects
<1>4. CASE changes = <<>>
  <2>1. hub' = hub /\ ~Connects(changes) /\ \A i \in DOMAIN changes : changes[i] = 0
    BY <1>2, <1>4 DEF StateChanges, Connects
  <2>2. (event' <=> event) /\ (heard' <=> heard)
    BY <1>2, <2>1 DEF StateChanges
  <2> QED BY <1>1, <1>3, <2>1, <2>2 DEF Announcing, NobodyMissesTheDevice, StartUp, Loop
<1>5. CASE changes # <<>>
  <2>1. link = "sc" /\ hub' = Last(changes)
    BY <1>2, <1>5 DEF StateChanges
  <2>2. Connects(changes) => event'
    BY <1>2 DEF StateChanges
  <2>3. ~Connects(changes) => hub' = 0
    BY <1>5, <2>1, NotConnecting
  <2> QED BY <1>1, <1>3, <2>1, <2>2, <2>3 DEF Announcing, NobodyMissesTheDevice, StartUp, Loop
<1> QED BY <1>4, <1>5

\* MS/TP owes the I-Am until it is sent; on BACnet/SC the event is taken once the
\* sockets were serviced, and answered if there is still a hub.
LEMMA LinkWorkStep == ASSUME Announcing, LinkWork PROVE Announcing'
<1>1. step = "link" /\ step' = "restart" /\ link' = link /\ parse' = parse /\ link \in Link
  BY DEF Announcing, LinkWork, GoOn, setup, line
<1>2. step' \notin StartUp /\ step \in Loop
  BY <1>1 DEF StartUp, Loop
<1>3. CASE link = "mstp" /\ \E inTokenRing \in BOOLEAN : AnnounceOnMstp(inTokenRing)
  <2>1. PICK inTokenRing \in BOOLEAN : AnnounceOnMstp(inTokenRing)
    BY <1>3
  <2>2. pending' \in BOOLEAN /\ heard' \in BOOLEAN /\ event' = event
    BY <2>1 DEF AnnounceOnMstp, sc
  <2>3. pending' \/ heard'
    BY <1>2, <1>3, <2>1 DEF AnnounceOnMstp, Announces, Announcing, NobodyMissesTheDevice
  <2> QED BY <1>1, <1>2, <1>3, <2>2, <2>3 DEF Announcing, NobodyMissesTheDevice
<1>4. CASE link = "sc" /\ \E changes \in Changes : Service(changes)
  <2>1. PICK changes \in Changes : Service(changes)
    BY <1>4
  <2>2. pending' \in BOOLEAN /\ event' = FALSE
    BY <2>1 DEF Service
  <2>3. heard' \in BOOLEAN
    BY <2>1 DEF Service, Announcing
  <2>4. hub' = 0 \/ heard'
    <3>1. CASE event \/ Connects(changes)
      BY <2>1, <3>1 DEF Service
    <3>2. CASE ~event /\ ~Connects(changes)
      <4>1. heard' = heard /\ (hub = 0 \/ heard)
        BY <1>2, <1>4, <2>1, <3>2 DEF Service, Announcing, NobodyMissesTheDevice
      <4>2. CASE changes = <<>>
        BY <2>1, <4>1, <4>2 DEF Service
      <4>3. CASE changes # <<>>
        BY <2>1, <3>2, <4>3, NotConnecting DEF Service
      <4> QED BY <4>1, <4>2, <4>3
    <3> QED BY <3>1, <3>2
  <2> QED BY <1>1, <1>2, <1>4, <2>2, <2>3, <2>4 DEF Announcing, NobodyMissesTheDevice
<1>5. CASE IsIpDataLink /\ UNCHANGED <<pending, heard, sc>>
  BY <1>1, <1>2, <1>5 DEF Announcing, NobodyMissesTheDevice, sc
<1> QED BY <1>3, <1>4, <1>5 DEF LinkWork

\* A device that comes back from a restart tells everyone again.
LEMMA RestartStep == ASSUME Announcing, Restart PROVE Announcing'
<1>1. /\ step = "restart" /\ step' = "keys" /\ link' = link /\ parse' = parse
      /\ pending' = pending /\ hub' = hub /\ event' = event /\ link \in Link
  BY DEF Announcing, Restart, GoOn, setup, line, sc
<1>2. heard' \in BOOLEAN
  BY DEF Announcing, Restart, SendIAmBroadcast
<1>3. heard' = heard \/ (heard' <=> link # "sc" \/ hub # 0)
  BY DEF Restart, SendIAmBroadcast
<1> QED BY <1>1, <1>2, <1>3 DEF Announcing, NobodyMissesTheDevice, StartUp, Loop

\* The rest of a pass changes nothing of this.
LEMMA KeysAndSleepStep == ASSUME Announcing, Keys \/ Sleep PROVE Announcing'
<1>1. step \in Loop /\ step' \in Loop \cup {"exit"}
  BY DEF Keys, Sleep, GoOn, Exit, Loop
<1>2. link' = link /\ parse' = parse /\ pending' = pending /\ hub' = hub /\ event' = event /\ heard' = heard
  BY DEF Keys, Sleep, setup, line, sc
<1> QED BY <1>1, <1>2 DEF Announcing, NobodyMissesTheDevice, StartUp, Loop

LEMMA StepAnnouncing == Announcing /\ [Next]_vars => Announcing'
<1> SUFFICES ASSUME Announcing, [Next]_vars PROVE Announcing'
  OBVIOUS
<1>1. CASE Load \/ ReadArgument \/ ParseEnds \/ Open \/ PrepareCertificates \/ AddObjects
  BY <1>1, StartUpStep
<1>2. CASE Announce
  BY <1>2, AnnounceStep
<1>3. CASE Tick
  BY <1>3, TickStep
<1>4. CASE LinkWork
  BY <1>4, LinkWorkStep
<1>5. CASE Restart
  BY <1>5, RestartStep
<1>6. CASE Keys \/ Sleep
  BY <1>6, KeysAndSleepStep
<1>7. CASE UNCHANGED vars
  BY <1>7 DEF vars, setup, line, sc, Announcing, NobodyMissesTheDevice
<1> QED BY <1>1, <1>2, <1>3, <1>4, <1>5, <1>6, <1>7 DEF Next

\* On every data link the network has the device's I-Am, or main() still owes it
\* and knows so, whatever order hub changes, failovers and restarts come in.
THEOREM NobodyMisses == DSpec => []NobodyMissesTheDevice
<1>1. Announcing => NobodyMissesTheDevice
  BY DEF Announcing
<1>2. Spec => []NobodyMissesTheDevice
  BY <1>1, InitAnnouncing, StepAnnouncing, PTL DEF Spec
<1> QED BY <1>2, ImplementsMainLoop, PTL

-----------------------------------------------------------------------------
(* Answers over UDP *)

\* What a step of the program does to the UDP data links.
LEMMA TransportSteps == [DNext]_dvars => Udp \/ Broadcast \/ UNCHANGED udp
<1>1. Udp6 => UNCHANGED udp
  BY DEF Udp6, Receive
<1>2. \A asked : Connect(asked) => UNCHANGED udp
  BY DEF Connect
<1>3. DOpen => UNCHANGED udp
  BY <1>2 DEF DOpen, transport
<1>4. DSend => Broadcast \/ UNCHANGED udp
  BY DEF DSend, transport
<1>5. DTick => Udp \/ UNCHANGED udp
  BY <1>1 DEF DTick, Quiet, Message, transport
<1>6. DOther => UNCHANGED udp
  BY DEF DOther, Quiet, transport
<1> QED BY <1>3, <1>4, <1>5, <1>6 DEF DNext, dvars, transport

\* The peer that gets the copy does not hear our broadcasts, so that it gets
\* nothing twice.
OneCopy ==
  /\ lastPeer \in (Peer \ OnOurPort) \cup {Nobody}
  /\ AskersHearOnce

LEMMA HeardOnce ==
  ASSUME NEW from \in Peer, lastPeer \in (Peer \ OnOurPort) \cup {Nobody}, ReceiveFromUdp(from)
  PROVE  /\ lastPeer' \in (Peer \ OnOurPort) \cup {Nobody}
         /\ from \notin OnOurPort => lastPeer' = from
  BY DEF ReceiveFromUdp

LEMMA OneCopyEach ==
  ASSUME NEW frame, lastPeer' \in (Peer \ OnOurPort) \cup {Nobody}, SendToUdpWithout(frame)
  PROVE  /\ \A p \in Peer : reach'[p] <= 1
         /\ \A p \in OnOurPort : reach'[p] = 1
         /\ lastPeer' # Nobody /\ IsStackChosenBroadcast(frame) => reach'[lastPeer'] = 1
<1>1. \A p \in Peer : reach'[p] = (IF p \in OnOurPort THEN 1 ELSE 0) + (IF Copies(frame) /\ p = lastPeer' THEN 1 ELSE 0)
  BY TransportAssumption DEF SendToUdpWithout, Reached
<1> QED BY <1>1, TransportAssumption DEF Copies

LEMMA ToOneAddress ==
  ASSUME NEW frame, NEW address, SendToUdp(frame, address)
  PROVE  /\ \A p \in Peer : reach'[p] <= 1
         /\ address \in Peer => reach'[address] = 1
  BY DEF SendToUdp, Reached

LEMMA StepOneCopy == OneCopy /\ [DNext]_dvars => OneCopy'
<1> SUFFICES ASSUME OneCopy, [DNext]_dvars PROVE OneCopy'
  OBVIOUS
<1>1. ASSUME NEW from \in Peer, AnswerRequest(from) PROVE OneCopy'
  <2>1. SendToUdp(<<>>, from) /\ asker' = from
    BY <1>1 DEF AnswerRequest, SendToUdp
  <2> QED BY <1>1, <2>1, HeardOnce, ToOneAddress DEF AnswerRequest, OneCopy, AskersHearOnce
<1>2. ASSUME NEW from \in Peer, AnswerWhoIs(from) PROVE OneCopy'
  <2>1. PICK content \in {"I-Am", "I-Have", "network"} :
          SendToUdpWithout([bvlc |-> "broadcast", content |-> content])
    BY <1>2 DEF AnswerWhoIs
  <2>2. IsStackChosenBroadcast([bvlc |-> "broadcast", content |-> content])
    BY DEF IsStackChosenBroadcast
  <2>3. asker' = from /\ ReceiveFromUdp(from)
    BY <1>2 DEF AnswerWhoIs
  <2>4. lastPeer' \in (Peer \ OnOurPort) \cup {Nobody} /\ (from \notin OnOurPort => lastPeer' = from)
    BY <2>3, HeardOnce DEF OneCopy
  <2>5. (\A p \in Peer : reach'[p] <= 1) /\ reach'[from] = 1
    BY <2>1, <2>2, <2>4, OneCopyEach, TransportAssumption
  <2> QED BY <2>3, <2>4, <2>5 DEF OneCopy, AskersHearOnce
<1>3. CASE Notify
  <2>1. PICK frame \in Frame : SendToUdpWithout(frame)
    BY <1>3 DEF Notify
  <2>2. lastPeer' = lastPeer /\ asker' = Nobody
    BY <1>3 DEF Notify
  <2> QED BY <2>1, <2>2, OneCopyEach DEF OneCopy, AskersHearOnce
<1>4. CASE Broadcast
  BY <1>4, ToOneAddress DEF Broadcast, OneCopy, AskersHearOnce
<1>5. CASE UNCHANGED udp
  BY <1>5 DEF udp, OneCopy, AskersHearOnce
<1> QED BY <1>1, <1>2, <1>3, <1>4, <1>5, TransportSteps DEF Udp

\* Who asks on a UDP port is answered once, from ours or from another, and no
\* broadcast reaches anyone twice (ReceiveFromUdp, SendToUdp).
THEOREM HearOnce == DSpec => []AskersHearOnce
<1>1. DInit => OneCopy
  BY TransportAssumption DEF DInit, TransportInit, OneCopy, AskersHearOnce, ToNobody
<1>2. OneCopy => AskersHearOnce
  BY DEF OneCopy
<1> QED BY <1>1, <1>2, StepOneCopy, PTL DEF DSpec

-----------------------------------------------------------------------------
(* Answers by the interface the peer is behind *)

LEMMA SendersSteps ==
  [DNext]_dvars =>
    \/ \E address \in Sender, interface \in Interface : Receive(address, interface)
    \/ UNCHANGED <<senders, nextSender, cameBy, newest>>
<1> DEFINE kept == UNCHANGED <<senders, nextSender, cameBy, newest>>
           got  == \E address \in Sender, interface \in Interface : Receive(address, interface)
<1>1. Udp \/ Broadcast => kept
  BY DEF Udp, AnswerRequest, AnswerWhoIs, Notify, Broadcast, udp6
<1>2. \A asked : Connect(asked) => kept
  BY DEF Connect
<1>3. DOpen => kept
  BY <1>2 DEF DOpen, transport, udp6
<1>4. DSend => kept
  BY <1>1 DEF DSend, transport, udp6
<1>5. DTick => got \/ kept
  BY <1>1 DEF DTick, Quiet, Message, Udp6, transport, udp6
<1>6. DOther => kept
  BY DEF DOther, Quiet, transport, udp6
<1> QED BY <1>3, <1>4, <1>5, <1>6 DEF DNext, dvars, transport, udp6

\* The ring: a sender has one slot, with the interface it last came by, and the
\* one heard last is in it.
Ring ==
  /\ senders \in [Slot -> (Sender \X Interface) \cup {Free}]
  /\ nextSender \in Slot
  /\ cameBy \in [Sender -> Interface \cup {0}] /\ newest \in Sender \cup {Nobody}
  /\ \A s, t \in Slot : senders[s][1] = senders[t][1] /\ senders[s][1] # Nobody => s = t
  /\ \A s \in Slot : senders[s][1] # Nobody => senders[s][2] = cameBy[senders[s][1]]
  /\ newest \in Sender => Remembered(newest) # {}

LEMMA NextSlot == \A n \in Slot : (n + 1) % MaxRememberedSenders \in Slot
  BY TransportAssumption DEF Slot

LEMMA RingFinds == Ring => AnswersLeaveWhereTheyCame
<1> SUFFICES ASSUME Ring, NEW p \in Sender, p = newest \/ Remembered(p) # {}
             PROVE  InterfaceOf(p) = cameBy[p]
  BY DEF AnswersLeaveWhereTheyCame
<1>1. Remembered(p) # {}
  BY DEF Ring
<1>2. PICK s \in Slot : senders[s][1] = p
  BY <1>1 DEF Remembered
<1>3. p # Nobody
  BY TransportAssumption
<1>4. Remembered(p) = {s}
  BY <1>2, <1>3 DEF Remembered, Ring
<1>5. FirstSlot(p) = s
  BY <1>4 DEF FirstSlot, Slot
<1>6. senders[s][2] = cameBy[p]
  BY <1>2, <1>3 DEF Ring
<1> QED BY <1>1, <1>5, <1>6 DEF InterfaceOf

\* The slot that is written: the sender's own, or the next in turn.
LEMMA OneSlotIsWritten ==
  ASSUME Ring, NEW address \in Sender, NEW interface \in Interface, RememberSender(address, interface)
  PROVE  \E s \in Slot :
           /\ senders' = [senders EXCEPT ![s] = <<address, interface>>]
           /\ \A t \in Slot : senders[t][1] = address => t = s
           /\ nextSender' \in Slot
<1>1. address # Nobody
  BY TransportAssumption
<1>2. CASE Remembered(address) # {}
  <2>1. PICK s \in Slot : senders[s][1] = address
    BY <1>2 DEF Remembered
  <2>2. Remembered(address) = {s}
    BY <1>1, <2>1 DEF Remembered, Ring
  <2>3. FirstSlot(address) = s
    BY <2>2 DEF FirstSlot, Slot
  <2> QED BY <1>2, <2>2, <2>3 DEF RememberSender, Ring, Remembered
<1>3. CASE Remembered(address) = {}
  BY <1>3, NextSlot DEF RememberSender, Ring, Remembered
<1> QED BY <1>2, <1>3

LEMMA StepRing == Ring /\ [DNext]_dvars => Ring'
<1> SUFFICES ASSUME Ring, [DNext]_dvars PROVE Ring'
  OBVIOUS
<1>1. ASSUME NEW address \in Sender, NEW interface \in Interface, Receive(address, interface)
      PROVE  Ring'
  <2>1. PICK s \in Slot :
          /\ senders' = [senders EXCEPT ![s] = <<address, interface>>]
          /\ \A t \in Slot : senders[t][1] = address => t = s
          /\ nextSender' \in Slot
    BY <1>1, OneSlotIsWritten DEF Receive
  <2>2. cameBy' = [cameBy EXCEPT ![address] = interface] /\ newest' = address
    BY <1>1 DEF Receive
  <2>3. senders' \in [Slot -> (Sender \X Interface) \cup {Free}]
    BY <2>1 DEF Ring
  <2>4. cameBy' \in [Sender -> Interface \cup {0}]
    BY <2>2 DEF Ring
  <2>5. senders'[s] = <<address, interface>> /\ \A t \in Slot \ {s} : senders'[t] = senders[t] /\ senders[t][1] # address
    BY <2>1 DEF Ring
  <2>6. \A t \in Slot \ {s} : senders[t][1] # Nobody => senders[t][1] \in Sender
    BY DEF Ring, Free
  <2>7. \A t, u \in Slot : senders'[t][1] = senders'[u][1] /\ senders'[t][1] # Nobody => t = u
    BY <2>5 DEF Ring
  <2>8. \A t \in Slot : senders'[t][1] # Nobody => senders'[t][2] = cameBy'[senders'[t][1]]
    BY <2>2, <2>5, <2>6 DEF Ring
  <2>9. Remembered(newest)' # {}
    BY <2>2, <2>5 DEF Remembered
  <2> QED BY <2>1, <2>2, <2>3, <2>4, <2>7, <2>8, <2>9 DEF Ring
<1>2. CASE UNCHANGED <<senders, nextSender, cameBy, newest>>
  BY <1>2 DEF Ring, Remembered
<1> QED BY <1>1, <1>2, SendersSteps

\* A link-local peer that was heard last, or is still remembered, is answered by
\* the interface it came by (SimpleUDP6 RememberSender, InterfaceOf).
THEOREM LeaveWhereTheyCame == DSpec => []AnswersLeaveWhereTheyCame
<1>1. DInit => Ring
  <2> SUFFICES ASSUME DInit PROVE Ring
    OBVIOUS
  <2>1. /\ senders = [s \in Slot |-> Free] /\ nextSender = 0
        /\ cameBy = [p \in Sender |-> 0] /\ newest = Nobody
    BY DEF DInit, TransportInit
  <2>2. 0 \in Slot
    BY TransportAssumption DEF Slot
  <2>3. Nobody \notin Sender
    BY TransportAssumption
  <2> QED BY <2>1, <2>2, <2>3 DEF Ring, Free
<1> QED BY <1>1, RingFinds, StepRing, PTL DEF DSpec

-----------------------------------------------------------------------------
(* Activation *)

\* What is pending is what a client may write on this data link, nothing is written
\* before the data link is known, and what was refused is pending still.
PortWrites ==
  /\ written = [p \in Portable |-> written[p]]
  /\ step \in StartUp => \A p \in Portable : written[p] = -1
  /\ \A p \in Portable : written[p] # -1 => p \in Writes(link)
  /\ refused \subseteq Portable /\ OnlyIPv6SettingsAreRefused

LEMMA PortSteps ==
  ASSUME PortWrites, [DNext]_dvars
  PROVE  \/ UNCHANGED <<step, link, port>>
         \/ step \in StartUp /\ UNCHANGED port
         \/ step' \notin StartUp /\ link' = link /\ UNCHANGED port
         \/ /\ step' \notin StartUp /\ link' = link
            /\ WritePort(link) \/ DiscardChanges \/ Activate(link)
<1>1. DOpen => step \in StartUp /\ UNCHANGED port
  BY DEF DOpen, Open, services, StartUp
<1>2. DSend => \/ step \in StartUp /\ UNCHANGED port
               \/ step' \notin StartUp /\ link' = link /\ UNCHANGED port
  BY DEF DSend, Announce, Restart, GoOn, setup, line, services, StartUp
<1>3. DTick => step' \notin StartUp /\ link' = link
  BY DEF DTick, Tick, GoOn, setup, line, StartUp
<1>4. DTick => \/ UNCHANGED port
               \/ WritePort(link) \/ DiscardChanges \/ Activate(link)
  <2>1. Ivory => UNCHANGED port
    BY DEF Ivory, Write, SetArchive, StartSession, ReadChunk, RestoreChunk, EndRestore, Forget
  <2> QED BY <2>1 DEF DTick, Quiet, Message, services
<1>5. DOther => \/ step \in StartUp /\ UNCHANGED port
                \/ step' \notin StartUp /\ link' = link /\ UNCHANGED port
  <2>1. Load \/ ReadArgument \/ ParseEnds \/ PrepareCertificates \/ AddObjects => step \in StartUp
    BY DEF Load, ReadArgument, ParseEnds, PrepareCertificates, AddObjects, StartUp
  <2>2. LinkWork \/ Keys \/ Sleep => step' \notin StartUp /\ link' = link
    BY DEF LinkWork, Keys, Sleep, GoOn, Exit, setup, line, StartUp
  <2>3. DOther => UNCHANGED port
    BY DEF DOther, Quiet, services
  <2> QED BY <2>1, <2>2, <2>3 DEF DOther
<1>6. UNCHANGED dvars => UNCHANGED <<step, link, port>>
  BY DEF dvars, vars, setup, line, services
<1> QED BY <1>1, <1>2, <1>3, <1>4, <1>5, <1>6 DEF DNext

LEMMA StepPortWrites == PortWrites /\ [DNext]_dvars => PortWrites'
<1> SUFFICES ASSUME PortWrites, [DNext]_dvars PROVE PortWrites'
  OBVIOUS
<1>1. CASE UNCHANGED <<step, link, port>>
  BY <1>1 DEF PortWrites, OnlyIPv6SettingsAreRefused, port
<1>2. CASE step \in StartUp /\ UNCHANGED port
  <2>1. refused = {}
    BY <1>2 DEF PortWrites, OnlyIPv6SettingsAreRefused
  <2> QED
    BY <1>2, <2>1 DEF PortWrites, OnlyIPv6SettingsAreRefused, port
<1>3. CASE step' \notin StartUp /\ link' = link /\ UNCHANGED port
  BY <1>3 DEF PortWrites, OnlyIPv6SettingsAreRefused, port
<1>4. CASE step' \notin StartUp /\ link' = link /\ WritePort(link)
  <2>1. PICK p \in Writes(link) : \E value \in PortValues[p] : written' = [written EXCEPT ![p] = value]
    BY <1>4 DEF WritePort
  <2>2. PICK value \in PortValues[p] : written' = [written EXCEPT ![p] = value]
    BY <2>1
  <2>3. p \in Portable /\ value # -1
    BY <2>1, ServicesAssumption DEF Writes, Portable
  <2>4. \A q \in Portable : written'[q] = IF q = p THEN value ELSE written[q]
    BY <2>2 DEF PortWrites
  <2>5. written' = [q \in Portable |-> written'[q]]
    BY <2>2 DEF PortWrites
  <2> QED
    BY <1>4, <2>1, <2>3, <2>4, <2>5 DEF PortWrites, OnlyIPv6SettingsAreRefused, WritePort
<1>5. CASE step' \notin StartUp /\ link' = link /\ DiscardChanges
  BY <1>5 DEF PortWrites, OnlyIPv6SettingsAreRefused, DiscardChanges, NothingWritten
<1>6. CASE step' \notin StartUp /\ link' = link /\ Activate(link)
  <2> DEFINE set     == {p \in Portable : written[p] # -1}
             accepts == {p \in set : SetAccepts(link, p)}
  <2>1. PICK took \in SUBSET accepts :
          written' = [p \in Portable |-> IF p \in took THEN -1 ELSE written[p]] /\ refused' = set \ accepts
    BY <1>6 DEF Activate
  <2>2. \A p \in set \ accepts : p \in HeldOnIPv6 /\ link = "ipv6"
    BY DEF PortWrites, SetAccepts, Writes
  <2>3. \A p \in set \ accepts : written'[p] # -1
    BY <2>1
  <2>4. \A p \in Portable : written'[p] # -1 => written[p] # -1
    BY <2>1
  <2>5. written' = [p \in Portable |-> written'[p]]
    BY <2>1
  <2>6. refused' \subseteq Portable
    BY <2>1
  <2>7. OnlyIPv6SettingsAreRefused'
    BY <1>6, <2>1, <2>2, <2>3 DEF OnlyIPv6SettingsAreRefused
  <2> QED
    BY <1>6, <2>4, <2>5, <2>6, <2>7 DEF PortWrites
<1> QED BY <1>1, <1>2, <1>3, <1>4, <1>5, <1>6, PortSteps

\* The set callbacks refuse nothing a client may have written on MS/TP, BACnet/IP or
\* BACnet/SC; over BACnet/IPv6 they refuse only what that port alone has, and that
\* stays pending.
THEOREM OnlyIPv6Refuses == DSpec => []OnlyIPv6SettingsAreRefused
<1>1. DInit => PortWrites
  BY DEF DInit, Init, ServicesInit, PortWrites, OnlyIPv6SettingsAreRefused, NothingWritten
<1>2. PortWrites => OnlyIPv6SettingsAreRefused
  BY DEF PortWrites
<1> QED BY <1>1, <1>2, StepPortWrites, PTL DEF DSpec

-----------------------------------------------------------------------------
(* Ivory *)

\* Arithmetic in 32 bits.
LEMMA Unsigned ==
  /\ \A n \in Int : n % Wrap \in 0 .. Wrap - 1
  /\ \A n \in 0 .. Wrap - 1 : n % Wrap = n
PROOF BY ServicesAssumption

LEMMA ChunkIsASequence == \A data \in Chunk : data \in Seq(Octet) /\ Len(data) \in 1 .. 2
PROOF
<1> SUFFICES ASSUME NEW data \in Chunk PROVE data \in Seq(Octet) /\ Len(data) \in 1 .. 2
  OBVIOUS
<1>1. PICK n \in 1 .. 2 : data \in [1 .. n -> Octet]
  BY DEF Chunk
<1> QED
  BY <1>1

FileTyped == fileData \in [Place -> Octet] /\ fileLength \in 0 .. FileMaxSize

\* A write, wrapped or not, leaves alone what it does not touch and never shortens
\* the file.
LEMMA WriteEffect ==
  ASSUME FileTyped, NEW start \in Int, NEW data \in Chunk, WriteFile(start, data)
  PROVE  /\ FileTyped' /\ fileLength' >= fileLength
         /\ \A i \in Place : i \notin Touches(start, data) /\ i <= fileLength' => i <= fileLength /\ fileData'[i] = fileData[i]
PROOF
<1>1. From(start) \in Nat /\ Len(data) \in Nat /\ data \in Seq(Octet)
  BY Unsigned, ChunkIsASequence, ServicesAssumption DEF From, FileTyped
<1>2. End(start, data) \in 0 .. FileMaxSize
  <2>1. From(start) + Len(data) \in Int
    BY <1>1
  <2>2. End(start, data) \in 0 .. Wrap - 1
    BY <2>1, Unsigned DEF End
  <2> QED
    BY <2>2, ServicesAssumption DEF WriteFile, Fits
<1>3. fileLength' \in 0 .. FileMaxSize /\ fileLength' >= fileLength
  BY <1>2, ServicesAssumption DEF WriteFile, NewLength, Larger, FileTyped
<1>4. /\ fileData' \in [Place -> Octet]
      /\ \A i \in Place : i \notin Touches(start, data) => fileData'[i] = fileData[i]
  <2>1. CASE Target(start, data) \subseteq Place
    <3>1. fileData' = [i \in Place |-> IF i \in Target(start, data) THEN data[i - From(start)] ELSE fileData[i]]
      BY <2>1 DEF WriteFile
    <3>2. \A i \in Target(start, data) : data[i - From(start)] \in Octet
      <4> SUFFICES ASSUME NEW i \in Target(start, data) PROVE data[i - From(start)] \in Octet
        OBVIOUS
      <4>1. i - From(start) \in 1 .. Len(data)
        BY <1>1 DEF Target
      <4> QED
        BY <1>1, <4>1
    <3>3. fileData' \in [Place -> Octet]
      BY <3>1, <3>2 DEF FileTyped
    <3>4. Target(start, data) \subseteq Touches(start, data)
      BY <2>1 DEF Touches
    <3> QED
      BY <3>1, <3>3, <3>4
  <2>2. CASE ~(Target(start, data) \subseteq Place)
    <3>1. fileData' \in [Place -> Octet] /\ Place \subseteq Touches(start, data)
      BY <2>2 DEF WriteFile, Touches
    <3> QED
      BY <3>1
  <2> QED
    BY <2>1, <2>2
<1>5. \A i \in Place : i \notin Touches(start, data) /\ i <= fileLength' => i <= fileLength
  <2>1. fileLength + 1 .. fileLength' \subseteq Touches(start, data)
    BY DEF Touches
  <2> QED
    BY <1>3, <2>1 DEF Place, FileTyped
<1> QED
  BY <1>3, <1>4, <1>5 DEF FileTyped

\* A session puts its own octets where it means to: no sum wraps.
LEMMA RestoreEffect ==
  ASSUME FileTyped, NEW start \in 0 .. FileMaxSize, NEW data \in Chunk, WriteFile(start, data)
  PROVE  /\ start + Len(data) <= fileLength' /\ start + Len(data) <= FileMaxSize
         /\ \A i \in 1 .. start : fileData'[i] = fileData[i]
         /\ \A i \in start + 1 .. start + Len(data) : fileData'[i] = data[i - start]
PROOF
<1>1. Len(data) \in 1 .. 2
  BY ChunkIsASequence
<1>2. start \in 0 .. Wrap - 1 /\ start + Len(data) \in 0 .. Wrap - 1 /\ start # -1
  <2>1. FileMaxSize \in Nat /\ Wrap \in Nat /\ Wrap > FileMaxSize + 2
    BY ServicesAssumption
  <2>2. start \in 0 .. Wrap - 1
    BY <2>1
  <2>3. \A n \in 1 .. 2 : start + n \in 0 .. Wrap - 1
    BY <2>1
  <2>4. start # -1
    BY <2>1
  <2> QED
    BY <1>1, <2>2, <2>3, <2>4
<1>3. From(start) = start /\ End(start, data) = start + Len(data)
  BY <1>2, Unsigned DEF From, End
<1>4. start + Len(data) <= FileMaxSize
  BY <1>3 DEF WriteFile, Fits
<1>5. start + Len(data) <= fileLength'
  BY <1>2, <1>3 DEF WriteFile, NewLength, Larger, FileTyped
<1>6. Target(start, data) = start + 1 .. start + Len(data) /\ Target(start, data) \subseteq Place
  BY <1>1, <1>3, <1>4, ServicesAssumption DEF Target, Place
<1>7. fileData' = [i \in Place |-> IF i \in start + 1 .. start + Len(data) THEN data[i - start] ELSE fileData[i]]
  BY <1>3, <1>6 DEF WriteFile
<1>8. /\ \A i \in 1 .. start : i \in Place /\ i \notin start + 1 .. start + Len(data)
      /\ \A i \in start + 1 .. start + Len(data) : i \in Place
  BY <1>1, <1>4, ServicesAssumption DEF Place
<1> QED
  BY <1>4, <1>5, <1>7, <1>8

\* What a session has covered is the file's until another client touches it.
Alike == FileTyped /\ session \in Sessions(Seq(Octet)) /\ FileRoundTrips

\* What a step of the program does to Ivory.
LEMMA IvorySteps == [DNext]_dvars => Ivory \/ UNCHANGED <<fileData, fileLength, session>>
PROOF
<1>1. WritePort(link) \/ DiscardChanges \/ Activate(link) => UNCHANGED <<fileData, fileLength, session>>
  BY DEF WritePort, DiscardChanges, Activate, ivory
<1>2. DTick => Ivory \/ UNCHANGED <<fileData, fileLength, session>>
  BY <1>1 DEF DTick, Quiet, Message, services, ivory
<1>3. DOpen \/ DSend \/ DOther => UNCHANGED <<fileData, fileLength, session>>
  BY DEF DOpen, DSend, DOther, Quiet, services, ivory
<1> QED
  BY <1>2, <1>3 DEF DNext, dvars, services, ivory

\* Another client's write touches all that it changes of what the session covers.
LEMMA WriteAlike == ASSUME Alike, Write PROVE Alike'
PROOF
<1>1. PICK start \in FileStart, data \in Chunk :
        /\ WriteFile(start, data)
        /\ session' = [session EXCEPT !.touched = @ \cup (Touches(start, data) \cap Covered)]
  BY DEF Write
<1>2. start \in Int
  BY DEF FileStart
<1>3. FileTyped /\ session.data \in Seq(Octet) /\ Len(session.data) \in Nat /\ Len(session.data) <= fileLength
  BY DEF Alike, FileRoundTrips, Sessions
<1>4. /\ FileTyped' /\ fileLength' >= fileLength
      /\ \A i \in Place : i \notin Touches(start, data) /\ i <= fileLength' => i <= fileLength /\ fileData'[i] = fileData[i]
  BY <1>1, <1>2, <1>3, WriteEffect
<1>5. Covered \subseteq Place /\ 1 .. Len(session.data) \subseteq Covered
  BY <1>3, ServicesAssumption DEF Covered, Place, FileTyped
<1> DEFINE touched == session.touched \cup (Touches(start, data) \cap Covered)
<1>6. /\ session' \in Sessions(Seq(Octet)) /\ session'.touched = touched
      /\ session'.kind = session.kind /\ session'.data = session.data /\ session'.ended = session.ended
  BY <1>1, <1>5 DEF Alike, Sessions
<1>7. fileLength \in Nat /\ fileLength' \in Nat /\ fileLength' <= FileMaxSize /\ fileLength' >= fileLength
  BY <1>3, <1>4, ServicesAssumption DEF FileTyped
<1>8. ASSUME NEW i \in 1 .. Len(session.data), i \notin touched
      PROVE  session.data[i] = fileData'[i]
  <2>1. i \in Place /\ i <= fileLength' /\ i \notin Touches(start, data) /\ i \notin session.touched
    BY <1>3, <1>5, <1>7, <1>8
  <2>2. fileData'[i] = fileData[i]
    BY <1>4, <2>1
  <2> QED
    BY <2>1, <2>2 DEF Alike, FileRoundTrips
<1>9. ASSUME session.kind = "backup", session.ended, NEW i \in 1 .. fileLength', i \notin touched
      PROVE  i <= Len(session.data)
  <2>a. i \in Place /\ Covered = Place
    BY <1>7, <1>9, ServicesAssumption DEF Place, Covered
  <2>1. i \in Place /\ i \notin Touches(start, data) /\ i \notin session.touched
    BY <1>9, <2>a
  <2>2. i \in 1 .. fileLength
    BY <1>4, <1>7, <2>1
  <2> QED
    BY <1>9, <2>1, <2>2 DEF Alike, FileRoundTrips
<1>10. Len(session.data) <= fileLength'
  BY <1>3, <1>7
<1> HIDE DEF touched
<1>11. FileRoundTrips'
  BY <1>6, <1>8, <1>9, <1>10 DEF FileRoundTrips
<1> QED
  BY <1>4, <1>6, <1>11 DEF Alike

LEMMA FreshAlike ==
  ASSUME FileTyped, FileTyped', session'.kind = "restore" \/ ~session'.ended, session'.data = <<>>,
         session' \in Sessions(Seq(Octet))
  PROVE  Alike'
PROOF
<1>1. Len(<<>>) = 0
  OBVIOUS
<1>2. fileLength' \in Nat
  BY ServicesAssumption DEF FileTyped
<1>3. Len(session'.data) <= fileLength' /\ 1 .. Len(session'.data) = {}
  BY <1>1, <1>2
<1> QED
  BY <1>3 DEF Alike, FileRoundTrips

\* A chunk is what follows in the file, and the last one reaches its end.
LEMMA ReadAlike == ASSUME Alike, ReadChunk PROVE Alike'
PROOF
<1> DEFINE start == Len(session.data)
<1>1. PICK count \in 1 .. 2 :
        session' = [session EXCEPT !.data = @ \o ReadFile(start, count), !.ended = EndOfFile(start, count)]
  BY DEF ReadChunk
<1> DEFINE n == Smaller(count, Larger(fileLength - start, 0))
           chunk == ReadFile(start, count)
           all == session.data \o chunk
<1>2. session.kind = "backup" /\ ~session.ended /\ fileData' = fileData /\ fileLength' = fileLength
  BY DEF ReadChunk
<1>3. /\ FileTyped /\ session.data \in Seq(Octet) /\ start \in Nat /\ start <= fileLength
      /\ fileLength \in Nat /\ fileLength <= FileMaxSize
  BY ServicesAssumption DEF Alike, FileRoundTrips, Sessions, FileTyped
<1>4. n \in Nat /\ start + n <= fileLength /\ (EndOfFile(start, count) => start + n = fileLength)
  <2>0. fileLength - start \in Nat
    BY <1>3
  <2>1. fileLength - start \in Nat /\ Larger(fileLength - start, 0) = fileLength - start
    BY <2>0 DEF Larger
  <2>2. n = Smaller(count, fileLength - start)
    BY <2>1
  <2> HIDE DEF n, start
  <2>3. n \in Nat /\ n <= fileLength - start /\ (start + count >= fileLength => n = fileLength - start)
    BY <1>3, <2>1, <2>2 DEF Smaller
  <2>4. EndOfFile(start, count) => start + count >= fileLength
    BY <1>3 DEF EndOfFile
  <2> QED
    BY <1>3, <2>3, <2>4
<1>5. chunk = [i \in 1 .. n |-> fileData[start + i]]
  BY DEF ReadFile
<1> HIDE DEF n, chunk
<1>6. \A i \in 1 .. n : fileData[start + i] \in Octet
  <2>1. \A i \in 1 .. n : start + i \in Place
    BY <1>3, <1>4, ServicesAssumption DEF Place
  <2> QED
    BY <1>3, <2>1 DEF FileTyped
<1>7. chunk \in Seq(Octet) /\ Len(chunk) = n /\ \A i \in 1 .. n : chunk[i] = fileData[start + i]
  BY <1>4, <1>5, <1>6
<1> HIDE DEF start
<1>8. /\ all \in Seq(Octet) /\ Len(all) = start + n
      /\ \A i \in 1 .. start + n : all[i] = IF i <= start THEN session.data[i] ELSE fileData[i]
  <2>1. /\ all \in Seq(Octet) /\ Len(all) = Len(session.data) + Len(chunk)
        /\ \A i \in 1 .. Len(session.data) + Len(chunk) :
             all[i] = IF i <= Len(session.data) THEN session.data[i] ELSE chunk[i - Len(session.data)]
    <3>1. session.data \in Seq(Octet) /\ chunk \in Seq(Octet)
      BY <1>3, <1>7
    <3> QED
      BY <3>1, ConcatProperties, Zenon
  <2> QED
    BY <1>3, <1>4, <1>7, <2>1 DEF start
<1>9. session' = [session EXCEPT !.data = all, !.ended = EndOfFile(start, count)]
  BY <1>1 DEF start, chunk
<1> HIDE DEF all
<1>10. EndOfFile(start, count) \in BOOLEAN
  BY DEF EndOfFile
<1>11. /\ session' \in Sessions(Seq(Octet)) /\ session'.data = all /\ session'.touched = session.touched
       /\ session'.kind = session.kind /\ session'.ended = EndOfFile(start, count)
  BY <1>8, <1>9, <1>10 DEF Alike, Sessions
<1>12. \A i \in 1 .. start + n : i \notin session.touched => all[i] = fileData[i]
  <2>1. \A i \in 1 .. start : i \notin session.touched => session.data[i] = fileData[i]
    BY DEF Alike, FileRoundTrips, start
  <2> QED
    BY <1>3, <1>4, <1>8, <2>1
<1>13. FileRoundTrips'
  BY <1>2, <1>3, <1>4, <1>8, <1>11, <1>12 DEF FileRoundTrips
<1> QED
  BY <1>2, <1>3, <1>11, <1>13 DEF Alike, FileTyped

\* What is restored is put where the last chunk ended.
LEMMA RestoreAlike == ASSUME Alike, RestoreChunk PROVE Alike'
PROOF
<1> DEFINE start == Len(session.data)
<1>1. PICK data \in Chunk : WriteFile(start, data) /\ session' = [session EXCEPT !.data = @ \o data]
  BY DEF RestoreChunk
<1> DEFINE all == session.data \o data
<1>2. session.kind = "restore" /\ ~session.ended
  BY DEF RestoreChunk
<1>3. /\ FileTyped /\ session.data \in Seq(Octet) /\ start \in 0 .. FileMaxSize /\ start <= fileLength
  BY ServicesAssumption DEF Alike, FileRoundTrips, Sessions, FileTyped
<1>4. data \in Seq(Octet) /\ Len(data) \in Nat
  BY ChunkIsASequence
<1>5. FileTyped'
  <2>1. start \in Int
    BY <1>3
  <2> HIDE DEF start
  <2> QED
    BY <1>1, <1>3, <2>1, WriteEffect
<1>6. /\ start + Len(data) <= fileLength'
      /\ \A i \in 1 .. start : fileData'[i] = fileData[i]
      /\ \A i \in start + 1 .. start + Len(data) : fileData'[i] = data[i - start]
  BY <1>1, <1>3, RestoreEffect
<1>7. /\ all \in Seq(Octet) /\ Len(all) = start + Len(data)
      /\ \A i \in 1 .. start + Len(data) : all[i] = IF i <= start THEN session.data[i] ELSE data[i - start]
  BY <1>3, <1>4, ConcatProperties
<1>8. session' = [session EXCEPT !.data = all]
  BY <1>1
<1> HIDE DEF all
<1>9. /\ session' \in Sessions(Seq(Octet)) /\ session'.data = all /\ session'.touched = session.touched
      /\ session'.kind = "restore"
  BY <1>2, <1>7, <1>8 DEF Alike, Sessions
<1>10. \A i \in 1 .. start : i \notin session.touched => session.data[i] = fileData[i]
  BY DEF Alike, FileRoundTrips
<1> HIDE DEF start
<1>11. \A i \in 1 .. start + Len(data) : i \notin session.touched => all[i] = fileData'[i]
  <2> SUFFICES ASSUME NEW i \in 1 .. start + Len(data), i \notin session.touched PROVE all[i] = fileData'[i]
    OBVIOUS
  <2>1. CASE i <= start
    BY <1>3, <1>6, <1>7, <1>10, <2>1
  <2>2. CASE ~(i <= start)
    <3>1. i \in start + 1 .. start + Len(data)
      BY <1>3, <1>4, <2>2
    <3> QED
      BY <1>6, <1>7, <2>2, <3>1
  <2> QED
    BY <2>1, <2>2
<1>12. FileRoundTrips'
  BY <1>6, <1>7, <1>9, <1>11 DEF FileRoundTrips
<1> QED
  BY <1>5, <1>9, <1>12 DEF Alike

LEMMA StepAlike == Alike /\ [DNext]_dvars => Alike'
PROOF
<1> SUFFICES ASSUME Alike, [DNext]_dvars PROVE Alike'
  OBVIOUS
<1>1. CASE SetArchive
  BY <1>1 DEF SetArchive, Alike, FileTyped, FileRoundTrips
<1>2. CASE EndRestore
  BY <1>2 DEF EndRestore, Alike, FileTyped, FileRoundTrips, Sessions
<1>3. CASE StartSession \/ Forget
  <2>1. FileTyped /\ FileTyped'
    BY <1>3 DEF StartSession, Forget, Alike, FileTyped
  <2>2. \E kind \in {"none", "backup", "restore"} :
          session' = [kind |-> kind, data |-> <<>>, touched |-> {}, ended |-> FALSE]
    BY <1>3 DEF StartSession, Forget, NoSession
  <2>3. <<>> \in Seq(Octet)
    OBVIOUS
  <2>4. session' \in Sessions(Seq(Octet)) /\ session'.data = <<>> /\ ~session'.ended
    BY <2>2, <2>3 DEF Sessions
  <2> QED
    BY <2>1, <2>4, FreshAlike
<1>4. CASE UNCHANGED <<fileData, fileLength, session>>
  BY <1>4 DEF Alike, FileTyped, FileRoundTrips
<1> QED
  BY <1>1, <1>2, <1>3, <1>4, IvorySteps, WriteAlike, ReadAlike, RestoreAlike DEF Ivory

LEMMA InitAlike == DInit => Alike
PROOF
<1> SUFFICES ASSUME DInit PROVE Alike
  OBVIOUS
<1>1. /\ fileData = [i \in Place |-> 0] /\ fileLength = 0
      /\ session = [kind |-> "none", data |-> <<>>, touched |-> {}, ended |-> FALSE]
  BY DEF DInit, ServicesInit, NoSession
<1>2. Len(<<>>) = 0 /\ <<>> \in Seq(Octet)
  OBVIOUS
<1>3. session \in Sessions(Seq(Octet)) /\ FileRoundTrips
  BY <1>1, <1>2 DEF Sessions, FileRoundTrips
<1> QED
  BY <1>1, <1>3, ServicesAssumption DEF Alike, FileTyped

\* Each octet a backup of Ivory has read or a restore has written is the file's at
\* its place until another client writes that place (ReadFile, WriteFile), for files
\* of any size, however the chunks fall and whatever start another client names.
THEOREM RoundTrips == DSpec => []FileRoundTrips
PROOF
<1>1. Alike => FileRoundTrips
  BY DEF Alike
<1> QED
  BY <1>1, InitAlike, StepAlike, PTL DEF DSpec

\* The Network Port holds what the stack let through, and main.cpp clamps it.
PortTyped ==
  /\ \A p \in Portable : written[p] \in PortValues[p] \cup {-1}
  /\ mstpPort \in [maxMaster : 0 .. 127, maxInfoFrames : 1 .. 255] /\ refused \subseteq Portable

LEMMA ClampBounds ==
  \A value \in Nat : Clamp(0, value, 127) \in 0 .. 127 /\ Clamp(1, value, 255) \in 1 .. 255
PROOF BY DEF Clamp

LEMMA ActivateTyped == ASSUME PortTyped, Activate(link) PROVE PortTyped'
PROOF
<1> DEFINE set     == {p \in Portable : written[p] # -1}
           accepts == {p \in set : SetAccepts(link, p)}
<1>1. PICK took \in SUBSET accepts :
        /\ written' = [p \in Portable |-> IF p \in took THEN -1 ELSE written[p]]
        /\ mstpPort' =
             [maxMaster     |-> IF link = "mstp" /\ "Max_Master" \in took
                                  THEN Clamp(0, written["Max_Master"], 127) ELSE mstpPort.maxMaster,
              maxInfoFrames |-> IF link = "mstp" /\ "Max_Info_Frames" \in took
                                  THEN Clamp(1, written["Max_Info_Frames"], 255) ELSE mstpPort.maxInfoFrames]
        /\ refused' = set \ accepts
  BY DEF Activate
<1>2. \A p \in took : written[p] \in Nat
  BY ServicesAssumption DEF PortTyped, Portable
<1>a. set \ accepts \subseteq Portable
  OBVIOUS
<1> HIDE DEF accepts, set
<1>3. /\ "Max_Master" \in took => Clamp(0, written["Max_Master"], 127) \in 0 .. 127
      /\ "Max_Info_Frames" \in took => Clamp(1, written["Max_Info_Frames"], 255) \in 1 .. 255
  BY <1>2, ClampBounds
<1> QED
  BY <1>1, <1>3, <1>a DEF PortTyped

LEMMA StepPortTyped == PortTyped /\ [DNext]_dvars => PortTyped'
PROOF
<1> SUFFICES ASSUME PortTyped, [DNext]_dvars PROVE PortTyped'
  OBVIOUS
<1>1. WritePort(link) \/ DiscardChanges \/ Activate(link) \/ UNCHANGED port
  <2>1. Ivory => UNCHANGED port
    BY DEF Ivory, Write, SetArchive, StartSession, ReadChunk, RestoreChunk, EndRestore, Forget
  <2>2. DTick => WritePort(link) \/ DiscardChanges \/ Activate(link) \/ UNCHANGED port
    BY <2>1 DEF DTick, Quiet, Message, services
  <2>3. DOpen \/ DSend \/ DOther => UNCHANGED port
    BY DEF DOpen, DSend, DOther, Quiet, services
  <2> QED
    BY <2>2, <2>3 DEF DNext, dvars, services
<1>2. CASE WritePort(link)
  <2>1. PICK p \in Writes(link) : \E value \in PortValues[p] : written' = [written EXCEPT ![p] = value]
    BY <1>2 DEF WritePort
  <2> QED
    BY <1>2, <2>1 DEF WritePort, PortTyped, Writes
<1>3. CASE DiscardChanges
  BY <1>3 DEF DiscardChanges, PortTyped, NothingWritten
<1>4. CASE Activate(link)
  BY <1>4, ActivateTyped
<1>5. CASE UNCHANGED port
  BY <1>5 DEF PortTyped, port
<1> QED
  BY <1>1, <1>2, <1>3, <1>4, <1>5

ArchiveTyped == archive \in BOOLEAN

LEMMA StepArchive == ArchiveTyped /\ [DNext]_dvars => ArchiveTyped'
PROOF
<1> SUFFICES ASSUME archive \in BOOLEAN, [DNext]_dvars PROVE archive' \in BOOLEAN
  BY DEF ArchiveTyped
<1>1. Ivory => archive' \in BOOLEAN
  BY DEF Ivory, Write, SetArchive, StartSession, ReadChunk, RestoreChunk, EndRestore, Forget
<1>2. WritePort(link) \/ DiscardChanges \/ Activate(link) => UNCHANGED archive
  BY DEF WritePort, DiscardChanges, Activate, ivory
<1>3. DTick => archive' \in BOOLEAN
  BY <1>1, <1>2 DEF DTick, Quiet, Message, services, ivory
<1>4. DOpen \/ DSend \/ DOther => UNCHANGED archive
  BY DEF DOpen, DSend, DOther, Quiet, services, ivory
<1> QED
  BY <1>3, <1>4 DEF DNext, dvars, services, ivory

\* Ivory's length never passes FILE_MAX_SIZE (WriteFile's check, for every start: an
\* append, a gap, or one whose sum wraps), and what MS/TP is given stays in its range.
THEOREM ServicesTyped == DSpec => []ServicesTypeOK
PROOF
<1>1. DInit => PortTyped /\ ArchiveTyped
  <2> SUFFICES ASSUME DInit PROVE PortTyped /\ ArchiveTyped
    OBVIOUS
  <2>1. /\ written = [p \in Portable |-> -1] /\ refused = {} /\ archive = FALSE
        /\ mstpPort = [maxMaster |-> 127, maxInfoFrames |-> 1]
    BY DEF DInit, ServicesInit, NothingWritten
  <2>2. mstpPort \in [maxMaster : 0 .. 127, maxInfoFrames : 1 .. 255]
    BY <2>1
  <2> QED
    BY <2>1, <2>2 DEF PortTyped, ArchiveTyped
<1>2. Alike /\ PortTyped /\ ArchiveTyped => ServicesTypeOK
  <2> SUFFICES ASSUME Alike, PortTyped, ArchiveTyped PROVE ServicesTypeOK
    OBVIOUS
  <2> DEFINE Contents == UNION {[1 .. n -> Octet] : n \in 0 .. FileMaxSize}
  <2>1. session.data \in Contents
    <3>1. /\ session.data \in Seq(Octet) /\ Len(session.data) \in Nat
          /\ Len(session.data) <= fileLength /\ fileLength \in 0 .. FileMaxSize
      BY DEF Alike, Sessions, FileTyped, FileRoundTrips
    <3>2. Len(session.data) \in 0 .. FileMaxSize /\ session.data \in [1 .. Len(session.data) -> Octet]
      BY <3>1, LenProperties, ServicesAssumption
    <3> QED
      BY <3>2
  <2> HIDE DEF Contents
  <2>2. session \in Sessions(Contents)
    BY <2>1 DEF Alike, Sessions
  <2> QED
    BY <2>2 DEF ServicesTypeOK, Alike, FileTyped, PortTyped, ArchiveTyped, Contents
<1> QED
  BY <1>1, <1>2, InitAlike, StepAlike, StepPortTyped, StepArchive, PTL DEF DSpec

-----------------------------------------------------------------------------
(* The types of the whole program *)

\* What the ring does not say of the UDP data links: a frame reaches a peer at
\* most twice, and no more interfaces are joined than there are.
UdpTyped ==
  /\ lastPeer \in Peer \cup {Nobody} /\ asker \in Peer \cup {Nobody} /\ reach \in [Peer -> 0 .. 2]
  /\ joined \in Seq(Interface) /\ Len(joined) <= Cardinality(Interface)

LEMMA JoinedSteps ==
  [DNext]_dvars => (\E asked \in Interface \cup {0} : Connect(asked)) \/ UNCHANGED joined
<1> DEFINE joins == \E asked \in Interface \cup {0} : Connect(asked)
<1>1. Udp \/ Udp6 \/ Broadcast => UNCHANGED joined
  BY DEF Udp, Udp6, Receive, AnswerRequest, AnswerWhoIs, Notify, Broadcast, udp6
<1>2. DOpen => joins \/ UNCHANGED joined
  BY DEF DOpen, transport, udp6
<1>3. DSend \/ DTick \/ DOther => UNCHANGED joined
  BY <1>1 DEF DSend, DTick, DOther, Quiet, Message, transport, udp6
<1> QED BY <1>2, <1>3 DEF DNext, dvars, transport, udp6

\* An interface is joined once, so that there are as many at most as the host has.
LEMMA JoinedTyped ==
  ASSUME NEW asked \in Interface \cup {0}, Connect(asked)
  PROVE  joined' \in Seq(Interface) /\ Len(joined') <= Cardinality(Interface)
<1> DEFINE candidates == IF asked = 0 THEN Interface ELSE {asked}
<1>1. candidates \subseteq Interface
  OBVIOUS
<1>2. Cardinality(candidates) \in Nat /\ Cardinality(Interface) \in Nat /\ Cardinality(candidates) <= Cardinality(Interface)
  BY <1>1, TransportAssumption, FS_Subset, FS_CardinalityType
<1>3. joined' \in UNION {[1 .. n -> candidates] : n \in 0 .. Cardinality(candidates)}
  BY DEF Connect
<1> HIDE DEF candidates
<1>4. PICK n \in 0 .. Cardinality(candidates) : joined' \in [1 .. n -> candidates]
  BY <1>3
<1>5. n \in Nat /\ n <= Cardinality(Interface)
  BY <1>2
<1>6. joined' \in [1 .. n -> Interface]
  BY <1>1, <1>4
<1> QED BY <1>5, <1>6

LEMMA ReachTyped == ASSUME NEW destination PROVE Reached(destination) \in [Peer -> 0 .. 1]
  BY DEF Reached

LEMMA CopyTyped == ASSUME NEW frame, SendToUdpWithout(frame) PROVE reach' \in [Peer -> 0 .. 2]
<1>1. \A p \in Peer : Reached(Everyone)[p] \in 0 .. 1
  BY ReachTyped
<1>2. \A p \in Peer : Reached(Everyone)[p] + (IF Copies(frame) /\ p = lastPeer' THEN 1 ELSE 0) \in 0 .. 2
  BY <1>1
<1>3. reach' = [p \in Peer |-> Reached(Everyone)[p] + (IF Copies(frame) /\ p = lastPeer' THEN 1 ELSE 0)]
  BY DEF SendToUdpWithout
<1> QED BY <1>2, <1>3

LEMMA StepUdpTyped == UdpTyped /\ [DNext]_dvars => UdpTyped'
<1> SUFFICES ASSUME UdpTyped, [DNext]_dvars PROVE UdpTyped'
  OBVIOUS
<1>1. joined' \in Seq(Interface) /\ Len(joined') <= Cardinality(Interface)
  BY JoinedSteps, JoinedTyped DEF UdpTyped
<1>2. CASE UNCHANGED udp
  BY <1>1, <1>2 DEF UdpTyped, udp
<1>3. CASE \E from \in Peer : AnswerRequest(from)
  <2>1. PICK from \in Peer : AnswerRequest(from)
    BY <1>3
  <2>2. reach' \in [Peer -> 0 .. 2]
    BY <2>1, ReachTyped DEF AnswerRequest
  <2> QED BY <1>1, <2>1, <2>2 DEF UdpTyped, AnswerRequest, ReceiveFromUdp
<1>4. CASE \E from \in Peer : AnswerWhoIs(from)
  <2>1. PICK from \in Peer : AnswerWhoIs(from)
    BY <1>4
  <2>2. reach' \in [Peer -> 0 .. 2]
    BY <2>1, CopyTyped DEF AnswerWhoIs
  <2> QED BY <1>1, <2>1, <2>2 DEF UdpTyped, AnswerWhoIs, ReceiveFromUdp
<1>5. CASE Notify
  <2>1. reach' \in [Peer -> 0 .. 2]
    BY <1>5, CopyTyped DEF Notify
  <2> QED BY <1>1, <1>5, <2>1 DEF UdpTyped, Notify
<1>6. CASE Broadcast
  <2>1. reach' \in [Peer -> 0 .. 2]
    BY <1>6, ReachTyped DEF Broadcast, SendToUdp
  <2> QED BY <1>1, <1>6, <2>1 DEF UdpTyped, Broadcast
<1> QED BY <1>2, <1>3, <1>4, <1>5, <1>6, TransportSteps DEF Udp

\* The whole program keeps its types: main() on every command line, the last peer
\* and the interfaces of the UDP data links, the ring of senders and its next slot
\* (SimpleUDP6), the services' state.
THEOREM DeviceTypes == DSpec => []DTypeOK
<1>1. DInit => Ring /\ UdpTyped
  <2> SUFFICES ASSUME DInit PROVE Ring /\ UdpTyped
    OBVIOUS
  <2>1. /\ lastPeer = Nobody /\ asker = Nobody /\ reach = [p \in Peer |-> 0] /\ joined = <<>>
        /\ senders = [s \in Slot |-> Free] /\ nextSender = 0
        /\ cameBy = [p \in Sender |-> 0] /\ newest = Nobody
    BY DEF DInit, TransportInit, ToNobody
  <2>2. 0 \in Slot /\ Nobody \notin Sender
    BY TransportAssumption DEF Slot
  <2>3. <<>> \in Seq(Interface) /\ Len(<<>>) <= Cardinality(Interface)
    BY TransportAssumption, EmptySeq, FS_CardinalityType
  <2>4. Ring
    BY <2>1, <2>2 DEF Ring, Free
  <2> QED BY <2>1, <2>3, <2>4 DEF UdpTyped
<1>2. Ring /\ UdpTyped => TransportTypeOK
  BY DEF Ring, UdpTyped, TransportTypeOK
<1>3. DSpec => []TransportTypeOK
  BY <1>1, <1>2, StepRing, StepUdpTyped, PTL DEF DSpec
<1>4. DSpec => []TypeOK
  BY ImplementsMainLoop, MainLoopTypes, PTL
<1>5. TypeOK /\ TransportTypeOK /\ ServicesTypeOK => DTypeOK
  BY DEF DTypeOK
<1> QED BY <1>3, <1>4, <1>5, ServicesTyped, PTL
=============================================================================
