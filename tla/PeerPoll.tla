------------------------------ MODULE PeerPoll ------------------------------
(***************************************************************************)
(* The controller's read of one remote sensor (main.cpp section 2e): the   *)
(* peer's Analog Input 1 is polled and copied into Analog Value 1          *)
(* "Diamond", whose Reliability tells a client whether the copy is         *)
(* current.  One thread runs the loop                                      *)
(*                                                                         *)
(*      BACnetStack_Tick -> PollPeer -> RestartDue -> sleep                *)
(*                                                                         *)
(* and every received datagram is looked at from inside the tick.  The     *)
(* peer, the datagrams and the stack's choice of invoke ids are the        *)
(* environment: a read that was sent may be answered late, more than once  *)
(* or never, and in any order with the others.                             *)
(***************************************************************************)
EXTENDS Naturals, FiniteSets

CONSTANTS
  Address,           \* transport addresses device 389002 may announce
  Humidity,          \* readings the peer's sensor may give
  PowerOn,           \* Diamond's start-up value (50.0)
  InvokeId,          \* invoke ids the stack may give a read
  PollInterval,      \* REMOTE_POLL_INTERVAL_MILLISECONDS, in clock units
  CommsLoss,         \* REMOTE_COMMS_LOSS_MILLISECONDS
  LostPollInterval,  \* REMOTE_LOST_POLL_INTERVAL_MILLISECONDS
  Wrap,              \* MillisecondsSince is a uint32_t: it counts modulo Wrap
  MaxInFlight,       \* bound: reads that can still be answered at one time
  Unbound, NoId, NoReading

ASSUME TimingAssumption ==
  /\ {PollInterval, CommsLoss, LostPollInterval, Wrap} \subseteq Nat \ {0}
  /\ Wrap > CommsLoss + 1
  /\ Wrap > PollInterval /\ Wrap > LostPollInterval
  /\ MaxInFlight \in Nat \ {0}

ASSUME NamesAssumption ==
  /\ Unbound \notin Address
  /\ NoId \notin InvokeId
  /\ NoReading \notin Humidity
  /\ PowerOn \notin Humidity

VARIABLES
  loop,           \* where the main loop is: "stack", "poll" or "restart"
  boundTo,        \* g_peer.bound and g_peer.connectionString
  rpId,           \* the outstanding ReadProperty's invoke id, or NoId
  rpmId,          \* the outstanding ReadPropertyMultiple's, or NoId
  pollCount,      \* g_peer.pollCount: only its parity is ever read
  unsupported,    \* g_peer.readPropertyMultipleUnsupported
  sensorFault,    \* g_peer.sensorFaultReported
  sincePoll,      \* MillisecondsSince(g_peer.lastPoll)
  sinceAnswer,    \* MillisecondsSince(g_peer.lastAnswer)
  value,          \* g_analogValue1Value
  reliability,    \* g_diamondReliability
  asked,          \* the reads on the wire that the peer can still answer
  silence,        \* history: true time since the last answer taken (capped)
  lastGood        \* history: the reading of the last good answer taken

peer    == <<boundTo, rpId, rpmId, unsupported, sensorFault, sinceAnswer>>
diamond == <<value, reliability>>
poll    == <<pollCount, sincePoll, asked>>
history == <<silence, lastGood>>
vars    == <<loop, peer, diamond, poll, history>>

Reliability == {"NoFaultDetected", "UnreliableOther", "CommunicationFailure"}
Service     == {"ReadProperty", "ReadPropertyMultiple"}
Read        == [to : Address, id : InvokeId, service : Service]

\* What HandleReplyFromPeer tells apart in a datagram.  "Unrecognized" is Reject
\* reason 9; "NoValue" any other Error, Reject or Abort, or a segmented ACK;
\* "Request" a request of the peer's own, whose second octet is not an answer's
\* invoke id but is compared with ours all the same.
Pdu == {"ReadProperty", "ReadPropertyMultiple", "Unrecognized", "NoValue", "Request"}

\* An ACK's content: NoReading when a value or a flag the code needs is missing.
Datagram == [from : Address, id : InvokeId, pdu : Pdu,
             reading : Humidity \cup {NoReading}, fault : BOOLEAN]

TypeOK ==
  /\ loop \in {"stack", "poll", "restart"}
  /\ boundTo \in Address \cup {Unbound}
  /\ rpId \in InvokeId \cup {NoId}
  /\ rpmId \in InvokeId \cup {NoId}
  /\ pollCount \in {0, 1}
  /\ unsupported \in BOOLEAN
  /\ sensorFault \in BOOLEAN
  /\ sincePoll \in 0 .. Wrap - 1
  /\ sinceAnswer \in 0 .. Wrap - 1
  /\ value \in Humidity \cup {PowerOn}
  /\ reliability \in Reliability
  /\ asked \subseteq Read
  /\ silence \in 0 .. CommsLoss + 1
  /\ lastGood \in Humidity \cup {NoReading}

Init ==
  /\ loop = "stack"
  /\ boundTo = Unbound /\ rpId = NoId /\ rpmId = NoId
  /\ pollCount = 0 /\ sincePoll = 0 /\ sinceAnswer = 0
  /\ unsupported = FALSE /\ sensorFault = FALSE
  /\ value = PowerOn /\ reliability = "CommunicationFailure"
  /\ asked = {}
  /\ silence = 0 /\ lastGood = NoReading

-----------------------------------------------------------------------------
(* The stack's tick: I-Am hook and received datagrams *)

\* An I-Am of device 389002 from this network.  A new address makes
\* ReadPropertyMultiple worth another try; only the first I-Am starts the clocks.
HookIAm(a) ==
  /\ loop = "stack"
  /\ boundTo' = a
  /\ unsupported' = (unsupported /\ boundTo = a)
  /\ IF boundTo = Unbound
     THEN sinceAnswer' = 0 /\ sincePoll' = PollInterval /\ silence' = 0
     ELSE UNCHANGED <<sinceAnswer, sincePoll, silence>>
  /\ UNCHANGED <<loop, rpId, rpmId, sensorFault, diamond, pollCount, asked, lastGood>>

\* Mutant: the peer's last FAULT is not consulted.
AckForgetsFault(m) ==
  /\ IF m.reading # NoReading
     THEN value' = m.reading /\ reliability' = "NoFaultDetected" /\ lastGood' = m.reading
     ELSE UNCHANGED <<value, reliability, lastGood>>
  /\ UNCHANGED <<unsupported, sensorFault>>

\* ReadProperty-ACK: a REAL Present_Value is taken unless the peer's last
\* Status_Flags said FAULT; anything else changes nothing.
HandleReadPropertyAck(m) ==
  /\ IF m.reading # NoReading /\ ~sensorFault
     THEN value' = m.reading /\ reliability' = "NoFaultDetected" /\ lastGood' = m.reading
     ELSE UNCHANGED <<value, reliability, lastGood>>
  /\ UNCHANGED <<unsupported, sensorFault>>

\* ReadPropertyMultiple-ACK: ignored unless it has both properties; a FAULT holds
\* the value, no FAULT takes it.
HandleReadPropertyMultipleAck(m) ==
  /\ UNCHANGED unsupported
  /\ IF m.reading = NoReading
     THEN UNCHANGED <<sensorFault, value, reliability, lastGood>>
     ELSE /\ sensorFault' = m.fault
          /\ IF m.fault
             THEN reliability' = "UnreliableOther" /\ UNCHANGED <<value, lastGood>>
             ELSE value' = m.reading /\ reliability' = "NoFaultDetected" /\ lastGood' = m.reading

IsReadProperty(m)         == rpId # NoId /\ m.id = rpId
IsReadPropertyMultiple(m) == rpmId # NoId /\ m.id = rpmId

\* The datagram passes the address, BVLL and NPDU checks and carries the invoke
\* id of an outstanding read.  (A datagram that does not changes nothing.)
Taken(m) == m.from = boundTo /\ (IsReadProperty(m) \/ IsReadPropertyMultiple(m))

\* Mutant: the FAULT that only ReadPropertyMultiple could clear stays.
FallBackKeepsFault == unsupported' = TRUE /\ UNCHANGED sensorFault

\* Reject reason unrecognized-service: ReadProperty alone from now on.
FallBack == unsupported' = TRUE /\ sensorFault' = FALSE

\* How the PDU type and the service choice send a taken datagram on its way.
Dispatch(m) ==
  \/ /\ m.pdu = "Unrecognized" /\ IsReadPropertyMultiple(m)
     /\ FallBack
     /\ UNCHANGED <<diamond, lastGood>>
  \/ /\ m.pdu \notin Service
     /\ ~(m.pdu = "Unrecognized" /\ IsReadPropertyMultiple(m))
     /\ reliability' = "UnreliableOther"
     /\ UNCHANGED <<value, unsupported, sensorFault, lastGood>>
  \/ m.pdu = "ReadProperty" /\ IsReadProperty(m) /\ HandleReadPropertyAck(m)
  \/ m.pdu = "ReadPropertyMultiple" /\ IsReadPropertyMultiple(m) /\ HandleReadPropertyMultipleAck(m)

HandleReplyFromPeer(m) ==
  IF Taken(m)
  THEN /\ rpId'  = IF IsReadProperty(m) THEN NoId ELSE rpId
       /\ rpmId' = IF IsReadProperty(m) THEN rpmId ELSE NoId
       /\ sinceAnswer' = 0 /\ silence' = 0
       /\ Dispatch(m)
       /\ UNCHANGED boundTo
  ELSE UNCHANGED <<peer, diamond, silence, lastGood>>

\* Everything the peer may answer a read with.
AnswersTo(r) ==
  {m \in Datagram : /\ m.from = r.to /\ m.id = r.id
                    /\ m.pdu \in {r.service, "Unrecognized", "NoValue"}
                    /\ m.fault => m.pdu = "ReadPropertyMultiple" /\ m.reading # NoReading
                    /\ m.pdu \notin Service => m.reading = NoReading}

GoodReading(m) == m.pdu \in Service /\ m.reading # NoReading /\ ~m.fault

\* An answer to a read arrives, in time or late.  (A second copy of it would find
\* its invoke id no longer outstanding, so a read leaves the wire with its answer.)
ReceiveAnswer(r, m) ==
  /\ loop = "stack"
  /\ r \in asked /\ m \in AnswersTo(r)
  /\ HandleReplyFromPeer(m)
  /\ asked' = asked \ {r}
  /\ UNCHANGED <<loop, pollCount, sincePoll>>

\* The peer sends a request of its own (a unicast I-Am, a COV notification ...).
ReceiveRequest(a, id) ==
  /\ loop = "stack"
  /\ HandleReplyFromPeer([from |-> a, id |-> id, pdu |-> "Request",
                          reading |-> NoReading, fault |-> FALSE])
  /\ UNCHANGED <<loop, poll>>

EndTick ==
  /\ loop = "stack" /\ loop' = "poll"
  /\ UNCHANGED <<peer, diamond, poll, history>>

-----------------------------------------------------------------------------
(* PollPeer *)

\* Mutant: one unit late.
LostLate == sinceAnswer > CommsLoss + 1

Lost == sinceAnswer > CommsLoss

\* Mutant: communication-failure follows the clock both ways.
NoticeFollowsClock ==
  reliability' = IF Lost THEN "CommunicationFailure"
                 ELSE IF reliability = "CommunicationFailure" THEN "NoFaultDetected" ELSE reliability

NoticeLoss == reliability' = IF Lost THEN "CommunicationFailure" ELSE reliability
Interval   == IF Lost THEN LostPollInterval ELSE PollInterval

UseMultiple == pollCount = 1 /\ ~unsupported
NextService == IF UseMultiple THEN "ReadPropertyMultiple" ELSE "ReadProperty"

\* An invoke id comes round again only after 255 others, so a fresh one is that of
\* no outstanding read and of no read still on the wire.
Fresh(id) == id \notin {rpId, rpmId} \cup {r.id : r \in asked}

\* BACnetStack_SendReadProperty succeeded.  Reads that will never be answered any
\* more leave the wire here (at most MaxInFlight stay), which is all a loss is.
SendRead ==
  \E id \in InvokeId, kept \in SUBSET asked :
    /\ Fresh(id)
    /\ Cardinality(kept) < MaxInFlight
    /\ asked' = kept \cup {[to |-> boundTo, id |-> id, service |-> NextService]}
    /\ rpId'  = IF UseMultiple THEN rpId ELSE id
    /\ rpmId' = IF UseMultiple THEN id ELSE rpmId

PollUnbound ==
  /\ loop = "poll" /\ loop' = "restart"
  /\ boundTo = Unbound
  /\ UNCHANGED <<peer, diamond, poll, history>>

PollNotDue ==
  /\ loop = "poll" /\ loop' = "restart"
  /\ boundTo # Unbound /\ sincePoll < Interval
  /\ NoticeLoss
  /\ UNCHANGED <<peer, value, poll, history>>

\* lastPoll and pollCount move whether or not the send works.
PollDue(sent) ==
  /\ loop = "poll" /\ loop' = "restart"
  /\ boundTo # Unbound /\ sincePoll >= Interval
  /\ NoticeLoss
  /\ sincePoll' = 0 /\ pollCount' = 1 - pollCount
  /\ IF sent THEN SendRead ELSE UNCHANGED <<rpId, rpmId, asked>>
  /\ UNCHANGED <<boundTo, unsupported, sensorFault, sinceAnswer, value, history>>

PollPeer == PollUnbound \/ PollNotDue \/ \E sent \in BOOLEAN : PollDue(sent)

-----------------------------------------------------------------------------
(* The rest of the loop *)

\* A COLDSTART that fell due puts Diamond's value back to its start-up value, and
\* nothing else of this component.
ColdStart ==
  /\ loop = "restart"
  /\ value' = PowerOn
  /\ UNCHANGED <<loop, peer, reliability, poll, history>>

\* Mutant: the clock is wider than its uint32_t.
LaterUnwrapped(t) == t + 1

Later(t)  == (t + 1) % Wrap
Capped(t) == IF t > CommsLoss THEN t ELSE t + 1

\* The loop's sleep; the clocks run only once there is a peer to time.
Sleep(elapsed) ==
  /\ loop = "restart" /\ loop' = "stack"
  /\ IF elapsed /\ boundTo # Unbound
     THEN /\ sincePoll' = Later(sincePoll) /\ sinceAnswer' = Later(sinceAnswer)
          /\ silence' = Capped(silence)
     ELSE UNCHANGED <<sincePoll, sinceAnswer, silence>>
  /\ UNCHANGED <<boundTo, rpId, rpmId, unsupported, sensorFault, diamond, pollCount, asked, lastGood>>

Next ==
  \/ \E a \in Address : HookIAm(a)
  \/ \E r \in asked : \E m \in AnswersTo(r) : ReceiveAnswer(r, m)
  \/ \E a \in Address, id \in InvokeId : ReceiveRequest(a, id)
  \/ EndTick
  \/ PollPeer
  \/ ColdStart
  \/ \E elapsed \in BOOLEAN : Sleep(elapsed)

Spec == Init /\ [][Next]_vars

\* The loop never stops and the clock runs (main's while, usleep), a read of either
\* kind that comes up again and again is sooner or later sent, and the network is
\* fair-lossy: good answers that could arrive again and again get one through.
GoodAnswer(s) ==
  \E r \in asked : \E m \in AnswersTo(r) :
    r.service = s /\ GoodReading(m) /\ Taken(m) /\ ReceiveAnswer(r, m)

FairSpec ==
  /\ Spec
  /\ WF_vars(EndTick) /\ WF_vars(PollPeer) /\ SF_vars(Sleep(TRUE))
  /\ \A s \in Service :
       SF_vars(NextService = s /\ PollDue(TRUE)) /\ SF_vars(GoodAnswer(s))

-----------------------------------------------------------------------------
(* Properties *)

\* Once the loop has polled, a peer that gave no answer for more than the
\* comms-loss time is reported lost - also after MillisecondsSince has wrapped and
\* makes the last answer look recent again (main.cpp PollPeer, 2199).
SilenceIsReported ==
  loop = "restart" /\ boundTo # Unbound /\ silence > CommsLoss
    => reliability = "CommunicationFailure"

\* While the peer's last Status_Flags said FAULT, Diamond never claims a good
\* value: ReadProperty answers keep coming in between and must not clear it.
FaultIsNeverHidden == sensorFault => reliability # "NoFaultDetected"

\* After the ReadProperty fallback nothing of ReadPropertyMultiple is left over:
\* no read outstanding, and no FAULT that no later read could clear.
FallbackLeavesNothingBehind == unsupported => rpmId = NoId /\ ~sensorFault

\* Before the first good answer Diamond has its start-up value and no claim that
\* it is good (controller_test.py's control, for every order of events).
NoClaimBeforeAReading ==
  lastGood = NoReading => value = PowerOn /\ reliability # "NoFaultDetected"

\* Communication-failure ends only with a datagram of the peer that HandleReplyFromPeer
\* takes for the answer to an outstanding read: not with the I-Am hook, a restart, a
\* poll, or the wrapped clock.  (It can be mistaken: a request of the peer's own whose
\* second octet is that read's invoke id counts too, see OnlyAnswersEndARead.)
LossEndsOnlyByAnswer ==
  [][reliability = "CommunicationFailure" /\ reliability' # reliability
       => /\ silence' = 0
          /\ (rpId # NoId /\ rpId' = NoId) \/ (rpmId # NoId /\ rpmId' = NoId)]_vars

\* Whatever happened before (loss, FAULT, fallback, a new address), a peer that
\* keeps answering well makes Diamond good again.
Recovery == boundTo # Unbound ~> reliability = "NoFaultDetected"

-----------------------------------------------------------------------------
(* The inductive invariant: what keeps the properties above true *)

OneReadPerInvokeId == rpId # NoId => rpId # rpmId

\* The wrapping clock agrees with the true silence until the loss is noticed, and
\* the poll that follows the sleep notices it before the clock can wrap.
SilenceIsTimed ==
  boundTo # Unbound =>
    IF silence <= CommsLoss
    THEN sinceAnswer = silence
    ELSE \/ reliability = "CommunicationFailure"
         \/ sinceAnswer = CommsLoss + 1 /\ loop \in {"stack", "poll"}

IInv ==
  /\ TypeOK
  /\ OneReadPerInvokeId
  /\ FallbackLeavesNothingBehind
  /\ FaultIsNeverHidden
  /\ SilenceIsTimed

-----------------------------------------------------------------------------
(* What comments say and the code does not do *)

\* main.cpp:2393 "Anything that is not an answer from the peer to one of our two
\* reads is left to the stack alone": a read that nothing on the wire can answer
\* stays outstanding until the next read of its kind.
OnlyAnswersEndARead ==
  [][\A id \in {rpId, rpmId} \ {NoId} :
       loop = "stack" /\ id \notin {rpId', rpmId'} => \E r \in asked : r.id = id]_vars

\* main.cpp:394 "Diamond's Reliability tells a client whether the value is
\* current": under no-fault-detected it is the last good reading.
NoFaultMeansTheLastReading == reliability = "NoFaultDetected" => value = lastGood
=============================================================================
