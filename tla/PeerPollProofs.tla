--------------------------- MODULE PeerPollProofs ---------------------------
(***************************************************************************)
(* Proofs about PeerPoll, for every set of addresses, readings and invoke  *)
(* ids, every poll interval and every clock width.                         *)
(***************************************************************************)
EXTENDS PeerPoll, TLAPS

LEMMA InitIInv == Init => IInv
<1> USE TimingAssumption, NamesAssumption DEF TimingAssumption, NamesAssumption
<1>1. Init => unsupported \in BOOLEAN /\ sensorFault \in BOOLEAN
  BY DEF Init
<1>2. 0 \in 0 .. Wrap - 1 /\ 0 \in 0 .. CommsLoss + 1 /\ CommsLoss + 1 \in 0 .. CommsLoss + 1
  OBVIOUS
<1>3. Init => TypeOK
  BY <1>1, <1>2 DEF Init, TypeOK, Reliability
<1>. QED
  BY <1>3 DEF Init, IInv, OneReadPerInvokeId, FallbackLeavesNothingBehind,
              FaultIsNeverHidden, SilenceIsTimed

\* A later clock value is one more, until it wraps.
LEMMA LaterType ==
  ASSUME NEW t \in 0 .. Wrap - 1
  PROVE  Later(t) \in 0 .. Wrap - 1 /\ (t + 1 < Wrap => Later(t) = t + 1)
BY TimingAssumption DEF Later

LEMMA CappedType ==
  ASSUME NEW t \in 0 .. CommsLoss + 1
  PROVE  Capped(t) \in 0 .. CommsLoss + 1 /\ (t <= CommsLoss => Capped(t) = t + 1)
BY TimingAssumption DEF Capped

\* The core: whatever datagram arrives, handling it keeps the invariant.
LEMMA ReplyKeepsIInv ==
  ASSUME IInv, NEW m \in Datagram, HandleReplyFromPeer(m),
         UNCHANGED <<loop, pollCount, sincePoll>>,
         asked' \subseteq asked
  PROVE  IInv'
<1> USE TimingAssumption, NamesAssumption DEF TimingAssumption, NamesAssumption
<1>1. CASE ~Taken(m)
  <2>1. UNCHANGED <<peer, diamond, silence, lastGood>>
    BY <1>1 DEF HandleReplyFromPeer
  <2>. QED
    BY <2>1 DEF IInv, TypeOK, OneReadPerInvokeId, FallbackLeavesNothingBehind,
                FaultIsNeverHidden, SilenceIsTimed, peer, diamond
<1>2. CASE Taken(m)
  <2>1. /\ rpId'  = IF IsReadProperty(m) THEN NoId ELSE rpId
        /\ rpmId' = IF IsReadProperty(m) THEN rpmId ELSE NoId
        /\ sinceAnswer' = 0 /\ silence' = 0
        /\ Dispatch(m) /\ boundTo' = boundTo
    BY <1>2 DEF HandleReplyFromPeer
  <2>2. IsReadPropertyMultiple(m) => rpmId' = NoId
    BY <2>1 DEF IInv, OneReadPerInvokeId, IsReadProperty, IsReadPropertyMultiple
  <2>3. /\ value' \in Humidity \cup {PowerOn} /\ reliability' \in Reliability
        /\ lastGood' \in Humidity \cup {NoReading}
        /\ unsupported' \in BOOLEAN /\ sensorFault' \in BOOLEAN
    BY <2>1 DEF Dispatch, FallBack, HandleReadPropertyAck, HandleReadPropertyMultipleAck, diamond,
                IInv, TypeOK, Reliability, Datagram
  <2>4. TypeOK'
    BY <2>1, <2>3 DEF IInv, TypeOK
  <2>5. OneReadPerInvokeId'
    BY <2>1 DEF IInv, OneReadPerInvokeId
  <2>6. FallbackLeavesNothingBehind' /\ FaultIsNeverHidden'
    <3>1. CASE m.pdu = "Unrecognized" /\ IsReadPropertyMultiple(m)
      BY <2>1, <2>2, <3>1 DEF Dispatch, FallBack, IInv, FallbackLeavesNothingBehind, FaultIsNeverHidden, Service
    <3>2. CASE m.pdu \notin Service /\ ~(m.pdu = "Unrecognized" /\ IsReadPropertyMultiple(m))
      BY <2>1, <3>2 DEF Dispatch, FallBack, IInv, FallbackLeavesNothingBehind, FaultIsNeverHidden, Service
    <3>3. CASE m.pdu \in Service
      <4>1. CASE HandleReadPropertyAck(m)
        BY <2>1, <4>1 DEF HandleReadPropertyAck, IInv, FallbackLeavesNothingBehind, FaultIsNeverHidden
      <4>2. CASE IsReadPropertyMultiple(m) /\ HandleReadPropertyMultipleAck(m)
        <5>1. ~unsupported
          BY <4>2 DEF IInv, FallbackLeavesNothingBehind, IsReadPropertyMultiple
        <5>. QED
          BY <4>2, <5>1 DEF HandleReadPropertyMultipleAck, IInv,
             FallbackLeavesNothingBehind, FaultIsNeverHidden
      <4>. QED
        BY <2>1, <3>3, <4>1, <4>2 DEF Dispatch, FallBack, Service
    <3>. QED
      BY <3>1, <3>2, <3>3
  <2>7. SilenceIsTimed'
    BY <2>1 DEF SilenceIsTimed
  <2>. QED
    BY <2>4, <2>5, <2>6, <2>7 DEF IInv
<1>. QED
  BY <1>1, <1>2

LEMMA StepIInv == IInv /\ [Next]_vars => IInv'
<1> USE TimingAssumption, NamesAssumption DEF TimingAssumption, NamesAssumption
<1> SUFFICES ASSUME IInv, [Next]_vars PROVE IInv'
  OBVIOUS
<1> USE DEF IInv
<1>1. ASSUME NEW a \in Address, HookIAm(a) PROVE IInv'
  <2>1. TypeOK'
    BY <1>1 DEF HookIAm, TypeOK, diamond
  <2>2. OneReadPerInvokeId' /\ FallbackLeavesNothingBehind' /\ FaultIsNeverHidden'
    BY <1>1 DEF HookIAm, diamond, TypeOK, OneReadPerInvokeId, FallbackLeavesNothingBehind, FaultIsNeverHidden
  <2>3. SilenceIsTimed'
    BY <1>1 DEF HookIAm, diamond, TypeOK, SilenceIsTimed
  <2>. QED BY <2>1, <2>2, <2>3
<1>2. ASSUME NEW r \in asked, NEW m \in AnswersTo(r), ReceiveAnswer(r, m) PROVE IInv'
  <2>1. m \in Datagram
    BY DEF AnswersTo
  <2>. QED
    BY <1>2, <2>1, ReplyKeepsIInv DEF ReceiveAnswer
<1>3. ASSUME NEW a \in Address, NEW id \in InvokeId, ReceiveRequest(a, id) PROVE IInv'
  <2> DEFINE m == [from |-> a, id |-> id, pdu |-> "Request", reading |-> NoReading, fault |-> FALSE]
  <2>1. m \in Datagram
    BY DEF Datagram, Pdu
  <2>2. HandleReplyFromPeer(m) /\ UNCHANGED <<loop, pollCount, sincePoll>> /\ asked' = asked
    BY <1>3 DEF ReceiveRequest, poll
  <2>. HIDE DEF m
  <2>. QED
    BY <2>1, <2>2, ReplyKeepsIInv
<1>4. CASE EndTick
  BY <1>4 DEF EndTick, peer, diamond, poll, history, TypeOK, OneReadPerInvokeId,
              FallbackLeavesNothingBehind, FaultIsNeverHidden, SilenceIsTimed
<1>5. CASE PollUnbound
  BY <1>5 DEF PollUnbound, peer, diamond, poll, history, TypeOK, OneReadPerInvokeId,
              FallbackLeavesNothingBehind, FaultIsNeverHidden, SilenceIsTimed
<1>6. CASE PollNotDue
  <2>1. TypeOK' /\ OneReadPerInvokeId' /\ FallbackLeavesNothingBehind' /\ FaultIsNeverHidden'
    BY <1>6 DEF PollNotDue, NoticeLoss, peer, poll, history, TypeOK, Reliability, OneReadPerInvokeId,
                FallbackLeavesNothingBehind, FaultIsNeverHidden
  <2>2. SilenceIsTimed'
    BY <1>6 DEF PollNotDue, NoticeLoss, Lost, peer, poll, history, TypeOK, SilenceIsTimed
  <2>. QED BY <2>1, <2>2
<1>7. ASSUME NEW sent \in BOOLEAN, PollDue(sent) PROVE IInv'
  <2>1. /\ boundTo' = boundTo /\ unsupported' = unsupported /\ sensorFault' = sensorFault
        /\ sinceAnswer' = sinceAnswer /\ value' = value /\ UNCHANGED history
        /\ boundTo # Unbound /\ loop = "poll" /\ loop' = "restart"
        /\ NoticeLoss /\ sincePoll' = 0 /\ pollCount' = 1 - pollCount
    BY <1>7 DEF PollDue
  <2>2. /\ rpId' \in InvokeId \cup {NoId} /\ rpmId' \in InvokeId \cup {NoId} /\ asked' \subseteq Read
        /\ OneReadPerInvokeId' /\ (unsupported => rpmId' = rpmId)
    <3>1. CASE sent
      <4>1. PICK id \in InvokeId, kept \in SUBSET asked :
               /\ Fresh(id)
               /\ asked' = kept \cup {[to |-> boundTo, id |-> id, service |-> NextService]}
               /\ rpId'  = IF UseMultiple THEN rpId ELSE id
               /\ rpmId' = IF UseMultiple THEN id ELSE rpmId
        BY <1>7, <3>1 DEF PollDue, SendRead
      <4>2. [to |-> boundTo, id |-> id, service |-> NextService] \in Read
        BY <2>1 DEF Read, Service, NextService, TypeOK
      <4>3. OneReadPerInvokeId'
        BY <4>1 DEF OneReadPerInvokeId, Fresh
      <4>. QED
        BY <4>1, <4>2, <4>3 DEF TypeOK, UseMultiple
    <3>2. CASE ~sent
      BY <1>7, <3>2 DEF PollDue, TypeOK, OneReadPerInvokeId
    <3>. QED BY <3>1, <3>2
  <2>3. TypeOK'
    BY <2>1, <2>2 DEF TypeOK, NoticeLoss, Reliability, history
  <2>4. FallbackLeavesNothingBehind' /\ FaultIsNeverHidden'
    BY <2>1, <2>2 DEF NoticeLoss, FallbackLeavesNothingBehind, FaultIsNeverHidden
  <2>5. SilenceIsTimed'
    BY <2>1 DEF NoticeLoss, Lost, history, TypeOK, SilenceIsTimed
  <2>. QED BY <2>2, <2>3, <2>4, <2>5
<1>8. CASE ColdStart
  BY <1>8 DEF ColdStart, peer, poll, history, TypeOK, OneReadPerInvokeId,
              FallbackLeavesNothingBehind, FaultIsNeverHidden, SilenceIsTimed
<1>9. ASSUME NEW elapsed \in BOOLEAN, Sleep(elapsed) PROVE IInv'
  <2>1. TypeOK'
    BY <1>9, LaterType, CappedType DEF Sleep, diamond, TypeOK
  <2>2. OneReadPerInvokeId' /\ FallbackLeavesNothingBehind' /\ FaultIsNeverHidden'
    BY <1>9 DEF Sleep, diamond, OneReadPerInvokeId, FallbackLeavesNothingBehind, FaultIsNeverHidden
  <2>3. SilenceIsTimed'
    <3>1. Capped(silence) \in 0 .. CommsLoss + 1 /\ (silence <= CommsLoss => Capped(silence) = silence + 1)
      BY CappedType DEF TypeOK
    <3>2. sinceAnswer + 1 < Wrap => Later(sinceAnswer) = sinceAnswer + 1
      BY LaterType DEF TypeOK
    <3>3. silence > CommsLoss => Capped(silence) = silence
      BY DEF Capped
    <3>. QED
      BY <1>9, <3>1, <3>2, <3>3 DEF Sleep, diamond, TypeOK, SilenceIsTimed
  <2>. QED BY <2>1, <2>2, <2>3
<1>10. CASE UNCHANGED vars
  BY <1>10 DEF vars, peer, diamond, poll, history, TypeOK, OneReadPerInvokeId,
               FallbackLeavesNothingBehind, FaultIsNeverHidden, SilenceIsTimed
<1>. QED
  BY <1>1, <1>2, <1>3, <1>4, <1>5, <1>6, <1>7, <1>8, <1>9, <1>10 DEF Next, PollPeer

\* The inductive invariant holds in every state of the poller.
THEOREM Invariance == Spec => []IInv
BY InitIInv, StepIInv, PTL DEF Spec

\* TypeOK: every variable keeps its type, whatever arrives from the network.
THEOREM TypeCorrect == Spec => []TypeOK
<1>1. IInv => TypeOK
  BY DEF IInv
<1>. QED
  BY <1>1, Invariance, PTL

\* PollPeer reports every silence longer than the comms-loss time, for every clock
\* width: the uint32_t of MillisecondsSince may wrap as often as it likes.
THEOREM SilenceReported == Spec => []SilenceIsReported
<1>1. IInv => SilenceIsReported
  BY TimingAssumption DEF IInv, TypeOK, SilenceIsTimed, SilenceIsReported
<1>. QED
  BY <1>1, Invariance, PTL

\* HandleReadPropertyAck never clears the FAULT that Status_Flags reported.
THEOREM FaultNeverHidden == Spec => []FaultIsNeverHidden
<1>1. IInv => FaultIsNeverHidden
  BY DEF IInv
<1>. QED
  BY <1>1, Invariance, PTL

\* The ReadProperty fallback leaves no outstanding ReadPropertyMultiple and no FAULT.
THEOREM FallbackClean == Spec => []FallbackLeavesNothingBehind
<1>1. IInv => FallbackLeavesNothingBehind
  BY DEF IInv
<1>. QED
  BY <1>1, Invariance, PTL

\* No claim before a reading: NO_FAULT_DETECTED appears only with a value taken.
THEOREM NoClaimFirst == Spec => []NoClaimBeforeAReading
<1> USE NamesAssumption DEF NamesAssumption
<1>1. Init => NoClaimBeforeAReading
  BY DEF Init, NoClaimBeforeAReading
<1>2. NoClaimBeforeAReading /\ [Next]_vars => NoClaimBeforeAReading'
  <2> SUFFICES ASSUME NoClaimBeforeAReading, [Next]_vars PROVE NoClaimBeforeAReading'
    OBVIOUS
  <2>1. ASSUME NEW m, HandleReplyFromPeer(m) PROVE NoClaimBeforeAReading'
    BY <2>1 DEF HandleReplyFromPeer, Dispatch, FallBack, HandleReadPropertyAck,
                HandleReadPropertyMultipleAck, diamond, NoClaimBeforeAReading
  <2>2. CASE \E r \in asked : \E m \in AnswersTo(r) : ReceiveAnswer(r, m)
    BY <2>1, <2>2 DEF ReceiveAnswer
  <2>3. CASE \E a \in Address, id \in InvokeId : ReceiveRequest(a, id)
    BY <2>1, <2>3 DEF ReceiveRequest
  <2>4. CASE PollPeer
    BY <2>4 DEF PollPeer, PollUnbound, PollNotDue, PollDue, NoticeLoss, diamond, history,
                NoClaimBeforeAReading
  <2>5. CASE \/ \E a \in Address : HookIAm(a)
             \/ EndTick \/ ColdStart \/ (\E elapsed \in BOOLEAN : Sleep(elapsed))
             \/ UNCHANGED vars
    BY <2>5 DEF HookIAm, EndTick, ColdStart, Sleep, vars, diamond, history, NoClaimBeforeAReading
  <2>. QED
    BY <2>2, <2>3, <2>4, <2>5 DEF Next
<1>. QED
  BY <1>1, <1>2, PTL DEF Spec

\* COMMUNICATION_FAILURE is left by HandleReplyFromPeer alone, and only when it ends
\* an outstanding read.
THEOREM LossEnds == Spec => LossEndsOnlyByAnswer
<1> DEFINE A == reliability = "CommunicationFailure" /\ reliability' # reliability
                  => /\ silence' = 0
                     /\ (rpId # NoId /\ rpId' = NoId) \/ (rpmId # NoId /\ rpmId' = NoId)
<1>1. [Next]_vars => [A]_vars
  <2> SUFFICES ASSUME Next PROVE A
    OBVIOUS
  <2>1. ASSUME NEW m, HandleReplyFromPeer(m) PROVE A
    BY <2>1 DEF HandleReplyFromPeer, Taken, IsReadProperty, IsReadPropertyMultiple, diamond
  <2>2. CASE \E r \in asked : \E m \in AnswersTo(r) : ReceiveAnswer(r, m)
    BY <2>1, <2>2 DEF ReceiveAnswer
  <2>3. CASE \E a \in Address, id \in InvokeId : ReceiveRequest(a, id)
    BY <2>1, <2>3 DEF ReceiveRequest
  <2>4. CASE PollPeer
    BY <2>4 DEF PollPeer, PollUnbound, PollNotDue, PollDue, NoticeLoss, diamond
  <2>5. CASE \/ \E a \in Address : HookIAm(a)
             \/ EndTick \/ ColdStart \/ \E elapsed \in BOOLEAN : Sleep(elapsed)
    BY <2>5 DEF HookIAm, EndTick, ColdStart, Sleep, diamond
  <2>. QED
    BY <2>2, <2>3, <2>4, <2>5 DEF Next
<1>. QED
  BY <1>1, PTL DEF Spec, LossEndsOnlyByAnswer
=============================================================================
