------------------------- MODULE DeviceRestartProofs -------------------------
(***************************************************************************)
(* Proofs about DeviceRestart, for every delay longer than a pass of the   *)
(* loop, every number of priorities and every set of values.               *)
(***************************************************************************)
EXTENDS DeviceRestart, TLAPS, WellFoundedInduction

\* The time left only runs down, and not below zero.
LEMMA PassedType ==
  ASSUME left \in 0 .. Delay, NEW t \in 0 .. MaxPass
  PROVE  Passed(t) \in 0 .. Delay /\ Passed(t) <= left /\ (left = Delay => Passed(t) > 0)
BY RestartAssumption DEF RestartAssumption, Passed

\* A request keeps the earlier deadline and the colder kind.
LEMMA RequestType ==
  ASSUME TypeOK, NEW k \in Kind, RequestRestart(k, Delay)
  PROVE  /\ pending' = TRUE /\ kind' \in Kind /\ left' \in 0 .. Delay
         /\ pending => left' <= left
         /\ ~pending => left' = Delay /\ kind' = k
         /\ left = Delay => left' = Delay
         /\ pending => (kind' = "Cold" <=> k = "Cold" \/ kind = "Cold")
BY RestartAssumption DEF RestartAssumption, TypeOK, Kind, RequestRestart

\* At start-up nothing is pending and every slot is null.
LEMMA InitIInv == Init => IInv
<1> USE RestartAssumption DEF RestartAssumption
<1>1. PowerOn \in [Output -> [Priority -> Value \cup {Null}]]
  BY DEF PowerOn
<1>2. \A o \in Output, p \in Priority : PowerOn[o][p] = Null
  BY DEF PowerOn
<1>3. Init => pending \in BOOLEAN
  BY DEF Init
<1>4. Init => TypeOK
  BY <1>1, <1>2, <1>3 DEF Init, TypeOK, Kind, Output
<1>. QED
  BY <1>4 DEF Init, IInv, PromisesAreKept, AckIsTimed

\* A slot takes only what the set callback of its output lets through.
LEMMA WriteType ==
  ASSUME TypeOK, NEW o \in Output, NEW p, NEW v \in Value \cup {Null},
         v = Null \/ Accepts(o, v),
         slot' = [slot EXCEPT ![o][EffectivePriority(p)] = v]
  PROVE  /\ slot' \in [Output -> [Priority -> Value \cup {Null}]]
         /\ \A q \in Priority : /\ slot'["BinaryOutput"][q] \in {0, 1, Null}
                                /\ slot'["MultiStateOutput"][q] \in 1 .. States \cup {Null}
<1> USE RestartAssumption DEF RestartAssumption
<1> DEFINE e == EffectivePriority(p)
<1>1. e \in Priority
  BY DEF EffectivePriority, Priority
<1>. HIDE DEF e
<1>2. slot' = [slot EXCEPT ![o] = [slot[o] EXCEPT ![e] = v]]
  BY DEF e
<1>3. slot \in [Output -> [Priority -> Value \cup {Null}]]
  BY DEF TypeOK
<1>4. [slot[o] EXCEPT ![e] = v] \in [Priority -> Value \cup {Null}]
  BY <1>1, <1>3
<1>5. slot' \in [Output -> [Priority -> Value \cup {Null}]]
  BY <1>2, <1>3, <1>4
<1>6. \A q \in Priority, r \in Output : slot'[r][q] = IF r = o /\ q = e THEN v ELSE slot[r][q]
  BY <1>1, <1>2, <1>3
<1>7. \A q \in Priority : /\ slot'["BinaryOutput"][q] \in {0, 1, Null}
                          /\ slot'["MultiStateOutput"][q] \in 1 .. States \cup {Null}
  <2>1. /\ o = "BinaryOutput" => v \in {0, 1, Null}
        /\ o = "MultiStateOutput" => v \in 1 .. States \cup {Null}
    BY DEF Accepts, Output
  <2>2. /\ "BinaryOutput" \in Output /\ "MultiStateOutput" \in Output
    BY DEF Output
  <2>. QED
    BY <1>6, <2>1, <2>2 DEF TypeOK
<1>. QED
  BY <1>5, <1>7

\* Each callback and each step of the main loop keeps the invariant.
LEMMA StepIInv == IInv /\ [Next]_vars => IInv'
<1> USE RestartAssumption DEF RestartAssumption
<1> SUFFICES ASSUME IInv, [Next]_vars PROVE IInv'
  OBVIOUS
<1> USE DEF IInv
<1>1. ASSUME NEW o \in Output, NEW p \in 0 .. Slots + 1, NEW v \in Value \cup {Null},
             v = Null \/ Accepts(o, v),
             slot' = [slot EXCEPT ![o][EffectivePriority(p)] = v],
             UNCHANGED <<loop, restart, history>>
      PROVE  IInv'
  <2>1. TypeOK'
    BY <1>1, WriteType DEF TypeOK, restart, history
  <2>2. PromisesAreKept' /\ AckIsTimed'
    BY <1>1 DEF PromisesAreKept, AckIsTimed, restart, history
  <2>. QED BY <2>1, <2>2
<1>2. ASSUME NEW k \in Kind, ReinitializeDevice(k) PROVE IInv'
  <2>1. /\ pending' = TRUE /\ kind' \in Kind /\ left' \in 0 .. Delay
        /\ ~pending => left' = Delay /\ kind' = k
        /\ left = Delay => left' = Delay
        /\ pending => (kind' = "Cold" <=> k = "Cold" \/ kind = "Cold")
    BY <1>2, RequestType DEF ReinitializeDevice
  <2>2. /\ loop = "stack" /\ loop' = "stack" /\ slot' = slot
        /\ owed' = owed \cup {k} /\ ack' = IF owed = {} THEN "encoded" ELSE ack
    BY <1>2 DEF ReinitializeDevice
  <2>3. TypeOK'
    BY <2>1, <2>2 DEF TypeOK
  <2>4. PromisesAreKept'
    BY <2>1, <2>2 DEF PromisesAreKept
  <2>5. AckIsTimed'
    BY <2>1, <2>2 DEF PromisesAreKept, AckIsTimed
  <2>. QED BY <2>3, <2>4, <2>5
<1>3. ASSUME NEW t \in 0 .. MaxPass, EndTick(t) PROVE IInv'
  <2>1. Passed(t) \in 0 .. Delay /\ (left = Delay => Passed(t) > 0)
    BY PassedType DEF TypeOK
  <2>. QED
    BY <1>3, <2>1 DEF EndTick, TypeOK, PromisesAreKept, AckIsTimed
<1>4. ASSUME NEW t \in 0 .. MaxPass, RestartNotDue(t) PROVE IInv'
  <2>1. Passed(t) \in 0 .. Delay
    BY PassedType DEF TypeOK
  <2>. QED
    BY <1>4, <2>1 DEF RestartNotDue, NextPass, TypeOK, PromisesAreKept, AckIsTimed
<1>5. ASSUME NEW t \in 0 .. MaxPass, RestartDue(t) PROVE IInv'
  <2>1. Passed(t) \in 0 .. Delay
    BY PassedType DEF TypeOK
  <2>2. TypeOK'
    BY <1>5, <2>1 DEF RestartDue, NextPass, TypeOK, PowerOn, Output
  <2>. QED
    BY <1>5, <2>1, <2>2 DEF RestartDue, NextPass, PromisesAreKept, AckIsTimed
<1>6. CASE UNCHANGED vars
  BY <1>6 DEF vars, restart, history, TypeOK, PromisesAreKept, AckIsTimed
<1>7. ASSUME NEW o \in Output, NEW p \in 0 .. Slots + 1, CommandRelinquish(o, p) PROVE IInv'
  BY <1>1, <1>7 DEF CommandRelinquish
<1>8. ASSUME NEW o \in Output, NEW p \in 0 .. Slots + 1, NEW v \in Value, CommandWrite(o, p, v)
      PROVE IInv'
  BY <1>1, <1>8 DEF CommandWrite
<1>. QED
  BY <1>2, <1>3, <1>4, <1>5, <1>6, <1>7, <1>8 DEF Next

\* The inductive invariant holds throughout.
LEMMA Invariance == Spec => []IInv
BY InitIInv, StepIInv, PTL DEF Spec

\* Types, and no output commanded to a value its set callback refuses.
THEOREM TypeCorrect == Spec => []TypeOK
<1>1. IInv => TypeOK
  BY DEF IInv
<1>. QED
  BY <1>1, Invariance, PTL

\* RequestRestart: the restart to come is the coldest asked for, and it is only to
\* come if somebody asked.
THEOREM PromisesKept == Spec => []PromisesAreKept
<1>1. IInv => PromisesAreKept
  BY DEF IInv
<1>. QED
  BY <1>1, Invariance, PTL

\* The delay gets the first client's SimpleACK onto the wire before RestartDue fires.
THEOREM FirstAckOut == Spec => []FirstAckIsOut
<1>1. IInv => FirstAckIsOut
  BY DEF IInv, TypeOK, PromisesAreKept, AckIsTimed, FirstAckIsOut
<1>. QED
  BY <1>1, Invariance, PTL

\* RequestRestart keeps the earliest deadline: no request moves a pending restart
\* further away.
THEOREM NotPostponed == Spec => NeverPostponed
<1> DEFINE A == pending /\ pending' => left' <= left
<1>1. IInv /\ [Next]_vars => [A]_vars
  <2> SUFFICES ASSUME TypeOK, Next PROVE A
    BY DEF IInv
  <2>1. left \in 0 .. Delay /\ left <= left
    BY RestartAssumption DEF RestartAssumption, TypeOK
  <2>2. \A t \in 0 .. MaxPass : Passed(t) <= left
    BY <2>1, PassedType
  <2>3. CASE \E k \in Kind : ReinitializeDevice(k)
    BY <2>3, RequestType DEF ReinitializeDevice
  <2>4. CASE \E t \in 0 .. MaxPass : EndTick(t) \/ RestartNotDue(t) \/ RestartDue(t)
    BY <2>2, <2>4 DEF EndTick, RestartNotDue, RestartDue, NextPass
  <2>5. CASE \E o \in Output, p \in 0 .. Slots + 1 :
               CommandRelinquish(o, p) \/ \E v \in Value : CommandWrite(o, p, v)
    BY <2>1, <2>5 DEF CommandRelinquish, CommandWrite, restart
  <2>. QED
    BY <2>3, <2>4, <2>5 DEF Next
<1>. QED
  BY <1>1, Invariance, PTL DEF Spec, NeverPostponed

\* The restart releases commanded outputs only when a cold restart was asked for.
THEOREM CommandsOutlive == Spec => CommandsOutliveWarmRestarts
<1> DEFINE A == \A o \in Output, p \in Priority :
                  loop = "restart" /\ slot'[o][p] # slot[o][p] => "Cold" \in owed
<1>1. IInv /\ [Next]_vars => [A]_vars
  <2> SUFFICES ASSUME IInv, Next, loop = "restart" PROVE slot' = slot \/ "Cold" \in owed
    OBVIOUS
  <2>. QED
    BY DEF IInv, PromisesAreKept, Next, CommandRelinquish, CommandWrite, ReinitializeDevice, EndTick,
           RestartNotDue, RestartDue
<1>. QED
  BY <1>1, Invariance, PTL DEF Spec, CommandsOutliveWarmRestarts

\* A set of priorities that is not empty has a least one.
LEMMA LeastOf ==
  ASSUME NEW S \in SUBSET Nat, S # {}
  PROVE  \E m \in S : \A n \in S : m <= n
<1> DEFINE Less == {ss \in Nat \X Nat : ss[1] < ss[2]}
<1>1. IsWellFoundedOn(Less, Nat)
  BY NatLessThanWellFounded DEF OpToRel
<1>2. \A m, n \in Nat : <<n, m>> \in Less <=> n < m
  OBVIOUS
<1>. HIDE DEF Less
<1>3. PICK m \in S : \A n \in S : ~ (<<n, m>> \in Less)
  <2>1. S \subseteq Nat
    OBVIOUS
  <2>. QED
    BY <1>1, <2>1, WFMin
<1>4. \A n \in S : ~ (n < m)
  BY <1>2, <1>3
<1>. QED
  BY <1>4

\* The least element is the one Present_Value picks.
LEMMA LeastIsChosen ==
  ASSUME NEW S \in SUBSET Nat, NEW m \in S, \A q \in S : m <= q
  PROVE  (CHOOSE p \in S : \A q \in S : p <= q) = m
<1>1. \A p \in S : (\A q \in S : p <= q) => p = m
  OBVIOUS
<1>. QED
  BY <1>1

\* EffectivePriority: a write with no priority does not move an output that is
\* commanded above the lowest.
THEOREM NoPriorityLowest == Spec => NoPriorityIsTheLowest
<1> USE RestartAssumption DEF RestartAssumption
<1> DEFINE A == \A o \in Output, p \in {0, Slots + 1} :
                  /\ CommandRelinquish(o, p) \/ \E v \in Value : CommandWrite(o, p, v)
                  /\ Set(o) \ {Slots} # {}
                  => Present_Value(o)' = Present_Value(o)
<1>1. IInv /\ [Next]_vars => [A]_vars
  <2> SUFFICES ASSUME TypeOK, NEW o \in Output, NEW p \in {0, Slots + 1},
                      CommandRelinquish(o, p) \/ \E v \in Value : CommandWrite(o, p, v),
                      Set(o) \ {Slots} # {}
               PROVE  Present_Value(o)' = Present_Value(o)
    BY DEF IInv
  <2>1. EffectivePriority(p) = Slots
    BY DEF EffectivePriority, Priority
  <2>2. PICK v : slot' = [slot EXCEPT ![o][Slots] = v]
    BY <2>1 DEF CommandRelinquish, CommandWrite
  <2>3. \A q \in Priority \ {Slots} : slot'[o][q] = slot[o][q]
    BY <2>2 DEF TypeOK
  <2>4. Set(o)' \ {Slots} = Set(o) \ {Slots}
    BY <2>3 DEF Set
  <2>5. PICK m \in Set(o) \ {Slots} : \A q \in Set(o) \ {Slots} : m <= q
    <3>1. Set(o) \ {Slots} \in SUBSET Nat
      BY DEF Set, Priority
    <3>. QED
      BY <3>1, LeastOf
  <2>6. m \in Priority /\ m <= Slots
    BY DEF Set, Priority
  <2>7. \A q \in Set(o) : m <= q
    BY <2>5, <2>6
  <2>8. m \in Set(o)' /\ \A q \in Set(o)' : m <= q
    BY <2>4, <2>5, <2>6
  <2>9. Set(o) \in SUBSET Nat /\ Set(o)' \in SUBSET Nat
    BY DEF Set, Priority
  <2>10. Present_Value(o) = slot[o][m]
    BY <2>5, <2>7, <2>9, LeastIsChosen DEF Present_Value
  <2>11. (CHOOSE q \in Set(o)' : \A r \in Set(o)' : q <= r) = m
    BY <2>8, <2>9, LeastIsChosen
  <2>12. Present_Value(o)' = slot'[o][m]
    BY <2>8, <2>11 DEF Present_Value
  <2>. QED
    BY <2>3, <2>5, <2>6, <2>10, <2>12
<1>. QED
  BY <1>1, Invariance, PTL DEF Spec, NoPriorityIsTheLowest
=============================================================================
