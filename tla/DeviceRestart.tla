---------------------------- MODULE DeviceRestart ----------------------------
(***************************************************************************)
(* ReinitializeDevice's deferred restart (RequestRestart, RestartDue) and  *)
(* what a restart does to the commandable outputs.  The callback runs      *)
(* inside BACnetStack_Tick and only arms the restart, because the          *)
(* SimpleACK leaves with a later tick; the main loop acts when the delay   *)
(* is over:                                                                *)
(*                                                                         *)
(*     BACnetStack_Tick -> ... -> RestartDue -> ... -> BACnetStack_Tick    *)
(***************************************************************************)
EXTENDS Naturals

CONSTANTS
  Slots,    \* BACNET_PRIORITY_ARRAY_SIZE
  States,   \* MULTI_STATE_OUTPUT_NUMBER_OF_STATES
  Value,    \* values clients write
  Delay,    \* RESTART_DELAY_MS, in clock units
  MaxPass,  \* bound: clock units from one end of the loop's pass to the other
  Null

ASSUME RestartAssumption ==
  /\ {Slots, States, Delay, MaxPass} \subseteq Nat \ {0}
  /\ Value \subseteq Nat /\ {0, 1, 20} \subseteq Value
  /\ Null \notin Value
  /\ MaxPass < Delay    \* "comfortably longer than one tick of the main loop"

VARIABLES
  loop,      \* "stack" in the tick, "restart" where RestartDue is called
  pending,   \* g_restartPending
  kind,      \* g_restartKind
  left,      \* g_restartDueAtMs less the clock, 0 when it has passed
  slot,      \* the Priority_Array of each output
  owed,      \* history: the kinds accepted since the last restart
  ack        \* history: where the first of their SimpleACKs is

restart == <<pending, kind, left>>
history == <<owed, ack>>
vars    == <<loop, restart, slot, history>>

Output   == {"AnalogOutput", "BinaryOutput", "MultiStateOutput"}
Priority == 1 .. Slots
Kind     == {"Cold", "Warm"}

\* Mutant: the lower bound forgotten.
AcceptsStateZero(o, v) ==
  \/ o = "AnalogOutput"
  \/ o = "BinaryOutput" /\ v <= 1
  \/ o = "MultiStateOutput" /\ v <= States

\* The values SetPropertyReal, SetPropertyEnumerated and SetPropertyUnsignedInteger
\* do not refuse with value-out-of-range.
Accepts(o, v) ==
  \/ o = "AnalogOutput"
  \/ o = "BinaryOutput" /\ v <= 1
  \/ o = "MultiStateOutput" /\ 1 <= v /\ v <= States

relinquishDefault ==
  [o \in Output |-> CASE o = "AnalogOutput" -> 20 [] o = "BinaryOutput" -> 0
                      [] o = "MultiStateOutput" -> 1]

PowerOn == [o \in Output |-> [p \in Priority |-> Null]]

TypeOK ==
  /\ loop \in {"stack", "restart"}
  /\ pending \in BOOLEAN /\ kind \in Kind /\ left \in 0 .. Delay
  /\ slot \in [Output -> [Priority -> Value \cup {Null}]]
  /\ \A p \in Priority : /\ slot["BinaryOutput"][p] \in {0, 1, Null}
                         /\ slot["MultiStateOutput"][p] \in 1 .. States \cup {Null}
  /\ owed \subseteq Kind
  /\ ack \in {"none", "encoded", "waiting", "sent"}

Init ==
  /\ loop = "stack"
  /\ pending = FALSE /\ kind = "Warm" /\ left = 0
  /\ slot = PowerOn
  /\ owed = {} /\ ack = "none"

-----------------------------------------------------------------------------
(* In BACnetStack_Tick *)

\* A priority left out, or out of range, is the lowest.
EffectivePriority(p) == IF p \in Priority THEN p ELSE Slots

\* A write of a value, by a client or by the schedule.
CommandWrite(o, p, v) ==
  /\ loop = "stack" /\ Accepts(o, v)
  /\ slot' = [slot EXCEPT ![o][EffectivePriority(p)] = v]
  /\ UNCHANGED <<loop, restart, history>>

\* A write of NULL.
CommandRelinquish(o, p) ==
  /\ loop = "stack"
  /\ slot' = [slot EXCEPT ![o][EffectivePriority(p)] = Null]
  /\ UNCHANGED <<loop, restart, history>>

\* Mutant: the last request's kind and deadline count.
RequestLast(k, delay) == pending' = TRUE /\ kind' = k /\ left' = delay

\* Mutant: a cold request does not upgrade a warm one.
RequestFirst(k, delay) ==
  /\ pending' = TRUE
  /\ IF pending THEN UNCHANGED <<kind, left>> ELSE kind' = k /\ left' = delay

\* Mutant: due at once, as if the ACK had left.
RequestNow(k, delay) ==
  /\ pending' = TRUE /\ left' = 0
  /\ kind' = IF pending /\ k = "Warm" THEN kind ELSE k

\* The earliest deadline and the colder kind.
RequestRestart(k, delay) ==
  /\ pending' = TRUE
  /\ IF pending
     THEN /\ left' = IF delay < left THEN delay ELSE left
          /\ kind' = IF k = "Cold" THEN "Cold" ELSE kind
     ELSE left' = delay /\ kind' = k

\* COLDSTART or WARMSTART, with the right password (and, for WARMSTART on
\* BACnet/SC, certificates that may be used).  A refused request changes nothing.
ReinitializeDevice(k) ==
  /\ loop = "stack"
  /\ RequestRestart(k, Delay)
  /\ owed' = owed \cup {k}
  /\ ack' = IF owed = {} THEN "encoded" ELSE ack
  /\ UNCHANGED <<loop, slot>>

Passed(t) == IF t > left THEN 0 ELSE left - t

\* An ACK encoded in the tick before is on the wire when this one returns.
EndTick(t) ==
  /\ loop = "stack" /\ loop' = "restart"
  /\ left' = Passed(t)
  /\ ack' = IF ack = "waiting" THEN "sent" ELSE ack
  /\ UNCHANGED <<pending, kind, slot, owed>>

-----------------------------------------------------------------------------
(* In the main loop *)

\* The end of the pass: the sleep, and the next tick begins.
NextPass(t) ==
  /\ left' = Passed(t)
  /\ loop' = "stack"

RestartNotDue(t) ==
  /\ loop = "restart" /\ ~(pending /\ left = 0)
  /\ NextPass(t)
  /\ ack' = IF ack = "encoded" THEN "waiting" ELSE ack
  /\ UNCHANGED <<pending, kind, slot, owed>>

\* Mutant: outputs go back to their defaults whatever the kind.
RestartAlwaysCold(t) ==
  /\ loop = "restart" /\ pending /\ left = 0
  /\ NextPass(t)
  /\ pending' = FALSE
  /\ slot' = PowerOn
  /\ owed' = {} /\ ack' = "none"
  /\ UNCHANGED kind

\* A COLDSTART puts the outputs back to power-on; both kinds send an I-Am.
RestartDue(t) ==
  /\ loop = "restart" /\ pending /\ left = 0
  /\ NextPass(t)
  /\ pending' = FALSE
  /\ slot' = IF kind = "Cold" THEN PowerOn ELSE slot
  /\ owed' = {} /\ ack' = "none"
  /\ UNCHANGED kind

Next ==
  \/ \E o \in Output, p \in 0 .. Slots + 1 :
       CommandRelinquish(o, p) \/ \E v \in Value : CommandWrite(o, p, v)
  \/ \E k \in Kind : ReinitializeDevice(k)
  \/ \E t \in 0 .. MaxPass : EndTick(t) \/ RestartNotDue(t) \/ RestartDue(t)

Spec == Init /\ [][Next]_vars

\* The loop goes round, and the clock with it.
FairSpec ==
  /\ Spec
  /\ WF_vars(\E t \in 0 .. MaxPass : EndTick(t))
  /\ SF_vars(\E t \in 1 .. MaxPass : RestartNotDue(t))
  /\ WF_vars(\E t \in 0 .. MaxPass : RestartDue(t))

-----------------------------------------------------------------------------
(* Properties *)

\* The one restart to come is cold if any of the clients waiting for it asked for a
\* cold one, in whatever order they asked; and without a request there is none.
PromisesAreKept ==
  /\ pending <=> owed # {}
  /\ pending => (kind = "Cold" <=> "Cold" \in owed)

\* When the loop restarts the device, the first client's SimpleACK is on the wire.
FirstAckIsOut == loop = "restart" /\ pending /\ left = 0 => ack = "sent"

\* A restart promised to one client is not postponed for another.
NeverPostponed == [][pending /\ pending' => left' <= left]_vars

\* What a client commanded an output to stays commanded through restarts, unless one
\* of the clients asked for a cold one.
CommandsOutliveWarmRestarts ==
  [][\A o \in Output, p \in Priority :
       loop = "restart" /\ slot'[o][p] # slot[o][p] => "Cold" \in owed]_vars

Set(o) == {p \in Priority : slot[o][p] # Null}

\* The stack computes it from the slots (ReadPrioritySlot).
Present_Value(o) ==
  IF Set(o) = {} THEN relinquishDefault[o]
  ELSE slot[o][CHOOSE p \in Set(o) : \A q \in Set(o) : p <= q]

\* A write without a priority moves an output only if nobody holds it with one.
NoPriorityIsTheLowest ==
  [][\A o \in Output, p \in {0, Slots + 1} :
       /\ CommandRelinquish(o, p) \/ \E v \in Value : CommandWrite(o, p, v)
       /\ Set(o) \ {Slots} # {}
       => Present_Value(o)' = Present_Value(o)]_vars

\* Every request that was acknowledged is followed by a restart, however many more
\* requests come in meanwhile.
EveryRequestRestarts == pending ~> ~pending

-----------------------------------------------------------------------------
(* The inductive invariant *)

\* An ACK just encoded has at least the whole delay, less one pass, before it.
AckIsTimed ==
  /\ owed = {} <=> ack = "none"
  /\ loop = "stack" /\ ack = "encoded" => left = Delay
  /\ loop = "restart" => ack # "waiting"
  /\ loop = "restart" /\ ack = "encoded" => left > 0

IInv == TypeOK /\ PromisesAreKept /\ AckIsTimed
=============================================================================
