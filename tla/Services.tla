------------------------------ MODULE Services ------------------------------
(***************************************************************************)
(* What the service callbacks of main.cpp keep: File 1 "Ivory" with its    *)
(* backup and restore, and the Network Port values a client has written    *)
(* and ReinitializeDevice activates.                                       *)
(***************************************************************************)
EXTENDS Integers, Sequences, FiniteSets

CONSTANTS
  Octet,        \* what a file may hold; 0 is an octet never written
  FileMaxSize,  \* FILE_MAX_SIZE
  Wrap,         \* 2^32: uint32_t counts modulo Wrap, and fileStart is an int32_t
  PortValues    \* the values the stack's own range check lets through, by property

\* What a client may write to the IPv6 port beside Network_Number, of the types
\* that have a set callback (docs/objects.json, "Cerulean").
HeldOnIPv6 == {"BACnet_IPv6_Mode", "FD_Subscription_Lifetime", "BBMD_Accept_FD_Registrations"}

ASSUME ServicesAssumption ==
  /\ 0 \in Octet /\ FileMaxSize \in Nat
  /\ Wrap \in Nat /\ Wrap > FileMaxSize + 2
  /\ DOMAIN PortValues \subseteq {"Max_Master", "Max_Info_Frames", "Network_Number"} \cup HeldOnIPv6
  /\ \A p \in DOMAIN PortValues : PortValues[p] \subseteq Nat

VARIABLES
  fileData,   \* g_fileData
  fileLength, \* g_fileDataLength
  archive,    \* g_fileArchive
  session,    \* the client's backup or restore
  written,    \* the stack's pending writes to the Network Port, -1 for none
  mstpPort,   \* g_options.mstpMaxMaster and mstpMaxInfoFrames
  refused     \* the pending writes that an activation has failed for

ivory == <<fileData, fileLength, archive, session>>
port == <<written, mstpPort, refused>>
services == <<ivory, port>>

Place == 1 .. FileMaxSize
Portable == DOMAIN PortValues
NothingWritten == [p \in Portable |-> -1]
NoSession == [kind |-> "none", data |-> <<>>, touched |-> {}, ended |-> FALSE]

\* A session has the octets read or written so far, and the places among them that
\* another client has written since.
Sessions(Data) == [kind : {"none", "backup", "restore"}, data : Data, touched : SUBSET Place, ended : BOOLEAN]

ServicesTypeOK ==
  /\ fileData \in [Place -> Octet] /\ fileLength \in 0 .. FileMaxSize /\ archive \in BOOLEAN
  /\ session \in Sessions(UNION {[1 .. n -> Octet] : n \in 0 .. FileMaxSize})
  /\ \A p \in Portable : written[p] \in PortValues[p] \cup {-1}
  /\ mstpPort \in [maxMaster : 0 .. 127, maxInfoFrames : 1 .. 255] /\ refused \subseteq Portable

ServicesInit ==
  /\ fileData = [i \in Place |-> 0] /\ fileLength = 0 /\ archive = FALSE /\ session = NoSession
  /\ written = NothingWritten /\ mstpPort = [maxMaster |-> 127, maxInfoFrames |-> 1] /\ refused = {}

-----------------------------------------------------------------------------
(* Ivory *)

Smaller(a, b) == IF a < b THEN a ELSE b
Larger(a, b)  == IF a > b THEN a ELSE b

\* ReadFile: at most count octets from start; endOfFile when none is left.
EndOfFile(start, count) == start >= fileLength \/ start + count >= fileLength
ReadFile(start, count) ==
  [i \in 1 .. Smaller(count, Larger(fileLength - start, 0)) |-> fileData[start + i]]

\* WriteFile: start -1 appends, any other becomes a uint32_t, and so does the sum
\* that is held against FILE_MAX_SIZE.
From(start) == IF start = -1 THEN fileLength ELSE start % Wrap
End(start, data) == (From(start) + Len(data)) % Wrap
Fits(start, data) == End(start, data) <= FileMaxSize

\* Mutant: the file ends where the last write ends.
NewLengthTruncates(start, data) == End(start, data)

NewLength(start, data) == Larger(fileLength, End(start, data))
Target(start, data) == From(start) + 1 .. From(start) + Len(data)

\* Past the end it leaves a gap never written; a file never gets shorter.  A start
\* below -1 may let the sum wrap, and memcpy then begins outside g_fileData, which is
\* undefined: g_fileData may hold anything (bound: and nothing else is disturbed).
WriteFile(start, data) ==
  /\ Fits(start, data)
  /\ fileLength' = NewLength(start, data)
  /\ IF Target(start, data) \subseteq Place
     THEN fileData' = [i \in Place |-> IF i \in Target(start, data) THEN data[i - From(start)] ELSE fileData[i]]
     ELSE fileData' \in [Place -> Octet]

\* The places a write may have changed, and those it has added to the file.
Touches(start, data) ==
  (IF Target(start, data) \subseteq Place THEN Target(start, data) ELSE Place) \cup (fileLength + 1 .. fileLength')

Chunk == UNION {[1 .. n -> Octet] : n \in 1 .. 2}  \* bound: the octets of one request
FileStart == -(Wrap \div 2) .. Wrap \div 2 - 1      \* int32_t

\* The places a session has something to say of: what it has read or written, and
\* that a backup read to the end of the file has left nothing out.
Covered == IF session.kind = "backup" /\ session.ended THEN Place ELSE 1 .. Len(session.data)

\* Another client writes the file, or marks it archived (SetPropertyBool).
Write ==
  \E start \in FileStart, data \in Chunk :
     /\ WriteFile(start, data)
     /\ session' = [session EXCEPT !.touched = @ \cup (Touches(start, data) \cap Covered)]
     /\ UNCHANGED <<archive, port>>

SetArchive ==
  /\ archive' = ~archive
  /\ UNCHANGED <<fileData, fileLength, session, port>>

\* STARTBACKUP and STARTRESTORE; PrepareBackup and PrepareRestore stage nothing.
StartSession ==
  /\ session.kind = "none"
  /\ \E kind \in {"backup", "restore"} : session' = [NoSession EXCEPT !.kind = kind]
  /\ UNCHANGED <<fileData, fileLength, archive, port>>

\* The client reads on where the last chunk ended, until the end of the file.
ReadChunk ==
  /\ session.kind = "backup" /\ ~session.ended
  /\ \E count \in 1 .. 2 :
       LET start == Len(session.data) IN
       session' = [session EXCEPT !.data = @ \o ReadFile(start, count), !.ended = EndOfFile(start, count)]
  /\ UNCHANGED <<fileData, fileLength, archive, port>>

\* The client writes what it has, chunk after chunk from the start.
RestoreChunk ==
  /\ session.kind = "restore" /\ ~session.ended
  /\ \E data \in Chunk :
       LET start == Len(session.data) IN
       /\ WriteFile(start, data)
       /\ session' = [session EXCEPT !.data = @ \o data]
  /\ UNCHANGED <<archive, port>>

\* ENDRESTORE (CompleteRestore does nothing but print).
EndRestore ==
  /\ session.kind = "restore" /\ ~session.ended
  /\ session' = [session EXCEPT !.ended = TRUE]
  /\ UNCHANGED <<fileData, fileLength, archive, port>>

\* ENDBACKUP, ABORTRESTORE, or the client forgets about it.
Forget ==
  /\ session.kind # "none" /\ session' = NoSession
  /\ UNCHANGED <<fileData, fileLength, archive, port>>

Ivory == Write \/ SetArchive \/ StartSession \/ ReadChunk \/ RestoreChunk \/ EndRestore \/ Forget

-----------------------------------------------------------------------------
(* The Network Port *)

\* The stack holds a write of a client as pending.
Writes(link) ==
  Portable \cap (CASE link = "mstp" -> {"Max_Master", "Max_Info_Frames", "Network_Number"}
                   [] link = "ipv6" -> {"Network_Number"} \cup HeldOnIPv6
                   [] OTHER         -> {"Network_Number"})
WritePort(link) ==
  /\ \E p \in Writes(link) : \E value \in PortValues[p] : written' = [written EXCEPT ![p] = value]
  /\ UNCHANGED <<ivory, mstpPort, refused>>

\* Command DISCARD_CHANGES (NetworkPortCommand accepts it, the stack reverts).
DiscardChanges ==
  /\ written' = NothingWritten /\ refused' = {}
  /\ UNCHANGED <<ivory, mstpPort>>

\* Mutant: only what the application stores itself is accepted.
SetAcceptsItsOwn(link, property) == link = "mstp" /\ property # "Network_Number"

\* SetPropertyUnsignedInteger, SetPropertyEnumerated and SetPropertyBool for the port:
\* do they take the property?
SetAccepts(link, property) == link = "mstp" \/ property = "Network_Number"

Clamp(low, value, high) == IF value < low THEN low ELSE IF value > high THEN high ELSE value

\* ACTIVATE_CHANGES and WARMSTART, after ReinitializeDevice has accepted.  What a
\* callback refuses stays pending; what the stack hands over beside it, before or
\* after, is the stack's choice.
Activate(link) ==
  LET set     == {p \in Portable : written[p] # -1}
      accepts == {p \in set : SetAccepts(link, p)} IN
  \E took \in SUBSET accepts :
    /\ accepts = set => took = set
    /\ written' = [p \in Portable |-> IF p \in took THEN -1 ELSE written[p]]
    /\ mstpPort' =
         [maxMaster     |-> IF link = "mstp" /\ "Max_Master" \in took
                              THEN Clamp(0, written["Max_Master"], 127) ELSE mstpPort.maxMaster,
          maxInfoFrames |-> IF link = "mstp" /\ "Max_Info_Frames" \in took
                              THEN Clamp(1, written["Max_Info_Frames"], 255) ELSE mstpPort.maxInfoFrames]
    /\ refused' = set \ accepts
    /\ UNCHANGED ivory

-----------------------------------------------------------------------------
(* Properties *)

\* Whoever else writes between the chunks of a backup or a restore, each octet read
\* (ReadFile) or restored (WriteFile) is the file's at its place until another client
\* writes that place, and a backup read to the end of the file has left nothing out
\* that was there.  (A file is never shortened: what was there beyond a shorter
\* restore stays.)
FileRoundTrips ==
  /\ Len(session.data) <= fileLength
  /\ \A i \in 1 .. Len(session.data) : i \notin session.touched => session.data[i] = fileData[i]
  /\ session.kind = "backup" /\ session.ended =>
       \A i \in 1 .. fileLength : i \notin session.touched => i <= Len(session.data)
=============================================================================
