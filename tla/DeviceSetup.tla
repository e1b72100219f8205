---------------------------- MODULE DeviceSetup ----------------------------
(***************************************************************************)
(* The set-up calls of main() on the stack, in their order, and the        *)
(* property callbacks that answer for what they have set up.               *)
(*                                                                         *)
(* An object is named by its colour.  A fact is what a call has made true  *)
(* in the stack: an object, an enabled or writable property, and so on.    *)
(* What a call needs is what the source says of the stack where it is made.*)
(***************************************************************************)
EXTENDS Sequences, SequencesExt

Link == {"ipv4", "ipv6", "mstp", "sc"}

Port(link) == [ipv4 |-> "Vermilion", ipv6 |-> "Cerulean", mstp |-> "Amber", sc |-> "Teal"][link]

CertificateFiles == {"Operational", "Issuer1", "Issuer2", "SigningRequest"}
Outputs == {"Chartreuse", "Fuchsia", "Indigo"}
GetCommandable(object) == object \in Outputs

-----------------------------------------------------------------------------
(* The calls *)

Object(object) == <<"object", object>>
Held(object) == <<"held", object>>
Enabled(object, property) == <<"enabled", object, property>>
Writable(object, property) == <<"writable", object, property>>

Call(needs, makes) == [needs |-> needs, without |-> {}, makes |-> makes]
Before(facts, call) == [call EXCEPT !.without = facts]

AddObject(object) == Before({Object(object)}, Call({Object("Device")}, {Object(object)}))
Enable(object, property) == Call({Object(object)}, {Enabled(object, property)})
MakeWritable(object, property) == Call({Object(object)}, {Writable(object, property)})
On(object, makes) == Call({Object(object)}, makes)
OnHeld(object, makes) == Call({Held(object)}, makes)
ForEach(call(_), s) == [i \in DOMAIN s |-> call(s[i])]

ProfileServices ==
  <<"ReadProperty", "ReadPropertyMultiple", "WriteProperty", "WritePropertyMultiple", "DeviceCommunicationControl",
    "ReinitializeDevice", "TimeSynchronization", "UTCTimeSynchronization", "AcknowledgeAlarm", "GetEventInformation",
    "ConfirmedEventNotification", "UnconfirmedEventNotification", "AtomicReadFile", "AtomicWriteFile", "ReadRange">>
Discovery == <<"Who-Is", "I-Am", "Who-Has", "I-Have">>

EnableService(service) == On("Device", {<<"service", service>>})

\* ScNode::AddNetworkPort: the bound Files are pending until they are activated.
AddScNetworkPort ==
  <<AddObject("Teal"),
    Enable("Teal", "Current_Health"),
    Enable("Teal", "SC_Primary_Hub_Connection_Status"),
    Enable("Teal", "SC_Failover_Hub_Connection_Status"),
    On("Teal", {<<"uuid">>}),
    Call({Object("Teal"), <<"uuid">>}, {<<"hubs">>}),
    On("Teal", {<<"settings">>}),
    AddObject("Operational"), AddObject("Issuer1"), AddObject("Issuer2"), AddObject("SigningRequest"),
    Call({Object(object) : object \in {"Teal"} \cup CertificateFiles}, {<<"pending">>}),
    Call({<<"pending">>, <<"hubs">>, <<"settings">>}, {<<"active">>})>>

AddNetworkPort(link) ==
  IF link = "sc" THEN AddScNetworkPort
  ELSE <<AddObject(Port(link))>> \o
       (IF link = "ipv4" THEN <<>> ELSE <<Enable(Port(link), "Link_Speed")>>)

\* Mutant: the Device Description is answered but not enabled.
EnableOptionalForgotten ==
  <<Enable("HotPink", "State_Text")>>

\* An optional property that is not enabled is answered with UNKNOWN_PROPERTY,
\* whatever the callback would say.
EnableOptional ==
  <<Enable("Device", "Description"), Enable("HotPink", "State_Text")>>

MakeCommandable(output) ==
  <<Enable(output, "Priority_Array"), Enable(output, "Relinquish_Default"), MakeWritable(output, "Present_Value")>>

\* SetAlarmsAndEventsForObjectEnabled, through Notification Class Crimson.
SetEvents(object) == Call({Object(object), Object("Crimson")}, {<<"events", object>>})
SetAlgorithm(object) == Call({<<"events", object>>}, {<<"algorithm", object>>})

SetUpAlarm(link) ==
  <<Enable("Diamond", "Reliability"), AddObject("Crimson")>> \o
  (IF link = "ipv4" THEN <<On("Crimson", {<<"recipient">>})>> ELSE <<>>) \o
  <<SetEvents("Diamond"), MakeWritable("Crimson", "Recipient_List"), SetAlgorithm("Diamond")>>

\* AddCalendarObject and AddScheduleObject make the stack hold the data of an
\* object that AddObject has added.
SetUpSchedule ==
  <<AddObject("Saffron"), AddObject("Cream"),
    On("Cream", {Held("Cream")}), OnHeld("Cream", {<<"entry">>}), MakeWritable("Cream", "Date_List"),
    On("Saffron", {Held("Saffron")}),
    Call({Held("Saffron"), Object("Chartreuse")}, {<<"reference", "local">>}),
    OnHeld("Saffron", {<<"reference", "remote">>}),
    OnHeld("Saffron", {<<"priority">>}),
    OnHeld("Saffron", {<<"default">>}),
    OnHeld("Saffron", {<<"period">>}),
    OnHeld("Saffron", {<<"weekly">>}),
    Call({Held("Saffron"), Held("Cream")}, {<<"exception">>}),
    Call({<<"exception">>}, {<<"exceptionValue">>})>>

SetUpBackup ==
  <<AddObject("Ivory"), MakeWritable("Ivory", "Archive"), Call({Object("Ivory")}, {<<"backup">>})>>

SetPolled(log) == On(log, {<<"polled", log>>})
SetWindow(log) == Before({<<"polled", log>>}, On(log, {<<"window", log>>}))
LogObject(object) == Call({Object("Magenta"), Object(object)}, {<<"logged", object>>})

\* Mutant: polling before the window.
SetUpLilacPolledFirst ==
  <<AddObject("Lilac"), SetPolled("Lilac"), SetWindow("Lilac"), SetEvents("Lilac"), SetAlgorithm("Lilac")>>

\* Start_Time and Stop_Time go before polling: the other order logs nothing.
SetUpLilac ==
  <<AddObject("Lilac"), SetWindow("Lilac"), SetPolled("Lilac"), SetEvents("Lilac"), SetAlgorithm("Lilac")>>

SetUpMagenta ==
  <<AddObject("Magenta"), LogObject("Bronze"), LogObject("Diamond"), LogObject("Chartreuse"), SetPolled("Magenta")>>

Setup(link) ==
  <<Before({Object("Device")}, Call({}, {Object("Device")}))>> \o
  ForEach(EnableService, ProfileServices \o Discovery) \o
  ForEach(AddObject, <<"Bronze", "Emerald", "HotPink", "Chartreuse", "Fuchsia", "Indigo", "Diamond">>) \o
  AddNetworkPort(link) \o EnableOptional \o
  MakeCommandable("Chartreuse") \o MakeCommandable("Fuchsia") \o MakeCommandable("Indigo") \o
  SetUpAlarm(link) \o SetUpSchedule \o SetUpBackup \o SetUpLilac \o SetUpMagenta

\* What the first n calls have made true.
Made(link, n) == UNION {Setup(link)[i].makes : i \in 1 .. n}

-----------------------------------------------------------------------------
(* The Get callbacks: what each answers, as <<object, property>> *)

GetPropertyReal(link) ==
  {<<"Bronze", "Present_Value">>, <<"Diamond", "Present_Value">>, <<"Vermilion", "Link_Speed">>,
   <<"Chartreuse", "Priority_Array">>, <<"Chartreuse", "Relinquish_Default">>} \cup
  (IF link \in {"mstp", "ipv6"} THEN {<<Port(link), "Link_Speed">>} ELSE {})

GetPropertyEnumerated(link) ==
  {<<"Saffron", "Reliability">>, <<"Cream", "Reliability">>, <<"Diamond", "Reliability">>,
   <<"Emerald", "Present_Value">>, <<"Emerald", "Polarity">>, <<"Diamond", "Units">>,
   <<"Fuchsia", "Priority_Array">>, <<"Fuchsia", "Relinquish_Default">>, <<"Fuchsia", "Polarity">>,
   <<"Bronze", "Units">>, <<"Chartreuse", "Units">>, <<"Vermilion", "BACnet_IP_Mode">>}

GetDataLinkPortUnsigned(link) ==
  CASE link = "ipv6" -> {<<"Cerulean", p>> : p \in {"IPv6_Prefix_Length", "BACnet_IPv6_UDP_Port", "IPv6_DNS_Server"}}
    [] link = "mstp" -> {<<"Amber", "Max_Master">>, <<"Amber", "Max_Info_Frames">>, <<"Device", "Max_APDU_Length_Accepted">>}
    [] link = "sc"   -> CertificateFiles \X {"File_Size"}
    [] OTHER         -> {}

GetPropertyUnsignedInteger(link) ==
  GetDataLinkPortUnsigned(link) \cup
  {<<"HotPink", "Present_Value">>, <<"HotPink", "Number_Of_States">>, <<"HotPink", "State_Text">>,
   <<"Device", "Vendor_Identifier">>, <<"Ivory", "File_Size">>,
   <<"Indigo", "Priority_Array">>, <<"Indigo", "Relinquish_Default">>, <<"Indigo", "Number_Of_States">>} \cup
  {<<"Vermilion", p>> : p \in {"APDU_Length", "Reference_Port", "BACnet_IP_UDP_Port"}}

\* Out_Of_Service is answered by object type: of whatever port there is.
GetPropertyBool(link) ==
  (Outputs \X {"Priority_Array"}) \cup {<<"Ivory", "Archive">>, <<"Ivory", "Read_Only">>} \cup
  ((Outputs \cup {"Bronze", "Emerald", "HotPink", "Diamond", "Saffron", "Cream", Port(link)}) \X {"Out_Of_Service"}) \cup
  (IF link = "sc" THEN CertificateFiles \X {"Archive", "Read_Only"} ELSE {})

GetPropertyOctetString(link) ==
  CASE link = "ipv4" -> {<<"Vermilion", p>> : p \in {"IP_Address", "IP_Subnet_Mask", "IP_Default_Gateway"}}
    [] link = "ipv6" -> {<<"Cerulean", p>> : p \in {"IPv6_Address", "IPv6_Default_Gateway", "IPv6_DNS_Server"}}
    [] link = "mstp" -> {<<"Amber", "MAC_Address">>}
    [] OTHER         -> {}

GetPropertyCharString(link) ==
  ((Outputs \cup {"Device", "Bronze", "Emerald", "HotPink", "Diamond", "Crimson", "Vermilion", Port(link),
                  "Saffron", "Cream", "Ivory", "Lilac", "Magenta"}) \X {"Object_Name"}) \cup
  {<<"HotPink", "State_Text">>, <<"Ivory", "File_Type">>} \cup
  {<<"Device", p>> : p \in {"Description", "Vendor_Name", "Model_Name", "Firmware_Revision",
                            "Application_Software_Version"}} \cup
  (IF link = "sc" THEN CertificateFiles \X {"Object_Name", "File_Type"} ELSE {})

GetPropertyTimeAndDate(link) ==
  {<<"Ivory", "Modification_Date">>, <<"Device", "Local_Time">>, <<"Device", "Local_Date">>} \cup
  (IF link = "sc" THEN CertificateFiles \X {"Modification_Date"} ELSE {})

Served(link) ==
  UNION {GetPropertyReal(link), GetPropertyEnumerated(link), GetPropertyUnsignedInteger(link), GetPropertyBool(link),
         GetPropertyOctetString(link), GetPropertyCharString(link), GetPropertyTimeAndDate(link)}

(* The Set callbacks *)

SetPropertyOfOutput == {<<output, "Present_Value">> : output \in Outputs}
SetPropertyUnsignedInteger(link) ==
  {<<Port(link), "Network_Number">>} \cup
  (CASE link = "mstp" -> {<<"Amber", "Max_Master">>, <<"Amber", "Max_Info_Frames">>}
     [] link = "sc"   -> CertificateFiles \X {"File_Size"}
     [] OTHER         -> {})
SetPropertyBool == {<<"Ivory", "Archive">>}

Settable(link) == SetPropertyOfOutput \cup SetPropertyUnsignedInteger(link) \cup SetPropertyBool
=============================================================================
