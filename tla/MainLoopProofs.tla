--------------------------- MODULE MainLoopProofs ---------------------------
(***************************************************************************)
(* Theorems about main(): its types; that the order of the words on the    *)
(* command line does not matter, and that main() does what was typed, for  *)
(* every set of words and every length of the command line; and that no    *)
(* set-up call is refused.                                                 *)
(***************************************************************************)
EXTENDS MainLoop, FoldLemmas, FiniteSetTheorems, FunctionTheorems

-----------------------------------------------------------------------------
(* The data link *)

LEMMA NamedLinks == \A name \in DOMAIN Named : Named[name] \in Link
  BY DEF Named, Link

LEMMA DefaultDataLink == "--datalink" \in DOMAIN Defaults /\ Text(Defaults["--datalink"]) \in DOMAIN Named
<1>1. "--datalink" \in Option \ {"--deviceName"}
  BY DEF Option
<1>2. DOMAIN Defaults = Option \ {"--deviceName"} /\ Defaults["--datalink"] = Default("--datalink")
  BY <1>1 DEF Defaults
<1>3. Default("--datalink") = <<"ipv4", -1>>
  BY Zenon DEF Default
<1>4. Text(Default("--datalink")) = "ipv4"
  BY <1>3 DEF Text
<1> QED BY <1>1, <1>2, <1>4 DEF Named

\* What ParseCommandLine has made of the arguments so far: unless it has failed,
\* --datalink has a value that names a data link.
Sound(p) ==
  \E failed \in BOOLEAN : \E waiting, given, options :
    /\ p = [failed |-> failed, waiting |-> waiting, given |-> given, options |-> options]
    /\ options = [o \in DOMAIN Defaults |-> options[o]]
    /\ failed \/ Text(options["--datalink"]) \in DOMAIN Named

LEMMA SoundStart == Sound(Start)
  BY DefaultDataLink DEF Sound, Start, Defaults

\* One more argument keeps it so: a value for --datalink is accepted only if it
\* is a name, and the other options leave it alone.
LEMMA SoundRead == ASSUME NEW p, NEW argument, Sound(p) PROVE Sound(Read(p, argument))
<1>1. PICK failed \in BOOLEAN : \E waiting, given, options :
        /\ p = [failed |-> failed, waiting |-> waiting, given |-> given, options |-> options]
        /\ options = [o \in DOMAIN Defaults |-> options[o]]
        /\ failed \/ Text(options["--datalink"]) \in DOMAIN Named
  BY DEF Sound
<1>2. PICK waiting, given, options :
        /\ p = [failed |-> failed, waiting |-> waiting, given |-> given, options |-> options]
        /\ options = [o \in DOMAIN Defaults |-> options[o]]
        /\ failed \/ Text(options["--datalink"]) \in DOMAIN Named
  BY <1>1
<1>3. CASE failed \/ (waiting = "" /\ Text(argument) = "--xml")
  BY <1>2, <1>3 DEF Read
<1>4. CASE ~failed /\ waiting # ""
  <2> DEFINE after == IF waiting = "--deviceName" THEN options ELSE [options EXCEPT ![waiting] = argument]
  <2>1. Read(p, argument) = [failed |-> ~Accepts(waiting, argument), waiting |-> "",
                             given |-> given \cup {waiting}, options |-> after]
    BY <1>2, <1>4 DEF Read, Value
  <2>2. after = [o \in DOMAIN Defaults |-> after[o]]
    BY <1>2
  <2>3. (~Accepts(waiting, argument)) \in BOOLEAN
    BY DEF Accepts
  <2>4. Accepts(waiting, argument) => Text(after["--datalink"]) \in DOMAIN Named
    <3>1. CASE waiting = "--datalink"
      <4>1. after["--datalink"] = argument
        BY <1>2, <3>1, DefaultDataLink
      <4> QED BY <3>1, <4>1 DEF Accepts
    <3>2. CASE waiting # "--datalink"
      <4>1. after["--datalink"] = options["--datalink"]
        BY <1>2, <3>2, DefaultDataLink
      <4> QED BY <1>2, <1>4, <4>1
    <3> QED BY <3>1, <3>2
  <2> HIDE DEF after
  <2> QED BY <2>1, <2>2, <2>3, <2>4 DEF Sound
<1>5. CASE ~failed /\ waiting = "" /\ Text(argument) # "--xml"
  <2>1. Read(p, argument) = [failed |-> Text(argument) \notin Option, waiting |-> Text(argument),
                             given |-> given, options |-> options]
    BY <1>2, <1>5 DEF Read
  <2>2. (Text(argument) \notin Option) \in BOOLEAN OBVIOUS
  <2>3. Text(argument) \notin Option \/ Text(options["--datalink"]) \in DOMAIN Named
    BY <1>2, <1>5
  <2> QED BY <1>2, <2>1, <2>2, <2>3 DEF Sound
<1> QED BY <1>3, <1>4, <1>5

LEMMA ResultLink == ASSUME NEW p, Sound(p) PROVE DataLink(Result(p).options) \in Link
<1>1. p.failed \/ Text(p.options["--datalink"]) \in DOMAIN Named
  BY DEF Sound
<1>2. CASE p.failed \/ p.waiting # "" \/ ~Combination(p.given, p.options)
  <2>1. Result(p).options = Defaults
    BY <1>2 DEF Result
  <2> QED BY <2>1, DefaultDataLink, NamedLinks DEF DataLink
<1>3. CASE ~(p.failed \/ p.waiting # "" \/ ~Combination(p.given, p.options))
  <2>1. Result(p).options = p.options
    BY <1>3 DEF Result
  <2> QED BY <1>1, <1>3, <2>1, NamedLinks DEF DataLink
<1> QED BY <1>2, <1>3

-----------------------------------------------------------------------------
(* Types *)

\* The value of an option is an argument somebody typed, or its default.
ParsedSoFar(p) ==
  \E failed \in BOOLEAN : \E waiting, given, options :
    /\ p = [failed |-> failed, waiting |-> waiting, given |-> given, options |-> options]
    /\ failed \/ waiting \in Option \cup {""}
    /\ given \subseteq Option
    /\ options = [o \in DOMAIN Defaults |-> options[o]]
    /\ \A o \in DOMAIN Defaults : options[o] \in Argument \cup {Defaults[o]}

LEMMA ParsedIs ==
  ASSUME NEW failed \in BOOLEAN, NEW waiting, NEW given, NEW options,
         failed \/ waiting \in Option \cup {""}, given \subseteq Option,
         options = [o \in DOMAIN Defaults |-> options[o]],
         \A o \in DOMAIN Defaults : options[o] \in Argument \cup {Defaults[o]}
  PROVE  ParsedSoFar([failed |-> failed, waiting |-> waiting, given |-> given, options |-> options])
  BY Zenon DEF ParsedSoFar

LEMMA ParsedSoFarTyped == ASSUME NEW p, ParsedSoFar(p) PROVE Parsed(p)
<1>1. PICK failed \in BOOLEAN : \E waiting, given, options :
        /\ p = [failed |-> failed, waiting |-> waiting, given |-> given, options |-> options]
        /\ failed \/ waiting \in Option \cup {""}
        /\ given \subseteq Option
        /\ \A o \in DOMAIN Defaults : options[o] \in Argument \cup {Defaults[o]}
  BY DEF ParsedSoFar
<1>2. PICK waiting, given, options :
        /\ p = [failed |-> failed, waiting |-> waiting, given |-> given, options |-> options]
        /\ failed \/ waiting \in Option \cup {""}
        /\ given \subseteq Option
        /\ \A o \in DOMAIN Defaults : options[o] \in Argument \cup {Defaults[o]}
  BY <1>1
<1>3. DOMAIN p = DOMAIN Start
  BY <1>2 DEF Start
<1>4. p.failed = failed /\ p.waiting = waiting /\ p.given = given /\ p.options = options
  BY <1>2
<1> QED BY <1>2, <1>3, <1>4 DEF Parsed

LEMMA ParsedStart == ParsedSoFar(Start)
<1> DEFINE none == {}
<1>1. FALSE \in BOOLEAN /\ none \subseteq Option /\ "" \in Option \cup {""}
  OBVIOUS
<1>2. Defaults = [o \in DOMAIN Defaults |-> Defaults[o]]
  BY DEF Defaults
<1>3. \A o \in DOMAIN Defaults : Defaults[o] \in Argument \cup {Defaults[o]}
  OBVIOUS
<1> HIDE DEF none
<1>4. ParsedSoFar([failed |-> FALSE, waiting |-> "", given |-> none, options |-> Defaults])
  BY <1>1, <1>2, <1>3, ParsedIs, Zenon
<1> QED BY <1>4 DEF Start, none

LEMMA ParsedRead ==
  ASSUME NEW p, NEW argument \in Argument, ParsedSoFar(p)
  PROVE  ParsedSoFar(Read(p, argument))
<1>1. PICK failed \in BOOLEAN : \E waiting, given, options :
        /\ p = [failed |-> failed, waiting |-> waiting, given |-> given, options |-> options]
        /\ failed \/ waiting \in Option \cup {""}
        /\ given \subseteq Option
        /\ options = [o \in DOMAIN Defaults |-> options[o]]
        /\ \A o \in DOMAIN Defaults : options[o] \in Argument \cup {Defaults[o]}
  BY DEF ParsedSoFar
<1>2. PICK waiting, given, options :
        /\ p = [failed |-> failed, waiting |-> waiting, given |-> given, options |-> options]
        /\ failed \/ waiting \in Option \cup {""}
        /\ given \subseteq Option
        /\ options = [o \in DOMAIN Defaults |-> options[o]]
        /\ \A o \in DOMAIN Defaults : options[o] \in Argument \cup {Defaults[o]}
  BY <1>1
<1>3. CASE failed \/ (waiting = "" /\ Text(argument) = "--xml")
  <2>1. Read(p, argument) = p
    BY <1>2, <1>3 DEF Read
  <2> QED BY <2>1
<1>4. CASE ~failed /\ waiting # ""
  <2> DEFINE after == IF waiting = "--deviceName" THEN options ELSE [options EXCEPT ![waiting] = argument]
             gives == given \cup {waiting}
             fails == ~Accepts(waiting, argument)
  <2>1. Read(p, argument) = [failed |-> fails, waiting |-> "", given |-> gives, options |-> after]
    BY <1>2, <1>4 DEF Read, Value
  <2>2. after = [o \in DOMAIN Defaults |-> after[o]]
    BY <1>2
  <2>3. fails \in BOOLEAN
    BY DEF Accepts
  <2>4. \A o \in DOMAIN Defaults : after[o] \in Argument \cup {Defaults[o]}
    BY <1>2
  <2>5. gives \subseteq Option /\ "" \in Option \cup {""}
    BY <1>2, <1>4
  <2> HIDE DEF after, gives, fails
  <2>6. ParsedSoFar([failed |-> fails, waiting |-> "", given |-> gives, options |-> after])
    BY <2>2, <2>3, <2>4, <2>5, ParsedIs, Zenon
  <2> QED BY <2>1, <2>6
<1>5. CASE ~failed /\ waiting = "" /\ Text(argument) # "--xml"
  <2> DEFINE fails == Text(argument) \notin Option
  <2>1. Read(p, argument) = [failed |-> fails, waiting |-> Text(argument), given |-> given, options |-> options]
    BY <1>2, <1>5 DEF Read
  <2>2. fails \in BOOLEAN /\ (fails \/ Text(argument) \in Option \cup {""})
    OBVIOUS
  <2> HIDE DEF fails
  <2>3. ParsedSoFar([failed |-> fails, waiting |-> Text(argument), given |-> given, options |-> options])
    BY <1>2, <2>2, ParsedIs, Zenon
  <2> QED BY <2>1, <2>3
<1> QED BY <1>3, <1>4, <1>5

-----------------------------------------------------------------------------
(* The set-up calls are a list *)

IsList(s) == \E S : s \in Seq(S)

LEMMA ListsJoin == ASSUME NEW s, NEW t, IsList(s), IsList(t) PROVE IsList(s \o t)
<1>1. PICK S, T : s \in Seq(S) /\ t \in Seq(T)
  BY DEF IsList
<1>2. s \in Seq(S \cup T) /\ t \in Seq(S \cup T)
  BY <1>1, SeqMonotonic
<1>3. s \o t \in Seq(S \cup T)
  BY <1>2, ConcatProperties
<1> QED BY <1>3 DEF IsList

LEMMA ListLength == ASSUME NEW s, IsList(s) PROVE Len(s) \in Nat
  BY DEF IsList

LEMMA ListOf == ASSUME NEW s, NEW n \in Nat, s = [i \in 1 .. n |-> s[i]] PROVE IsList(s)
<1>1. s \in Seq({s[i] : i \in 1 .. n})
  OBVIOUS
<1> QED BY <1>1 DEF IsList

LEMMA ListDomain == ASSUME NEW s, IsList(s) PROVE DOMAIN s = 1 .. Len(s)
  BY DEF IsList

LEMMA EnabledServices == ASSUME NEW s, IsList(s) PROVE IsList(ForEach(EnableService, s))
<1> DEFINE t == [i \in 1 .. Len(s) |-> EnableService(s[i])]
<1>1. ForEach(EnableService, s) = t
  BY ListDomain DEF ForEach
<1>2. t = [i \in 1 .. Len(s) |-> t[i]]
  OBVIOUS
<1> HIDE DEF t
<1> QED BY <1>1, <1>2, ListLength, ListOf

LEMMA AddedObjects == ASSUME NEW s, IsList(s) PROVE IsList(ForEach(AddObject, s))
<1> DEFINE t == [i \in 1 .. Len(s) |-> AddObject(s[i])]
<1>1. ForEach(AddObject, s) = t
  BY ListDomain DEF ForEach
<1>2. t = [i \in 1 .. Len(s) |-> t[i]]
  OBVIOUS
<1> HIDE DEF t
<1> QED BY <1>1, <1>2, ListLength, ListOf

LEMMA Lists ==
  /\ IsList(ProfileServices) /\ IsList(Discovery) /\ IsList(AddScNetworkPort) /\ IsList(EnableOptional)
  /\ IsList(SetUpSchedule) /\ IsList(SetUpBackup) /\ IsList(SetUpLilac) /\ IsList(SetUpMagenta)
<1>1. IsList(ProfileServices)
  <2>1. ProfileServices = [i \in 1 .. 15 |-> ProfileServices[i]]
    BY DEF ProfileServices
  <2> QED BY <2>1, ListOf
<1>2. IsList(Discovery)
  <2>1. Discovery = [i \in 1 .. 4 |-> Discovery[i]]
    BY DEF Discovery
  <2> QED BY <2>1, ListOf
<1>3. IsList(AddScNetworkPort)
  <2>1. AddScNetworkPort = [i \in 1 .. 13 |-> AddScNetworkPort[i]]
    BY DEF AddScNetworkPort
  <2> QED BY <2>1, ListOf
<1>4. IsList(EnableOptional)
  <2>1. EnableOptional = [i \in 1 .. 2 |-> EnableOptional[i]]
    BY DEF EnableOptional
  <2> QED BY <2>1, ListOf
<1>5. IsList(SetUpSchedule)
  <2>1. SetUpSchedule = [i \in 1 .. 14 |-> SetUpSchedule[i]]
    BY DEF SetUpSchedule
  <2> QED BY <2>1, ListOf
<1>6. IsList(SetUpBackup)
  <2>1. SetUpBackup = [i \in 1 .. 3 |-> SetUpBackup[i]]
    BY DEF SetUpBackup
  <2> QED BY <2>1, ListOf
<1>7. IsList(SetUpLilac)
  <2>1. SetUpLilac = [i \in 1 .. 5 |-> SetUpLilac[i]]
    BY DEF SetUpLilac
  <2> QED BY <2>1, ListOf
<1>8. IsList(SetUpMagenta)
  <2>1. SetUpMagenta = [i \in 1 .. 5 |-> SetUpMagenta[i]]
    BY DEF SetUpMagenta
  <2> QED BY <2>1, ListOf
<1> QED BY <1>1, <1>2, <1>3, <1>4, <1>5, <1>6, <1>7, <1>8

LEMMA ListOfOne == ASSUME NEW c PROVE IsList(<<c>>)
<1> DEFINE s == <<c>>
<1>1. s = [i \in 1 .. 1 |-> s[i]]
  OBVIOUS
<1> HIDE DEF s
<1>2. IsList(s)
  BY <1>1, ListOf
<1> QED BY <1>2 DEF s

LEMMA ListOfNone == IsList(<<>>)
  BY EmptySeq DEF IsList

LEMMA ListsOfLinks == ASSUME NEW l PROVE IsList(AddNetworkPort(l)) /\ IsList(SetUpAlarm(l))
<1>1. IsList(AddNetworkPort(l))
  <2> DEFINE speed == IF l = "ipv4" THEN <<>> ELSE <<Enable(Port(l), "Link_Speed")>>
             port == <<AddObject(Port(l))>>
  <2>1. IsList(speed) /\ IsList(port)
    BY ListOfOne, ListOfNone
  <2>2. AddNetworkPort(l) = AddScNetworkPort \/ AddNetworkPort(l) = port \o speed
    BY DEF AddNetworkPort
  <2> HIDE DEF speed, port
  <2> QED BY <2>1, <2>2, Lists, ListsJoin
<1>2. IsList(SetUpAlarm(l))
  <2> DEFINE first == <<Enable("Diamond", "Reliability"), AddObject("Crimson")>>
             recipient == IF l = "ipv4" THEN <<On("Crimson", {<<"recipient">>})>> ELSE <<>>
             last == <<SetEvents("Diamond"), MakeWritable("Crimson", "Recipient_List"), SetAlgorithm("Diamond")>>
  <2>1. IsList(recipient)
    BY ListOfOne, ListOfNone
  <2>2. first = [i \in 1 .. 2 |-> first[i]] /\ last = [i \in 1 .. 3 |-> last[i]]
    OBVIOUS
  <2>3. SetUpAlarm(l) = (first \o recipient) \o last
    BY DEF SetUpAlarm
  <2> HIDE DEF first, recipient, last
  <2>4. IsList(first) /\ IsList(last)
    BY <2>2, ListOf
  <2> QED BY <2>1, <2>3, <2>4, ListsJoin
<1> QED BY <1>1, <1>2

LEMMA ListOfThree == ASSUME NEW output PROVE IsList(MakeCommandable(output))
<1>1. MakeCommandable(output) = [i \in 1 .. 3 |-> MakeCommandable(output)[i]]
  BY DEF MakeCommandable
<1> QED BY <1>1, ListOf

\* main() makes a definite number of set-up calls.
LEMMA SetupLength == ASSUME NEW l PROVE IsList(Setup(l))
<1> DEFINE device == Before({Object("Device")}, Call({}, {Object("Device")}))
           objects == <<"Bronze", "Emerald", "HotPink", "Chartreuse", "Fuchsia", "Indigo", "Diamond">>
<1>1. objects = [i \in 1 .. 7 |-> objects[i]]
  OBVIOUS
<1>2. Setup(l) =
        <<device>> \o ForEach(EnableService, ProfileServices \o Discovery) \o ForEach(AddObject, objects) \o
        AddNetworkPort(l) \o EnableOptional \o
        MakeCommandable("Chartreuse") \o MakeCommandable("Fuchsia") \o MakeCommandable("Indigo") \o
        SetUpAlarm(l) \o SetUpSchedule \o SetUpBackup \o SetUpLilac \o SetUpMagenta
  BY DEF Setup
<1> HIDE DEF device, objects
<1>3. IsList(ForEach(EnableService, ProfileServices \o Discovery))
  BY Lists, ListsJoin, EnabledServices
<1>4. IsList(objects)
  BY <1>1, ListOf
<1>5. IsList(ForEach(AddObject, objects))
  BY <1>4, AddedObjects
<1> QED BY <1>2, <1>3, <1>5, Lists, ListsOfLinks, ListOfOne, ListOfThree, ListsJoin
-----------------------------------------------------------------------------
(* The types of main() *)

\* No set-up call is made before the command line and the certificates are done
\* with, and every value read is one that was typed.
Typed ==
  /\ TypeOK
  /\ Sound(parse) /\ ParsedSoFar(parse)
  /\ step \in {"load", "parse", "open", "certificates"} => calls = 0

LEMMA InitTyped == Init => Typed
<1> SUFFICES ASSUME Init PROVE Typed
  OBVIOUS
<1>1. words \in Seq(Words)
  <2>1. PICK n \in 0 .. MaxWords : words \in [1 .. n -> Words]
    BY DEF Init
  <2> QED BY <2>1, MainLoopAssumption
<1>2. argv \in Seq(Argument)
  BY EmptySeq DEF Init
<1>3. Sound(parse) /\ ParsedSoFar(parse) /\ Parsed(parse)
  BY SoundStart, ParsedStart, ParsedSoFarTyped DEF Init
<1>4. calls \in 0 .. Len(Setup(link))
  BY SetupLength, ListLength DEF Init
<1>5. age \in 0 .. Cap
  BY MainLoopAssumption DEF Init, Cap
<1>6. /\ step \in StartUp \cup Loop \cup {"exit"}
      /\ exitCode \in {-1, 0, 1} /\ (step = "exit") = (exitCode # -1)
  BY DEF Init, StartUp
<1>7. /\ link \in Link /\ import \in BOOLEAN /\ pending \in BOOLEAN /\ restart \in {"no", "armed", "due"}
      /\ hub \in 0 .. 2 /\ event \in BOOLEAN /\ heard \in BOOLEAN /\ calls = 0
  <2>1. link = "ipv4" /\ restart = "no" /\ hub = 0 /\ calls = 0
    BY DEF Init
  <2>2. import \in BOOLEAN /\ pending \in BOOLEAN /\ event \in BOOLEAN /\ heard \in BOOLEAN
    BY DEF Init
  <2> QED BY <2>1, <2>2 DEF Link
<1> QED BY <1>1, <1>2, <1>3, <1>4, <1>5, <1>6, <1>7 DEF Typed, TypeOK

\* Where a step goes on, and how a step ends the program.
LEMMA WhereTyped ==
  ASSUME Typed, Next
  PROVE  /\ step' \in StartUp \cup Loop \cup {"exit"}
         /\ exitCode' \in {-1, 0, 1} /\ (step' = "exit") = (exitCode' # -1)
<1>1. step # "exit"
  BY DEF Next, Load, ReadArgument, ParseEnds, Open, PrepareCertificates, AddObjects, Announce,
         Tick, LinkWork, Restart, Keys, Sleep
<1>2. exitCode = -1
  BY <1>1 DEF Typed, TypeOK
<1>3. (\E next \in (StartUp \cup Loop) : GoOn(next)) \/ Exit(0) \/ Exit(1)
  BY DEF Next, Load, ReadArgument, ParseEnds, Open, PrepareCertificates, AddObjects, Announce,
         Tick, LinkWork, Restart, Keys, Sleep, OrFail, StartUp, Loop
<1>4. "exit" \notin StartUp \cup Loop
  BY DEF StartUp, Loop
<1>5. ASSUME NEW next \in (StartUp \cup Loop), GoOn(next)
      PROVE  step' \in StartUp \cup Loop /\ exitCode' = -1
  BY <1>2, <1>5 DEF GoOn
<1>6. Exit(0) \/ Exit(1) => step' = "exit" /\ exitCode' \in {0, 1}
  BY DEF Exit
<1> QED BY <1>3, <1>4, <1>5, <1>6

\* The command line: what is typed, what is read of it, and what is kept.
LEMMA LineTyped ==
  ASSUME Typed, Next
  PROVE  /\ words' \in Seq(Words) /\ argv' \in Seq(Argument) /\ link' \in Link /\ import' \in BOOLEAN
         /\ Sound(parse') /\ ParsedSoFar(parse')
<1>1. /\ words \in Seq(Words) /\ argv \in Seq(Argument) /\ link \in Link /\ import \in BOOLEAN
      /\ Sound(parse) /\ ParsedSoFar(parse)
  BY DEF Typed, TypeOK
<1>2. CASE Load
  <2>1. words \in Seq(Seq(Argument))
    <3>1. Words \subseteq Seq(Argument)
      BY MainLoopAssumption
    <3> QED BY <1>1, <3>1, SeqMonotonic
  <2>2. FlattenSeq(words) \in Seq(Argument)
    BY <2>1, FlattenType
  <2>3. argv' \in Seq(Argument)
    BY <1>1, <1>2, <2>2, EmptySeq DEF Load
  <2> QED BY <1>1, <1>2, <2>3, EmptySeq DEF Load
<1>3. CASE ReadArgument
  <2>1. Head(argv) \in Argument /\ Tail(argv) \in Seq(Argument)
    BY <1>1, <1>3, HeadTailProperties DEF ReadArgument
  <2>2. Sound(parse') /\ ParsedSoFar(parse')
    BY <1>1, <1>3, <2>1, SoundRead, ParsedRead DEF ReadArgument
  <2>3. argv' \in Seq(Argument)
    BY <1>3, <2>1, EmptySeq DEF ReadArgument
  <2> QED BY <1>1, <1>3, <2>2, <2>3 DEF ReadArgument
<1>4. CASE ParseEnds
  <2>1. link' \in Link /\ import' \in BOOLEAN
    BY <1>1, <1>4, ResultLink DEF ParseEnds
  <2> QED BY <1>1, <1>4, <2>1, SoundStart, ParsedStart DEF ParseEnds
<1>5. CASE Open \/ PrepareCertificates \/ AddObjects \/ Announce \/ Tick \/ LinkWork \/ Restart \/ Keys \/ Sleep
  <2>1. UNCHANGED line
    BY <1>5 DEF Open, PrepareCertificates, AddObjects, Announce, Tick, LinkWork, Restart, Keys, Sleep, setup
  <2> QED BY <1>1, <2>1 DEF line
<1> QED BY <1>2, <1>3, <1>4, <1>5 DEF Next

\* The set-up calls, of which no step makes more than there are.
LEMMA CallsTyped ==
  ASSUME Typed, Next
  PROVE  /\ calls' \in 0 .. Len(Setup(link'))
         /\ step' \in {"load", "parse", "open", "certificates"} => calls' = 0
<1>1. /\ Len(Setup(link)) \in Nat /\ Len(Setup(link')) \in Nat
      /\ calls \in 0 .. Len(Setup(link))
  BY SetupLength, ListLength DEF Typed, TypeOK
<1>2. CASE Load \/ ReadArgument \/ Open \/ PrepareCertificates
  <2>1. calls' = calls /\ link' = link /\ step \in {"load", "parse", "open", "certificates"}
    BY <1>2 DEF Load, ReadArgument, Open, PrepareCertificates, setup, line
  <2> QED BY <1>1, <2>1 DEF Typed
<1>3. CASE ParseEnds
  <2>1. calls' = calls /\ step = "parse"
    BY <1>3 DEF ParseEnds
  <2> QED BY <1>1, <2>1 DEF Typed
<1>4. CASE AddObjects
  <2>1. link' = link /\ (calls' = calls \/ (calls < Len(Setup(link)) /\ calls' = calls + 1))
    BY <1>4 DEF AddObjects, line
  <2>2. step' \notin {"load", "parse", "open", "certificates"}
    BY <1>4 DEF AddObjects, OrFail, GoOn, Exit
  <2> QED BY <1>1, <2>1, <2>2
<1>5. CASE Announce \/ Tick \/ LinkWork \/ Restart \/ Keys \/ Sleep
  <2>1. calls' = calls /\ link' = link
    BY <1>5 DEF Announce, Tick, LinkWork, Restart, Keys, Sleep, setup, line
  <2>2. step' \notin {"load", "parse", "open", "certificates"}
    BY <1>5 DEF Announce, Tick, LinkWork, Restart, Keys, Sleep, GoOn, Exit
  <2> QED BY <1>1, <2>1, <2>2
<1> QED BY <1>2, <1>3, <1>4, <1>5 DEF Next

LEMMA LastChange == ASSUME NEW changes \in Changes, changes # <<>> PROVE Last(changes) \in 0 .. 2
<1>1. PICK n \in 0 .. 2 : changes \in [1 .. n -> 0 .. 2]
  BY DEF Changes
<1>2. n # 0 /\ Len(changes) = n
  BY <1>1
<1> QED BY <1>1, <1>2 DEF Last

\* The loop's own state.
LEMMA LoopTyped ==
  ASSUME Typed, Next
  PROVE  /\ pending' \in BOOLEAN /\ restart' \in {"no", "armed", "due"}
         /\ age' \in 0 .. Cap /\ hub' \in 0 .. 2 /\ event' \in BOOLEAN /\ heard' \in BOOLEAN
<1>1. /\ pending \in BOOLEAN /\ restart \in {"no", "armed", "due"}
      /\ age \in 0 .. Cap /\ hub \in 0 .. 2 /\ event \in BOOLEAN /\ heard \in BOOLEAN
  BY DEF Typed, TypeOK
<1>2. CASE Load \/ ReadArgument \/ ParseEnds \/ Open \/ PrepareCertificates \/ AddObjects \/ Keys
  BY <1>1, <1>2 DEF Load, ReadArgument, ParseEnds, Open, PrepareCertificates, AddObjects, Keys, sc
<1>3. CASE Announce
  BY <1>1, <1>3 DEF Announce, IsIpDataLink, SendIAmBroadcast, sc
<1>4. CASE Tick
  <2>1. PICK changes \in Changes : StateChanges(changes)
    BY <1>4 DEF Tick
  <2>2. hub' \in 0 .. 2
    BY <1>1, <2>1, LastChange DEF StateChanges
  <2>3. event' \in BOOLEAN /\ heard' \in BOOLEAN
    BY <2>1 DEF StateChanges
  <2> QED BY <1>1, <1>4, <2>2, <2>3 DEF Tick
<1>5. CASE LinkWork
  <2>1. UNCHANGED <<restart, age>>
    BY <1>5 DEF LinkWork
  <2>2. CASE \E inTokenRing \in BOOLEAN : AnnounceOnMstp(inTokenRing)
    BY <1>1, <2>1, <2>2 DEF AnnounceOnMstp, sc
  <2>3. CASE \E changes \in Changes : Service(changes)
    <3>1. PICK changes \in Changes : Service(changes)
      BY <2>3
    <3>2. hub' \in 0 .. 2
      BY <1>1, <3>1, LastChange DEF Service
    <3>3. event' \in BOOLEAN /\ heard' \in BOOLEAN /\ pending' \in BOOLEAN
      BY <1>1, <3>1 DEF Service
    <3> QED BY <1>1, <2>1, <3>2, <3>3
  <2>4. CASE UNCHANGED <<pending, heard, sc>>
    BY <1>1, <2>1, <2>4 DEF sc
  <2> QED BY <1>5, <2>2, <2>3, <2>4 DEF LinkWork
<1>6. CASE Restart
  BY <1>1, <1>6 DEF Restart, SendIAmBroadcast, sc
<1>7. CASE Sleep
  <2>1. PICK d \in 1 .. MaxPass :
          age' = IF link # "mstp" THEN age ELSE IF age + d > Cap THEN Cap ELSE age + d
    BY <1>7 DEF Sleep
  <2>2. age' \in 0 .. Cap
    BY <1>1, <2>1, MainLoopAssumption DEF Cap
  <2> QED BY <1>1, <1>7, <2>2 DEF Sleep, sc
<1> QED BY <1>2, <1>3, <1>4, <1>5, <1>6, <1>7 DEF Next

LEMMA StepTyped == Typed /\ [Next]_vars => Typed'
<1> SUFFICES ASSUME Typed, [Next]_vars PROVE Typed'
  OBVIOUS
<1>1. CASE Next
  <2>1. Parsed(parse')
    BY <1>1, LineTyped, ParsedSoFarTyped
  <2> QED BY <1>1, <2>1, WhereTyped, LineTyped, CallsTyped, LoopTyped DEF Typed, TypeOK
<1>2. CASE UNCHANGED vars
  BY <1>2 DEF vars, setup, line, sc, Typed, TypeOK
<1> QED BY <1>1, <1>2

\* main() keeps its types on every command line there is: the arguments are those
\* of the words, an option has a value somebody typed or its default, the data
\* link is one that is named, and no more set-up calls are made than there are.
THEOREM MainLoopTypes == Spec => []TypeOK
<1>1. Typed => TypeOK
  BY DEF Typed
<1> QED BY <1>1, InitTyped, StepTyped, PTL DEF Spec

-----------------------------------------------------------------------------
(* The loop of ParseCommandLine, argument by argument *)

\* f[i] is what is made of the first i arguments, from p on.
Runs(f, p, s) == f[0] = p /\ \A i \in 1 .. Len(s) : f[i] = Read(f[i - 1], s[i])

Reads(f, p, s, i) == IF i = 0 THEN p ELSE Read(f[i - 1], s[i])

LEMMA ReadsSame ==
  ASSUME NEW f, NEW g, NEW p, NEW s, NEW i, i = 0 \/ f[i - 1] = g[i - 1]
  PROVE  Reads(f, p, s, i) = Reads(g, p, s, i)
  BY DEF Reads

LEMMA RunExists ==
  ASSUME NEW p, NEW s, Len(s) \in Nat
  PROVE  \E f : Runs(f, p, s)
<1> DEFINE T == {n \in Nat : \E f : f = [i \in 0 .. n |-> Reads(f, p, s, i)]}
<1>1. 0 \in T
  <2> DEFINE f == [i \in 0 .. 0 |-> p]
  <2>1. \A i \in 0 .. 0 : Reads(f, p, s, i) = p
    BY DEF Reads
  <2>2. f = [i \in 0 .. 0 |-> Reads(f, p, s, i)]
    BY <2>1, Zenon
  <2> HIDE DEF f
  <2> QED BY <2>2
<1>2. ASSUME NEW n \in T PROVE n + 1 \in T
  <2>1. PICK f : f = [i \in 0 .. n |-> Reads(f, p, s, i)]
    OBVIOUS
  <2> DEFINE g == [i \in 0 .. n + 1 |-> Reads(f, p, s, i)]
  <2>2. ASSUME NEW i \in 0 .. n + 1 PROVE Reads(g, p, s, i) = Reads(f, p, s, i)
    <3>1. i = 0 \/ g[i - 1] = f[i - 1]
      <4> SUFFICES ASSUME i # 0 PROVE g[i - 1] = f[i - 1]
        OBVIOUS
      <4>1. i - 1 \in 0 .. n /\ i - 1 \in 0 .. n + 1
        OBVIOUS
      <4> QED BY <2>1, <4>1, Zenon
    <3> HIDE DEF g
    <3> QED BY <3>1, ReadsSame
  <2>3. g = [i \in 0 .. n + 1 |-> Reads(g, p, s, i)]
    BY <2>2, Zenon
  <2> HIDE DEF g
  <2> QED BY <2>3
<1>3. T = Nat
  BY <1>1, <1>2, Everywhere
<1>4. PICK f : f = [i \in 0 .. Len(s) |-> Reads(f, p, s, i)]
  BY <1>3
<1>5. \A i \in 0 .. Len(s) : f[i] = Reads(f, p, s, i)
  BY <1>4, Zenon
<1> QED BY <1>5 DEF Runs, Reads

LEMMA RunUnique ==
  ASSUME NEW p, NEW s, Len(s) \in Nat, NEW f, NEW g, Runs(f, p, s), Runs(g, p, s)
  PROVE  \A i \in 0 .. Len(s) : f[i] = g[i]
<1> DEFINE T == {n \in Nat : n <= Len(s) => f[n] = g[n]}
<1>1. 0 \in T
  BY DEF Runs
<1>2. ASSUME NEW n \in T PROVE n + 1 \in T
  <2> SUFFICES ASSUME n + 1 <= Len(s) PROVE f[n + 1] = g[n + 1]
    OBVIOUS
  <2>1. n + 1 \in 1 .. Len(s) /\ (n + 1) - 1 = n /\ f[n] = g[n]
    OBVIOUS
  <2>2. f[n + 1] = Read(f[(n + 1) - 1], s[n + 1]) /\ g[n + 1] = Read(g[(n + 1) - 1], s[n + 1])
    BY <2>1, Zenon DEF Runs
  <2> QED BY <2>1, <2>2
<1>3. T = Nat
  BY <1>1, <1>2, Everywhere
<1> QED BY <1>3

\* The recursive function by which FoldLeft is defined.
Folded(f, s, I) == IF I = {} THEN Start ELSE Read(f[I \ {Max(I)}], s[Max(I)])

LEMMA FoldedSame ==
  ASSUME NEW f, NEW g, NEW s, NEW I, I = {} \/ f[I \ {Max(I)}] = g[I \ {Max(I)}]
  PROVE  Folded(f, s, I) = Folded(g, s, I)
  BY DEF Folded

LEMMA Highest == ASSUME NEW n \in Nat, NEW I \in SUBSET (1 .. n + 1), n + 1 \in I PROVE Max(I) = n + 1
<1>1. \A y \in I : n + 1 >= y
  OBVIOUS
<1>2. \A x \in I : (\A y \in I : x >= y) => x = n + 1
  OBVIOUS
<1> QED BY <1>1, <1>2 DEF Max

LEMMA FoldExpands ==
  ASSUME NEW s
  PROVE  ReadAll(s) =
           (CHOOSE f : f = [I \in SUBSET (DOMAIN s) |-> Folded(f, s, I)])[DOMAIN s]
  BY DEF ReadAll, FoldLeft, MapThenFoldSet, Folded

LEMMA FoldExists ==
  ASSUME NEW s, NEW n \in Nat
  PROVE  \E f : f = [I \in SUBSET (1 .. n) |-> Folded(f, s, I)]
<1> DEFINE T == {k \in Nat : \E f : f = [I \in SUBSET (1 .. k) |-> Folded(f, s, I)]}
<1>1. 0 \in T
  <2> DEFINE f == [I \in SUBSET (1 .. 0) |-> Start]
  <2>1. \A I \in SUBSET (1 .. 0) : Folded(f, s, I) = Start
    <3>1. \A I \in SUBSET (1 .. 0) : I = {}
      OBVIOUS
    <3> HIDE DEF f
    <3> QED BY <3>1 DEF Folded
  <2>2. f = [I \in SUBSET (1 .. 0) |-> Folded(f, s, I)]
    BY <2>1, Zenon
  <2> HIDE DEF f
  <2> QED BY <2>2
<1>2. ASSUME NEW k \in T PROVE k + 1 \in T
  <2>1. PICK f : f = [I \in SUBSET (1 .. k) |-> Folded(f, s, I)]
    OBVIOUS
  <2> DEFINE g == [I \in SUBSET (1 .. k + 1) |->
                     IF k + 1 \in I THEN Read(f[I \ {k + 1}], s[k + 1]) ELSE f[I]]
  <2>2. \A I \in SUBSET (1 .. k) : I \in SUBSET (1 .. k + 1) /\ k + 1 \notin I
    OBVIOUS
  <2>3. \A I \in SUBSET (1 .. k) : g[I] = f[I] /\ f[I] = Folded(f, s, I)
    BY <2>1, <2>2, Zenon
  <2>4. \A I \in SUBSET (1 .. k + 1) : k + 1 \in I => g[I] = Read(f[I \ {k + 1}], s[k + 1])
    BY Zenon
  <2>5. g = [I \in SUBSET (1 .. k + 1) |-> g[I]]
    BY Zenon
  <2> HIDE DEF g
  <2>6. ASSUME NEW I \in SUBSET (1 .. k + 1) PROVE g[I] = Folded(g, s, I)
    <3>1. CASE k + 1 \in I
      <4>1. Max(I) = k + 1 /\ I # {}
        BY <3>1, Highest
      <4>2. I \ {k + 1} \in SUBSET (1 .. k)
        OBVIOUS
      <4>3. g[I] = Read(g[I \ {k + 1}], s[k + 1])
        BY <2>3, <2>4, <3>1, <4>2, Zenon
      <4> QED BY <4>1, <4>3, Zenon DEF Folded
    <3>2. CASE k + 1 \notin I
      <4>1. I \in SUBSET (1 .. k)
        BY <3>2
      <4>2. g[I] = Folded(f, s, I)
        BY <2>3, <4>1
      <4>3. f[I \ {Max(I)}] = g[I \ {Max(I)}]
        <5>1. I \ {Max(I)} \in SUBSET (1 .. k)
          BY <4>1
        <5> QED BY <2>3, <5>1
      <4> QED BY <4>2, <4>3, FoldedSame
    <3> QED BY <3>1, <3>2
  <2>7. g = [I \in SUBSET (1 .. k + 1) |-> Folded(g, s, I)]
    BY <2>5, <2>6, Zenon
  <2> QED BY <2>7
<1>3. T = Nat
  BY <1>1, <1>2, Everywhere
<1> QED BY <1>3

\* FoldLeft does what the loop does.
LEMMA FoldIsTheLoop ==
  ASSUME NEW S, NEW s \in Seq(S), NEW f, Runs(f, Start, s)
  PROVE  ReadAll(s) = f[Len(s)]
<1>1. DOMAIN s = 1 .. Len(s) /\ Len(s) \in Nat
  OBVIOUS
<1> DEFINE g == CHOOSE h : h = [I \in SUBSET (DOMAIN s) |-> Folded(h, s, I)]
<1>2. g = [I \in SUBSET (1 .. Len(s)) |-> Folded(g, s, I)]
  <2>1. \E h : h = [I \in SUBSET (1 .. Len(s)) |-> Folded(h, s, I)]
    BY <1>1, FoldExists
  <2>2. \E h : h = [I \in SUBSET (DOMAIN s) |-> Folded(h, s, I)]
    BY <1>1, <2>1, Zenon
  <2>3. g = [I \in SUBSET (DOMAIN s) |-> Folded(g, s, I)]
    BY <2>2, Zenon
  <2> HIDE DEF g
  <2> QED BY <1>1, <2>3, Zenon
<1>3. ReadAll(s) = g[1 .. Len(s)]
  BY <1>1, FoldExpands
<1> HIDE DEF g
<1>4. \A I \in SUBSET (1 .. Len(s)) : g[I] = Folded(g, s, I)
  BY <1>2, Zenon
<1> DEFINE T == {n \in Nat : n <= Len(s) => g[1 .. n] = f[n]}
<1>5. 0 \in T
  <2>1. 1 .. 0 = {}
    OBVIOUS
  <2>2. g[{}] = Start
    BY <1>4 DEF Folded
  <2> QED BY <2>1, <2>2 DEF Runs
<1>6. ASSUME NEW n \in T PROVE n + 1 \in T
  <2> SUFFICES ASSUME n + 1 <= Len(s) PROVE g[1 .. n + 1] = f[n + 1]
    OBVIOUS
  <2>1. n + 1 \in 1 .. Len(s) /\ (n + 1) - 1 = n /\ g[1 .. n] = f[n] /\ n \in Nat
    BY <1>1
  <2>2. f[n + 1] = Read(f[(n + 1) - 1], s[n + 1])
    BY <2>1, Zenon DEF Runs
  <2>3. 1 .. n + 1 \in SUBSET (1 .. Len(s)) /\ n + 1 \in 1 .. n + 1 /\ (1 .. n + 1) \ {n + 1} = 1 .. n
    BY <1>1, <2>1
  <2>4. Max(1 .. n + 1) = n + 1
    BY <2>1, <2>3, Highest
  <2>5. g[1 .. n + 1] = Read(g[1 .. n], s[n + 1])
    BY <1>4, <2>3, <2>4 DEF Folded
  <2> QED BY <2>1, <2>2, <2>5
<1>7. T = Nat
  BY <1>5, <1>6, Everywhere
<1> QED BY <1>1, <1>3, <1>7

\* What has been made of s is where the loop goes on with t.
LEMMA LoopGoesOn ==
  ASSUME NEW S, NEW s \in Seq(S), NEW t \in Seq(S), NEW f, Runs(f, ReadAll(s), t)
  PROVE  ReadAll(s \o t) = f[Len(t)]
<1>1. /\ s \o t \in Seq(S) /\ Len(s \o t) = Len(s) + Len(t) /\ Len(s) \in Nat /\ Len(t) \in Nat
      /\ \A i \in 1 .. Len(s) : (s \o t)[i] = s[i]
      /\ \A i \in 1 .. Len(t) : (s \o t)[Len(s) + i] = t[i]
  BY ConcatProperties
<1> DEFINE u == s \o t
<1>2. Len(u) = Len(s) + Len(t) /\ Len(u) \in Nat /\ u \in Seq(S)
  BY <1>1
<1>3. (\A i \in 1 .. Len(s) : u[i] = s[i]) /\ \A i \in 1 .. Len(t) : u[Len(s) + i] = t[i]
  BY <1>1
<1> HIDE DEF u
<1>4. PICK h : Runs(h, Start, u)
  BY <1>2, RunExists
<1>5. ReadAll(u) = h[Len(u)]
  BY <1>2, <1>4, FoldIsTheLoop
<1>6. Runs(h, Start, s)
  <2>1. \A i \in 1 .. Len(s) : i \in 1 .. Len(u)
    BY <1>1, <1>2
  <2> QED BY <1>3, <1>4, <2>1 DEF Runs
<1>7. ReadAll(s) = h[Len(s)]
  BY <1>6, FoldIsTheLoop
<1> DEFINE r == [i \in 0 .. Len(t) |-> h[Len(s) + i]]
<1>8. r[0] = h[Len(s)]
  BY <1>1
<1>9. ASSUME NEW i \in 1 .. Len(t) PROVE r[i] = Read(r[i - 1], t[i])
  <2>1. Len(s) + i \in 1 .. Len(u) /\ (Len(s) + i) - 1 = Len(s) + (i - 1) /\ i \in 0 .. Len(t) /\ i - 1 \in 0 .. Len(t)
    BY <1>1, <1>2
  <2>2. h[Len(s) + i] = Read(h[(Len(s) + i) - 1], u[Len(s) + i])
    BY <1>4, <2>1, Zenon DEF Runs
  <2>3. r[i] = h[Len(s) + i] /\ r[i - 1] = h[Len(s) + (i - 1)]
    BY <2>1
  <2> QED BY <1>3, <2>1, <2>2, <2>3
<1>10. r[Len(t)] = h[Len(u)]
  BY <1>1, <1>2
<1> HIDE DEF r
<1>11. Runs(r, ReadAll(s), t)
  BY <1>7, <1>8, <1>9 DEF Runs
<1>12. f[Len(t)] = r[Len(t)]
  BY <1>1, <1>11, RunUnique
<1> QED BY <1>5, <1>10, <1>12 DEF u
-----------------------------------------------------------------------------
(* A word by itself, and after others *)

\* The options of the words before, but those that are given in this one.
Over(before, given, options) == [o \in DOMAIN Defaults |-> IF o \in given THEN options[o] ELSE before[o]]

\* f is made of a word after q as e is made of it alone: the same value is waited
\* for, and the same options are given.
Follows(q, e, f) ==
  \E failed \in BOOLEAN : \E waiting, given, options :
    /\ e = [failed |-> failed, waiting |-> waiting, given |-> given, options |-> options]
    /\ options = [o \in DOMAIN Defaults |-> options[o]]
    /\ f = [failed |-> failed, waiting |-> waiting, given |-> q.given \cup given,
            options |-> Over(q.options, given, options)]

LEMMA FollowsIs ==
  ASSUME NEW q, NEW failed \in BOOLEAN, NEW waiting, NEW given, NEW options,
         options = [o \in DOMAIN Defaults |-> options[o]]
  PROVE  Follows(q, [failed |-> failed, waiting |-> waiting, given |-> given, options |-> options],
                    [failed |-> failed, waiting |-> waiting, given |-> q.given \cup given,
                     options |-> Over(q.options, given, options)])
  BY Zenon DEF Follows

LEMMA NameIsNoOption ==
  ASSUME NEW before, NEW given, NEW options
  PROVE  Over(before, given, options) = Over(before, given \cup {"--deviceName"}, options)
<1>1. "--deviceName" \notin DOMAIN Defaults
  BY DEF Defaults
<1> QED BY <1>1 DEF Over

LEMMA FollowsRead ==
  ASSUME NEW q, NEW e, NEW f, NEW argument, Follows(q, e, f)
  PROVE  Follows(q, Read(e, argument), Read(f, argument))
<1>0. PICK failed \in BOOLEAN : \E waiting, given, options :
        /\ e = [failed |-> failed, waiting |-> waiting, given |-> given, options |-> options]
        /\ options = [o \in DOMAIN Defaults |-> options[o]]
        /\ f = [failed |-> failed, waiting |-> waiting, given |-> q.given \cup given,
                options |-> Over(q.options, given, options)]
  BY DEF Follows
<1>1. PICK waiting, given, options :
        /\ e = [failed |-> failed, waiting |-> waiting, given |-> given, options |-> options]
        /\ options = [o \in DOMAIN Defaults |-> options[o]]
        /\ f = [failed |-> failed, waiting |-> waiting, given |-> q.given \cup given,
                options |-> Over(q.options, given, options)]
  BY <1>0
<1>2. CASE failed \/ (waiting = "" /\ Text(argument) = "--xml")
  <2>1. Read(e, argument) = e /\ Read(f, argument) = f
    BY <1>1, <1>2 DEF Read
  <2> QED BY <2>1
<1>3. CASE ~failed /\ waiting # ""
  <2> DEFINE fails == ~Accepts(waiting, argument)
             gives == given \cup {waiting}
             after == IF waiting = "--deviceName" THEN options ELSE [options EXCEPT ![waiting] = argument]
             other == IF waiting = "--deviceName" THEN Over(q.options, given, options)
                      ELSE [Over(q.options, given, options) EXCEPT ![waiting] = argument]
  <2>1. Read(e, argument) = [failed |-> fails, waiting |-> "", given |-> gives, options |-> after]
    BY <1>1, <1>3 DEF Read, Value
  <2>2. Read(f, argument) = [failed |-> fails, waiting |-> "", given |-> (q.given \cup given) \cup {waiting},
           options |-> other]
    BY <1>1, <1>3 DEF Read, Value
  <2>3. (q.given \cup given) \cup {waiting} = q.given \cup gives
    OBVIOUS
  <2>4. after = [o \in DOMAIN Defaults |-> after[o]] /\ fails \in BOOLEAN
    BY <1>1 DEF Accepts
  <2>5. other = Over(q.options, gives, after)
    <3>1. CASE waiting = "--deviceName"
      BY <3>1, NameIsNoOption
    <3>2. CASE waiting # "--deviceName"
      <4>1. other = [Over(q.options, given, options) EXCEPT ![waiting] = argument]
        BY <3>2
      <4>2. after = [options EXCEPT ![waiting] = argument]
        BY <3>2
      <4>3. options = [o \in DOMAIN Defaults |-> options[o]]
        BY <1>1
      <4> DEFINE before == q.options
      <4>4. other = [Over(before, given, options) EXCEPT ![waiting] = argument]
        BY <4>1
      <4> HIDE DEF after, other, before
      <4>5. other = Over(before, given \cup {waiting}, after)
        BY <4>2, <4>3, <4>4 DEF Over
      <4> QED BY <4>5 DEF before
    <3> QED BY <3>1, <3>2
  <2> HIDE DEF fails, gives, after, other
  <2>6. Read(f, argument) = [failed |-> fails, waiting |-> "", given |-> q.given \cup gives,
                             options |-> Over(q.options, gives, after)]
    BY <2>2, <2>3, <2>5
  <2>7. Follows(q, [failed |-> fails, waiting |-> "", given |-> gives, options |-> after],
                   [failed |-> fails, waiting |-> "", given |-> q.given \cup gives,
                    options |-> Over(q.options, gives, after)])
    BY <2>4, FollowsIs, Zenon
  <2> QED BY <2>1, <2>6, <2>7
<1>4. CASE ~failed /\ waiting = "" /\ Text(argument) # "--xml"
  <2> DEFINE fails == Text(argument) \notin Option
  <2>1. Read(e, argument) = [failed |-> fails, waiting |-> Text(argument), given |-> given, options |-> options]
    BY <1>1, <1>4 DEF Read
  <2>2. Read(f, argument) = [failed |-> fails, waiting |-> Text(argument), given |-> q.given \cup given,
                             options |-> Over(q.options, given, options)]
    BY <1>1, <1>4 DEF Read
  <2>3. fails \in BOOLEAN
    OBVIOUS
  <2> HIDE DEF fails
  <2> QED BY <1>1, <2>1, <2>2, <2>3, FollowsIs
<1> QED BY <1>2, <1>3, <1>4

\* Between two words nothing has failed and no value is waited for.
Between(q) ==
  \E given, options :
    /\ q = [failed |-> FALSE, waiting |-> "", given |-> given, options |-> options]
    /\ options = [o \in DOMAIN Defaults |-> options[o]]

LEMMA FollowsStart == ASSUME NEW q, Between(q) PROVE Follows(q, Start, q)
<1>1. PICK given, options :
        /\ q = [failed |-> FALSE, waiting |-> "", given |-> given, options |-> options]
        /\ options = [o \in DOMAIN Defaults |-> options[o]]
  BY DEF Between
<1> DEFINE none == {}
<1>2. Over(q.options, none, Defaults) = options
  BY <1>1 DEF Over
<1>3. q.given \cup none = given
  BY <1>1
<1>4. Defaults = [o \in DOMAIN Defaults |-> Defaults[o]]
  BY DEF Defaults
<1>5. Start = [failed |-> FALSE, waiting |-> "", given |-> none, options |-> Defaults]
  BY DEF Start
<1> HIDE DEF none
<1>6. q = [failed |-> FALSE, waiting |-> "", given |-> q.given \cup none, options |-> Over(q.options, none, Defaults)]
  BY <1>1, <1>2, <1>3
<1>7. Follows(q, [failed |-> FALSE, waiting |-> "", given |-> none, options |-> Defaults],
                 [failed |-> FALSE, waiting |-> "", given |-> q.given \cup none,
                  options |-> Over(q.options, none, Defaults)])
  BY <1>4, FollowsIs, Zenon
<1> QED BY <1>5, <1>6, <1>7, Zenon

\* What a command line makes of a word after the words s.
LEMMA WordFollows ==
  ASSUME NEW S, NEW s \in Seq(S), NEW w \in Seq(S), Between(ReadAll(s))
  PROVE  Follows(ReadAll(s), ReadAll(w), ReadAll(s \o w))
<1> DEFINE q == ReadAll(s)
<1>1. Between(q)
  OBVIOUS
<1>2. Len(w) \in Nat
  OBVIOUS
<1>3. PICK e : Runs(e, Start, w)
  BY <1>2, RunExists
<1>4. PICK f : Runs(f, q, w)
  BY <1>2, RunExists
<1>5. ReadAll(w) = e[Len(w)]
  BY <1>3, FoldIsTheLoop
<1>6. ReadAll(s \o w) = f[Len(w)]
  BY <1>4, LoopGoesOn
<1> HIDE DEF q
<1> DEFINE T == {n \in Nat : n <= Len(w) => Follows(q, e[n], f[n])}
<1>7. 0 \in T
  <2>1. e[0] = Start /\ f[0] = q
    BY <1>3, <1>4 DEF Runs
  <2> QED BY <1>1, <2>1, FollowsStart
<1>8. ASSUME NEW n \in T PROVE n + 1 \in T
  <2> SUFFICES ASSUME n + 1 <= Len(w) PROVE Follows(q, e[n + 1], f[n + 1])
    OBVIOUS
  <2>1. n + 1 \in 1 .. Len(w) /\ (n + 1) - 1 = n /\ Follows(q, e[n], f[n])
    BY <1>2
  <2>2. e[n + 1] = Read(e[(n + 1) - 1], w[n + 1]) /\ f[n + 1] = Read(f[(n + 1) - 1], w[n + 1])
    BY <1>3, <1>4, <2>1, Zenon DEF Runs
  <2> QED BY <2>1, <2>2, FollowsRead
<1>9. T = Nat
  BY <1>7, <1>8, Everywhere
<1>10. Follows(q, e[Len(w)], f[Len(w)])
  BY <1>2, <1>9
<1> QED BY <1>5, <1>6, <1>10 DEF q

\* What is waited for and what is given is in the arguments.
Known(p, X) ==
  \E failed \in BOOLEAN : \E waiting, given, options :
    /\ p = [failed |-> failed, waiting |-> waiting, given |-> given, options |-> options]
    /\ options = [o \in DOMAIN Defaults |-> options[o]]
    /\ given \subseteq X /\ (failed \/ waiting \in X \cup {""})

LEMMA KnownIs ==
  ASSUME NEW X, NEW failed \in BOOLEAN, NEW waiting, NEW given, NEW options,
         options = [o \in DOMAIN Defaults |-> options[o]],
         given \subseteq X, failed \/ waiting \in X \cup {""}
  PROVE  Known([failed |-> failed, waiting |-> waiting, given |-> given, options |-> options], X)
  BY Zenon DEF Known

LEMMA KnownRead ==
  ASSUME NEW p, NEW X, NEW argument, Known(p, X), Text(argument) \in Option => Text(argument) \in X
  PROVE  Known(Read(p, argument), X)
<1>1. PICK failed \in BOOLEAN : \E waiting, given, options :
        /\ p = [failed |-> failed, waiting |-> waiting, given |-> given, options |-> options]
        /\ options = [o \in DOMAIN Defaults |-> options[o]]
        /\ given \subseteq X /\ (failed \/ waiting \in X \cup {""})
  BY DEF Known
<1>2. PICK waiting, given, options :
        /\ p = [failed |-> failed, waiting |-> waiting, given |-> given, options |-> options]
        /\ options = [o \in DOMAIN Defaults |-> options[o]]
        /\ given \subseteq X /\ (failed \/ waiting \in X \cup {""})
  BY <1>1
<1>3. CASE failed \/ (waiting = "" /\ Text(argument) = "--xml")
  <2>1. Read(p, argument) = p
    BY <1>2, <1>3 DEF Read
  <2> QED BY <2>1
<1>4. CASE ~failed /\ waiting # ""
  <2> DEFINE fails == ~Accepts(waiting, argument)
             gives == given \cup {waiting}
             after == IF waiting = "--deviceName" THEN options ELSE [options EXCEPT ![waiting] = argument]
  <2>1. Read(p, argument) = [failed |-> fails, waiting |-> "", given |-> gives, options |-> after]
    BY <1>2, <1>4 DEF Read, Value
  <2>2. after = [o \in DOMAIN Defaults |-> after[o]]
    BY <1>2
  <2>3. fails \in BOOLEAN
    BY DEF Accepts
  <2>4. gives \subseteq X /\ "" \in X \cup {""}
    BY <1>2, <1>4
  <2> HIDE DEF fails, gives, after
  <2>5. Known([failed |-> fails, waiting |-> "", given |-> gives, options |-> after], X)
    BY <2>2, <2>3, <2>4, KnownIs, Zenon
  <2> QED BY <2>1, <2>5
<1>5. CASE ~failed /\ waiting = "" /\ Text(argument) # "--xml"
  <2> DEFINE fails == Text(argument) \notin Option
  <2>1. Read(p, argument) = [failed |-> fails, waiting |-> Text(argument), given |-> given, options |-> options]
    BY <1>2, <1>5 DEF Read
  <2>2. fails \in BOOLEAN /\ (fails \/ Text(argument) \in X \cup {""})
    OBVIOUS
  <2> HIDE DEF fails
  <2>3. Known([failed |-> fails, waiting |-> Text(argument), given |-> given, options |-> options], X)
    BY <1>2, <2>2, KnownIs, Zenon
  <2> QED BY <2>1, <2>3
<1> QED BY <1>3, <1>4, <1>5

LEMMA KnownStart == ASSUME NEW X PROVE Known(Start, X)
<1> DEFINE none == {}
<1>1. FALSE \in BOOLEAN /\ none \subseteq X /\ "" \in X \cup {""}
  OBVIOUS
<1>2. Defaults = [o \in DOMAIN Defaults |-> Defaults[o]]
  BY DEF Defaults
<1> HIDE DEF none
<1>3. Known([failed |-> FALSE, waiting |-> "", given |-> none, options |-> Defaults], X)
  BY <1>1, <1>2, KnownIs, Zenon
<1> QED BY <1>3 DEF Start, none

\* A word gives no option but its own.
LEMMA WordKnown == ASSUME NEW S, NEW w \in Seq(S) PROVE Known(ReadAll(w), Options(w))
<1>1. Len(w) \in Nat /\ DOMAIN w = 1 .. Len(w)
  OBVIOUS
<1>2. PICK e : Runs(e, Start, w)
  BY <1>1, RunExists
<1>3. ReadAll(w) = e[Len(w)]
  BY <1>2, FoldIsTheLoop
<1> DEFINE T == {n \in Nat : n <= Len(w) => Known(e[n], Options(w))}
<1>4. 0 \in T
  BY <1>2, KnownStart DEF Runs
<1>5. ASSUME NEW n \in T PROVE n + 1 \in T
  <2> SUFFICES ASSUME n + 1 <= Len(w) PROVE Known(e[n + 1], Options(w))
    OBVIOUS
  <2>1. n + 1 \in 1 .. Len(w) /\ (n + 1) - 1 = n /\ Known(e[n], Options(w))
    BY <1>1
  <2>2. e[n + 1] = Read(e[(n + 1) - 1], w[n + 1])
    BY <1>2, <2>1, Zenon DEF Runs
  <2>3. Text(w[n + 1]) \in Option => Text(w[n + 1]) \in Options(w)
    BY <1>1, <2>1 DEF Options
  <2> QED BY <2>1, <2>2, <2>3, KnownRead
<1>6. T = Nat
  BY <1>4, <1>5, Everywhere
<1> QED BY <1>1, <1>3, <1>6

\* A command line that has failed stays failed.
LEMMA FailedFromThere ==
  ASSUME NEW p, NEW s, Len(s) \in Nat, NEW f, Runs(f, p, s), NEW k \in 0 .. Len(s), f[k].failed
  PROVE  f[Len(s)].failed
<1> DEFINE T == {n \in Nat : k + n <= Len(s) => f[k + n].failed}
<1>1. 0 \in T
  OBVIOUS
<1>2. ASSUME NEW n \in T PROVE n + 1 \in T
  <2> SUFFICES ASSUME k + (n + 1) <= Len(s) PROVE f[k + (n + 1)].failed
    OBVIOUS
  <2>1. k + (n + 1) \in 1 .. Len(s) /\ (k + (n + 1)) - 1 = k + n /\ f[k + n].failed
    OBVIOUS
  <2>2. f[k + (n + 1)] = Read(f[(k + (n + 1)) - 1], s[k + (n + 1)])
    BY <2>1, Zenon DEF Runs
  <2>3. f[k + (n + 1)] = f[k + n]
    BY <2>1, <2>2 DEF Read
  <2> QED BY <2>1, <2>3
<1>3. T = Nat
  BY <1>1, <1>2, Everywhere
<1>4. Len(s) - k \in Nat /\ k + (Len(s) - k) = Len(s)
  OBVIOUS
<1>5. Len(s) - k \in T
  BY <1>3, <1>4
<1> QED BY <1>4, <1>5

LEMMA FailedStays ==
  ASSUME NEW S, NEW s \in Seq(S), NEW w \in Seq(S), ReadAll(s).failed
  PROVE  ReadAll(s \o w).failed
<1>1. Len(w) \in Nat /\ 0 \in 0 .. Len(w)
  OBVIOUS
<1>2. PICK f : Runs(f, ReadAll(s), w)
  BY <1>1, RunExists
<1>3. ReadAll(s \o w) = f[Len(w)] /\ f[0] = ReadAll(s)
  BY <1>2, LoopGoesOn DEF Runs
<1> QED BY <1>1, <1>2, <1>3, FailedFromThere

\* So has one on which an option takes no argument of the next word for a value.
LEMMA First == ASSUME NEW n \in Nat \ {0} PROVE n \in Nat /\ 1 \in 0 .. n /\ 1 \in 1 .. n /\ 1 - 1 = 0
  OBVIOUS

LEMMA RefusedByTheNext ==
  ASSUME NEW S, NEW s \in Seq(S), NEW w \in Seq(S), NEW q, q = ReadAll(s), NEW a,
         w # <<>> /\ w[1] = a,
         ~q.failed /\ q.waiting # "" /\ ~Accepts(q.waiting, a)
  PROVE  ReadAll(s \o w).failed
<1>1. Len(w) \in Nat \ {0}
  BY EmptySeq, Zenon
<1>2. 1 \in 0 .. Len(w) /\ 1 \in 1 .. Len(w) /\ Len(w) \in Nat /\ 1 - 1 = 0
  BY <1>1, First, Zenon
<1>3. PICK f : Runs(f, q, w)
  BY <1>2, RunExists
<1>4. ReadAll(s \o w) = f[Len(w)]
  BY <1>3, LoopGoesOn
<1>5. f[0] = q /\ f[1] = Read(f[1 - 1], w[1])
  BY <1>2, <1>3, Zenon DEF Runs
<1>6. f[1] = Read(q, a)
  BY <1>2, <1>5
<1>7. f[1] = Value(q, a)
  BY <1>6 DEF Read
<1>8. Value(q, a).failed = ~Accepts(q.waiting, a)
  BY DEF Value
<1>9. f[1].failed
  BY <1>7, <1>8
<1> QED BY <1>2, <1>3, <1>4, <1>9, FailedFromThere

-----------------------------------------------------------------------------
(* The words, one after the other *)

\* What the words with the numbers K make of the defaults, when each of them is
\* complete and no option is given by two.
Gathered(given, options, ws, K) ==
  /\ options = [o \in DOMAIN Defaults |-> options[o]]
  /\ given = UNION {ReadAll(ws[k]).given : k \in K}
  /\ \A k \in K : \A o \in DOMAIN Defaults : o \in ReadAll(ws[k]).given => options[o] = ReadAll(ws[k]).options[o]
  /\ \A o \in DOMAIN Defaults : o \notin given => options[o] = Defaults[o]
Merged(p, ws, K) ==
  \E given, options :
    /\ p = [failed |-> FALSE, waiting |-> "", given |-> given, options |-> options]
    /\ Gathered(given, options, ws, K)

LEMMA MergedStart == ASSUME NEW ws PROVE Merged(Start, ws, {})
<1>1. Gathered({}, Defaults, ws, {})
  BY DEF Gathered, Defaults
<1> QED BY <1>1 DEF Merged, Start

LEMMA MergedBetween == ASSUME NEW p, NEW ws, NEW K, Merged(p, ws, K) PROVE Between(p)
  BY DEF Merged, Gathered, Between

Bad(p) == p.failed \/ p.waiting # ""

LEMMA MergedStep ==
  ASSUME NEW ws, NEW K, NEW j, NEW q, NEW f, Merged(q, ws, K), ~Bad(ReadAll(ws[j])),
         \A k \in K : ReadAll(ws[k]).given \cap ReadAll(ws[j]).given = {},
         Follows(q, ReadAll(ws[j]), f)
  PROVE  Merged(f, ws, K \cup {j})
<1>0. PICK failed \in BOOLEAN : \E waiting, new, news :
        /\ ReadAll(ws[j]) = [failed |-> failed, waiting |-> waiting, given |-> new, options |-> news]
        /\ news = [o \in DOMAIN Defaults |-> news[o]]
        /\ f = [failed |-> failed, waiting |-> waiting, given |-> q.given \cup new,
                options |-> Over(q.options, new, news)]
  BY DEF Follows
<1>1. PICK waiting, new, news :
        /\ ReadAll(ws[j]) = [failed |-> failed, waiting |-> waiting, given |-> new, options |-> news]
        /\ news = [o \in DOMAIN Defaults |-> news[o]]
        /\ f = [failed |-> failed, waiting |-> waiting, given |-> q.given \cup new,
                options |-> Over(q.options, new, news)]
  BY <1>0
<1>2. PICK given, options :
        /\ q = [failed |-> FALSE, waiting |-> "", given |-> given, options |-> options]
        /\ Gathered(given, options, ws, K)
  BY DEF Merged
<1> DEFINE gives == given \cup new
           after == Over(options, new, news)
<1>3. failed = FALSE /\ waiting = "" /\ ReadAll(ws[j]).given = new /\ ReadAll(ws[j]).options = news
  <2>1. ~ReadAll(ws[j]).failed /\ ReadAll(ws[j]).waiting = ""
    BY DEF Bad
  <2> DEFINE r == ReadAll(ws[j])
  <2>2. r = [failed |-> failed, waiting |-> waiting, given |-> new, options |-> news] /\ ~r.failed /\ r.waiting = ""
    BY <1>1, <2>1
  <2> HIDE DEF r
  <2>3. failed = FALSE /\ waiting = "" /\ r.given = new /\ r.options = news
    BY <2>2
  <2> QED BY <2>3 DEF r
<1>4. gives = UNION {ReadAll(ws[k]).given : k \in K \cup {j}}
  BY <1>2, <1>3 DEF Gathered
<1>5. after = [o \in DOMAIN Defaults |-> after[o]]
  BY DEF Over
<1>6. \A o \in DOMAIN Defaults : after[o] = IF o \in new THEN news[o] ELSE options[o]
  BY DEF Over
<1>7. f = [failed |-> FALSE, waiting |-> "", given |-> gives, options |-> after]
  BY <1>1, <1>2, <1>3
<1> HIDE DEF after
<1>8. ASSUME NEW k \in K \cup {j}, NEW o \in DOMAIN Defaults, o \in ReadAll(ws[k]).given
      PROVE  after[o] = ReadAll(ws[k]).options[o]
  <2>1. CASE k = j
    BY <1>3, <1>6, <1>8, <2>1
  <2>2. CASE k \in K
    <3>1. o \notin new /\ options[o] = ReadAll(ws[k]).options[o]
      BY <1>2, <1>3, <1>8, <2>2 DEF Gathered
    <3> QED BY <1>6, <3>1
  <2> QED BY <2>1, <2>2
<1>9. \A o \in DOMAIN Defaults : o \notin gives => after[o] = Defaults[o]
  BY <1>2, <1>6 DEF Gathered
<1> HIDE DEF gives
<1>10. Gathered(gives, after, ws, K \cup {j})
  BY <1>4, <1>5, <1>8, <1>9 DEF Gathered
<1> QED BY <1>7, <1>10 DEF Merged

LEMMA WordsAreLists == ASSUME NEW w \in Words PROVE w \in Seq(Argument)
  BY MainLoopAssumption

LEMMA KnownGives == ASSUME NEW p, NEW X, Known(p, X) PROVE p.given \subseteq X
<1>1. PICK failed \in BOOLEAN : \E waiting, given, options :
        /\ p = [failed |-> failed, waiting |-> waiting, given |-> given, options |-> options]
        /\ options = [o \in DOMAIN Defaults |-> options[o]]
        /\ given \subseteq X /\ (failed \/ waiting \in X \cup {""})
  BY DEF Known
<1>2. PICK waiting, given, options :
        /\ p = [failed |-> failed, waiting |-> waiting, given |-> given, options |-> options]
        /\ options = [o \in DOMAIN Defaults |-> options[o]]
        /\ given \subseteq X /\ (failed \/ waiting \in X \cup {""})
  BY <1>1
<1> QED BY <1>2

LEMMA GivenApart ==
  ASSUME NEW ws \in Seq(Words), OnceEach(ws), NEW i \in DOMAIN ws, NEW j \in DOMAIN ws, i # j
  PROVE  ReadAll(ws[i]).given \cap ReadAll(ws[j]).given = {}
<1>1. ws[i] \in Seq(Argument) /\ ws[j] \in Seq(Argument)
  BY WordsAreLists
<1>2. Known(ReadAll(ws[i]), Options(ws[i])) /\ Known(ReadAll(ws[j]), Options(ws[j]))
  BY <1>1, WordKnown
<1>3. ReadAll(ws[i]).given \subseteq Options(ws[i]) /\ ReadAll(ws[j]).given \subseteq Options(ws[j])
  BY <1>2, KnownGives
<1>4. Options(ws[i]) \cap Options(ws[j]) = {}
  BY DEF OnceEach
<1> QED BY <1>3, <1>4

\* After the first n words: they are all complete and merged, or one is bad and has
\* made the command line fail, or the last one still waits for a value.
So(ws, n, p) ==
  \/ (\A k \in 1 .. n : ~Bad(ReadAll(ws[k]))) /\ Merged(p, ws, 1 .. n)
  \/ (\E k \in 1 .. n : Bad(ReadAll(ws[k]))) /\ p.failed
  \/ /\ n # 0 /\ Bad(ReadAll(ws[n]))
     /\ ~p.failed /\ p.waiting # "" /\ ~ReadAll(ws[n]).failed /\ p.waiting = ReadAll(ws[n]).waiting

LEMMA SoStep ==
  ASSUME NEW ws \in Seq(Words), \A k \in DOMAIN ws : Whole(ws[k]), OnceEach(ws),
         NEW n \in Nat, n + 1 <= Len(ws), NEW s \in Seq(Argument), So(ws, n, ReadAll(s))
  PROVE  So(ws, n + 1, ReadAll(s \o ws[n + 1]))
<1>1. DOMAIN ws = 1 .. Len(ws) /\ Len(ws) \in Nat
  OBVIOUS
<1> DEFINE w == ws[n + 1]
           q == ReadAll(s)
           f == ReadAll(s \o w)
<1>2. n + 1 \in DOMAIN ws /\ n + 1 \in 1 .. n + 1 /\ \A k \in 1 .. n : k \in DOMAIN ws /\ k \in 1 .. n + 1 /\ k # n + 1
  BY <1>1
<1>3. w \in Words /\ w \in Seq(Argument) /\ w # <<>>
  <2>1. w \in Words
    BY <1>2, ElementOfSeq
  <2>2. Whole(w)
    BY <1>2
  <2> HIDE DEF w
  <2> QED BY <2>1, <2>2, WordsAreLists DEF Whole
<1> HIDE DEF w
<1>4. CASE (\A k \in 1 .. n : ~Bad(ReadAll(ws[k]))) /\ Merged(q, ws, 1 .. n)
  <2>1. Follows(q, ReadAll(w), f)
    BY <1>3, <1>4, MergedBetween, WordFollows
  <2>2. f.failed = ReadAll(w).failed /\ f.waiting = ReadAll(w).waiting
    <3> HIDE DEF q, f
    <3> QED BY <2>1 DEF Follows
  <2>3. CASE ~Bad(ReadAll(w))
    <3>1. \A k \in 1 .. n : ReadAll(ws[k]).given \cap ReadAll(ws[n + 1]).given = {}
      BY <1>2, GivenApart
    <3>2. Merged(f, ws, (1 .. n) \cup {n + 1})
      <4> HIDE DEF q, f
      <4> QED BY <1>4, <2>1, <2>3, <3>1, MergedStep DEF w
    <3>3. (1 .. n) \cup {n + 1} = 1 .. n + 1
      OBVIOUS
    <3>4. \A k \in 1 .. n + 1 : ~Bad(ReadAll(ws[k]))
      BY <1>4, <2>3, <3>3 DEF w
    <3> QED BY <3>2, <3>3, <3>4 DEF So, w
  <2>4. CASE Bad(ReadAll(w)) /\ ReadAll(w).failed
    BY <1>2, <2>2, <2>4 DEF So, w
  <2>5. CASE Bad(ReadAll(w)) /\ ~ReadAll(w).failed
    <3>0. n + 1 # 0
      OBVIOUS
    <3> HIDE DEF f, q
    <3>1. f.waiting # "" /\ ~f.failed /\ n + 1 # 0
      BY <2>2, <2>5, <3>0 DEF Bad
    <3>2. So(ws, n + 1, f)
      BY <2>2, <2>5, <3>1 DEF So, w
    <3> QED BY <3>2 DEF f, w
  <2> QED BY <2>3, <2>4, <2>5
<1>5. CASE (\E k \in 1 .. n : Bad(ReadAll(ws[k]))) /\ q.failed
  <2>1. f.failed
    BY <1>3, <1>5, FailedStays
  <2> QED BY <1>2, <1>5, <2>1 DEF So, w
<1>6. CASE /\ n # 0 /\ Bad(ReadAll(ws[n]))
           /\ ~q.failed /\ q.waiting # "" /\ ~ReadAll(ws[n]).failed /\ q.waiting = ReadAll(ws[n]).waiting
  <2>0. n # 0
    BY <1>6
  <2>1. n \in 1 .. n /\ n \in DOMAIN ws
    <3> HIDE DEF q, f
    <3> QED BY <1>1, <2>0
  <2>2. ~Accepts(q.waiting, w[1])
    BY <1>3, <1>6, <2>1 DEF Whole
  <2>3. f.failed
    <3> HIDE DEF q
    <3> QED BY <1>3, <1>6, <2>2, RefusedByTheNext DEF q
  <2> QED BY <1>2, <1>6, <2>1, <2>3 DEF So, w
<1> QED BY <1>4, <1>5, <1>6 DEF So

\* A command line is well formed if and only if each of its words is, and then it
\* means what they mean.
LEMMA LineOfWords ==
  ASSUME NEW ws \in Seq(Words), \A k \in DOMAIN ws : Whole(ws[k]), OnceEach(ws)
  PROVE  LET p == ReadAll(FlattenSeq(ws)) IN
         \/ (\A k \in 1 .. Len(ws) : ~Bad(ReadAll(ws[k]))) /\ Merged(p, ws, 1 .. Len(ws))
         \/ (\E k \in 1 .. Len(ws) : Bad(ReadAll(ws[k]))) /\ Bad(p)
<1>1. Words \subseteq Seq(Argument)
  BY WordsAreLists
<1>2. ws \in Seq(Seq(Argument)) /\ Len(ws) \in Nat
  BY <1>1, SeqMonotonic
<1>3. PICK g \in [0 .. Len(ws) -> Seq(Argument)] :
        /\ g[0] = <<>> /\ FlattenSeq(ws) = g[Len(ws)]
        /\ \A k \in 1 .. Len(ws) : g[k] = g[k - 1] \o ws[k]
  BY <1>2, Joins
<1> DEFINE T == {n \in Nat : n <= Len(ws) => So(ws, n, ReadAll(g[n]))}
<1>4. 0 \in T
  <2>1. ReadAll(<<>>) = Start
    <3>1. PICK f : Runs(f, Start, <<>>)
      BY RunExists
    <3>2. <<>> \in Seq({}) /\ Len(<<>>) = 0
      OBVIOUS
    <3>3. ReadAll(<<>>) = f[Len(<<>>)]
      BY <3>1, <3>2, FoldIsTheLoop
    <3> QED BY <3>1, <3>2, <3>3 DEF Runs
  <2>2. 1 .. 0 = {}
    OBVIOUS
  <2>3. So(ws, 0, ReadAll(g[0]))
    BY <1>3, <2>1, <2>2, MergedStart DEF So
  <2> QED BY <2>3
<1>5. ASSUME NEW n \in T PROVE n + 1 \in T
  <2> SUFFICES ASSUME n + 1 <= Len(ws) PROVE So(ws, n + 1, ReadAll(g[n + 1]))
    OBVIOUS
  <2>1. n + 1 \in 1 .. Len(ws) /\ (n + 1) - 1 = n /\ n \in 0 .. Len(ws) /\ So(ws, n, ReadAll(g[n])) /\ n \in Nat
    BY <1>2
  <2>2. g[n + 1] = g[(n + 1) - 1] \o ws[n + 1] /\ g[n] \in Seq(Argument)
    BY <1>3, <2>1, Zenon
  <2>3. g[n + 1] = g[n] \o ws[n + 1]
    BY <2>1, <2>2
  <2> QED BY <2>1, <2>2, <2>3, SoStep
<1>6. T = Nat
  BY <1>4, <1>5, Everywhere
<1>7. So(ws, Len(ws), ReadAll(FlattenSeq(ws)))
  BY <1>2, <1>3, <1>6
<1> DEFINE p == ReadAll(FlattenSeq(ws))
<1>8. So(ws, Len(ws), p)
  BY <1>7
<1> HIDE DEF p
<1>9. Len(ws) # 0 => Len(ws) \in 1 .. Len(ws)
  BY <1>2
<1>10. \/ (\A k \in 1 .. Len(ws) : ~Bad(ReadAll(ws[k]))) /\ Merged(p, ws, 1 .. Len(ws))
       \/ (\E k \in 1 .. Len(ws) : Bad(ReadAll(ws[k]))) /\ Bad(p)
  BY <1>8, <1>9 DEF So, Bad
<1> QED BY <1>10 DEF p

-----------------------------------------------------------------------------
(* The same words in another order *)

SameWords(ws, vs) ==
  /\ \A k \in 1 .. Len(ws) : \E i \in 1 .. Len(vs) : vs[i] = ws[k]
  /\ \A i \in 1 .. Len(vs) : \E k \in 1 .. Len(ws) : vs[i] = ws[k]

LEMMA GatheredOption ==
  ASSUME NEW ws, NEW vs, SameWords(ws, vs), NEW given, NEW options, NEW others,
         Gathered(given, options, ws, 1 .. Len(ws)), Gathered(given, others, vs, 1 .. Len(vs)),
         NEW o \in DOMAIN Defaults
  PROVE  options[o] = others[o]
<1>1. CASE o \notin given
  BY <1>1 DEF Gathered
<1>2. CASE o \in given
  <2>1. PICK k \in 1 .. Len(ws) : o \in ReadAll(ws[k]).given
    BY <1>2 DEF Gathered
  <2>2. PICK i \in 1 .. Len(vs) : vs[i] = ws[k]
    BY DEF SameWords
  <2>3. options[o] = ReadAll(ws[k]).options[o]
    BY <2>1 DEF Gathered
  <2>4. others[o] = ReadAll(vs[i]).options[o]
    BY <2>1, <2>2 DEF Gathered
  <2> QED BY <2>2, <2>3, <2>4
<1> QED BY <1>1, <1>2

LEMMA SameGiven ==
  ASSUME NEW ws, NEW vs, SameWords(ws, vs)
  PROVE  UNION {ReadAll(ws[k]).given : k \in 1 .. Len(ws)} = UNION {ReadAll(vs[k]).given : k \in 1 .. Len(vs)}
<1> DEFINE Given(w) == ReadAll(w).given
<1> HIDE DEF Given
<1>1. UNION {Given(ws[k]) : k \in 1 .. Len(ws)} = UNION {Given(vs[k]) : k \in 1 .. Len(vs)}
  BY DEF SameWords
<1> QED BY <1>1 DEF Given

\* What the words make of the defaults is theirs, whatever their order.
LEMMA MergedOnce ==
  ASSUME NEW ws, NEW vs, SameWords(ws, vs), NEW p, NEW r,
         Merged(p, ws, 1 .. Len(ws)), Merged(r, vs, 1 .. Len(vs))
  PROVE  p = r
<1>1. PICK given, options :
        /\ p = [failed |-> FALSE, waiting |-> "", given |-> given, options |-> options]
        /\ Gathered(given, options, ws, 1 .. Len(ws))
  BY DEF Merged
<1>2. PICK gives, others :
        /\ r = [failed |-> FALSE, waiting |-> "", given |-> gives, options |-> others]
        /\ Gathered(gives, others, vs, 1 .. Len(vs))
  BY DEF Merged
<1>3. given = gives
  <2>1. given = UNION {ReadAll(ws[k]).given : k \in 1 .. Len(ws)}
    BY <1>1, Zenon DEF Gathered
  <2>2. gives = UNION {ReadAll(vs[k]).given : k \in 1 .. Len(vs)}
    BY <1>2, Zenon DEF Gathered
  <2>3. UNION {ReadAll(ws[k]).given : k \in 1 .. Len(ws)} = UNION {ReadAll(vs[k]).given : k \in 1 .. Len(vs)}
    BY SameGiven
  <2> QED BY <2>1, <2>2, <2>3, Zenon
<1>4. \A o \in DOMAIN Defaults : options[o] = others[o]
  <2>1. Gathered(given, others, vs, 1 .. Len(vs))
    BY <1>2, <1>3, Zenon
  <2>2. Gathered(given, options, ws, 1 .. Len(ws))
    BY <1>1
  <2> QED BY <2>1, <2>2, GatheredOption
<1>5. options = [o \in DOMAIN Defaults |-> options[o]] /\ others = [o \in DOMAIN Defaults |-> others[o]]
  BY <1>1, <1>2 DEF Gathered
<1>6. [o \in DOMAIN Defaults |-> options[o]] = [o \in DOMAIN Defaults |-> others[o]]
  BY <1>4, Zenon
<1>7. options = others
  BY <1>5, <1>6, Zenon
<1> QED BY <1>1, <1>2, <1>3, <1>7

LEMMA SameResult ==
  ASSUME NEW ws \in Seq(Words), NEW vs \in Seq(Words), SameWords(ws, vs), OnceEach(ws), OnceEach(vs),
         \A k \in DOMAIN ws : Whole(ws[k]), \A k \in DOMAIN vs : Whole(vs[k])
  PROVE  Result(ReadAll(FlattenSeq(ws))) = Result(ReadAll(FlattenSeq(vs)))
<1> DEFINE p == ReadAll(FlattenSeq(ws))
           r == ReadAll(FlattenSeq(vs))
<1>1. \/ (\A k \in 1 .. Len(ws) : ~Bad(ReadAll(ws[k]))) /\ Merged(p, ws, 1 .. Len(ws))
      \/ (\E k \in 1 .. Len(ws) : Bad(ReadAll(ws[k]))) /\ Bad(p)
  BY LineOfWords
<1>2. \/ (\A k \in 1 .. Len(vs) : ~Bad(ReadAll(vs[k]))) /\ Merged(r, vs, 1 .. Len(vs))
      \/ (\E k \in 1 .. Len(vs) : Bad(ReadAll(vs[k]))) /\ Bad(r)
  BY LineOfWords
<1> HIDE DEF p, r
<1>3. CASE \E k \in 1 .. Len(ws) : Bad(ReadAll(ws[k]))
  <2>1. \E k \in 1 .. Len(vs) : Bad(ReadAll(vs[k]))
    BY <1>3 DEF SameWords
  <2>2. Bad(p) /\ Bad(r)
    BY <1>1, <1>2, <1>3, <2>1
  <2>3. Result(p) = Result(r)
    BY <2>2 DEF Bad, Result
  <2> QED BY <2>3 DEF p, r
<1>4. CASE \A k \in 1 .. Len(ws) : ~Bad(ReadAll(ws[k]))
  <2>1. \A k \in 1 .. Len(vs) : ~Bad(ReadAll(vs[k]))
    BY <1>4 DEF SameWords
  <2>2. Merged(p, ws, 1 .. Len(ws)) /\ Merged(r, vs, 1 .. Len(vs))
    BY <1>1, <1>2, <1>4, <2>1
  <2>3. p = r
    BY <2>2, MergedOnce
  <2> QED BY <2>3 DEF p, r
<1> QED BY <1>3, <1>4

\* The words keep what they say of themselves in any order.
LEMMA OtherOrder ==
  ASSUME NEW ws \in Seq(Words), OnceEach(ws), NEW p \in Orders(ws), NEW vs, vs = [i \in DOMAIN ws |-> ws[p[i]]]
  PROVE  vs \in Seq(Words) /\ SameWords(ws, vs) /\ OnceEach(vs)
<1>1. DOMAIN ws = 1 .. Len(ws) /\ Len(ws) \in Nat /\ \A k \in 1 .. Len(ws) : ws[k] \in Words
  BY ElementOfSeq
<1>2. p \in [1 .. Len(ws) -> 1 .. Len(ws)] /\ \A i, j \in 1 .. Len(ws) : p[i] = p[j] => i = j
  BY <1>1 DEF Orders
<1>3. \A k \in 1 .. Len(ws) : \E i \in 1 .. Len(ws) : p[i] = k
  <2> DEFINE I == 1 .. Len(ws)
  <2>1. IsFiniteSet(I)
    BY <1>1, FS_Interval
  <2> HIDE DEF I
  <2>2. p \in Injection(I, I)
    BY <1>2, Fun_IsInj DEF I
  <2>3. p \in Surjection(I, I)
    BY <2>1, <2>2, FS_Injection
  <2>4. \A k \in I : \E i \in I : p[i] = k
    BY <2>3 DEF Surjection
  <2> QED BY <2>4 DEF I
<1>4. vs \in Seq(Words) /\ Len(vs) = Len(ws) /\ DOMAIN vs = 1 .. Len(ws)
  BY <1>1, <1>2
<1>5. \A i \in 1 .. Len(ws) : vs[i] = ws[p[i]] /\ p[i] \in 1 .. Len(ws)
  BY <1>1, <1>2
<1>6. SameWords(ws, vs)
  BY <1>3, <1>4, <1>5 DEF SameWords
<1>7. OnceEach(vs)
  <2> SUFFICES ASSUME NEW i \in 1 .. Len(ws), NEW j \in 1 .. Len(ws), i # j
               PROVE  Options(vs[i]) \cap Options(vs[j]) = {}
    BY <1>4 DEF OnceEach
  <2>1. p[i] # p[j]
    BY <1>2
  <2>2. Options(ws[p[i]]) \cap Options(ws[p[j]]) = {}
    BY <1>1, <1>5, <2>1 DEF OnceEach
  <2> QED BY <1>5, <2>2
<1> QED BY <1>4, <1>6, <1>7

-----------------------------------------------------------------------------
(* What is looked for among the arguments *)

\* Every argument stands in a word, and every argument of a word on the line.
LEMMA ArgumentsOfWords ==
  ASSUME NEW ws \in Seq(Words), NEW a
  PROVE  (\E i \in DOMAIN FlattenSeq(ws) : FlattenSeq(ws)[i] = a)
           <=> \E k \in 1 .. Len(ws) : \E i \in DOMAIN ws[k] : ws[k][i] = a
<1>1. ws \in Seq(Seq(Argument))
  BY MainLoopAssumption, SeqMonotonic
<1>2. Range(FlattenSeq(ws)) = UNION {Range(ws[k]) : k \in 1 .. Len(ws)}
  BY <1>1, FlattenRange
<1> DEFINE s == FlattenSeq(ws)
<1>3. a \in Range(s) <=> \E k \in 1 .. Len(ws) : a \in Range(ws[k])
  BY <1>2
<1> HIDE DEF s
<1>4. (\E i \in DOMAIN s : s[i] = a) <=> \E k \in 1 .. Len(ws) : \E i \in DOMAIN ws[k] : ws[k][i] = a
  BY <1>3 DEF Range
<1> QED BY <1>4 DEF s

LEMMA SameArguments ==
  ASSUME NEW ws \in Seq(Words), NEW vs \in Seq(Words), SameWords(ws, vs), NEW a
  PROVE  (\E i \in DOMAIN FlattenSeq(ws) : FlattenSeq(ws)[i] = a)
           <=> \E i \in DOMAIN FlattenSeq(vs) : FlattenSeq(vs)[i] = a
<1> DEFINE In(w) == \E i \in DOMAIN w : w[i] = a
<1>1. In(FlattenSeq(ws)) <=> \E k \in 1 .. Len(ws) : In(ws[k])
  BY ArgumentsOfWords
<1>2. In(FlattenSeq(vs)) <=> \E k \in 1 .. Len(vs) : In(vs[k])
  BY ArgumentsOfWords
<1> HIDE DEF In
<1>3. In(FlattenSeq(ws)) <=> In(FlattenSeq(vs))
  BY <1>1, <1>2 DEF SameWords
<1> QED BY <1>3 DEF In

LEMMA SameHelp ==
  ASSUME NEW ws \in Seq(Words), NEW vs \in Seq(Words), SameWords(ws, vs)
  PROVE  /\ AsksForHelp(FlattenSeq(ws)) = AsksForHelp(FlattenSeq(vs))
         /\ ParseXmlLogArg(FlattenSeq(ws)) = ParseXmlLogArg(FlattenSeq(vs))
<1> DEFINE s == FlattenSeq(ws)
           t == FlattenSeq(vs)
<1>1. \A a : (\E i \in DOMAIN s : s[i] = a) <=> (\E i \in DOMAIN t : t[i] = a)
  BY SameArguments
<1> HIDE DEF s, t
<1>2. AsksForHelp(s) <=> AsksForHelp(t)
  BY <1>1 DEF AsksForHelp
<1>3. ParseXmlLogArg(s) <=> ParseXmlLogArg(t)
  BY <1>1 DEF ParseXmlLogArg
<1>4. AsksForHelp(s) \in BOOLEAN /\ AsksForHelp(t) \in BOOLEAN /\ ParseXmlLogArg(s) \in BOOLEAN /\ ParseXmlLogArg(t) \in BOOLEAN
  BY DEF AsksForHelp, ParseXmlLogArg
<1>5. AsksForHelp(s) = AsksForHelp(t) /\ ParseXmlLogArg(s) = ParseXmlLogArg(t)
  BY <1>2, <1>3, <1>4
<1> QED BY <1>5 DEF s, t

-----------------------------------------------------------------------------
(* The name of the device *)

HasName(s) == \E i \in DOMAIN s : Text(s[i]) = "--deviceName"
EndsWithout(s) == s # <<>> /\ Text(s[Len(s)]) # "--deviceName"

LEMMA NameAt ==
  ASSUME NEW s, NEW m \in Names(s), \A j \in Names(s) : m <= j, Names(s) \subseteq Int
  PROVE  ParseDeviceNameArg(s) = Text(s[m + 1])
<1> DEFINE first == CHOOSE i \in Names(s) : \A j \in Names(s) : i <= j
<1>1. first \in Names(s) /\ \A j \in Names(s) : first <= j
  OBVIOUS
<1>2. first = m
  <2> HIDE DEF first
  <2> QED BY <1>1
<1>3. ParseDeviceNameArg(s) = Text(s[first + 1])
  BY DEF ParseDeviceNameArg
<1> HIDE DEF first
<1> QED BY <1>2, <1>3

LEMMA FirstName ==
  ASSUME NEW S, NEW s \in Seq(S), Names(s) # {}
  PROVE  \E m \in Names(s) : (\A j \in Names(s) : m <= j) /\ ParseDeviceNameArg(s) = Text(s[m + 1])
<1>1. Names(s) \subseteq Nat /\ Names(s) \subseteq Int
  BY DEF Names
<1>2. PICK m \in Names(s) : \A j \in Names(s) : m <= j
  BY <1>1, Smallest
<1>3. ParseDeviceNameArg(s) = Text(s[m + 1])
  BY <1>1, <1>2, NameAt
<1> QED BY <1>2, <1>3

\* Arguments without --deviceName before others, or after others that do not end
\* with it, have no say in the name.
LEMMA NoNameBefore ==
  ASSUME NEW S, NEW s \in Seq(S), NEW t \in Seq(S), ~HasName(s)
  PROVE  ParseDeviceNameArg(s \o t) = ParseDeviceNameArg(t)
<1>1. /\ Len(s \o t) = Len(s) + Len(t) /\ Len(s) \in Nat /\ Len(t) \in Nat /\ s \o t \in Seq(S)
      /\ \A i \in 1 .. Len(s) : (s \o t)[i] = s[i]
      /\ \A i \in 1 .. Len(t) : (s \o t)[Len(s) + i] = t[i]
  BY ConcatProperties
<1> DEFINE u == s \o t
<1>2. Len(u) = Len(s) + Len(t) /\ Len(u) \in Nat /\ u \in Seq(S)
  BY <1>1
<1>3. (\A i \in 1 .. Len(s) : u[i] = s[i]) /\ \A i \in 1 .. Len(t) : u[Len(s) + i] = t[i]
  BY <1>1
<1> HIDE DEF u
<1>4. \A i \in 1 .. Len(s) : Text(s[i]) # "--deviceName"
  BY DEF HasName
<1>5. ASSUME NEW i \in Names(t) PROVE Len(s) + i \in Names(u)
  <2>1. i \in 1 .. Len(t) /\ i + 1 \in 1 .. Len(t) /\ Len(s) + i \in 1 .. Len(u) - 1 /\ (Len(s) + i) + 1 = Len(s) + (i + 1)
    BY <1>1, <1>2 DEF Names
  <2>2. u[Len(s) + i] = t[i] /\ u[Len(s) + (i + 1)] = t[i + 1]
    BY <1>3, <2>1
  <2>3. Text(t[i]) = "--deviceName" /\ Text(t[i + 1]) \notin BadName
    BY DEF Names
  <2> QED BY <2>1, <2>2, <2>3 DEF Names
<1>6. ASSUME NEW j \in Names(u) PROVE \E i \in Names(t) : j = Len(s) + i
  <2>1. j \in 1 .. Len(u) - 1 /\ Text(u[j]) = "--deviceName" /\ Text(u[j + 1]) \notin BadName
    BY DEF Names
  <2>2. j > Len(s)
    <3> SUFFICES ASSUME j <= Len(s) PROVE FALSE
      BY <1>1, <1>2, <2>1
    <3>1. j \in 1 .. Len(s)
      BY <1>1, <1>2, <2>1
    <3> QED BY <1>3, <1>4, <2>1, <3>1
  <2> DEFINE i == j - Len(s)
  <2>3. i \in 1 .. Len(t) - 1 /\ i \in 1 .. Len(t) /\ i + 1 \in 1 .. Len(t) /\ j = Len(s) + i /\ j + 1 = Len(s) + (i + 1)
    BY <1>1, <1>2, <2>1, <2>2
  <2> HIDE DEF i
  <2>4. u[j] = t[i] /\ u[j + 1] = t[i + 1]
    BY <1>3, <2>3
  <2>5. i \in Names(t)
    BY <2>1, <2>3, <2>4 DEF Names
  <2> QED BY <2>3, <2>5
<1>7. CASE Names(t) = {}
  <2>1. Names(u) = {}
    BY <1>6, <1>7
  <2>2. ParseDeviceNameArg(u) = "default" /\ ParseDeviceNameArg(t) = "default"
    BY <1>7, <2>1 DEF ParseDeviceNameArg
  <2> QED BY <2>2 DEF u
<1>8. CASE Names(t) # {}
  <2>1. PICK m \in Names(t) : (\A j \in Names(t) : m <= j) /\ ParseDeviceNameArg(t) = Text(t[m + 1])
    BY <1>8, FirstName
  <2>2. m \in Nat /\ m + 1 \in 1 .. Len(t) /\ Names(t) \subseteq Int /\ Names(u) \subseteq Int
    BY <1>1, <1>2 DEF Names
  <2>3. Len(s) + m \in Names(u) /\ \A j \in Names(u) : Len(s) + m <= j
    <3>1. ASSUME NEW j \in Names(u) PROVE Len(s) + m <= j
      <4>1. PICK i \in Names(t) : j = Len(s) + i
        BY <1>6
      <4> QED BY <1>1, <2>1, <2>2, <4>1
    <3> QED BY <1>5, <3>1
  <2>4. ParseDeviceNameArg(u) = Text(u[(Len(s) + m) + 1])
    BY <2>2, <2>3, NameAt
  <2>5. (Len(s) + m) + 1 = Len(s) + (m + 1)
    BY <1>1, <2>2
  <2>6. ParseDeviceNameArg(u) = ParseDeviceNameArg(t)
    BY <1>3, <2>1, <2>2, <2>4, <2>5
  <2> QED BY <2>6 DEF u
<1> QED BY <1>7, <1>8

LEMMA NoNameAfter ==
  ASSUME NEW S, NEW s \in Seq(S), NEW t \in Seq(S), EndsWithout(s), ~HasName(t)
  PROVE  ParseDeviceNameArg(s \o t) = ParseDeviceNameArg(s)
<1>1. /\ Len(s \o t) = Len(s) + Len(t) /\ Len(s) \in Nat /\ Len(t) \in Nat /\ s \o t \in Seq(S)
      /\ \A i \in 1 .. Len(s) : (s \o t)[i] = s[i]
      /\ \A i \in 1 .. Len(t) : (s \o t)[Len(s) + i] = t[i]
  BY ConcatProperties
<1> DEFINE u == s \o t
<1>2. Len(u) = Len(s) + Len(t) /\ Len(u) \in Nat /\ u \in Seq(S)
  BY <1>1
<1>3. (\A i \in 1 .. Len(s) : u[i] = s[i]) /\ \A i \in 1 .. Len(t) : u[Len(s) + i] = t[i]
  BY <1>1
<1> HIDE DEF u
<1>4. \A i \in 1 .. Len(t) : Text(t[i]) # "--deviceName"
  BY DEF HasName
<1>5. ASSUME NEW i \in Names(s) PROVE i \in Names(u)
  <2>1. i \in 1 .. Len(s) /\ i + 1 \in 1 .. Len(s) /\ i \in 1 .. Len(u) - 1
    BY <1>1, <1>2 DEF Names
  <2>2. u[i] = s[i] /\ u[i + 1] = s[i + 1]
    BY <1>3, <2>1
  <2>3. Text(s[i]) = "--deviceName" /\ Text(s[i + 1]) \notin BadName
    BY DEF Names
  <2> QED BY <2>1, <2>2, <2>3 DEF Names
<1>6. ASSUME NEW j \in Names(u) PROVE j \in Names(s)
  <2>1. j \in 1 .. Len(u) - 1 /\ Text(u[j]) = "--deviceName" /\ Text(u[j + 1]) \notin BadName
    BY DEF Names
  <2>2. j <= Len(s)
    <3> SUFFICES ASSUME j > Len(s) PROVE FALSE
      BY <1>1, <1>2, <2>1
    <3>1. j - Len(s) \in 1 .. Len(t) /\ j = Len(s) + (j - Len(s))
      BY <1>1, <1>2, <2>1
    <3>2. u[j] = t[j - Len(s)]
      BY <1>3, <3>1
    <3> QED BY <1>4, <2>1, <3>1, <3>2
  <2>3. j # Len(s)
    <3> SUFFICES ASSUME j = Len(s) PROVE FALSE
      OBVIOUS
    <3>1. u[j] = s[Len(s)]
      BY <1>1, <1>3, <2>1
    <3> QED BY <2>1, <3>1 DEF EndsWithout
  <2>4. j \in 1 .. Len(s) - 1 /\ j \in 1 .. Len(s) /\ j + 1 \in 1 .. Len(s)
    BY <1>1, <1>2, <2>1, <2>2, <2>3
  <2>5. u[j] = s[j] /\ u[j + 1] = s[j + 1]
    BY <1>3, <2>4
  <2> QED BY <2>1, <2>4, <2>5 DEF Names
<1>7. Names(u) = Names(s)
  BY <1>5, <1>6
<1>8. CASE Names(s) = {}
  <2>1. ParseDeviceNameArg(u) = "default" /\ ParseDeviceNameArg(s) = "default"
    BY <1>7, <1>8 DEF ParseDeviceNameArg
  <2> QED BY <2>1 DEF u
<1>9. CASE Names(s) # {}
  <2>1. PICK m \in Names(s) : (\A j \in Names(s) : m <= j) /\ ParseDeviceNameArg(s) = Text(s[m + 1])
    BY <1>9, FirstName
  <2>2. m + 1 \in 1 .. Len(s) /\ Names(u) \subseteq Int
    BY <1>1, <1>2 DEF Names
  <2>3. ParseDeviceNameArg(u) = Text(u[m + 1])
    BY <1>7, <2>1, <2>2, NameAt
  <2>4. ParseDeviceNameArg(u) = ParseDeviceNameArg(s)
    BY <1>3, <2>1, <2>2, <2>3
  <2> QED BY <2>4 DEF u
<1> QED BY <1>8, <1>9

\* After the first n words: the name is that of the word that has --deviceName.
NameSo(ws, n, s) ==
  /\ n # 0 => EndsWithout(s)
  /\ (\A k \in 1 .. n : ~HasName(ws[k])) => ~HasName(s)
  /\ \A k \in 1 .. n : HasName(ws[k]) => ParseDeviceNameArg(s) = ParseDeviceNameArg(ws[k])

LEMMA EndsLikeWord ==
  ASSUME NEW S, NEW s \in Seq(S), NEW w \in Seq(S), EndsWithout(w)
  PROVE  EndsWithout(s \o w)
<1>1. Len(w) \in Nat \ {0}
  BY EmptySeq, Zenon DEF EndsWithout
<1>2. /\ Len(s \o w) = Len(s) + Len(w) /\ Len(s) \in Nat
      /\ \A i \in 1 .. Len(w) : (s \o w)[Len(s) + i] = w[i]
  BY ConcatProperties
<1> DEFINE u == s \o w
<1>3. Len(u) = Len(s) + Len(w) /\ u[Len(s) + Len(w)] = w[Len(w)]
  BY <1>1, <1>2
<1> HIDE DEF u
<1>4. Len(u) # 0
  BY <1>1, <1>2, <1>3
<1>5. u # <<>>
  BY <1>4, EmptySeq
<1>6. EndsWithout(u)
  BY <1>3, <1>5 DEF EndsWithout
<1> QED BY <1>6 DEF u

LEMMA NoNameInEither ==
  ASSUME NEW S, NEW s \in Seq(S), NEW w \in Seq(S), ~HasName(s), ~HasName(w)
  PROVE  ~HasName(s \o w)
<1> DEFINE u == s \o w
<1>1. Range(u) = Range(s) \cup Range(w)
  BY RangeConcatenation
<1> HIDE DEF u
<1>2. ~HasName(u)
  BY <1>1 DEF HasName, Range
<1> QED BY <1>2 DEF u

LEMMA OneHasName ==
  ASSUME NEW ws \in Seq(Words), OnceEach(ws), NEW i \in DOMAIN ws, NEW j \in DOMAIN ws, HasName(ws[i]), HasName(ws[j])
  PROVE  i = j
<1>1. "--deviceName" \in Option
  BY DEF Option
<1>2. "--deviceName" \in Options(ws[i]) /\ "--deviceName" \in Options(ws[j])
  BY <1>1 DEF HasName, Options
<1> QED BY <1>2 DEF OnceEach

LEMMA NameStep ==
  ASSUME NEW ws \in Seq(Words), \A k \in DOMAIN ws : Whole(ws[k]), OnceEach(ws),
         NEW n \in Nat, n + 1 <= Len(ws), NEW s \in Seq(Argument), NameSo(ws, n, s), n = 0 => s = <<>>
  PROVE  NameSo(ws, n + 1, s \o ws[n + 1])
<1> DEFINE w == ws[n + 1]
<1>1. DOMAIN ws = 1 .. Len(ws) /\ Len(ws) \in Nat
  OBVIOUS
<1>2. n + 1 \in DOMAIN ws /\ \A k \in 1 .. n : k \in DOMAIN ws /\ k # n + 1
  BY <1>1
<1>3. w \in Seq(Argument) /\ EndsWithout(w)
  <2>1. w \in Words
    BY <1>1, <1>2, ElementOfSeq
  <2>2. Whole(w)
    BY <1>2
  <2> HIDE DEF w
  <2> QED BY <2>1, <2>2, WordsAreLists DEF Whole, EndsWithout
<1>4. \A k \in 1 .. n + 1 : k \in 1 .. n \/ k = n + 1
  OBVIOUS
<1>5. n + 1 \in 1 .. n + 1 /\ \A k \in 1 .. n : k \in 1 .. n + 1
  OBVIOUS
<1>6. ASSUME \A k \in 1 .. n + 1 : ~HasName(ws[k]) PROVE ~HasName(s \o w)
  <2>1. ~HasName(s)
    BY <1>5, <1>6 DEF NameSo
  <2>2. ~HasName(w)
    BY <1>5, <1>6
  <2> HIDE DEF w
  <2> QED BY <1>3, <2>1, <2>2, NoNameInEither
<1>7. ASSUME NEW k \in 1 .. n + 1, HasName(ws[k]) PROVE ParseDeviceNameArg(s \o w) = ParseDeviceNameArg(ws[k])
  <2>1. CASE k = n + 1
    <3>1. \A i \in 1 .. n : ~HasName(ws[i])
      <4> SUFFICES ASSUME NEW i \in 1 .. n, HasName(ws[i]) PROVE FALSE
        OBVIOUS
      <4>1. i \in DOMAIN ws /\ k \in DOMAIN ws /\ i # k
        BY <1>2, <2>1
      <4> QED BY <1>7, <4>1, OneHasName
    <3>2. ~HasName(s)
      BY <3>1 DEF NameSo
    <3>3. ws[k] = w
      BY <2>1
    <3> HIDE DEF w
    <3> QED BY <1>3, <3>2, <3>3, NoNameBefore
  <2>2. CASE k \in 1 .. n
    <3>1. ~HasName(w)
      <4> SUFFICES ASSUME HasName(w) PROVE FALSE
        OBVIOUS
      <4>1. k \in DOMAIN ws /\ k # n + 1
        BY <1>2, <2>2
      <4> QED BY <1>2, <1>7, <4>1, OneHasName
    <3>2. EndsWithout(s) /\ ParseDeviceNameArg(s) = ParseDeviceNameArg(ws[k])
      <4>1. n # 0
        BY <2>2
      <4> QED BY <1>7, <2>2, <4>1 DEF NameSo
    <3> HIDE DEF w
    <3> QED BY <1>3, <3>1, <3>2, NoNameAfter
  <2> QED BY <1>4, <2>1, <2>2
<1>8. EndsWithout(s \o w)
  <2> HIDE DEF w
  <2> QED BY <1>3, EndsLikeWord
<1> QED BY <1>6, <1>7, <1>8 DEF NameSo

LEMMA NameOfWords ==
  ASSUME NEW ws \in Seq(Words), \A k \in DOMAIN ws : Whole(ws[k]), OnceEach(ws)
  PROVE  NameSo(ws, Len(ws), FlattenSeq(ws))
<1>1. Words \subseteq Seq(Argument)
  BY WordsAreLists
<1>2. ws \in Seq(Seq(Argument)) /\ Len(ws) \in Nat
  BY <1>1, SeqMonotonic
<1>3. PICK g \in [0 .. Len(ws) -> Seq(Argument)] :
        /\ g[0] = <<>> /\ FlattenSeq(ws) = g[Len(ws)]
        /\ \A k \in 1 .. Len(ws) : g[k] = g[k - 1] \o ws[k]
  BY <1>2, Joins
<1> DEFINE T == {n \in Nat : n <= Len(ws) => NameSo(ws, n, g[n])}
<1>4. 0 \in T
  <2>1. 1 .. 0 = {} /\ ~HasName(<<>>)
    BY DEF HasName
  <2>2. NameSo(ws, 0, g[0])
    BY <1>3, <2>1 DEF NameSo
  <2> QED BY <2>2
<1>5. ASSUME NEW n \in T PROVE n + 1 \in T
  <2> SUFFICES ASSUME n + 1 <= Len(ws) PROVE NameSo(ws, n + 1, g[n + 1])
    OBVIOUS
  <2>1. n + 1 \in 1 .. Len(ws) /\ (n + 1) - 1 = n /\ n \in 0 .. Len(ws) /\ NameSo(ws, n, g[n]) /\ n \in Nat
    BY <1>2
  <2>2. g[n + 1] = g[(n + 1) - 1] \o ws[n + 1] /\ g[n] \in Seq(Argument) /\ (n = 0 => g[n] = <<>>)
    BY <1>3, <2>1, Zenon
  <2>3. g[n + 1] = g[n] \o ws[n + 1]
    BY <2>1, <2>2
  <2> QED BY <2>1, <2>2, <2>3, NameStep
<1>6. T = Nat
  BY <1>4, <1>5, Everywhere
<1>7. NameSo(ws, Len(ws), g[Len(ws)])
  BY <1>2, <1>6
<1> QED BY <1>3, <1>7

LEMMA NoNameDefault == ASSUME NEW s, ~HasName(s), Len(s) \in Nat, DOMAIN s = 1 .. Len(s)
                       PROVE  ParseDeviceNameArg(s) = "default"
<1>1. Names(s) = {}
  BY DEF Names, HasName
<1> QED BY <1>1 DEF ParseDeviceNameArg

LEMMA SameName ==
  ASSUME NEW ws \in Seq(Words), NEW vs \in Seq(Words), SameWords(ws, vs), OnceEach(ws), OnceEach(vs),
         \A k \in DOMAIN ws : Whole(ws[k]), \A k \in DOMAIN vs : Whole(vs[k])
  PROVE  ParseDeviceNameArg(FlattenSeq(ws)) = ParseDeviceNameArg(FlattenSeq(vs))
<1> DEFINE s == FlattenSeq(ws)
           t == FlattenSeq(vs)
<1>1. NameSo(ws, Len(ws), s) /\ NameSo(vs, Len(vs), t)
  BY NameOfWords
<1>2. s \in Seq(Argument) /\ t \in Seq(Argument)
  <2>1. ws \in Seq(Seq(Argument)) /\ vs \in Seq(Seq(Argument))
    BY MainLoopAssumption, SeqMonotonic
  <2> QED BY <2>1, FlattenType
<1> HIDE DEF s, t
<1>3. CASE \E k \in 1 .. Len(ws) : HasName(ws[k])
  <2>1. PICK k \in 1 .. Len(ws) : HasName(ws[k])
    BY <1>3
  <2>2. PICK i \in 1 .. Len(vs) : vs[i] = ws[k]
    BY DEF SameWords
  <2>3. ParseDeviceNameArg(s) = ParseDeviceNameArg(ws[k])
    BY <1>1, <2>1 DEF NameSo
  <2>4. ParseDeviceNameArg(t) = ParseDeviceNameArg(vs[i])
    BY <1>1, <2>1, <2>2 DEF NameSo
  <2>5. ParseDeviceNameArg(s) = ParseDeviceNameArg(t)
    BY <2>2, <2>3, <2>4
  <2> QED BY <2>5 DEF s, t
<1>4. CASE \A k \in 1 .. Len(ws) : ~HasName(ws[k])
  <2>1. \A i \in 1 .. Len(vs) : ~HasName(vs[i])
    BY <1>4 DEF SameWords
  <2>2. ~HasName(s) /\ ~HasName(t)
    BY <1>1, <1>4, <2>1 DEF NameSo
  <2>3. ParseDeviceNameArg(s) = ParseDeviceNameArg(t)
    BY <1>2, <2>2, NoNameDefault
  <2> QED BY <2>3 DEF s, t
<1> QED BY <1>3, <1>4

-----------------------------------------------------------------------------
(* The order of the words *)

LEMMA AnyOrder ==
  ASSUME \A w \in Words : Whole(w), NEW ws \in Seq(Words), OnceEach(ws), NEW p \in Orders(ws),
         NEW vs, vs = [i \in DOMAIN ws |-> ws[p[i]]]
  PROVE  /\ ParseCommandLine(FlattenSeq(vs)) = ParseCommandLine(FlattenSeq(ws))
         /\ ParseDeviceNameArg(FlattenSeq(vs)) = ParseDeviceNameArg(FlattenSeq(ws))
         /\ ParseXmlLogArg(FlattenSeq(vs)) = ParseXmlLogArg(FlattenSeq(ws))
<1>1. vs \in Seq(Words) /\ SameWords(ws, vs) /\ OnceEach(vs)
  BY OtherOrder
<1>2. \A us \in Seq(Words) : \A k \in DOMAIN us : Whole(us[k])
  BY ElementOfSeq
<1>3. Result(ReadAll(FlattenSeq(vs))) = Result(ReadAll(FlattenSeq(ws)))
  BY <1>1, <1>2, SameResult
<1>4. AsksForHelp(FlattenSeq(vs)) = AsksForHelp(FlattenSeq(ws)) /\ ParseXmlLogArg(FlattenSeq(vs)) = ParseXmlLogArg(FlattenSeq(ws))
  BY <1>1, SameHelp
<1>5. ParseDeviceNameArg(FlattenSeq(vs)) = ParseDeviceNameArg(FlattenSeq(ws))
  BY <1>1, <1>2, SameName
<1>6. \A argv_ : ParseCommandLine(argv_) =
        IF AsksForHelp(argv_) THEN [result |-> "ExitSuccess", options |-> Defaults] ELSE Result(ReadAll(argv_))
  BY Zenon DEF ParseCommandLine, ReadAll
<1> DEFINE s == FlattenSeq(ws)
           t == FlattenSeq(vs)
<1> HIDE DEF s, t
<1>7. ParseCommandLine(t) = ParseCommandLine(s)
  BY <1>3, <1>4, <1>6, Zenon DEF s, t
<1> QED BY <1>4, <1>5, <1>7 DEF s, t

\* The order of the words on the command line is of no account, however many they
\* are: ParseCommandLine, ParseDeviceNameArg and ParseXmlLogArg say the same of the
\* same words in any order, if each word keeps its values with it and no option is
\* given twice.
THEOREM OrderOfWords ==
  ASSUME \A w \in Words : Whole(w)
  PROVE  Spec => []OrderDoesNotMatter
<1>1. TypeOK => OrderDoesNotMatter
  <2> SUFFICES ASSUME TypeOK, step = "load", OnceEach(words), NEW p \in Orders(words)
               PROVE  LET typed == FlattenSeq(words)
                          other == FlattenSeq([i \in DOMAIN words |-> words[p[i]]]) IN
                      /\ ParseCommandLine(other) = ParseCommandLine(typed)
                      /\ ParseDeviceNameArg(other) = ParseDeviceNameArg(typed)
                      /\ ParseXmlLogArg(other) = ParseXmlLogArg(typed)
    BY DEF OrderDoesNotMatter
  <2>1. words \in Seq(Words)
    BY DEF TypeOK
  <2> DEFINE vs == [i \in DOMAIN words |-> words[p[i]]]
  <2>2. vs = [i \in DOMAIN words |-> words[p[i]]]
    OBVIOUS
  <2> HIDE DEF vs
  <2>3. /\ ParseCommandLine(FlattenSeq(vs)) = ParseCommandLine(FlattenSeq(words))
        /\ ParseDeviceNameArg(FlattenSeq(vs)) = ParseDeviceNameArg(FlattenSeq(words))
        /\ ParseXmlLogArg(FlattenSeq(vs)) = ParseXmlLogArg(FlattenSeq(words))
    BY <2>1, <2>2, AnyOrder
  <2> QED BY <2>2, <2>3
<1> QED BY <1>1, MainLoopTypes, PTL

-----------------------------------------------------------------------------
(* main() does what ParseCommandLine says of what was typed *)

\* The first n arguments are read, and the others follow; or one of them was
\* refused, and nothing more is read.
ReadUpTo(s, f, n) ==
  /\ Runs(f, Start, s) /\ parse = f[n]
  /\ \/ Len(argv) = Len(s) - n /\ \A i \in 1 .. Len(argv) : argv[i] = s[n + i]
     \/ argv = <<>> /\ parse.failed

Meant(typed) == ParseCommandLine(FlattenSeq(typed))

\* Once the command line is read: what it means is what main() goes on with, and
\* a command line that is refused is no success.
MeansItsCommandLine(typed) ==
  /\ step \notin {"load", "parse", "exit"} =>
       /\ Meant(typed).result = "Run"
       /\ link = DataLink(Meant(typed).options)
       /\ import = (Meant(typed).options["--import-cari"] # Nothing)
  /\ exitCode = 0 => Meant(typed).result # "ExitError"

LineRead(typed) ==
  /\ step = "load" => words = typed /\ parse = Start
  /\ step = "parse" =>
       /\ ~AsksForHelp(FlattenSeq(typed))
       /\ \E f : \E n \in 0 .. Len(FlattenSeq(typed)) : ReadUpTo(FlattenSeq(typed), f, n)
  /\ MeansItsCommandLine(typed)

LEMMA HelpIsSuccess ==
  ASSUME NEW s
  PROVE  IF AsksForHelp(s) THEN ParseCommandLine(s).result = "ExitSuccess"
         ELSE ParseCommandLine(s) = Result(ReadAll(s))
  BY DEF ParseCommandLine

LEMMA FailedResult == ASSUME NEW p, p.failed PROVE Result(p) = [result |-> "ExitError", options |-> Defaults]
  BY DEF Result

LEMMA LineLoad ==
  ASSUME NEW typed \in Seq(Words), LineRead(typed), Typed, Load
  PROVE  LineRead(typed)'
<1> DEFINE s == FlattenSeq(typed)
<1>1. s \in Seq(Argument) /\ Len(s) \in Nat
  <2>1. typed \in Seq(Seq(Argument))
    BY MainLoopAssumption, SeqMonotonic
  <2> QED BY <2>1, FlattenType
<1>2. words = typed /\ parse = Start /\ parse' = parse
  BY DEF Load, LineRead
<1>3. CASE Exit(1)
  BY <1>3 DEF Exit, LineRead, MeansItsCommandLine
<1>4. CASE Exit(0) /\ AsksForHelp(s)
  <2>1. Meant(typed).result # "ExitError"
    BY <1>4, HelpIsSuccess DEF Meant
  <2>2. step' = "exit" /\ exitCode' = 0
    BY <1>4 DEF Exit
  <2> QED BY <2>1, <2>2 DEF LineRead, MeansItsCommandLine
<1>5. CASE GoOn("parse") /\ ~AsksForHelp(s)
  <2>1. argv' = s /\ step' = "parse" /\ exitCode' = -1
    <3>1. step' = "parse" /\ exitCode' = exitCode /\ step = "load"
      BY <1>5 DEF GoOn, Load
    <3>2. exitCode = -1
      BY <3>1 DEF Typed, TypeOK
    <3>3. ~Exit(1)
      BY <3>1, <3>2 DEF Exit
    <3> QED BY <1>2, <3>1, <3>2, <3>3 DEF Load
  <2>2. PICK f : Runs(f, Start, s)
    BY <1>1, RunExists
  <2> HIDE DEF s
  <2>3. 0 \in 0 .. Len(s) /\ Len(s) = Len(s) - 0 /\ \A i \in 1 .. Len(s) : s[i] = s[0 + i]
    BY <1>1
  <2>4. ReadUpTo(s, f, 0)'
    BY <1>2, <2>1, <2>2, <2>3 DEF ReadUpTo, Runs
  <2> QED BY <1>5, <2>1, <2>3, <2>4 DEF s, LineRead, MeansItsCommandLine
<1> QED BY <1>2, <1>3, <1>4, <1>5 DEF Load

LEMMA LineReadArgument ==
  ASSUME NEW typed \in Seq(Words), LineRead(typed), Typed, ReadArgument
  PROVE  LineRead(typed)'
<1> DEFINE s == FlattenSeq(typed)
<1>1. s \in Seq(Argument) /\ Len(s) \in Nat
  <2>1. typed \in Seq(Seq(Argument))
    BY MainLoopAssumption, SeqMonotonic
  <2> QED BY <2>1, FlattenType
<1>2. step = "parse" /\ step' = "parse" /\ exitCode' = exitCode /\ exitCode = -1 /\ argv # <<>> /\ argv \in Seq(Argument)
  BY DEF ReadArgument, GoOn, Typed, TypeOK
<1>3. ~AsksForHelp(s)
  BY <1>2 DEF LineRead
<1> DEFINE N == 0 .. Len(s)
<1>4. \E f : \E n \in N : ReadUpTo(s, f, n)
  BY <1>2 DEF LineRead
<1> HIDE DEF s
<1>5. PICK f : \E n \in N : ReadUpTo(s, f, n)
  BY <1>4
<1>6. PICK n \in 0 .. Len(s) : ReadUpTo(s, f, n)
  BY <1>5
<1>7. Len(argv) \in Nat \ {0}
  BY <1>2, EmptySeq
<1>8. /\ Runs(f, Start, s) /\ parse = f[n] /\ Len(argv) = Len(s) - n
      /\ \A i \in 1 .. Len(argv) : argv[i] = s[n + i]
  BY <1>2, <1>6 DEF ReadUpTo
<1>9. n + 1 \in 1 .. Len(s) /\ n + 1 \in 0 .. Len(s) /\ (n + 1) - 1 = n /\ 1 \in 1 .. Len(argv)
  BY <1>1, <1>7, <1>8
<1>10. Head(argv) = s[n + 1]
  BY <1>2, <1>8, <1>9
<1>11. parse' = f[n + 1]
  <2>1. f[n + 1] = Read(f[(n + 1) - 1], s[n + 1])
    BY <1>8, <1>9, Zenon DEF Runs
  <2> QED BY <1>8, <1>9, <1>10, <2>1 DEF ReadArgument
<1>12. ReadUpTo(s, f, n + 1)'
  <2>1. CASE parse'.failed
    BY <1>8, <1>11, <2>1 DEF ReadUpTo, ReadArgument
  <2>2. CASE ~parse'.failed
    <3>1. argv' = Tail(argv)
      BY <2>2 DEF ReadArgument
    <3>2. Len(argv') = Len(argv) - 1 /\ \A i \in 1 .. Len(argv') : argv'[i] = argv[i + 1]
      BY <1>2, <1>7, <3>1, HeadTailProperties
    <3>3. ASSUME NEW i \in 1 .. Len(argv') PROVE argv'[i] = s[(n + 1) + i]
      <4>1. i + 1 \in 1 .. Len(argv) /\ n + (i + 1) = (n + 1) + i
        BY <1>7, <1>9, <3>2
      <4> QED BY <1>8, <3>2, <4>1
    <3>4. Len(argv') = Len(s) - (n + 1)
      BY <1>1, <1>8, <3>2
    <3> QED BY <1>8, <1>11, <3>3, <3>4 DEF ReadUpTo
  <2> QED BY <2>1, <2>2
<1> QED BY <1>2, <1>3, <1>9, <1>12 DEF s, LineRead, MeansItsCommandLine

\* What the loop has made of all that it was given is what ParseCommandLine makes.
LEMMA LineIsRead ==
  ASSUME NEW typed \in Seq(Words), LineRead(typed), step = "parse", argv = <<>>
  PROVE  Result(parse) = Meant(typed)
<1> DEFINE s == FlattenSeq(typed)
<1>1. s \in Seq(Argument) /\ Len(s) \in Nat
  <2>1. typed \in Seq(Seq(Argument))
    BY MainLoopAssumption, SeqMonotonic
  <2> QED BY <2>1, FlattenType
<1>2. Meant(typed) = Result(ReadAll(s))
  BY HelpIsSuccess DEF LineRead, Meant
<1> DEFINE N == 0 .. Len(s)
<1>3. \E f : \E n \in N : ReadUpTo(s, f, n)
  BY DEF LineRead
<1> HIDE DEF s
<1>4. PICK f : \E n \in N : ReadUpTo(s, f, n)
  BY <1>3
<1>5. PICK n \in 0 .. Len(s) : ReadUpTo(s, f, n)
  BY <1>4
<1>6. Runs(f, Start, s) /\ parse = f[n]
  BY <1>5 DEF ReadUpTo
<1>7. ReadAll(s) = f[Len(s)]
  BY <1>1, <1>6, FoldIsTheLoop
<1>8. CASE parse.failed
  <2>1. f[Len(s)].failed
    BY <1>1, <1>6, <1>8, FailedFromThere
  <2> QED BY <1>2, <1>7, <1>8, <2>1, FailedResult
<1>9. CASE ~parse.failed
  <2>1. Len(argv) = Len(s) - n
    BY <1>5, <1>9 DEF ReadUpTo
  <2>2. n = Len(s)
    BY <1>1, <2>1, EmptySeq
  <2> QED BY <1>2, <1>6, <1>7, <2>2
<1> QED BY <1>8, <1>9

LEMMA LineParseEnds ==
  ASSUME NEW typed \in Seq(Words), LineRead(typed), Typed, ParseEnds
  PROVE  LineRead(typed)'
<1>1. step = "parse" /\ argv = <<>> /\ exitCode = -1
  BY DEF ParseEnds, Typed, TypeOK
<1>2. Result(parse) = Meant(typed)
  BY <1>1, LineIsRead
<1>3. link' = DataLink(Meant(typed).options) /\ import' = (Meant(typed).options["--import-cari"] # Nothing)
  BY <1>2 DEF ParseEnds
<1>4. CASE Meant(typed).result = "Run"
  <2>1. step' = "open" /\ exitCode' = -1
    BY <1>1, <1>2, <1>4 DEF ParseEnds, GoOn
  <2> QED BY <1>3, <1>4, <2>1 DEF LineRead, MeansItsCommandLine
<1>5. CASE Meant(typed).result # "Run"
  <2>1. step' = "exit" /\ exitCode' = 1
    BY <1>2, <1>5 DEF ParseEnds, Exit
  <2> QED BY <2>1 DEF LineRead, MeansItsCommandLine
<1> QED BY <1>4, <1>5

LEMMA LineRest ==
  ASSUME NEW typed, LineRead(typed), Typed,
         Open \/ PrepareCertificates \/ AddObjects \/ Announce \/ Tick \/ LinkWork \/ Restart \/ Keys \/ Sleep
  PROVE  LineRead(typed)'
<1>1. step \notin {"load", "parse", "exit"}
  BY DEF Open, PrepareCertificates, AddObjects, Announce, Tick, LinkWork, Restart, Keys, Sleep
<1>2. UNCHANGED <<link, import>>
  BY DEF Open, PrepareCertificates, AddObjects, Announce, Tick, LinkWork, Restart, Keys, Sleep, setup, line
<1>3. step' \notin {"load", "parse"}
  BY DEF Open, PrepareCertificates, AddObjects, Announce, Tick, LinkWork, Restart, Keys, Sleep, OrFail, GoOn, Exit
<1>4. /\ Meant(typed).result = "Run" /\ link = DataLink(Meant(typed).options)
      /\ import = (Meant(typed).options["--import-cari"] # Nothing)
  BY <1>1 DEF LineRead, MeansItsCommandLine
<1> QED BY <1>2, <1>3, <1>4 DEF LineRead, MeansItsCommandLine

\* main() runs with the data link and the import that ParseCommandLine, asked for
\* all that was typed at once, would give it; and it ends with exit code 0 only if
\* ParseCommandLine does not refuse what was typed.
THEOREM RunsWhatWasTyped ==
  ASSUME NEW CONSTANT typed \in Seq(Words)
  PROVE  Spec /\ words = typed => []MeansItsCommandLine(typed)
<1>1. Init /\ words = typed => LineRead(typed)
  BY DEF Init, LineRead, MeansItsCommandLine
<1>2. Typed /\ LineRead(typed) /\ [Next]_vars => LineRead(typed)'
  <2> SUFFICES ASSUME Typed, LineRead(typed), [Next]_vars PROVE LineRead(typed)'
    OBVIOUS
  <2>1. CASE Next
    BY <2>1, LineLoad, LineReadArgument, LineParseEnds, LineRest DEF Next
  <2>2. CASE UNCHANGED vars
    BY <2>2 DEF vars, setup, line, LineRead, ReadUpTo, MeansItsCommandLine
  <2> QED BY <2>1, <2>2
<1>3. LineRead(typed) => MeansItsCommandLine(typed)
  BY DEF LineRead
<1> QED BY <1>1, <1>2, <1>3, InitTyped, StepTyped, PTL DEF Spec

-----------------------------------------------------------------------------
(* Each set-up call is accepted *)

\* The facts there are after the first n calls of t, if there were the facts M.
MadeFrom(M, t, n) == M \cup UNION {t[i].makes : i \in 1 .. n}

\* None of the first n calls is refused.
Taken(M, t, n) ==
  \A i \in 1 .. n : t[i].needs \subseteq MadeFrom(M, t, i - 1) /\ t[i].without \cap MadeFrom(M, t, i - 1) = {}

\* Among the facts M are the objects N and no other, the polled logs P and no
\* other, and the facts B.
Knows(M, N, P, B) ==
  /\ \A o : Object(o) \in M <=> o \in N
  /\ \A o : <<"polled", o>> \in M <=> o \in P
  /\ B \subseteq M

After(M, t, n, N, P, B) == Taken(M, t, n) /\ Knows(MadeFrom(M, t, n), N, P, B)

Plain(fact) == fact[1] \notin {"object", "polled"}

\* An object is told from another, and from a polled log.
LEMMA ObjectNames == ASSUME NEW o, NEW x PROVE (Object(o) = Object(x) => o = x) /\ <<"polled", o>> # Object(x)
  BY DEF Object

\* What a call is made of.
LEMMA CallParts ==
  ASSUME NEW needs, NEW makes
  PROVE  Call(needs, makes).needs = needs /\ Call(needs, makes).makes = makes /\ Call(needs, makes).without = {}
  BY DEF Call

\* What a call that must not come too late is made of.
LEMMA BeforeParts ==
  ASSUME NEW needs, NEW makes, NEW facts, NEW c, c = Before(facts, Call(needs, makes))
  PROVE  c.needs = needs /\ c.makes = makes /\ c.without = facts
  BY DEF Call, Before

\* A call whose needs are met and whose objections are not.
LEMMA OneMore ==
  ASSUME NEW M, NEW t, NEW n \in Nat, Taken(M, t, n),
         t[n + 1].needs \subseteq MadeFrom(M, t, n), t[n + 1].without \cap MadeFrom(M, t, n) = {}
  PROVE  Taken(M, t, n + 1) /\ MadeFrom(M, t, n + 1) = MadeFrom(M, t, n) \cup t[n + 1].makes
<1>1. 1 .. n + 1 = (1 .. n) \cup {n + 1} /\ (n + 1) - 1 = n
  OBVIOUS
<1>2. MadeFrom(M, t, n + 1) = MadeFrom(M, t, n) \cup t[n + 1].makes
  BY <1>1 DEF MadeFrom
<1>3. Taken(M, t, n + 1)
  BY <1>1 DEF Taken
<1> QED BY <1>2, <1>3

\* An object is added that was not there.
LEMMA AddCall ==
  ASSUME NEW M, NEW t, NEW n \in Nat, NEW N, NEW P, NEW B, After(M, t, n, N, P, B),
         "Device" \in N, NEW o, o \notin N, t[n + 1] = AddObject(o)
  PROVE  After(M, t, n + 1, N \cup {o}, P, B)
<1> DEFINE c == t[n + 1]
           F == MadeFrom(M, t, n)
           G == MadeFrom(M, t, n + 1)
<1>1. c.needs = {Object("Device")} /\ c.makes = {Object(o)} /\ c.without = {Object(o)}
  BY BeforeParts DEF AddObject
<1>2. Taken(M, t, n) /\ Knows(F, N, P, B)
  BY DEF After
<1>3. Object("Device") \in F /\ Object(o) \notin F
  BY <1>2 DEF Knows
<1>4. c.needs \subseteq F /\ c.without \cap F = {}
  BY <1>1, <1>3
<1>5. Taken(M, t, n + 1) /\ G = F \cup {Object(o)}
  BY <1>1, <1>2, <1>4, OneMore
<1> HIDE DEF c, F, G
<1>6. Knows(G, N \cup {o}, P, B)
  <2>1. \A x : Object(x) \in G <=> x \in N \cup {o}
    BY <1>2, <1>5, ObjectNames DEF Knows
  <2>2. \A x : <<"polled", x>> \in G <=> x \in P
    BY <1>2, <1>5, ObjectNames DEF Knows
  <2> QED BY <1>2, <1>5, <2>1, <2>2 DEF Knows
<1> QED BY <1>5, <1>6 DEF After, G

\* A log is polled.
LEMMA PollCall ==
  ASSUME NEW M, NEW t, NEW n \in Nat, NEW N, NEW P, NEW B, After(M, t, n, N, P, B),
         NEW o \in N, t[n + 1] = SetPolled(o)
  PROVE  After(M, t, n + 1, N, P \cup {o}, B)
<1> DEFINE c == t[n + 1]
           F == MadeFrom(M, t, n)
           G == MadeFrom(M, t, n + 1)
<1>1. c.needs = {Object(o)} /\ c.makes = {<<"polled", o>>} /\ c.without = {}
  <2>1. c = Call({Object(o)}, {<<"polled", o>>})
    BY DEF SetPolled, On
  <2> HIDE DEF c
  <2> QED BY <2>1, CallParts
<1>2. Taken(M, t, n) /\ Knows(F, N, P, B)
  BY DEF After
<1>3. Object(o) \in F
  BY <1>2 DEF Knows
<1>4. c.needs \subseteq F /\ c.without \cap F = {}
  BY <1>1, <1>3
<1>5. Taken(M, t, n + 1) /\ G = F \cup {<<"polled", o>>}
  BY <1>1, <1>2, <1>4, OneMore
<1> HIDE DEF c, F, G
<1>6. Knows(G, N, P \cup {o}, B)
  <2>1. \A x : Object(x) \in G <=> x \in N
    BY <1>2, <1>5, ObjectNames DEF Knows
  <2>2. \A x : <<"polled", x>> \in G <=> x \in P \cup {o}
    BY <1>2, <1>5 DEF Knows
  <2> QED BY <1>2, <1>5, <2>1, <2>2 DEF Knows
<1> QED BY <1>5, <1>6 DEF After, G

\* A log that is not polled yet gets its window.
LEMMA WindowCall ==
  ASSUME NEW M, NEW t, NEW n \in Nat, NEW N, NEW P, NEW B, After(M, t, n, N, P, B),
         NEW o \in N, o \notin P, t[n + 1] = SetWindow(o)
  PROVE  After(M, t, n + 1, N, P, B)
<1> DEFINE c == t[n + 1]
           F == MadeFrom(M, t, n)
           G == MadeFrom(M, t, n + 1)
<1>1. c.needs = {Object(o)} /\ c.makes = {<<"window", o>>} /\ c.without = {<<"polled", o>>}
  BY BeforeParts DEF SetWindow, On
<1>2. Taken(M, t, n) /\ Knows(F, N, P, B)
  BY DEF After
<1>3. Object(o) \in F /\ <<"polled", o>> \notin F
  BY <1>2 DEF Knows
<1>4. c.needs \subseteq F /\ c.without \cap F = {}
  BY <1>1, <1>3
<1>5. Taken(M, t, n + 1) /\ G = F \cup {<<"window", o>>}
  BY <1>1, <1>2, <1>4, OneMore
<1> HIDE DEF c, F, G
<1>6. \A x : Object(x) # <<"window", o>> /\ <<"polled", x>> # <<"window", o>>
  BY DEF Object
<1>7. Knows(G, N, P, B)
  BY <1>2, <1>5, <1>6 DEF Knows
<1> QED BY <1>5, <1>7 DEF After, G

\* Calls that need objects of N and facts of B, mind nothing, add no object and
\* poll nothing.
PlainCall(c, N, B) ==
  /\ c.needs \subseteq {Object(o) : o \in N} \cup B /\ c.without = {}
  /\ \A fact \in c.makes : Plain(fact)

PlainBetween(t, n, m, N, B) == \A i \in 1 .. m : i > n => PlainCall(t[i], N, B)
MadeBetween(t, n, m) == UNION {t[i].makes : i \in {j \in 1 .. m : j > n}}

\* Any number of plain calls, one after the other.
LEMMA PlainCalls ==
  ASSUME NEW M, NEW t, NEW n \in Nat, NEW N, NEW P, NEW B, After(M, t, n, N, P, B),
         NEW m \in Nat, n <= m, PlainBetween(t, n, m, N, B),
         NEW C, C \subseteq B \cup MadeBetween(t, n, m)
  PROVE  After(M, t, m, N, P, C)
<1> DEFINE F == MadeFrom(M, t, n)
           G == MadeFrom(M, t, m)
           later == {i \in 1 .. m : i > n}
           new == MadeBetween(t, n, m)
<1>1. Taken(M, t, n) /\ Knows(F, N, P, B)
  BY DEF After
<1>2. G = F \cup new
  <2>1. 1 .. m = (1 .. n) \cup later
    OBVIOUS
  <2> QED BY <2>1 DEF MadeFrom, MadeBetween
<1>3. {Object(o) : o \in N} \cup B \subseteq F
  BY <1>1 DEF Knows
<1>4. Taken(M, t, m)
  <2>1. ASSUME NEW i \in later
        PROVE  t[i].needs \subseteq MadeFrom(M, t, i - 1) /\ t[i].without \cap MadeFrom(M, t, i - 1) = {}
    <3>1. 1 .. n \subseteq 1 .. i - 1
      OBVIOUS
    <3>2. F \subseteq MadeFrom(M, t, i - 1)
      BY <3>1 DEF MadeFrom
    <3> QED BY <1>3, <3>2 DEF PlainBetween, PlainCall
  <2>2. ASSUME NEW i \in 1 .. m, i \notin later PROVE i \in 1 .. n
    BY <2>2
  <2> QED BY <1>1, <2>1, <2>2 DEF Taken
<1>5. \A fact \in new : Plain(fact)
  BY DEF PlainBetween, MadeBetween, PlainCall
<1>6. \A o : Object(o) \notin new /\ <<"polled", o>> \notin new
  BY <1>5 DEF Plain, Object
<1> HIDE DEF F, G, new
<1>7. Knows(G, N, P, C)
  <2>1. C \subseteq B \cup new
    BY DEF new
  <2> QED BY <1>1, <1>2, <1>6, <2>1 DEF Knows
<1> QED BY <1>4, <1>7 DEF After, G

-----------------------------------------------------------------------------

\* The calls of t are all accepted where there are the objects N and the polled
\* logs P, and then there are the objects O and the polled logs Q.
Leads(t, N, P, O, Q) ==
  IsList(t) /\ \A M : Knows(M, N, P, {}) => After(M, t, Len(t), O, Q, {})

\* Before the first call.
LEMMA NoCalls == ASSUME NEW M, NEW t, NEW N, NEW P, NEW B, Knows(M, N, P, B) PROVE After(M, t, 0, N, P, B)
<1>1. MadeFrom(M, t, 0) = M /\ Taken(M, t, 0)
  BY DEF MadeFrom, Taken
<1> QED BY <1>1 DEF After

\* One feature after another.
LEMMA LeadsOn ==
  ASSUME NEW t, NEW u, NEW N, NEW P, NEW O, NEW Q, NEW N2, NEW P2, Leads(t, N, P, O, Q), Leads(u, O, Q, N2, P2)
  PROVE  Leads(t \o u, N, P, N2, P2)
<1> DEFINE v == t \o u
           m == Len(t)
           k == Len(u)
<1>1. IsList(t) /\ IsList(u)
  BY DEF Leads
<1>2. /\ IsList(v) /\ m \in Nat /\ k \in Nat /\ Len(v) = m + k
      /\ \A i \in 1 .. m : v[i] = t[i]
      /\ \A i \in 1 .. k : v[m + i] = u[i]
  <2>1. PICK S : t \in Seq(S)
    BY <1>1 DEF IsList
  <2>2. PICK T : u \in Seq(T)
    BY <1>1 DEF IsList
  <2>3. t \in Seq(S \cup T) /\ u \in Seq(S \cup T)
    BY <2>1, <2>2, SeqMonotonic
  <2> QED BY <1>1, <2>3, ListsJoin
<1> SUFFICES ASSUME NEW M, Knows(M, N, P, {}) PROVE After(M, v, m + k, N2, P2, {})
  BY <1>2 DEF Leads
<1> DEFINE F == MadeFrom(M, t, m)
<1>3. Taken(M, t, m) /\ Knows(F, O, Q, {})
  BY DEF Leads, After
<1>4. Taken(F, u, k) /\ Knows(MadeFrom(F, u, k), N2, P2, {})
  BY <1>3 DEF Leads, After
<1> HIDE DEF v, m, k
<1>5. ASSUME NEW n \in 0 .. m PROVE MadeFrom(M, v, n) = MadeFrom(M, t, n)
  <2>1. \A i \in 1 .. n : v[i].makes = t[i].makes
    BY <1>2
  <2>2. {v[i].makes : i \in 1 .. n} = {t[i].makes : i \in 1 .. n}
    BY <2>1, Zenon
  <2> QED BY <2>2 DEF MadeFrom
<1>6. ASSUME NEW n \in 0 .. k PROVE MadeFrom(M, v, m + n) = MadeFrom(F, u, n)
  <2>1. {v[i].makes : i \in 1 .. m + n} = {v[i].makes : i \in 1 .. m} \cup {v[m + i].makes : i \in 1 .. n}
    <3>1. 1 .. m + n = (1 .. m) \cup {m + i : i \in 1 .. n}
      <4>1. ASSUME NEW j \in 1 .. m + n, j \notin 1 .. m PROVE j \in {m + i : i \in 1 .. n}
        <5>1. j - m \in 1 .. n /\ j = m + (j - m)
          BY <1>2, <4>1
        <5> QED BY <5>1
      <4> QED BY <1>2, <4>1
    <3> QED BY <3>1
  <2>2. \A i \in 1 .. n : v[m + i].makes = u[i].makes
    BY <1>2
  <2>3. {v[m + i].makes : i \in 1 .. n} = {u[i].makes : i \in 1 .. n}
    BY <2>2, Zenon
  <2>4. MadeFrom(M, v, m) = F
    BY <1>2, <1>5
  <2> HIDE DEF F
  <2> QED BY <2>1, <2>3, <2>4 DEF MadeFrom
<1>7. Taken(M, v, m + k)
  <2> SUFFICES ASSUME NEW i \in 1 .. m + k
               PROVE  v[i].needs \subseteq MadeFrom(M, v, i - 1) /\ v[i].without \cap MadeFrom(M, v, i - 1) = {}
    BY DEF Taken
  <2>1. CASE i \in 1 .. m
    <3>1. v[i] = t[i] /\ i - 1 \in 0 .. m
      BY <1>2, <2>1
    <3>2. MadeFrom(M, v, i - 1) = MadeFrom(M, t, i - 1)
      BY <1>5, <3>1
    <3> QED BY <1>3, <2>1, <3>1, <3>2 DEF Taken
  <2>2. CASE i \notin 1 .. m
    <3> DEFINE j == i - m
    <3>1. j \in 1 .. k /\ i = m + j /\ j - 1 \in 0 .. k /\ i - 1 = m + (j - 1)
      BY <1>2, <2>2
    <3> HIDE DEF j
    <3>2. v[i] = u[j]
      BY <1>2, <3>1
    <3>3. MadeFrom(M, v, i - 1) = MadeFrom(F, u, j - 1)
      BY <1>6, <3>1
    <3> QED BY <1>4, <3>1, <3>2, <3>3 DEF Taken
  <2> QED BY <2>1, <2>2
<1>8. MadeFrom(M, v, m + k) = MadeFrom(F, u, k)
  BY <1>2, <1>6
<1> QED BY <1>4, <1>7, <1>8 DEF After

-----------------------------------------------------------------------------
(* The features, in the order main() sets them up *)

\* The parts of a list that is written out.
LEMMA Two ==
  ASSUME NEW c1, NEW c2, NEW t, t = <<c1, c2>>
  PROVE  /\ IsList(t) /\ Len(t) = 2
         /\ t[1] = c1 /\ t[2] = c2
<1>1. t \in Seq({c1, c2})
  OBVIOUS
<1> QED BY <1>1 DEF IsList

LEMMA Three ==
  ASSUME NEW c1, NEW c2, NEW c3, NEW t, t = <<c1, c2, c3>>
  PROVE  /\ IsList(t) /\ Len(t) = 3
         /\ t[1] = c1 /\ t[2] = c2 /\ t[3] = c3
<1>1. t \in Seq({c1, c2, c3})
  OBVIOUS
<1> QED BY <1>1 DEF IsList

LEMMA Five ==
  ASSUME NEW c1, NEW c2, NEW c3, NEW c4, NEW c5, NEW t, t = <<c1, c2, c3, c4, c5>>
  PROVE  /\ IsList(t) /\ Len(t) = 5
         /\ t[1] = c1 /\ t[2] = c2 /\ t[3] = c3 /\ t[4] = c4 /\ t[5] = c5
<1>1. t \in Seq({c1, c2, c3, c4, c5})
  OBVIOUS
<1> QED BY <1>1 DEF IsList

LEMMA Thirteen ==
  ASSUME NEW c1, NEW c2, NEW c3, NEW c4, NEW c5, NEW c6, NEW c7, NEW c8, NEW c9, NEW c10, NEW c11, NEW c12,
           NEW c13, NEW t, t = <<c1, c2, c3, c4, c5, c6, c7, c8, c9, c10, c11, c12, c13>>
  PROVE  /\ IsList(t) /\ Len(t) = 13
         /\ t[1] = c1 /\ t[2] = c2 /\ t[3] = c3 /\ t[4] = c4 /\ t[5] = c5 /\ t[6] = c6 /\ t[7] = c7 /\ t[8] = c8 /\ t[9] = c9 /\ t[10] = c10 /\ t[11] = c11 /\ t[12] = c12 /\ t[13] = c13
<1>1. t \in Seq({c1, c2, c3, c4, c5, c6, c7, c8, c9, c10, c11, c12, c13})
  OBVIOUS
<1> QED BY <1>1 DEF IsList

LEMMA Fourteen ==
  ASSUME NEW c1, NEW c2, NEW c3, NEW c4, NEW c5, NEW c6, NEW c7, NEW c8, NEW c9, NEW c10, NEW c11, NEW c12,
           NEW c13, NEW c14, NEW t, t = <<c1, c2, c3, c4, c5, c6, c7, c8, c9, c10, c11, c12, c13, c14>>
  PROVE  /\ IsList(t) /\ Len(t) = 14
         /\ t[1] = c1 /\ t[2] = c2 /\ t[3] = c3 /\ t[4] = c4 /\ t[5] = c5 /\ t[6] = c6 /\ t[7] = c7 /\ t[8] = c8 /\ t[9] = c9 /\ t[10] = c10 /\ t[11] = c11 /\ t[12] = c12 /\ t[13] = c13 /\ t[14] = c14
<1>1. t \in Seq({c1, c2, c3, c4, c5, c6, c7, c8, c9, c10, c11, c12, c13, c14})
  OBVIOUS
<1> QED BY <1>1 DEF IsList

\* One plain call.
LEMMA PlainCallOf ==
  ASSUME NEW c, NEW needs, NEW fact, c = Call(needs, {fact}), Plain(fact),
         NEW N, NEW B, needs \subseteq {Object(o) : o \in N} \cup B
  PROVE  PlainCall(c, N, B) /\ fact \in c.makes
<1>1. c.needs = needs /\ c.makes = {fact} /\ c.without = {}
  BY CallParts
<1>2. PlainCall(c, N, B) /\ fact \in c.makes
  BY <1>1 DEF PlainCall
<1> QED BY <1>2

\* Enabling a property, or making it writable, of an object there is.
LEMMA EnablingCall ==
  ASSUME NEW N, NEW B, NEW o \in N, NEW property
  PROVE  PlainCall(Enable(o, property), N, B) /\ PlainCall(MakeWritable(o, property), N, B)
<1>1. Plain(Enabled(o, property)) /\ Plain(Writable(o, property))
  BY DEF Plain, Enabled, Writable
<1>2. {Object(o)} \subseteq {Object(x) : x \in N} \cup B
  OBVIOUS
<1> QED BY <1>1, <1>2, PlainCallOf DEF Enable, MakeWritable

\* The facts that are neither an object nor a polled log.
LEMMA PlainFacts ==
  /\ \A o : Plain(Held(o)) /\ Plain(<<"events", o>>) /\ Plain(<<"algorithm", o>>) /\ Plain(<<"logged", o>>)
  /\ \A o : Plain(<<"service", o>>) /\ Plain(<<"reference", o>>)
  /\ Plain(<<"entry">>) /\ Plain(<<"priority">>) /\ Plain(<<"default">>) /\ Plain(<<"period">>)
  /\ Plain(<<"weekly">>) /\ Plain(<<"exception">>) /\ Plain(<<"exceptionValue">>) /\ Plain(<<"backup">>)
  /\ Plain(<<"uuid">>) /\ Plain(<<"hubs">>) /\ Plain(<<"settings">>) /\ Plain(<<"pending">>) /\ Plain(<<"active">>)
  /\ Plain(<<"recipient">>)
  BY DEF Plain, Held

\* MakeCommandable, for an output there is.
LEMMA CommandableLeads ==
  ASSUME NEW N, NEW P, NEW o \in N
  PROVE  Leads(MakeCommandable(o), N, P, N, P)
<1> DEFINE t == MakeCommandable(o)
<1>1. IsList(t) /\ Len(t) = 3
  BY Three DEF MakeCommandable
<1>2. PlainBetween(t, 0, 3, N, {})
  BY EnablingCall DEF PlainBetween, MakeCommandable
<1> HIDE DEF t
<1> SUFFICES ASSUME NEW M, Knows(M, N, P, {}) PROVE After(M, t, 3, N, P, {})
  BY <1>1 DEF Leads, t
<1>3. After(M, t, 0, N, P, {})
  BY NoCalls
<1> QED BY <1>2, <1>3, PlainCalls

\* EnableOptional.
LEMMA OptionalLeads ==
  ASSUME NEW N, NEW P, "Device" \in N, "HotPink" \in N
  PROVE  Leads(EnableOptional, N, P, N, P)
<1> DEFINE t == EnableOptional
<1>1. IsList(t) /\ Len(t) = 2
  BY Two DEF EnableOptional
<1>2. PlainBetween(t, 0, 2, N, {})
  <2>1. t[1] = Enable("Device", "Description") /\ t[2] = Enable("HotPink", "State_Text")
    BY Two DEF EnableOptional
  <2> HIDE DEF t
  <2>2. PlainCall(t[1], N, {}) /\ PlainCall(t[2], N, {})
    BY <2>1, EnablingCall
  <2> QED BY <2>2 DEF PlainBetween
<1> HIDE DEF t
<1> SUFFICES ASSUME NEW M, Knows(M, N, P, {}) PROVE After(M, t, 2, N, P, {})
  BY <1>1 DEF Leads, t
<1>3. After(M, t, 0, N, P, {})
  BY NoCalls
<1> QED BY <1>2, <1>3, PlainCalls

\* The configuration file and backup.
LEMMA BackupLeads ==
  ASSUME NEW N, NEW P, "Device" \in N, "Ivory" \notin N
  PROVE  Leads(SetUpBackup, N, P, N \cup {"Ivory"}, P)
<1> DEFINE t == SetUpBackup
<1>1. IsList(t) /\ Len(t) = 3
  BY Three DEF SetUpBackup
<1>2. /\ t[1] = AddObject("Ivory")
      /\ t[2] = MakeWritable("Ivory", "Archive")
      /\ t[3] = Call({Object("Ivory")}, {<<"backup">>})
  BY Three DEF SetUpBackup
<1> HIDE DEF t
<1> SUFFICES ASSUME NEW M, Knows(M, N, P, {}) PROVE After(M, t, 3, N \cup {"Ivory"}, P, {})
  BY <1>1 DEF Leads, t
<1>3. After(M, t, 0, N, P, {})
  BY NoCalls
<1>4. After(M, t, 1, N \cup {"Ivory"}, P, {})
  <2> DEFINE O == N
             B == {}
  <2>1. "Device" \in O /\ "Ivory" \notin O /\ t[0 + 1] = AddObject("Ivory")
    BY <1>2
  <2> HIDE DEF O, B
  <2>2. After(M, t, 0, O, P, B)
    BY <1>3 DEF O, B
  <2>3. After(M, t, 0 + 1, O \cup {"Ivory"}, P, B)
    BY <2>1, <2>2, AddCall
  <2> QED BY <2>3 DEF O, B
<1>5. After(M, t, 3, N \cup {"Ivory"}, P, {})
  <2> DEFINE O == N \cup {"Ivory"}
             B == {}
             C == {}
  <2>1. PlainCall(t[2], O, B)
    BY <1>2, EnablingCall
  <2>2. PlainCall(t[3], O, B) /\ <<"backup">> \in t[3].makes
    <3>1. t[3] = Call({Object("Ivory")}, {<<"backup">>})
      BY <1>2
    <3>2. {Object("Ivory")} \subseteq {Object(x) : x \in O} \cup B
      OBVIOUS
    <3>3. Plain(<<"backup">>)
      BY PlainFacts
    <3> HIDE DEF O, B
    <3> QED BY <3>1, <3>2, <3>3, PlainCallOf
  <2>3. PlainBetween(t, 1, 3, O, B)
    <3> HIDE DEF O, B, C
    <3> QED BY <2>1, <2>2 DEF PlainBetween
  <2>4. C \subseteq B \cup MadeBetween(t, 1, 3)
    BY <2>1, <2>2 DEF MadeBetween
  <2> HIDE DEF O, B, C
  <2>5. After(M, t, 1, O, P, B)
    BY <1>4 DEF O, B
  <2>6. After(M, t, 3, O, P, C)
    BY <2>3, <2>4, <2>5, PlainCalls
  <2> QED BY <2>6 DEF O, C
<1> QED BY <1>5

\* The schedule and its calendar: the stack holds each before it is filled.
LEMMA ScheduleLeads ==
  ASSUME NEW N, NEW P, "Device" \in N, "Chartreuse" \in N, "Saffron" \notin N, "Cream" \notin N
  PROVE  Leads(SetUpSchedule, N, P, (N \cup {"Saffron"}) \cup {"Cream"}, P)
<1> DEFINE t == SetUpSchedule
<1>1. IsList(t) /\ Len(t) = 14
  BY Fourteen DEF SetUpSchedule
<1>2. /\ t[1] = AddObject("Saffron")
      /\ t[2] = AddObject("Cream")
      /\ t[3] = On("Cream", {Held("Cream")})
      /\ t[4] = OnHeld("Cream", {<<"entry">>})
      /\ t[5] = MakeWritable("Cream", "Date_List")
      /\ t[6] = On("Saffron", {Held("Saffron")})
      /\ t[7] = Call({Held("Saffron"), Object("Chartreuse")}, {<<"reference", "local">>})
      /\ t[8] = OnHeld("Saffron", {<<"reference", "remote">>})
      /\ t[9] = OnHeld("Saffron", {<<"priority">>})
      /\ t[10] = OnHeld("Saffron", {<<"default">>})
      /\ t[11] = OnHeld("Saffron", {<<"period">>})
      /\ t[12] = OnHeld("Saffron", {<<"weekly">>})
      /\ t[13] = Call({Held("Saffron"), Held("Cream")}, {<<"exception">>})
      /\ t[14] = Call({<<"exception">>}, {<<"exceptionValue">>})
  BY Fourteen DEF SetUpSchedule
<1> HIDE DEF t
<1> SUFFICES ASSUME NEW M, Knows(M, N, P, {}) PROVE After(M, t, 14, (N \cup {"Saffron"}) \cup {"Cream"}, P, {})
  BY <1>1 DEF Leads, t
<1>3. After(M, t, 0, N, P, {})
  BY NoCalls
<1>4. After(M, t, 1, N \cup {"Saffron"}, P, {})
  <2> DEFINE O == N
             B == {}
  <2>1. "Device" \in O /\ "Saffron" \notin O /\ t[0 + 1] = AddObject("Saffron")
    BY <1>2
  <2> HIDE DEF O, B
  <2>2. After(M, t, 0, O, P, B)
    BY <1>3 DEF O, B
  <2>3. After(M, t, 0 + 1, O \cup {"Saffron"}, P, B)
    BY <2>1, <2>2, AddCall
  <2> QED BY <2>3 DEF O, B
<1>5. After(M, t, 2, (N \cup {"Saffron"}) \cup {"Cream"}, P, {})
  <2> DEFINE O == N \cup {"Saffron"}
             B == {}
  <2>1. "Device" \in O /\ "Cream" \notin O /\ t[1 + 1] = AddObject("Cream")
    BY <1>2
  <2> HIDE DEF O, B
  <2>2. After(M, t, 1, O, P, B)
    BY <1>4 DEF O, B
  <2>3. After(M, t, 1 + 1, O \cup {"Cream"}, P, B)
    BY <2>1, <2>2, AddCall
  <2> QED BY <2>3 DEF O, B
<1>6. After(M, t, 3, (N \cup {"Saffron"}) \cup {"Cream"}, P, {Held("Cream")})
  <2> DEFINE O == (N \cup {"Saffron"}) \cup {"Cream"}
             B == {}
             C == {Held("Cream")}
  <2>1. PlainCall(t[3], O, B) /\ Held("Cream") \in t[3].makes
    <3>1. t[3] = Call({Object("Cream")}, {Held("Cream")})
      BY <1>2 DEF On
    <3>2. {Object("Cream")} \subseteq {Object(x) : x \in O} \cup B
      OBVIOUS
    <3>3. Plain(Held("Cream"))
      BY PlainFacts
    <3> HIDE DEF O, B
    <3> QED BY <3>1, <3>2, <3>3, PlainCallOf
  <2>2. PlainBetween(t, 2, 3, O, B)
    <3> HIDE DEF O, B, C
    <3> QED BY <2>1 DEF PlainBetween
  <2>3. C \subseteq B \cup MadeBetween(t, 2, 3)
    BY <2>1 DEF MadeBetween
  <2> HIDE DEF O, B, C
  <2>4. After(M, t, 2, O, P, B)
    BY <1>5 DEF O, B
  <2>5. After(M, t, 3, O, P, C)
    BY <2>2, <2>3, <2>4, PlainCalls
  <2> QED BY <2>5 DEF O, C
<1>7. After(M, t, 6, (N \cup {"Saffron"}) \cup {"Cream"}, P, {Held("Cream"), Held("Saffron")})
  <2> DEFINE O == (N \cup {"Saffron"}) \cup {"Cream"}
             B == {Held("Cream")}
             C == {Held("Cream"), Held("Saffron")}
  <2>1. PlainCall(t[4], O, B) /\ <<"entry">> \in t[4].makes
    <3>1. t[4] = Call({Held("Cream")}, {<<"entry">>})
      BY <1>2 DEF OnHeld
    <3>2. {Held("Cream")} \subseteq {Object(x) : x \in O} \cup B
      OBVIOUS
    <3>3. Plain(<<"entry">>)
      BY PlainFacts
    <3> HIDE DEF O, B
    <3> QED BY <3>1, <3>2, <3>3, PlainCallOf
  <2>2. PlainCall(t[5], O, B)
    BY <1>2, EnablingCall
  <2>3. PlainCall(t[6], O, B) /\ Held("Saffron") \in t[6].makes
    <3>1. t[6] = Call({Object("Saffron")}, {Held("Saffron")})
      BY <1>2 DEF On
    <3>2. {Object("Saffron")} \subseteq {Object(x) : x \in O} \cup B
      OBVIOUS
    <3>3. Plain(Held("Saffron"))
      BY PlainFacts
    <3> HIDE DEF O, B
    <3> QED BY <3>1, <3>2, <3>3, PlainCallOf
  <2>4. PlainBetween(t, 3, 6, O, B)
    <3> HIDE DEF O, B, C
    <3> QED BY <2>1, <2>2, <2>3 DEF PlainBetween
  <2>5. C \subseteq B \cup MadeBetween(t, 3, 6)
    BY <2>1, <2>2, <2>3 DEF MadeBetween
  <2> HIDE DEF O, B, C
  <2>6. After(M, t, 3, O, P, B)
    BY <1>6 DEF O, B
  <2>7. After(M, t, 6, O, P, C)
    BY <2>4, <2>5, <2>6, PlainCalls
  <2> QED BY <2>7 DEF O, C
<1>8. After(M, t, 13, (N \cup {"Saffron"}) \cup {"Cream"}, P, {<<"exception">>})
  <2> DEFINE O == (N \cup {"Saffron"}) \cup {"Cream"}
             B == {Held("Cream"), Held("Saffron")}
             C == {<<"exception">>}
  <2>1. PlainCall(t[7], O, B) /\ <<"reference", "local">> \in t[7].makes
    <3>1. t[7] = Call({Held("Saffron"), Object("Chartreuse")}, {<<"reference", "local">>})
      BY <1>2
    <3>2. {Held("Saffron"), Object("Chartreuse")} \subseteq {Object(x) : x \in O} \cup B
      OBVIOUS
    <3>3. Plain(<<"reference", "local">>)
      BY PlainFacts
    <3> HIDE DEF O, B
    <3> QED BY <3>1, <3>2, <3>3, PlainCallOf
  <2>2. PlainCall(t[8], O, B) /\ <<"reference", "remote">> \in t[8].makes
    <3>1. t[8] = Call({Held("Saffron")}, {<<"reference", "remote">>})
      BY <1>2 DEF OnHeld
    <3>2. {Held("Saffron")} \subseteq {Object(x) : x \in O} \cup B
      OBVIOUS
    <3>3. Plain(<<"reference", "remote">>)
      BY PlainFacts
    <3> HIDE DEF O, B
    <3> QED BY <3>1, <3>2, <3>3, PlainCallOf
  <2>3. PlainCall(t[9], O, B) /\ <<"priority">> \in t[9].makes
    <3>1. t[9] = Call({Held("Saffron")}, {<<"priority">>})
      BY <1>2 DEF OnHeld
    <3>2. {Held("Saffron")} \subseteq {Object(x) : x \in O} \cup B
      OBVIOUS
    <3>3. Plain(<<"priority">>)
      BY PlainFacts
    <3> HIDE DEF O, B
    <3> QED BY <3>1, <3>2, <3>3, PlainCallOf
  <2>4. PlainCall(t[10], O, B) /\ <<"default">> \in t[10].makes
    <3>1. t[10] = Call({Held("Saffron")}, {<<"default">>})
      BY <1>2 DEF OnHeld
    <3>2. {Held("Saffron")} \subseteq {Object(x) : x \in O} \cup B
      OBVIOUS
    <3>3. Plain(<<"default">>)
      BY PlainFacts
    <3> HIDE DEF O, B
    <3> QED BY <3>1, <3>2, <3>3, PlainCallOf
  <2>5. PlainCall(t[11], O, B) /\ <<"period">> \in t[11].makes
    <3>1. t[11] = Call({Held("Saffron")}, {<<"period">>})
      BY <1>2 DEF OnHeld
    <3>2. {Held("Saffron")} \subseteq {Object(x) : x \in O} \cup B
      OBVIOUS
    <3>3. Plain(<<"period">>)
      BY PlainFacts
    <3> HIDE DEF O, B
    <3> QED BY <3>1, <3>2, <3>3, PlainCallOf
  <2>6. PlainCall(t[12], O, B) /\ <<"weekly">> \in t[12].makes
    <3>1. t[12] = Call({Held("Saffron")}, {<<"weekly">>})
      BY <1>2 DEF OnHeld
    <3>2. {Held("Saffron")} \subseteq {Object(x) : x \in O} \cup B
      OBVIOUS
    <3>3. Plain(<<"weekly">>)
      BY PlainFacts
    <3> HIDE DEF O, B
    <3> QED BY <3>1, <3>2, <3>3, PlainCallOf
  <2>7. PlainCall(t[13], O, B) /\ <<"exception">> \in t[13].makes
    <3>1. t[13] = Call({Held("Saffron"), Held("Cream")}, {<<"exception">>})
      BY <1>2
    <3>2. {Held("Saffron"), Held("Cream")} \subseteq {Object(x) : x \in O} \cup B
      OBVIOUS
    <3>3. Plain(<<"exception">>)
      BY PlainFacts
    <3> HIDE DEF O, B
    <3> QED BY <3>1, <3>2, <3>3, PlainCallOf
  <2>8. PlainBetween(t, 6, 13, O, B)
    <3> HIDE DEF O, B, C
    <3> QED BY <2>1, <2>2, <2>3, <2>4, <2>5, <2>6, <2>7 DEF PlainBetween
  <2>9. C \subseteq B \cup MadeBetween(t, 6, 13)
    BY <2>1, <2>2, <2>3, <2>4, <2>5, <2>6, <2>7 DEF MadeBetween
  <2> HIDE DEF O, B, C
  <2>10. After(M, t, 6, O, P, B)
    BY <1>7 DEF O, B
  <2>11. After(M, t, 13, O, P, C)
    BY <2>8, <2>9, <2>10, PlainCalls
  <2> QED BY <2>11 DEF O, C
<1>9. After(M, t, 14, (N \cup {"Saffron"}) \cup {"Cream"}, P, {})
  <2> DEFINE O == (N \cup {"Saffron"}) \cup {"Cream"}
             B == {<<"exception">>}
             C == {}
  <2>1. PlainCall(t[14], O, B) /\ <<"exceptionValue">> \in t[14].makes
    <3>1. t[14] = Call({<<"exception">>}, {<<"exceptionValue">>})
      BY <1>2
    <3>2. {<<"exception">>} \subseteq {Object(x) : x \in O} \cup B
      OBVIOUS
    <3>3. Plain(<<"exceptionValue">>)
      BY PlainFacts
    <3> HIDE DEF O, B
    <3> QED BY <3>1, <3>2, <3>3, PlainCallOf
  <2>2. PlainBetween(t, 13, 14, O, B)
    <3> HIDE DEF O, B, C
    <3> QED BY <2>1 DEF PlainBetween
  <2>3. C \subseteq B \cup MadeBetween(t, 13, 14)
    BY <2>1 DEF MadeBetween
  <2> HIDE DEF O, B, C
  <2>4. After(M, t, 13, O, P, B)
    BY <1>8 DEF O, B
  <2>5. After(M, t, 14, O, P, C)
    BY <2>2, <2>3, <2>4, PlainCalls
  <2> QED BY <2>5 DEF O, C
<1> QED BY <1>9

\* The trend log: its window before polling, its events before the algorithm.
LEMMA LilacLeads ==
  ASSUME NEW N, NEW P, "Device" \in N, "Crimson" \in N, "Lilac" \notin N, "Lilac" \notin P
  PROVE  Leads(SetUpLilac, N, P, N \cup {"Lilac"}, P \cup {"Lilac"})
<1> DEFINE t == SetUpLilac
<1>1. IsList(t) /\ Len(t) = 5
  BY Five DEF SetUpLilac
<1>2. /\ t[1] = AddObject("Lilac")
      /\ t[2] = SetWindow("Lilac")
      /\ t[3] = SetPolled("Lilac")
      /\ t[4] = SetEvents("Lilac")
      /\ t[5] = SetAlgorithm("Lilac")
  BY Five DEF SetUpLilac
<1> HIDE DEF t
<1> SUFFICES ASSUME NEW M, Knows(M, N, P, {}) PROVE After(M, t, 5, N \cup {"Lilac"}, P \cup {"Lilac"}, {})
  BY <1>1 DEF Leads, t
<1>3. After(M, t, 0, N, P, {})
  BY NoCalls
<1>4. After(M, t, 1, N \cup {"Lilac"}, P, {})
  <2> DEFINE O == N
             B == {}
  <2>1. "Device" \in O /\ "Lilac" \notin O /\ t[0 + 1] = AddObject("Lilac")
    BY <1>2
  <2> HIDE DEF O, B
  <2>2. After(M, t, 0, O, P, B)
    BY <1>3 DEF O, B
  <2>3. After(M, t, 0 + 1, O \cup {"Lilac"}, P, B)
    BY <2>1, <2>2, AddCall
  <2> QED BY <2>3 DEF O, B
<1>5. After(M, t, 2, N \cup {"Lilac"}, P, {})
  <2> DEFINE O == N \cup {"Lilac"}
             B == {}
  <2>1. "Lilac" \in O /\ "Lilac" \notin P /\ t[1 + 1] = SetWindow("Lilac")
    BY <1>2
  <2> HIDE DEF O, B
  <2>2. After(M, t, 1, O, P, B)
    BY <1>4 DEF O, B
  <2>3. After(M, t, 1 + 1, O, P, B)
    BY <2>1, <2>2, WindowCall
  <2> QED BY <2>3 DEF O, B
<1>6. After(M, t, 3, N \cup {"Lilac"}, P \cup {"Lilac"}, {})
  <2> DEFINE O == N \cup {"Lilac"}
             B == {}
  <2>1. "Lilac" \in O /\ t[2 + 1] = SetPolled("Lilac")
    BY <1>2
  <2> HIDE DEF O, B
  <2>2. After(M, t, 2, O, P, B)
    BY <1>5 DEF O, B
  <2>3. After(M, t, 2 + 1, O, P \cup {"Lilac"}, B)
    BY <2>1, <2>2, PollCall
  <2> QED BY <2>3 DEF O, B
<1>7. After(M, t, 4, N \cup {"Lilac"}, P \cup {"Lilac"}, {<<"events", "Lilac">>})
  <2> DEFINE O == N \cup {"Lilac"}
             B == {}
             C == {<<"events", "Lilac">>}
  <2>1. PlainCall(t[4], O, B) /\ <<"events", "Lilac">> \in t[4].makes
    <3>1. t[4] = Call({Object("Lilac"), Object("Crimson")}, {<<"events", "Lilac">>})
      BY <1>2 DEF SetEvents
    <3>2. {Object("Lilac"), Object("Crimson")} \subseteq {Object(x) : x \in O} \cup B
      OBVIOUS
    <3>3. Plain(<<"events", "Lilac">>)
      BY PlainFacts
    <3> HIDE DEF O, B
    <3> QED BY <3>1, <3>2, <3>3, PlainCallOf
  <2>2. PlainBetween(t, 3, 4, O, B)
    <3> HIDE DEF O, B, C
    <3> QED BY <2>1 DEF PlainBetween
  <2>3. C \subseteq B \cup MadeBetween(t, 3, 4)
    BY <2>1 DEF MadeBetween
  <2> HIDE DEF O, B, C
  <2>4. After(M, t, 3, O, P \cup {"Lilac"}, B)
    BY <1>6 DEF O, B
  <2>5. After(M, t, 4, O, P \cup {"Lilac"}, C)
    BY <2>2, <2>3, <2>4, PlainCalls
  <2> QED BY <2>5 DEF O, C
<1>8. After(M, t, 5, N \cup {"Lilac"}, P \cup {"Lilac"}, {})
  <2> DEFINE O == N \cup {"Lilac"}
             B == {<<"events", "Lilac">>}
             C == {}
  <2>1. PlainCall(t[5], O, B) /\ <<"algorithm", "Lilac">> \in t[5].makes
    <3>1. t[5] = Call({<<"events", "Lilac">>}, {<<"algorithm", "Lilac">>})
      BY <1>2 DEF SetAlgorithm
    <3>2. {<<"events", "Lilac">>} \subseteq {Object(x) : x \in O} \cup B
      OBVIOUS
    <3>3. Plain(<<"algorithm", "Lilac">>)
      BY PlainFacts
    <3> HIDE DEF O, B
    <3> QED BY <3>1, <3>2, <3>3, PlainCallOf
  <2>2. PlainBetween(t, 4, 5, O, B)
    <3> HIDE DEF O, B, C
    <3> QED BY <2>1 DEF PlainBetween
  <2>3. C \subseteq B \cup MadeBetween(t, 4, 5)
    BY <2>1 DEF MadeBetween
  <2> HIDE DEF O, B, C
  <2>4. After(M, t, 4, O, P \cup {"Lilac"}, B)
    BY <1>7 DEF O, B
  <2>5. After(M, t, 5, O, P \cup {"Lilac"}, C)
    BY <2>2, <2>3, <2>4, PlainCalls
  <2> QED BY <2>5 DEF O, C
<1> QED BY <1>8

\* The trend log of several objects: each logged before polling.
LEMMA MagentaLeads ==
  ASSUME NEW N, NEW P, "Device" \in N, {"Bronze", "Diamond", "Chartreuse"} \subseteq N, "Magenta" \notin N
  PROVE  Leads(SetUpMagenta, N, P, N \cup {"Magenta"}, P \cup {"Magenta"})
<1> DEFINE t == SetUpMagenta
<1>1. IsList(t) /\ Len(t) = 5
  BY Five DEF SetUpMagenta
<1>2. /\ t[1] = AddObject("Magenta")
      /\ t[2] = LogObject("Bronze")
      /\ t[3] = LogObject("Diamond")
      /\ t[4] = LogObject("Chartreuse")
      /\ t[5] = SetPolled("Magenta")
  BY Five DEF SetUpMagenta
<1> HIDE DEF t
<1> SUFFICES ASSUME NEW M, Knows(M, N, P, {}) PROVE After(M, t, 5, N \cup {"Magenta"}, P \cup {"Magenta"}, {})
  BY <1>1 DEF Leads, t
<1>3. After(M, t, 0, N, P, {})
  BY NoCalls
<1>4. After(M, t, 1, N \cup {"Magenta"}, P, {})
  <2> DEFINE O == N
             B == {}
  <2>1. "Device" \in O /\ "Magenta" \notin O /\ t[0 + 1] = AddObject("Magenta")
    BY <1>2
  <2> HIDE DEF O, B
  <2>2. After(M, t, 0, O, P, B)
    BY <1>3 DEF O, B
  <2>3. After(M, t, 0 + 1, O \cup {"Magenta"}, P, B)
    BY <2>1, <2>2, AddCall
  <2> QED BY <2>3 DEF O, B
<1>5. After(M, t, 4, N \cup {"Magenta"}, P, {})
  <2> DEFINE O == N \cup {"Magenta"}
             B == {}
             C == {}
  <2>1. PlainCall(t[2], O, B) /\ <<"logged", "Bronze">> \in t[2].makes
    <3>1. t[2] = Call({Object("Magenta"), Object("Bronze")}, {<<"logged", "Bronze">>})
      BY <1>2 DEF LogObject
    <3>2. {Object("Magenta"), Object("Bronze")} \subseteq {Object(x) : x \in O} \cup B
      OBVIOUS
    <3>3. Plain(<<"logged", "Bronze">>)
      BY PlainFacts
    <3> HIDE DEF O, B
    <3> QED BY <3>1, <3>2, <3>3, PlainCallOf
  <2>2. PlainCall(t[3], O, B) /\ <<"logged", "Diamond">> \in t[3].makes
    <3>1. t[3] = Call({Object("Magenta"), Object("Diamond")}, {<<"logged", "Diamond">>})
      BY <1>2 DEF LogObject
    <3>2. {Object("Magenta"), Object("Diamond")} \subseteq {Object(x) : x \in O} \cup B
      OBVIOUS
    <3>3. Plain(<<"logged", "Diamond">>)
      BY PlainFacts
    <3> HIDE DEF O, B
    <3> QED BY <3>1, <3>2, <3>3, PlainCallOf
  <2>3. PlainCall(t[4], O, B) /\ <<"logged", "Chartreuse">> \in t[4].makes
    <3>1. t[4] = Call({Object("Magenta"), Object("Chartreuse")}, {<<"logged", "Chartreuse">>})
      BY <1>2 DEF LogObject
    <3>2. {Object("Magenta"), Object("Chartreuse")} \subseteq {Object(x) : x \in O} \cup B
      OBVIOUS
    <3>3. Plain(<<"logged", "Chartreuse">>)
      BY PlainFacts
    <3> HIDE DEF O, B
    <3> QED BY <3>1, <3>2, <3>3, PlainCallOf
  <2>4. PlainBetween(t, 1, 4, O, B)
    <3> HIDE DEF O, B, C
    <3> QED BY <2>1, <2>2, <2>3 DEF PlainBetween
  <2>5. C \subseteq B \cup MadeBetween(t, 1, 4)
    BY <2>1, <2>2, <2>3 DEF MadeBetween
  <2> HIDE DEF O, B, C
  <2>6. After(M, t, 1, O, P, B)
    BY <1>4 DEF O, B
  <2>7. After(M, t, 4, O, P, C)
    BY <2>4, <2>5, <2>6, PlainCalls
  <2> QED BY <2>7 DEF O, C
<1>6. After(M, t, 5, N \cup {"Magenta"}, P \cup {"Magenta"}, {})
  <2> DEFINE O == N \cup {"Magenta"}
             B == {}
  <2>1. "Magenta" \in O /\ t[4 + 1] = SetPolled("Magenta")
    BY <1>2
  <2> HIDE DEF O, B
  <2>2. After(M, t, 4, O, P, B)
    BY <1>5 DEF O, B
  <2>3. After(M, t, 4 + 1, O, P \cup {"Magenta"}, B)
    BY <2>1, <2>2, PollCall
  <2> QED BY <2>3 DEF O, B
<1> QED BY <1>6

\* The BACnet/SC port: its UUID before the hubs, its files before they are pending.
LEMMA ScPortLeads ==
  ASSUME NEW N, NEW P, "Device" \in N, N \cap ({"Teal"} \cup CertificateFiles) = {}
  PROVE  Leads(AddScNetworkPort, N, P, ((((N \cup {"Teal"}) \cup {"Operational"}) \cup {"Issuer1"}) \cup
           {"Issuer2"}) \cup {"SigningRequest"}, P)
<1> DEFINE t == AddScNetworkPort
<1>1. IsList(t) /\ Len(t) = 13
  BY Thirteen DEF AddScNetworkPort
<1>2. /\ t[1] = AddObject("Teal")
      /\ t[2] = Enable("Teal", "Current_Health")
      /\ t[3] = Enable("Teal", "SC_Primary_Hub_Connection_Status")
      /\ t[4] = Enable("Teal", "SC_Failover_Hub_Connection_Status")
      /\ t[5] = On("Teal", {<<"uuid">>})
      /\ t[6] = Call({Object("Teal"), <<"uuid">>}, {<<"hubs">>})
      /\ t[7] = On("Teal", {<<"settings">>})
      /\ t[8] = AddObject("Operational")
      /\ t[9] = AddObject("Issuer1")
      /\ t[10] = AddObject("Issuer2")
      /\ t[11] = AddObject("SigningRequest")
      /\ t[12] = Call({Object(object) : object \in {"Teal"} \cup CertificateFiles}, {<<"pending">>})
      /\ t[13] = Call({<<"pending">>, <<"hubs">>, <<"settings">>}, {<<"active">>})
  BY Thirteen DEF AddScNetworkPort
<1> HIDE DEF t
<1> SUFFICES ASSUME NEW M, Knows(M, N, P, {}) PROVE After(M, t, 13, ((((N \cup {"Teal"}) \cup
         {"Operational"}) \cup {"Issuer1"}) \cup {"Issuer2"}) \cup {"SigningRequest"}, P, {})
  BY <1>1 DEF Leads, t
<1>3. After(M, t, 0, N, P, {})
  BY NoCalls
<1>4. After(M, t, 1, N \cup {"Teal"}, P, {})
  <2> DEFINE O == N
             B == {}
  <2>1. "Device" \in O /\ "Teal" \notin O /\ t[0 + 1] = AddObject("Teal")
    BY <1>2 DEF CertificateFiles
  <2> HIDE DEF O, B
  <2>2. After(M, t, 0, O, P, B)
    BY <1>3 DEF O, B
  <2>3. After(M, t, 0 + 1, O \cup {"Teal"}, P, B)
    BY <2>1, <2>2, AddCall
  <2> QED BY <2>3 DEF O, B
<1>5. After(M, t, 5, N \cup {"Teal"}, P, {<<"uuid">>})
  <2> DEFINE O == N \cup {"Teal"}
             B == {}
             C == {<<"uuid">>}
  <2>1. PlainCall(t[2], O, B)
    BY <1>2, EnablingCall
  <2>2. PlainCall(t[3], O, B)
    BY <1>2, EnablingCall
  <2>3. PlainCall(t[4], O, B)
    BY <1>2, EnablingCall
  <2>4. PlainCall(t[5], O, B) /\ <<"uuid">> \in t[5].makes
    <3>1. t[5] = Call({Object("Teal")}, {<<"uuid">>})
      BY <1>2 DEF On
    <3>2. {Object("Teal")} \subseteq {Object(x) : x \in O} \cup B
      OBVIOUS
    <3>3. Plain(<<"uuid">>)
      BY PlainFacts
    <3> HIDE DEF O, B
    <3> QED BY <3>1, <3>2, <3>3, PlainCallOf
  <2>5. PlainBetween(t, 1, 5, O, B)
    <3> HIDE DEF O, B, C
    <3> QED BY <2>1, <2>2, <2>3, <2>4 DEF PlainBetween
  <2>6. C \subseteq B \cup MadeBetween(t, 1, 5)
    BY <2>1, <2>2, <2>3, <2>4 DEF MadeBetween
  <2> HIDE DEF O, B, C
  <2>7. After(M, t, 1, O, P, B)
    BY <1>4 DEF O, B
  <2>8. After(M, t, 5, O, P, C)
    BY <2>5, <2>6, <2>7, PlainCalls
  <2> QED BY <2>8 DEF O, C
<1>6. After(M, t, 7, N \cup {"Teal"}, P, {<<"hubs">>, <<"settings">>})
  <2> DEFINE O == N \cup {"Teal"}
             B == {<<"uuid">>}
             C == {<<"hubs">>, <<"settings">>}
  <2>1. PlainCall(t[6], O, B) /\ <<"hubs">> \in t[6].makes
    <3>1. t[6] = Call({Object("Teal"), <<"uuid">>}, {<<"hubs">>})
      BY <1>2
    <3>2. {Object("Teal"), <<"uuid">>} \subseteq {Object(x) : x \in O} \cup B
      OBVIOUS
    <3>3. Plain(<<"hubs">>)
      BY PlainFacts
    <3> HIDE DEF O, B
    <3> QED BY <3>1, <3>2, <3>3, PlainCallOf
  <2>2. PlainCall(t[7], O, B) /\ <<"settings">> \in t[7].makes
    <3>1. t[7] = Call({Object("Teal")}, {<<"settings">>})
      BY <1>2 DEF On
    <3>2. {Object("Teal")} \subseteq {Object(x) : x \in O} \cup B
      OBVIOUS
    <3>3. Plain(<<"settings">>)
      BY PlainFacts
    <3> HIDE DEF O, B
    <3> QED BY <3>1, <3>2, <3>3, PlainCallOf
  <2>3. PlainBetween(t, 5, 7, O, B)
    <3> HIDE DEF O, B, C
    <3> QED BY <2>1, <2>2 DEF PlainBetween
  <2>4. C \subseteq B \cup MadeBetween(t, 5, 7)
    BY <2>1, <2>2 DEF MadeBetween
  <2> HIDE DEF O, B, C
  <2>5. After(M, t, 5, O, P, B)
    BY <1>5 DEF O, B
  <2>6. After(M, t, 7, O, P, C)
    BY <2>3, <2>4, <2>5, PlainCalls
  <2> QED BY <2>6 DEF O, C
<1>7. After(M, t, 8, (N \cup {"Teal"}) \cup {"Operational"}, P, {<<"hubs">>, <<"settings">>})
  <2> DEFINE O == N \cup {"Teal"}
             B == {<<"hubs">>, <<"settings">>}
  <2>1. "Device" \in O /\ "Operational" \notin O /\ t[7 + 1] = AddObject("Operational")
    BY <1>2 DEF CertificateFiles
  <2> HIDE DEF O, B
  <2>2. After(M, t, 7, O, P, B)
    BY <1>6 DEF O, B
  <2>3. After(M, t, 7 + 1, O \cup {"Operational"}, P, B)
    BY <2>1, <2>2, AddCall
  <2> QED BY <2>3 DEF O, B
<1>8. After(M, t, 9, ((N \cup {"Teal"}) \cup {"Operational"}) \cup {"Issuer1"}, P, {<<"hubs">>, <<"settings">>})
  <2> DEFINE O == (N \cup {"Teal"}) \cup {"Operational"}
             B == {<<"hubs">>, <<"settings">>}
  <2>1. "Device" \in O /\ "Issuer1" \notin O /\ t[8 + 1] = AddObject("Issuer1")
    BY <1>2 DEF CertificateFiles
  <2> HIDE DEF O, B
  <2>2. After(M, t, 8, O, P, B)
    BY <1>7 DEF O, B
  <2>3. After(M, t, 8 + 1, O \cup {"Issuer1"}, P, B)
    BY <2>1, <2>2, AddCall
  <2> QED BY <2>3 DEF O, B
<1>9. After(M, t, 10, (((N \cup {"Teal"}) \cup {"Operational"}) \cup {"Issuer1"}) \cup {"Issuer2"}, P,
         {<<"hubs">>, <<"settings">>})
  <2> DEFINE O == ((N \cup {"Teal"}) \cup {"Operational"}) \cup {"Issuer1"}
             B == {<<"hubs">>, <<"settings">>}
  <2>1. "Device" \in O /\ "Issuer2" \notin O /\ t[9 + 1] = AddObject("Issuer2")
    BY <1>2 DEF CertificateFiles
  <2> HIDE DEF O, B
  <2>2. After(M, t, 9, O, P, B)
    BY <1>8 DEF O, B
  <2>3. After(M, t, 9 + 1, O \cup {"Issuer2"}, P, B)
    BY <2>1, <2>2, AddCall
  <2> QED BY <2>3 DEF O, B
<1>10. After(M, t, 11, ((((N \cup {"Teal"}) \cup {"Operational"}) \cup {"Issuer1"}) \cup {"Issuer2"}) \cup
         {"SigningRequest"}, P, {<<"hubs">>, <<"settings">>})
  <2> DEFINE O == (((N \cup {"Teal"}) \cup {"Operational"}) \cup {"Issuer1"}) \cup {"Issuer2"}
             B == {<<"hubs">>, <<"settings">>}
  <2>1. "Device" \in O /\ "SigningRequest" \notin O /\ t[10 + 1] = AddObject("SigningRequest")
    BY <1>2 DEF CertificateFiles
  <2> HIDE DEF O, B
  <2>2. After(M, t, 10, O, P, B)
    BY <1>9 DEF O, B
  <2>3. After(M, t, 10 + 1, O \cup {"SigningRequest"}, P, B)
    BY <2>1, <2>2, AddCall
  <2> QED BY <2>3 DEF O, B
<1>11. After(M, t, 12, ((((N \cup {"Teal"}) \cup {"Operational"}) \cup {"Issuer1"}) \cup {"Issuer2"}) \cup
         {"SigningRequest"}, P, {<<"pending">>, <<"hubs">>, <<"settings">>})
  <2> DEFINE O == ((((N \cup {"Teal"}) \cup {"Operational"}) \cup {"Issuer1"}) \cup {"Issuer2"}) \cup {"SigningRequest"}
             B == {<<"hubs">>, <<"settings">>}
             C == {<<"pending">>, <<"hubs">>, <<"settings">>}
  <2>1. PlainCall(t[12], O, B) /\ <<"pending">> \in t[12].makes
    <3>1. t[12] = Call({Object(object) : object \in {"Teal"} \cup CertificateFiles}, {<<"pending">>})
      BY <1>2
    <3>2. {Object(object) : object \in {"Teal"} \cup CertificateFiles} \subseteq {Object(x) : x \in O} \cup B
      BY DEF CertificateFiles
    <3>3. Plain(<<"pending">>)
      BY PlainFacts
    <3> HIDE DEF O, B
    <3> QED BY <3>1, <3>2, <3>3, PlainCallOf
  <2>2. PlainBetween(t, 11, 12, O, B)
    <3> HIDE DEF O, B, C
    <3> QED BY <2>1 DEF PlainBetween
  <2>3. C \subseteq B \cup MadeBetween(t, 11, 12)
    BY <2>1 DEF MadeBetween
  <2> HIDE DEF O, B, C
  <2>4. After(M, t, 11, O, P, B)
    BY <1>10 DEF O, B
  <2>5. After(M, t, 12, O, P, C)
    BY <2>2, <2>3, <2>4, PlainCalls
  <2> QED BY <2>5 DEF O, C
<1>12. After(M, t, 13, ((((N \cup {"Teal"}) \cup {"Operational"}) \cup {"Issuer1"}) \cup {"Issuer2"}) \cup
         {"SigningRequest"}, P, {})
  <2> DEFINE O == ((((N \cup {"Teal"}) \cup {"Operational"}) \cup {"Issuer1"}) \cup {"Issuer2"}) \cup {"SigningRequest"}
             B == {<<"pending">>, <<"hubs">>, <<"settings">>}
             C == {}
  <2>1. PlainCall(t[13], O, B) /\ <<"active">> \in t[13].makes
    <3>1. t[13] = Call({<<"pending">>, <<"hubs">>, <<"settings">>}, {<<"active">>})
      BY <1>2
    <3>2. {<<"pending">>, <<"hubs">>, <<"settings">>} \subseteq {Object(x) : x \in O} \cup B
      OBVIOUS
    <3>3. Plain(<<"active">>)
      BY PlainFacts
    <3> HIDE DEF O, B
    <3> QED BY <3>1, <3>2, <3>3, PlainCallOf
  <2>2. PlainBetween(t, 12, 13, O, B)
    <3> HIDE DEF O, B, C
    <3> QED BY <2>1 DEF PlainBetween
  <2>3. C \subseteq B \cup MadeBetween(t, 12, 13)
    BY <2>1 DEF MadeBetween
  <2> HIDE DEF O, B, C
  <2>4. After(M, t, 12, O, P, B)
    BY <1>11 DEF O, B
  <2>5. After(M, t, 13, O, P, C)
    BY <2>2, <2>3, <2>4, PlainCalls
  <2> QED BY <2>5 DEF O, C
<1> QED BY <1>12

\* The Device object comes first.
LEMMA DeviceLeads == Leads(<<Before({Object("Device")}, Call({}, {Object("Device")}))>>, {}, {}, {"Device"}, {})
<1> DEFINE c == Before({Object("Device")}, Call({}, {Object("Device")}))
           t == <<c>>
<1>1. c.needs = {} /\ c.makes = {Object("Device")} /\ c.without = {Object("Device")}
  BY BeforeParts
<1> HIDE DEF c
<1>2. IsList(t) /\ Len(t) = 1 /\ t[1] = c
  BY ListOfOne
<1> HIDE DEF t
<1> SUFFICES ASSUME NEW M, Knows(M, {}, {}, {}) PROVE After(M, t, 1, {"Device"}, {}, {})
  BY <1>2 DEF Leads, t, c
<1> DEFINE G == MadeFrom(M, t, 1)
<1>3. MadeFrom(M, t, 0) = M /\ G = M \cup {Object("Device")}
  BY <1>1, <1>2 DEF MadeFrom
<1>4. Taken(M, t, 1)
  <2>1. Object("Device") \notin M
    BY DEF Knows
  <2> QED BY <1>1, <1>2, <1>3, <2>1 DEF Taken
<1> HIDE DEF G
<1>5. Knows(G, {"Device"}, {}, {})
  BY <1>3, ObjectNames DEF Knows
<1> QED BY <1>4, <1>5 DEF After, G

\* The services of the Device object, however many.
LEMMA ServicesLead ==
  ASSUME NEW N, NEW P, "Device" \in N, NEW services, IsList(services)
  PROVE  Leads(ForEach(EnableService, services), N, P, N, P)
<1> DEFINE t == ForEach(EnableService, services)
           n == Len(services)
<1>1. t = [i \in 1 .. n |-> EnableService(services[i])] /\ n \in Nat
  BY ListDomain, ListLength DEF ForEach
<1> HIDE DEF n
<1>2. IsList(t) /\ Len(t) = n
  <2>1. IsList(t)
    BY EnabledServices
  <2> HIDE DEF t
  <2> QED BY <1>1, <2>1
<1>3. PlainBetween(t, 0, n, N, {})
  <2> SUFFICES ASSUME NEW i \in 1 .. n PROVE PlainCall(t[i], N, {})
    BY DEF PlainBetween
  <2> DEFINE fact == <<"service", services[i]>>
  <2>1. t[i] = Call({Object("Device")}, {fact})
    BY <1>1 DEF EnableService, On
  <2>2. Plain(fact)
    BY PlainFacts
  <2>3. {Object("Device")} \subseteq {Object(x) : x \in N} \cup {}
    OBVIOUS
  <2> HIDE DEF t, fact
  <2> QED BY <2>1, <2>2, <2>3, PlainCallOf
<1> HIDE DEF t
<1> SUFFICES ASSUME NEW M, Knows(M, N, P, {}) PROVE After(M, t, n, N, P, {})
  BY <1>2 DEF Leads, t
<1>4. After(M, t, 0, N, P, {})
  BY NoCalls
<1> QED BY <1>1, <1>3, <1>4, PlainCalls

\* The seven objects every device has.
LEMMA ObjectsLead ==
  ASSUME NEW N, NEW P, "Device" \in N, N \cap {"Bronze", "Emerald", "HotPink", "Chartreuse", "Fuchsia", "Indigo",
           "Diamond"} = {}
  PROVE  Leads(ForEach(AddObject, <<"Bronze", "Emerald", "HotPink", "Chartreuse", "Fuchsia", "Indigo",
           "Diamond">>), N, P, ((((((N \cup {"Bronze"}) \cup {"Emerald"}) \cup {"HotPink"}) \cup
           {"Chartreuse"}) \cup {"Fuchsia"}) \cup {"Indigo"}) \cup {"Diamond"}, P)
<1> DEFINE names == <<"Bronze", "Emerald", "HotPink", "Chartreuse", "Fuchsia", "Indigo", "Diamond">>
           t == ForEach(AddObject, names)
<1>0. t = [i \in 1 .. 7 |-> AddObject(names[i])]
  <2>1. DOMAIN names = 1 .. 7
    OBVIOUS
  <2> QED BY <2>1 DEF ForEach
<1>1. IsList(t) /\ Len(t) = 7
  <2> HIDE DEF names
  <2>1. t = [i \in 1 .. 7 |-> t[i]] /\ Len(t) = 7
    BY <1>0
  <2> HIDE DEF t
  <2> QED BY <2>1, ListOf
<1>2. /\ t[1] = AddObject("Bronze")
      /\ t[2] = AddObject("Emerald")
      /\ t[3] = AddObject("HotPink")
      /\ t[4] = AddObject("Chartreuse")
      /\ t[5] = AddObject("Fuchsia")
      /\ t[6] = AddObject("Indigo")
      /\ t[7] = AddObject("Diamond")
  BY <1>0
<1> HIDE DEF t, names
<1> SUFFICES ASSUME NEW M, Knows(M, N, P, {}) PROVE After(M, t, 7, ((((((N \cup {"Bronze"}) \cup {"Emerald"}) \cup
         {"HotPink"}) \cup {"Chartreuse"}) \cup {"Fuchsia"}) \cup {"Indigo"}) \cup {"Diamond"}, P, {})
  BY <1>1 DEF Leads, t, names
<1>3. After(M, t, 0, N, P, {})
  BY NoCalls
<1>4. After(M, t, 1, N \cup {"Bronze"}, P, {})
  <2> DEFINE O == N
             B == {}
  <2>1. "Device" \in O /\ "Bronze" \notin O /\ t[0 + 1] = AddObject("Bronze")
    BY <1>2
  <2> HIDE DEF O, B
  <2>2. After(M, t, 0, O, P, B)
    BY <1>3 DEF O, B
  <2>3. After(M, t, 0 + 1, O \cup {"Bronze"}, P, B)
    BY <2>1, <2>2, AddCall
  <2> QED BY <2>3 DEF O, B
<1>5. After(M, t, 2, (N \cup {"Bronze"}) \cup {"Emerald"}, P, {})
  <2> DEFINE O == N \cup {"Bronze"}
             B == {}
  <2>1. "Device" \in O /\ "Emerald" \notin O /\ t[1 + 1] = AddObject("Emerald")
    BY <1>2
  <2> HIDE DEF O, B
  <2>2. After(M, t, 1, O, P, B)
    BY <1>4 DEF O, B
  <2>3. After(M, t, 1 + 1, O \cup {"Emerald"}, P, B)
    BY <2>1, <2>2, AddCall
  <2> QED BY <2>3 DEF O, B
<1>6. After(M, t, 3, ((N \cup {"Bronze"}) \cup {"Emerald"}) \cup {"HotPink"}, P, {})
  <2> DEFINE O == (N \cup {"Bronze"}) \cup {"Emerald"}
             B == {}
  <2>1. "Device" \in O /\ "HotPink" \notin O /\ t[2 + 1] = AddObject("HotPink")
    BY <1>2
  <2> HIDE DEF O, B
  <2>2. After(M, t, 2, O, P, B)
    BY <1>5 DEF O, B
  <2>3. After(M, t, 2 + 1, O \cup {"HotPink"}, P, B)
    BY <2>1, <2>2, AddCall
  <2> QED BY <2>3 DEF O, B
<1>7. After(M, t, 4, (((N \cup {"Bronze"}) \cup {"Emerald"}) \cup {"HotPink"}) \cup {"Chartreuse"}, P, {})
  <2> DEFINE O == ((N \cup {"Bronze"}) \cup {"Emerald"}) \cup {"HotPink"}
             B == {}
  <2>1. "Device" \in O /\ "Chartreuse" \notin O /\ t[3 + 1] = AddObject("Chartreuse")
    BY <1>2
  <2> HIDE DEF O, B
  <2>2. After(M, t, 3, O, P, B)
    BY <1>6 DEF O, B
  <2>3. After(M, t, 3 + 1, O \cup {"Chartreuse"}, P, B)
    BY <2>1, <2>2, AddCall
  <2> QED BY <2>3 DEF O, B
<1>8. After(M, t, 5, ((((N \cup {"Bronze"}) \cup {"Emerald"}) \cup {"HotPink"}) \cup {"Chartreuse"}) \cup
         {"Fuchsia"}, P, {})
  <2> DEFINE O == (((N \cup {"Bronze"}) \cup {"Emerald"}) \cup {"HotPink"}) \cup {"Chartreuse"}
             B == {}
  <2>1. "Device" \in O /\ "Fuchsia" \notin O /\ t[4 + 1] = AddObject("Fuchsia")
    BY <1>2
  <2> HIDE DEF O, B
  <2>2. After(M, t, 4, O, P, B)
    BY <1>7 DEF O, B
  <2>3. After(M, t, 4 + 1, O \cup {"Fuchsia"}, P, B)
    BY <2>1, <2>2, AddCall
  <2> QED BY <2>3 DEF O, B
<1>9. After(M, t, 6, (((((N \cup {"Bronze"}) \cup {"Emerald"}) \cup {"HotPink"}) \cup {"Chartreuse"}) \cup
         {"Fuchsia"}) \cup {"Indigo"}, P, {})
  <2> DEFINE O == ((((N \cup {"Bronze"}) \cup {"Emerald"}) \cup {"HotPink"}) \cup {"Chartreuse"}) \cup {"Fuchsia"}
             B == {}
  <2>1. "Device" \in O /\ "Indigo" \notin O /\ t[5 + 1] = AddObject("Indigo")
    BY <1>2
  <2> HIDE DEF O, B
  <2>2. After(M, t, 5, O, P, B)
    BY <1>8 DEF O, B
  <2>3. After(M, t, 5 + 1, O \cup {"Indigo"}, P, B)
    BY <2>1, <2>2, AddCall
  <2> QED BY <2>3 DEF O, B
<1>10. After(M, t, 7, ((((((N \cup {"Bronze"}) \cup {"Emerald"}) \cup {"HotPink"}) \cup {"Chartreuse"}) \cup
         {"Fuchsia"}) \cup {"Indigo"}) \cup {"Diamond"}, P, {})
  <2> DEFINE O == (((((N \cup {"Bronze"}) \cup {"Emerald"}) \cup {"HotPink"}) \cup {"Chartreuse"}) \cup
           {"Fuchsia"}) \cup {"Indigo"}
             B == {}
  <2>1. "Device" \in O /\ "Diamond" \notin O /\ t[6 + 1] = AddObject("Diamond")
    BY <1>2
  <2> HIDE DEF O, B
  <2>2. After(M, t, 6, O, P, B)
    BY <1>9 DEF O, B
  <2>3. After(M, t, 6 + 1, O \cup {"Diamond"}, P, B)
    BY <2>1, <2>2, AddCall
  <2> QED BY <2>3 DEF O, B
<1> QED BY <1>10

\* Lists of no call and of one.
LEMMA NoneLead == ASSUME NEW N, NEW P PROVE Leads(<<>>, N, P, N, P)
<1>1. IsList(<<>>) /\ Len(<<>>) = 0
  BY ListOfNone
<1> QED BY <1>1, NoCalls DEF Leads

LEMMA OneAddLeads ==
  ASSUME NEW N, NEW P, "Device" \in N, NEW o, o \notin N
  PROVE  Leads(<<AddObject(o)>>, N, P, N \cup {o}, P)
<1> DEFINE c == AddObject(o)
           t == <<c>>
<1> HIDE DEF c
<1>1. IsList(t) /\ Len(t) = 1 /\ t[0 + 1] = c
  BY ListOfOne
<1> HIDE DEF t
<1>2. t[0 + 1] = AddObject(o)
  BY <1>1 DEF c
<1>3. ASSUME NEW M, Knows(M, N, P, {}) PROVE After(M, t, 0 + 1, N \cup {o}, P, {})
  <2>1. After(M, t, 0, N, P, {})
    BY <1>3, NoCalls
  <2> QED BY <1>2, <2>1, AddCall
<1>4. Leads(t, N, P, N \cup {o}, P)
  BY <1>1, <1>3 DEF Leads
<1> QED BY <1>4 DEF t, c

LEMMA OnePlainLeads ==
  ASSUME NEW N, NEW P, NEW c, PlainCall(c, N, {})
  PROVE  Leads(<<c>>, N, P, N, P)
<1> DEFINE t == <<c>>
<1>1. IsList(t) /\ Len(t) = 1 /\ t[1] = c
  BY ListOfOne
<1> HIDE DEF t
<1>2. PlainBetween(t, 0, 1, N, {})
  BY <1>1 DEF PlainBetween
<1>3. ASSUME NEW M, Knows(M, N, P, {}) PROVE After(M, t, 1, N, P, {})
  <2>1. After(M, t, 0, N, P, {})
    BY <1>3, NoCalls
  <2> QED BY <1>2, <2>1, PlainCalls
<1>4. Leads(t, N, P, N, P)
  BY <1>1, <1>3 DEF Leads
<1> QED BY <1>4 DEF t

\* The alarm: its notification class, a recipient on BACnet/IP, then the algorithm.
LEMMA NotifierLeads ==
  ASSUME NEW N, NEW P, "Device" \in N, "Diamond" \in N, "Crimson" \notin N
  PROVE  Leads(<<Enable("Diamond", "Reliability"), AddObject("Crimson")>>, N, P, N \cup {"Crimson"}, P)
<1> DEFINE t == <<Enable("Diamond", "Reliability"), AddObject("Crimson")>>
<1>1. IsList(t) /\ Len(t) = 2
  BY Two
<1>2. /\ t[1] = Enable("Diamond", "Reliability")
      /\ t[2] = AddObject("Crimson")
  BY Two
<1> HIDE DEF t
<1> SUFFICES ASSUME NEW M, Knows(M, N, P, {}) PROVE After(M, t, 2, N \cup {"Crimson"}, P, {})
  BY <1>1 DEF Leads, t
<1>3. After(M, t, 0, N, P, {})
  BY NoCalls
<1>4. After(M, t, 1, N, P, {})
  <2> DEFINE O == N
             B == {}
             C == {}
  <2>1. PlainCall(t[1], O, B)
    BY <1>2, EnablingCall
  <2>2. PlainBetween(t, 0, 1, O, B)
    <3> HIDE DEF O, B, C
    <3> QED BY <2>1 DEF PlainBetween
  <2>3. C \subseteq B \cup MadeBetween(t, 0, 1)
    BY <2>1 DEF MadeBetween
  <2> HIDE DEF O, B, C
  <2>4. After(M, t, 0, O, P, B)
    BY <1>3 DEF O, B
  <2>5. After(M, t, 1, O, P, C)
    BY <2>2, <2>3, <2>4, PlainCalls
  <2> QED BY <2>5 DEF O, C
<1>5. After(M, t, 2, N \cup {"Crimson"}, P, {})
  <2> DEFINE O == N
             B == {}
  <2>1. "Device" \in O /\ "Crimson" \notin O /\ t[1 + 1] = AddObject("Crimson")
    BY <1>2
  <2> HIDE DEF O, B
  <2>2. After(M, t, 1, O, P, B)
    BY <1>4 DEF O, B
  <2>3. After(M, t, 1 + 1, O \cup {"Crimson"}, P, B)
    BY <2>1, <2>2, AddCall
  <2> QED BY <2>3 DEF O, B
<1> QED BY <1>5

LEMMA AlgorithmLeads ==
  ASSUME NEW N, NEW P, "Diamond" \in N, "Crimson" \in N
  PROVE  Leads(<<SetEvents("Diamond"), MakeWritable("Crimson", "Recipient_List"), SetAlgorithm("Diamond")>>, N, P, N, P)
<1> DEFINE t == <<SetEvents("Diamond"), MakeWritable("Crimson", "Recipient_List"), SetAlgorithm("Diamond")>>
<1>1. IsList(t) /\ Len(t) = 3
  BY Three
<1>2. /\ t[1] = SetEvents("Diamond")
      /\ t[2] = MakeWritable("Crimson", "Recipient_List")
      /\ t[3] = SetAlgorithm("Diamond")
  BY Three
<1> HIDE DEF t
<1> SUFFICES ASSUME NEW M, Knows(M, N, P, {}) PROVE After(M, t, 3, N, P, {})
  BY <1>1 DEF Leads, t
<1>3. After(M, t, 0, N, P, {})
  BY NoCalls
<1>4. After(M, t, 2, N, P, {<<"events", "Diamond">>})
  <2> DEFINE O == N
             B == {}
             C == {<<"events", "Diamond">>}
  <2>1. PlainCall(t[1], O, B) /\ <<"events", "Diamond">> \in t[1].makes
    <3>1. t[1] = Call({Object("Diamond"), Object("Crimson")}, {<<"events", "Diamond">>})
      BY <1>2 DEF SetEvents
    <3>2. {Object("Diamond"), Object("Crimson")} \subseteq {Object(x) : x \in O} \cup B
      OBVIOUS
    <3>3. Plain(<<"events", "Diamond">>)
      BY PlainFacts
    <3> HIDE DEF O, B
    <3> QED BY <3>1, <3>2, <3>3, PlainCallOf
  <2>2. PlainCall(t[2], O, B)
    BY <1>2, EnablingCall
  <2>3. PlainBetween(t, 0, 2, O, B)
    <3> HIDE DEF O, B, C
    <3> QED BY <2>1, <2>2 DEF PlainBetween
  <2>4. C \subseteq B \cup MadeBetween(t, 0, 2)
    BY <2>1, <2>2 DEF MadeBetween
  <2> HIDE DEF O, B, C
  <2>5. After(M, t, 0, O, P, B)
    BY <1>3 DEF O, B
  <2>6. After(M, t, 2, O, P, C)
    BY <2>3, <2>4, <2>5, PlainCalls
  <2> QED BY <2>6 DEF O, C
<1>5. After(M, t, 3, N, P, {})
  <2> DEFINE O == N
             B == {<<"events", "Diamond">>}
             C == {}
  <2>1. PlainCall(t[3], O, B) /\ <<"algorithm", "Diamond">> \in t[3].makes
    <3>1. t[3] = Call({<<"events", "Diamond">>}, {<<"algorithm", "Diamond">>})
      BY <1>2 DEF SetAlgorithm
    <3>2. {<<"events", "Diamond">>} \subseteq {Object(x) : x \in O} \cup B
      OBVIOUS
    <3>3. Plain(<<"algorithm", "Diamond">>)
      BY PlainFacts
    <3> HIDE DEF O, B
    <3> QED BY <3>1, <3>2, <3>3, PlainCallOf
  <2>2. PlainBetween(t, 2, 3, O, B)
    <3> HIDE DEF O, B, C
    <3> QED BY <2>1 DEF PlainBetween
  <2>3. C \subseteq B \cup MadeBetween(t, 2, 3)
    BY <2>1 DEF MadeBetween
  <2> HIDE DEF O, B, C
  <2>4. After(M, t, 2, O, P, B)
    BY <1>4 DEF O, B
  <2>5. After(M, t, 3, O, P, C)
    BY <2>2, <2>3, <2>4, PlainCalls
  <2> QED BY <2>5 DEF O, C
<1> QED BY <1>5

LEMMA AlarmLeads ==
  ASSUME NEW N, NEW P, "Device" \in N, "Diamond" \in N, "Crimson" \notin N, NEW l
  PROVE  Leads(SetUpAlarm(l), N, P, N \cup {"Crimson"}, P)
<1> DEFINE first == <<Enable("Diamond", "Reliability"), AddObject("Crimson")>>
           recipient == IF l = "ipv4" THEN <<On("Crimson", {<<"recipient">>})>> ELSE <<>>
           last == <<SetEvents("Diamond"), MakeWritable("Crimson", "Recipient_List"), SetAlgorithm("Diamond")>>
           O == N \cup {"Crimson"}
<1>1. SetUpAlarm(l) = (first \o recipient) \o last
  BY DEF SetUpAlarm
<1>2. Leads(first, N, P, O, P)
  BY NotifierLeads
<1>3. Leads(recipient, O, P, O, P)
  <2> DEFINE c == On("Crimson", {<<"recipient">>})
  <2>1. c = Call({Object("Crimson")}, {<<"recipient">>})
    BY DEF On
  <2>2. Plain(<<"recipient">>) /\ {Object("Crimson")} \subseteq {Object(x) : x \in O} \cup {}
    BY PlainFacts
  <2> HIDE DEF c, O
  <2>3. PlainCall(c, O, {})
    BY <2>1, <2>2, PlainCallOf
  <2>4. Leads(<<c>>, O, P, O, P) /\ Leads(<<>>, O, P, O, P)
    BY <2>3, OnePlainLeads, NoneLead
  <2> QED BY <2>4 DEF c
<1>4. Leads(last, O, P, O, P)
  BY AlgorithmLeads
<1> HIDE DEF first, recipient, last, O
<1>5. Leads(first \o recipient, N, P, O, P)
  BY <1>2, <1>3, LeadsOn
<1>6. Leads((first \o recipient) \o last, N, P, O, P)
  BY <1>4, <1>5, LeadsOn
<1> QED BY <1>1, <1>6 DEF O

PortNames == {"Vermilion", "Cerulean", "Amber", "Teal"} \cup CertificateFiles

\* The network port of each data link, with what comes with it.
LEMMA PortLeads ==
  ASSUME NEW N, NEW P, "Device" \in N, N \cap PortNames = {}, NEW l \in Link
  PROVE  \E O : /\ Leads(AddNetworkPort(l), N, P, O, P)
                /\ N \subseteq O /\ O \subseteq N \cup PortNames
<1>1. CASE l = "sc"
  <2> DEFINE O == ((((N \cup {"Teal"}) \cup {"Operational"}) \cup {"Issuer1"}) \cup {"Issuer2"}) \cup {"SigningRequest"}
  <2>1. N \cap ({"Teal"} \cup CertificateFiles) = {} /\ N \subseteq O /\ O \subseteq N \cup PortNames
    BY DEF PortNames, CertificateFiles
  <2>2. Leads(AddScNetworkPort, N, P, O, P)
    BY <2>1, ScPortLeads
  <2>3. AddNetworkPort(l) = AddScNetworkPort
    BY <1>1 DEF AddNetworkPort
  <2> HIDE DEF O
  <2> QED BY <2>1, <2>2, <2>3
<1>2. CASE l # "sc"
  <2> DEFINE o == Port(l)
             port == <<AddObject(o)>>
             speed == IF l = "ipv4" THEN <<>> ELSE <<Enable(o, "Link_Speed")>>
             O == N \cup {o}
  <2>1. o \in PortNames
    BY DEF Port, PortNames, Link
  <2>2. AddNetworkPort(l) = port \o speed
    BY <1>2 DEF AddNetworkPort
  <2> HIDE DEF o
  <2>3. Leads(port, N, P, O, P)
    BY <2>1, OneAddLeads
  <2>4. Leads(speed, O, P, O, P)
    <3>1. PlainCall(Enable(o, "Link_Speed"), O, {})
      BY EnablingCall
    <3>2. Leads(<<Enable(o, "Link_Speed")>>, O, P, O, P) /\ Leads(<<>>, O, P, O, P)
      BY <3>1, OnePlainLeads, NoneLead
    <3> QED BY <3>2
  <2>5. N \subseteq O /\ O \subseteq N \cup PortNames
    BY <2>1
  <2> HIDE DEF port, speed, O
  <2>6. Leads(port \o speed, N, P, O, P)
    BY <2>3, <2>4, LeadsOn
  <2> QED BY <2>2, <2>5, <2>6
<1> QED BY <1>1, <1>2

\* On every data link the whole list is accepted.
LEMMA SetupLeads == ASSUME NEW l \in Link PROVE \E O, Q : Leads(Setup(l), {}, {}, O, Q)
<1> DEFINE device == <<Before({Object("Device")}, Call({}, {Object("Device")}))>>
           services == ForEach(EnableService, ProfileServices \o Discovery)
           objects == ForEach(AddObject, <<"Bronze", "Emerald", "HotPink", "Chartreuse", "Fuchsia", "Indigo",
                    "Diamond">>)
           t1 == device \o services
           t2 == t1 \o objects
           t3 == t2 \o AddNetworkPort(l)
           t4 == t3 \o EnableOptional
           t5 == t4 \o MakeCommandable("Chartreuse")
           t6 == t5 \o MakeCommandable("Fuchsia")
           t7 == t6 \o MakeCommandable("Indigo")
           t8 == t7 \o SetUpAlarm(l)
           t9 == t8 \o SetUpSchedule
           t10 == t9 \o SetUpBackup
           t11 == t10 \o SetUpLilac
           t12 == t11 \o SetUpMagenta
           D == {"Device"}
           V == {"Bronze", "Emerald", "HotPink", "Chartreuse", "Fuchsia", "Indigo", "Diamond"}
<1>1. Setup(l) = t12
  BY DEF Setup
<1> HIDE DEF device, services, objects
<1>2. Leads(device, {}, {}, D, {})
  BY DeviceLeads DEF device
<1>3. Leads(services, D, {}, D, {})
  <2>1. IsList(ProfileServices \o Discovery)
    BY Lists, ListsJoin
  <2> QED BY <2>1, ServicesLead DEF services
<1>4. Leads(t1, {}, {}, D, {})
  BY <1>2, <1>3, LeadsOn
<1> HIDE DEF t1
<1>5. Leads(t2, {}, {}, D \cup V, {})
  <2> DEFINE O == ((((((D \cup {"Bronze"}) \cup {"Emerald"}) \cup {"HotPink"}) \cup {"Chartreuse"}) \cup
           {"Fuchsia"}) \cup {"Indigo"}) \cup {"Diamond"}
  <2>1. Leads(objects, D, {}, O, {})
    BY ObjectsLead DEF objects
  <2>2. O = D \cup V
    OBVIOUS
  <2> HIDE DEF O
  <2>3. Leads(t2, {}, {}, O, {})
    BY <1>4, <2>1, LeadsOn
  <2> QED BY <2>2, <2>3
<1> HIDE DEF t2
<1>6. PICK N : /\ Leads(AddNetworkPort(l), D \cup V, {}, N, {})
               /\ D \cup V \subseteq N /\ N \subseteq (D \cup V) \cup PortNames
  <2>1. (D \cup V) \cap PortNames = {} /\ "Device" \in D \cup V
    BY DEF PortNames, CertificateFiles
  <2> HIDE DEF D, V
  <2> QED BY <2>1, PortLeads
<1>7. /\ "Device" \in N /\ "Bronze" \in N /\ "HotPink" \in N /\ "Chartreuse" \in N /\ "Fuchsia" \in N
      /\ "Indigo" \in N /\ "Diamond" \in N
      /\ "Crimson" \notin N /\ "Saffron" \notin N /\ "Cream" \notin N /\ "Ivory" \notin N /\ "Lilac" \notin N
      /\ "Magenta" \notin N
  BY <1>6 DEF PortNames, CertificateFiles
<1>8. Leads(t3, {}, {}, N, {})
  BY <1>5, <1>6, LeadsOn
<1> HIDE DEF t3, D, V
<1>9. Leads(t4, {}, {}, N, {})
  BY <1>7, <1>8, OptionalLeads, LeadsOn
<1> HIDE DEF t4
<1>10. Leads(t7, {}, {}, N, {})
  <2>1. Leads(t5, {}, {}, N, {})
    BY <1>7, <1>9, CommandableLeads, LeadsOn
  <2> HIDE DEF t5
  <2>2. Leads(t6, {}, {}, N, {})
    BY <1>7, <2>1, CommandableLeads, LeadsOn
  <2> HIDE DEF t6
  <2> QED BY <1>7, <2>2, CommandableLeads, LeadsOn
<1> HIDE DEF t7
<1> DEFINE N8 == N \cup {"Crimson"}
           N9 == (N8 \cup {"Saffron"}) \cup {"Cream"}
           N10 == N9 \cup {"Ivory"}
           N11 == N10 \cup {"Lilac"}
           N12 == N11 \cup {"Magenta"}
<1>11. /\ "Device" \in N8 /\ "Chartreuse" \in N8 /\ "Saffron" \notin N8 /\ "Cream" \notin N8
       /\ "Device" \in N9 /\ "Ivory" \notin N9
       /\ "Device" \in N10 /\ "Crimson" \in N10 /\ "Lilac" \notin N10
       /\ "Device" \in N11 /\ {"Bronze", "Diamond", "Chartreuse"} \subseteq N11 /\ "Magenta" \notin N11
  BY <1>7
<1>12. Leads(SetUpAlarm(l), N, {}, N8, {})
  BY <1>7, AlarmLeads
<1> HIDE DEF N8
<1>13. Leads(SetUpSchedule, N8, {}, N9, {})
  BY <1>11, ScheduleLeads
<1> HIDE DEF N9
<1>14. Leads(SetUpBackup, N9, {}, N10, {})
  BY <1>11, BackupLeads
<1> HIDE DEF N10
<1>15. Leads(SetUpLilac, N10, {}, N11, {} \cup {"Lilac"})
  BY <1>11, LilacLeads
<1> HIDE DEF N11
<1>16. Leads(SetUpMagenta, N11, {} \cup {"Lilac"}, N12, ({} \cup {"Lilac"}) \cup {"Magenta"})
  BY <1>11, MagentaLeads
<1> HIDE DEF N12
<1>17. Leads(t8, {}, {}, N8, {})
  BY <1>10, <1>12, LeadsOn
<1> HIDE DEF t8
<1>18. Leads(t9, {}, {}, N9, {})
  BY <1>13, <1>17, LeadsOn
<1> HIDE DEF t9
<1>19. Leads(t10, {}, {}, N10, {})
  BY <1>14, <1>18, LeadsOn
<1> HIDE DEF t10
<1>20. Leads(t11, {}, {}, N11, {} \cup {"Lilac"})
  BY <1>15, <1>19, LeadsOn
<1> HIDE DEF t11
<1>21. Leads(t12, {}, {}, N12, ({} \cup {"Lilac"}) \cup {"Magenta"})
  BY <1>16, <1>20, LeadsOn
<1> HIDE DEF t12
<1> QED BY <1>1, <1>21

\* Each of main()'s calls finds in the stack what it needs and nothing that comes
\* too early for it, on every data link: the object before what is enabled on it,
\* the trend window before polling, the event set-up before its algorithm.
THEOREM SetupAccepted == Spec => []SetupIsAccepted
<1>1. TypeOK => SetupIsAccepted
  <2> SUFFICES ASSUME TypeOK, calls < Len(Setup(link))
               PROVE  /\ Setup(link)[calls + 1].needs \subseteq Made(link, calls)
                      /\ Setup(link)[calls + 1].without \cap Made(link, calls) = {}
    BY Zenon DEF SetupIsAccepted
  <2>1. link \in Link /\ calls \in 0 .. Len(Setup(link))
    BY DEF TypeOK
  <2>2. PICK O, Q : Leads(Setup(link), {}, {}, O, Q)
    BY <2>1, SetupLeads
  <2> DEFINE t == Setup(link)
  <2>3. IsList(t) /\ Len(t) \in Nat
    BY SetupLength, ListLength
  <2>4. \A n : Made(link, n) = MadeFrom({}, t, n)
    BY DEF Made, MadeFrom
  <2> HIDE DEF t
  <2>5. Knows({}, {}, {}, {})
    BY DEF Knows
  <2>6. Taken({}, t, Len(t))
    BY <2>2, <2>5 DEF Leads, After, t
  <2>7. calls + 1 \in 1 .. Len(t) /\ (calls + 1) - 1 = calls
    BY <2>1, <2>3 DEF t
  <2> QED BY <2>4, <2>6, <2>7 DEF Taken, t
<1>2. QED
  BY <1>1, MainLoopTypes, PTL
=============================================================================
