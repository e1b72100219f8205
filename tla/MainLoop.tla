----------------------------- MODULE MainLoop -----------------------------
(***************************************************************************)
(* main(): the start-up from the command line to the first I-Am, then the  *)
(* loop - tick, the data link's own work, restart, keys - and the end.     *)
(* The subject is the announcement: when the network hears of the device   *)
(* on each data link.  (What the loop prints of the token ring - its       *)
(* status lines and the one-minute snapshot - is left out.)                *)
(***************************************************************************)
EXTENDS CommandLine, DeviceSetup, FiniteSets

CONSTANTS
  Words,            \* what may be typed, each word a sequence of arguments
  MaxWords,         \* bound: words on one command line
  AnnounceTimeout,  \* MSTP_ANNOUNCE_TIMEOUT_MILLISECONDS, scaled down
  MaxPass,          \* bound: the longest pass, in milliseconds
  Contract          \* what docs/objects.json says of each object's properties

Argument == UNION {{w[i] : i \in DOMAIN w} : w \in Words}

ASSUME MainLoopAssumption ==
  /\ \A w \in Words : w \in Seq(Argument)
  /\ MaxWords \in Nat /\ AnnounceTimeout \in Nat /\ MaxPass \in Nat \ {0}

VARIABLES
  step,      \* where main() is
  exitCode,  \* -1 while the program runs
  words,     \* the command line as it was typed
  argv,      \* the arguments ParseCommandLine has not read yet
  parse,     \* what it has made of the others
  link,      \* g_options.dataLink
  import,    \* g_options.importCariZip is not empty
  calls,     \* how many of the set-up calls have been made
  pending,   \* announcementPending
  restart,   \* RequestRestart's timer: "no", "armed" or "due"
  age,       \* milliseconds since startTime, which only MS/TP looks at
  hub,       \* g_hubConnectionStatus: 0 none, 1 primary, 2 failover
  event,     \* g_hubConnectedEvent
  heard      \* ghost: this network has had an I-Am since it last needed one

line == <<words, argv, parse, link, import>>
setup == <<line, calls>>
sc == <<hub, event>>
vars == <<step, exitCode, setup, pending, restart, age, sc, heard>>

Parsed(p) ==
  /\ DOMAIN p = DOMAIN Start /\ p.failed \in BOOLEAN /\ p.given \subseteq Option
  /\ p.waiting \in Option \cup {""} \/ p.failed
  /\ \A o \in DOMAIN Defaults : p.options[o] \in Argument \cup {Defaults[o]}

StartUp == {"load", "parse", "open", "certificates", "objects", "announce"}
Loop == {"tick", "link", "restart", "keys", "sleep"}
Cap == AnnounceTimeout + 1  \* bound: the age stops here

TypeOK ==
  /\ step \in StartUp \cup Loop \cup {"exit"}
  /\ exitCode \in {-1, 0, 1} /\ (step = "exit") = (exitCode # -1)
  /\ words \in Seq(Words) /\ argv \in Seq(Argument) /\ Parsed(parse)
  /\ link \in Link /\ import \in BOOLEAN /\ calls \in 0 .. Len(Setup(link))
  /\ pending \in BOOLEAN /\ restart \in {"no", "armed", "due"}
  /\ age \in 0 .. Cap /\ hub \in 0 .. 2 /\ event \in BOOLEAN /\ heard \in BOOLEAN

Init ==
  /\ step = "load" /\ exitCode = -1
  /\ words \in UNION {[1 .. n -> Words] : n \in 0 .. MaxWords}
  /\ argv = <<>> /\ parse = Start
  /\ link = "ipv4" /\ import = FALSE /\ calls = 0
  /\ pending = TRUE /\ restart = "no"
  /\ age = 0 /\ hub = 0 /\ event = FALSE /\ heard = FALSE

-----------------------------------------------------------------------------
(* Start-up *)

Exit(code) ==
  /\ step' = "exit" /\ exitCode' = code

GoOn(next) ==
  /\ step' = next /\ UNCHANGED exitCode

\* Mutant: no exit code.
OrFailUnseen(next) == GoOn(next) \/ (step' = "exit" /\ UNCHANGED exitCode)

\* What comes after a step that may fail: every failure of the start-up
\* prints why and ends the program.
OrFail(next) == GoOn(next) \/ Exit(1)

Load ==
  /\ step = "load"
  /\ \/ Exit(1) /\ UNCHANGED argv
     \/ /\ IF AsksForHelp(FlattenSeq(words)) THEN Exit(0) ELSE GoOn("parse")
        /\ argv' = IF step' = "parse" THEN FlattenSeq(words) ELSE <<>>
  /\ words' = <<>>
  /\ UNCHANGED <<parse, link, import, calls, pending, restart, age, sc, heard>>

\* The loop of ParseCommandLine: one argument.
ReadArgument ==
  /\ step = "parse" /\ argv # <<>> /\ GoOn("parse")
  /\ parse' = Read(parse, Head(argv))
  /\ argv' = IF parse'.failed THEN <<>> ELSE Tail(argv)
  /\ UNCHANGED <<words, link, import, calls, pending, restart, age, sc, heard>>

\* What it has read is checked, and kept.
ParseEnds ==
  /\ step = "parse" /\ argv = <<>>
  /\ LET options == Result(parse).options IN
     /\ IF Result(parse).result = "Run" THEN GoOn("open") ELSE Exit(1)
     /\ link' = DataLink(options)
     /\ import' = (options["--import-cari"] # Nothing)
  /\ parse' = Start
  /\ UNCHANGED <<words, argv, calls, pending, restart, age, sc, heard>>

\* --import-cari is done before anything is opened, and ends the program.
\* A build without BACnet/SC refuses the data link here.
Open ==
  /\ step = "open"
  /\ IF import THEN Exit(0) \/ Exit(1)
     ELSE IF link = "sc" THEN OrFail("certificates") ELSE OrFail("objects")
  /\ UNCHANGED <<setup, pending, restart, age, sc, heard>>

PrepareCertificates ==
  /\ step = "certificates" /\ OrFail("objects")
  /\ UNCHANGED <<setup, pending, restart, age, sc, heard>>

\* The set-up calls one after the other; the first that fails ends the program.
AddObjects ==
  /\ step = "objects"
  /\ IF calls < Len(Setup(link))
       THEN OrFail("objects") /\ calls' = calls + 1
       ELSE GoOn("announce") /\ UNCHANGED calls
  /\ UNCHANGED <<line, pending, restart, age, sc, heard>>

IsIpDataLink == link \in {"ipv4", "ipv6"}

\* SendIAmBroadcast: on BACnet/SC only the connected hub can be told.
SendIAmBroadcast == link # "sc" \/ hub # 0

Announce ==
  /\ step = "announce" /\ GoOn("tick")
  /\ heard' = (IsIpDataLink /\ SendIAmBroadcast)
  /\ pending' = ~IsIpDataLink
  /\ UNCHANGED <<setup, restart, age, sc>>

-----------------------------------------------------------------------------
(* The loop *)

\* CallbackBACnetSCStateChange, once for each change.
Changes == UNION {[1 .. n -> 0 .. 2] : n \in 0 .. 2}  \* bound: two in one tick

\* Mutant: a failover connection is no event.
ConnectsToPrimary(changes) == \E i \in DOMAIN changes : changes[i] = 1

Connects(changes) == \E i \in DOMAIN changes : changes[i] \in {1, 2}

StateChanges(changes) ==
  /\ link = "sc" \/ changes = <<>>
  /\ hub' = IF changes = <<>> THEN hub ELSE Last(changes)
  /\ event' = (event \/ Connects(changes))
  /\ heard' = (heard /\ \A i \in DOMAIN changes : changes[i] = 0)

\* The stack works through what arrived: ReinitializeDevice may arm a restart.
Tick ==
  /\ step = "tick" /\ GoOn("link")
  /\ \E changes \in Changes : StateChanges(changes)
  /\ \/ UNCHANGED restart
     \/ restart = "no" /\ restart' = "armed"
  /\ UNCHANGED <<setup, pending, age>>

\* Mutant: no timeout.
AnnouncesInRing(inTokenRing) == pending /\ inTokenRing

\* MS/TP: once in the token ring, or at last without it.
Announces(inTokenRing) == pending /\ (inTokenRing \/ age > AnnounceTimeout)

AnnounceOnMstp(inTokenRing) ==
  /\ pending' = (pending /\ ~Announces(inTokenRing))
  /\ heard' = (heard \/ Announces(inTokenRing))
  /\ UNCHANGED sc

\* BACnet/SC: ScNode::Service tells the stack of the sockets, which may move
\* the hub connection again; then the event is taken and announced.
Service(changes) ==
  /\ hub' = IF changes = <<>> THEN hub ELSE Last(changes)
  /\ event' = FALSE
  /\ LET taken == event \/ Connects(changes) IN
     /\ heard' = IF taken THEN hub' # 0 ELSE heard
     /\ pending' = (pending /\ ~taken)

LinkWork ==
  /\ step = "link" /\ GoOn("restart")
  /\ \/ link = "mstp" /\ \E inTokenRing \in BOOLEAN : AnnounceOnMstp(inTokenRing)
     \/ link = "sc" /\ \E changes \in Changes : Service(changes)
     \/ IsIpDataLink /\ UNCHANGED <<pending, heard, sc>>
  /\ UNCHANGED <<setup, restart, age>>

\* RestartDue, and the I-Am of a device that is back.  (What it does to the
\* objects is DeviceRestart's, and PollPeer before it is PeerPoll's.)
Restart ==
  /\ step = "restart" /\ GoOn("keys")
  /\ restart' = IF restart = "due" THEN "no" ELSE restart
  /\ heard' = IF restart = "due" THEN SendIAmBroadcast ELSE heard
  /\ UNCHANGED <<setup, pending, age, sc>>

\* q ends the loop; the other keys change objects or print.
Keys ==
  /\ step = "keys" /\ (GoOn("sleep") \/ Exit(0))
  /\ UNCHANGED <<setup, pending, restart, age, sc, heard>>

\* The pass has taken d milliseconds, one of them asleep.
Sleep ==
  /\ step = "sleep" /\ GoOn("tick")
  /\ \E d \in 1 .. MaxPass :
       age' = IF link # "mstp" THEN age ELSE IF age + d > Cap THEN Cap ELSE age + d
  /\ restart' \in IF restart = "armed" THEN {"armed", "due"} ELSE {restart}
  /\ UNCHANGED <<setup, pending, sc, heard>>

Next ==
  \/ Load \/ ReadArgument \/ ParseEnds \/ Open \/ PrepareCertificates \/ AddObjects \/ Announce
  \/ Tick \/ LinkWork \/ Restart \/ Keys \/ Sleep

Spec == Init /\ [][Next]_vars

-----------------------------------------------------------------------------
(* Properties *)

Options(w) == {Text(w[i]) : i \in DOMAIN w} \cap Option
OnceEach(w) == \A i, j \in DOMAIN w : i # j => Options(w[i]) \cap Options(w[j]) = {}
Orders(w) == {p \in [DOMAIN w -> DOMAIN w] : \A i, j \in DOMAIN w : i # j => p[i] # p[j]}

\* What is an option with its value, or fails by itself: it does not end with
\* --deviceName, and if it leaves another option without its value, no word there
\* is begins with one that the option would take.
Whole(w) ==
  /\ w # <<>> /\ Text(w[Len(w)]) # "--deviceName"
  /\ \/ ReadAll(w).failed \/ ReadAll(w).waiting = ""
     \/ \A v \in Words : ~Accepts(ReadAll(w).waiting, v[1])

\* Two command lines with the same words in another order mean the same, as
\* long as no option is given twice: ParseCommandLine checks the combination
\* only after it has read everything.
OrderDoesNotMatter ==
  (step = "load" /\ OnceEach(words)) =>
     \A p \in Orders(words) :
        LET typed == FlattenSeq(words)
            other == FlattenSeq([i \in DOMAIN words |-> words[p[i]]]) IN
        /\ ParseCommandLine(other) = ParseCommandLine(typed)
        /\ ParseDeviceNameArg(other) = ParseDeviceNameArg(typed)
        /\ ParseXmlLogArg(other) = ParseXmlLogArg(typed)

\* Each set-up call finds in the stack what it needs, and nothing that comes too
\* early for it, on every data link.
SetupIsAccepted ==
  (step = "objects" /\ calls < Len(Setup(link))) =>
    LET call == Setup(link)[calls + 1] IN
    call.needs \subseteq Made(link, calls) /\ call.without \cap Made(link, calls) = {}

\* When the device announces itself the callbacks and the set-up calls agree with
\* each other and with docs/objects.json, object by object: each has a name; what
\* the application shall answer it answers; what it enables is answered; what is
\* writable is enabled for writing and has someone who takes the write.
CallbacksMatchTheObjects ==
  step = "announce" =>
    LET made    == Made(link, calls)
        present == {o \in Contract.objects : Object(o) \in made}
        of(list) == {pair \in list : pair[1] \in present} IN
    /\ \A o \in present : <<o, "Object_Name">> \in Served(link)
    /\ of(Contract.app) \subseteq Served(link)
    /\ \A pair \in of(Contract.enabled) : Enabled(pair[1], pair[2]) \in made
    /\ \A pair \in of(Contract.enabled) : pair \in Served(link) \cup Contract.stack
    /\ \A pair \in of(Contract.writable) :
         /\ Writable(pair[1], pair[2]) \in made \/ pair \in Contract.stack
         /\ pair \in Settable(link) \cup Contract.held
    /\ link = "sc" => <<"active">> \in made

\* Whatever order hub changes, failovers, restarts and passes come in: in the
\* loop the network the device is on has its I-Am, or main() still owes it and
\* knows so (the event of the hub, the pending announcement of MS/TP).
NobodyMissesTheDevice ==
  step \in Loop =>
    CASE link = "sc"   -> hub = 0 \/ event \/ heard
      [] link = "mstp" -> pending \/ heard
      [] OTHER         -> heard

\* Every connection to a hub that lasts is announced on, and so is an MS/TP
\* station that never joins a ring, unless the program is ended before.
Announced ==
  /\ (step \in Loop /\ link = "sc" /\ hub # 0) ~> (heard \/ hub = 0 \/ step = "exit")
  /\ (step \in Loop /\ link = "mstp") ~> (heard \/ step = "exit")
=============================================================================
