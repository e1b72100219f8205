---------------------------- MODULE CommandLine ----------------------------
(***************************************************************************)
(* The command line: ParseCommandLine (command_line.cpp), and the two      *)
(* scans of CASExampleHelper that read the same arguments for themselves.  *)
(*                                                                         *)
(* An argument is <<text, number>>: number is what strtoul makes of it,    *)
(* and -1 when the text is no decimal number.                              *)
(***************************************************************************)
EXTENDS Integers, Sequences, SequencesExt

CONSTANTS
  HubUri,        \* the texts that start with wss:// and have 7 .. 255 characters
  BadName,       \* the texts that are no Object_Name (empty, too long, control characters)
  HasBaud76800,  \* BBC_HAS_76800_BAUD
  MaxInterface   \* bound: the highest interface index (0xFFFFFFFF in the code)

Text(argument) == argument[1]
Number(argument) == argument[2]

Named == [ipv4 |-> "ipv4", ip |-> "ipv4", ipv6 |-> "ipv6", mstp |-> "mstp", sc |-> "sc"]

DataLinkOptions ==
  ("--interface" :> "ipv6") @@
  [o \in {"--mstp-port", "--mstp-baud", "--mstp-mac", "--mstp-max-master", "--mstp-max-info-frames"} |-> "mstp"] @@
  [o \in {"--sc-hub", "--sc-failover-hub", "--sc-cert-dir", "--import-cari"} |-> "sc"]

Option == DOMAIN DataLinkOptions \cup {"--datalink", "--deviceID", "--deviceName", "--port"}

NumberRange ==
  "--deviceID" :> 0 .. 4194302 @@ "--port" :> 1 .. 65535 @@ "--interface" :> 1 .. MaxInterface @@
  "--mstp-mac" :> 0 .. 127 @@ "--mstp-max-master" :> 1 .. 127 @@ "--mstp-max-info-frames" :> 1 .. 255 @@
  "--mstp-baud" :> {9600, 19200, 38400, 57600, 115200} \cup (IF HasBaud76800 THEN {76800} ELSE {})

Nothing == <<"", -1>>

DefaultNumber ==
  "--deviceID" :> <<"389005", 389005>> @@ "--port" :> <<"47808", 47808>> @@ "--interface" :> <<"0", 0>> @@
  "--mstp-baud" :> <<"38400", 38400>> @@ "--mstp-mac" :> <<"1", 1>> @@ "--mstp-max-master" :> <<"127", 127>> @@
  "--mstp-max-info-frames" :> <<"1", 1>>

Default(option) ==
  IF option = "--datalink" THEN <<"ipv4", -1>>
  ELSE IF option = "--sc-cert-dir" THEN <<"./certs", -1>>
  ELSE IF option \in DOMAIN DefaultNumber THEN DefaultNumber[option] ELSE Nothing

\* A device name is kept by ParseDeviceNameArg.
Defaults == [option \in Option \ {"--deviceName"} |-> Default(option)]

\* Is the value one the option takes?  (A bad --deviceName only warns.)
Accepts(option, value) ==
  /\ option = "--datalink" => Text(value) \in DOMAIN Named
  /\ option \in DOMAIN NumberRange => Number(value) \in NumberRange[option]
  /\ option \in {"--sc-hub", "--sc-failover-hub"} => Text(value) \in HubUri

DataLink(options) == Named[Text(options["--datalink"])]

-----------------------------------------------------------------------------
\* The loop over argv: waiting is the option whose value comes next.
Start == [failed |-> FALSE, waiting |-> "", given |-> {}, options |-> Defaults]

Value(parse, argument) ==
  [failed  |-> ~Accepts(parse.waiting, argument),
   waiting |-> "",
   given   |-> parse.given \cup {parse.waiting},
   options |-> IF parse.waiting = "--deviceName" THEN parse.options
               ELSE [parse.options EXCEPT ![parse.waiting] = argument]]

Read(parse, argument) ==
  IF parse.failed THEN parse
  ELSE IF parse.waiting # "" THEN Value(parse, argument)
  ELSE IF Text(argument) = "--xml" THEN parse
  ELSE [parse EXCEPT !.waiting = Text(argument), !.failed = Text(argument) \notin Option]

ReadAll(argv) == FoldLeft(Read, Start, argv)

\* What every start with these options must satisfy, checked after the loop.
Combination(given, options) ==
  LET link == DataLink(options) IN
  /\ \A o \in given \cap DOMAIN DataLinkOptions : DataLinkOptions[o] = link
  /\ "--port" \in given => link \in {"ipv4", "ipv6"}
  /\ link = "mstp" => /\ options["--mstp-port"] # Nothing
                      /\ Number(options["--mstp-mac"]) <= Number(options["--mstp-max-master"])
  /\ link = "sc" => options["--sc-hub"] # Nothing \/ options["--import-cari"] # Nothing

Helps == {"--help", "-h", "/?", "--version"}
\* Mutant: only as the first argument.
AsksForHelpFirst(argv) == argv # <<>> /\ Text(Head(argv)) \in Helps

AsksForHelp(argv) == \E i \in DOMAIN argv : Text(argv[i]) \in Helps

Result(parse) ==
  IF parse.failed \/ parse.waiting # "" \/ ~Combination(parse.given, parse.options)
    THEN [result |-> "ExitError", options |-> Defaults]
    ELSE [result |-> "Run", options |-> parse.options]

ParseCommandLine(argv) ==
  IF AsksForHelp(argv) THEN [result |-> "ExitSuccess", options |-> Defaults]
  ELSE Result(ReadAll(argv))

\* ParseDeviceNameArg: the first --deviceName with a good name after it.
Names(argv) == {i \in 1 .. Len(argv) - 1 : Text(argv[i]) = "--deviceName" /\ Text(argv[i + 1]) \notin BadName}

ParseDeviceNameArg(argv) ==
  IF Names(argv) = {} THEN "default"
  ELSE Text(argv[(CHOOSE i \in Names(argv) : \A j \in Names(argv) : i <= j) + 1])

ParseXmlLogArg(argv) == \E i \in DOMAIN argv : Text(argv[i]) \in {"--xmlLog", "--xml"}
=============================================================================
