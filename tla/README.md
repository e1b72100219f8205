# A TLA+ model of the B-BC building controller example

The program (`src/main.cpp` and the parts it uses) is a BACnet building
controller: one single-threaded loop around the CAS BACnet Stack, a closed
library that calls back into the example. The stack, the network, the peer
device, the hub, libwebsockets and the file system are the environment of this
model; everything the example itself decides is inside it.

## The system

```
        main loop (main.cpp 3614-3779), one thread
   +--> BACnetStack_Tick ---- calls back ----> Get/SetProperty, ReadFile/WriteFile,
   |        |                                  ReinitializeDevice, NetworkPortCommand,
   |        |                                  HookIAm, ReceiveMessage, SendMessage,
   |        |                                  InitiateWebsocket ...
   |    MstpDataLink::Loop   (--datalink mstp)
   |    ScNode::Service      (--datalink sc)   status queue -> stack, reload TLS
   |    PollPeer             (ipv4, ipv6)
   |    RestartDue           COLDSTART / WARMSTART
   +--- PollKey, usleep(1 ms)
```

| component | state | operations | what makes it correct |
|---|---|---|---|
| peer poll | `g_peer`, Diamond's value and Reliability | `HookIAm`, `PollPeer`, `HandleReplyFromPeer` | Reliability tells the truth about the value, for every order of answers |
| certificate store | certificate files, key files, `g_staged`, the loaded TLS context | `Write`, `Resize`, `ApplyStagedCertificates`, `NetworkPortCommand`, `PrepareCertificates`, `Service` | certificate and key change together; all or nothing; usable after a stop anywhere |
| hub connector | `g_connections`, `g_statusEvents`, `g_receivedFrames`, `g_context` | `Connect`, `Disconnect`, `Send`, `HubProtocolCallback`, `ReloadCredentials` | the stack is told the truth about each connection, once, in order |
| deferred restart and outputs | pending restart and deadline, priority arrays | `ReinitializeDevice`, `RequestRestart`, `RestartDue`, `SetProperty*` | the acknowledgement leaves first; no request is lost; a cold start relinquishes everything |
| commissioning | the files of `--sc-cert-dir`, request and response archives, the device UUID | `EnsureNodeRequest`, `ImportCariResponse`, `ResolveNodeCertPaths`, `LoadOrCreateDeviceUuid`, the key password | a certificate has its key, the trust is what the authority sent, the UUID never changes, after a stop anywhere |
| command line | `CommandLineOptions` | `ParseCommandLine`, `ParseDeviceNameArg`, `ParseXmlLogArg` | the order of the options does not matter |
| set-up calls and property callbacks | the stack's objects, enabled and writable properties | the `BACnetStack_Add...`/`Set...` calls of `main`, Get and Set callbacks | each call finds what it needs; what is enabled is answered, what is writable is taken |
| start-up, loop and announcement | `announcementPending`, `g_hubConnectionStatus`, `g_hubConnectedEvent` | `main`, `SendIAmBroadcast`, the hub state callback | the network of each data link hears of the device, whatever comes first |
| file Ivory and port writes | `g_fileData`, `g_fileArchive`, the stack's pending writes | `ReadFile`, `WriteFile`, session callbacks, `SetDataLinkPortUnsigned`, `NetworkPortCommand` | each octet of a backup or restore is the file's, whoever else writes; an activation is refused nothing but what only the IPv6 port has |
| UDP transport | `g_lastPeer...`, `m_interfaces`, `m_senders` | `ReceiveFromUdp`, `SendToUdp`, `SimpleUDP6` | who asks is answered, once, by the interface it is behind |

The smaller parts (device clock, serial port, the IPv6 address look-up, the log's
decoder) are listed with their status in `PROJECT.json`.

Nothing runs in parallel inside the process. What is hard is the order of
events across the loop: datagrams that come late or not at all, a status that
waits in a queue while the thing it describes changes, a restart or a reload
that was requested in one pass and happens in another, a file operation that
fails between two others, and the process stopping anywhere.

## Plan

Done, in this order: the peer poll, the certificate store, the hub connector, the
deferred restart, commissioning with the CARI archives, then the program as a
whole (command line, set-up, loop, transport, services, composed in `Device`); and
the proofs about the peer poll, the restart, the announcement and the transport, the
hub connector, the certificate store with its refinement, Ivory, commissioning, the
command line and the set-up calls. Every safety property of the passing runs is now a
theorem, except `CallbacksMatchTheObjects`; why it is not, and what else stays with
TLC, is at the end of "What is proved". A next step would be the values the Get
callbacks answer, which nothing here depends on yet.

## What is modelled, and how it corresponds to the code

**`PeerPoll`**. `loop` is the place in `main`'s loop; `HookIAm`,
`ReceiveAnswer` and `ReceiveRequest` happen inside the tick, `PollPeer` has the
three ways `PollPeer()` returns, `Sleep` lets a unit of time pass. A datagram is
what `HandleReplyFromPeer` tells apart in it: source, invoke id, kind, and
whether a value and flags were found. `MillisecondsSince` is a `uint32_t`, so
both clocks count modulo `Wrap`; `silence` is the true time, kept for the
properties only. `asked` is the network: reads the peer may still answer.

**`CertStore`**. `disk` and the rest of the state are the files of the
certificate directory with contents reduced to what is compared: the key a
certificate was made for, the authority that signed it, or an unusable blob.
`CommitStaged` runs rename by rename (`Activate`, `Replace`, `Promote`), with
`Crash` and the failing forms in between; `Start` is `PrepareCertificates` with
`ReconcilePendingKey`. `Faults` names which failures an instance has. `KeyCustody`
is the abstract view (the device's key and certificate are replaced together),
and `CertStore` is shown to implement it across the renames and restarts.

**`HubConnector`**. `conn` is `g_connections`, `events` and `received` the two
queues, `link` libwebsockets' sockets. A pass is `stack`, `lws`, `report`,
`reload`; each callback reason is an action, and a socket that is not the current
one of its URI (`Current`) goes the way of lines 123-133. `told` is what the stack
was last told, which decides when it asks for a connection (`MayConnect`). The
stack is closed: that it asks only in its tick, at most once a tick for a URI, and
not for one it thinks connected and has not given up, is an assumption, from the
ten-second connect timeout and reconnect delay of `ScNode.cpp` 52-53. Text frames
and URIs that do not parse change nothing and are left out. The contents of a
message are the numbers of its fragments.

**`DeviceRestart`**. `left` is the deadline less the clock. Time passes between
the tick and `RestartDue` and between `RestartDue` and the next tick, `MaxPass`
units at most each. `ack` follows the first client's SimpleACK: encoded in the
tick of the callback, on the wire when the next tick returns. An output is its 16
slots; `Present_Value` is the stack's, from the slots.

**`CariArchive` and `Commissioning`**. `CariArchive` is `cari.cpp`: a tree, the zip
it is written to and read from, and the rules for requests and responses; a path is
a tuple of parts. `Commissioning` has the files of the certificate directory and the
processes that write them. A file that is overwritten in place (`InPlace`) is torn
if the process stops while writing it; `todo` holds the writes still to be made, so
a stop or a failing open can come between any two. The device goes `reconcile`,
`request`, `certificates`, `identity`, `online`, `up`, as `PrepareCertificates` and
`AddNetworkPort` do; `import` is the `--import-cari` process. `Responses` is the
authority: what it may send back, its mistakes included. `MaxKey` and `MaxUuid` bound
the key pairs and UUIDs ever made, by guards where they are made.

**`CommandLine`**. An argument is its text and the number `strtoul` makes of it.
`Read` is one turn of the loop over `argv`, `ReadAll` the whole loop, `Combination` the
checks after it.

**`DeviceSetup`**. `Setup(link)` is the list of set-up calls of `main` and of
`ScNode::AddNetworkPort`, each with the facts it needs, those it must come before,
and those it makes true. The Get and Set callbacks are the sets of object and
property pairs they answer. `MCDevice` states `docs/objects.json` as `Contract`.

**`MainLoop`**. `step` is the place in `main`. Start-up reads one argument, or makes
one set-up call, a step; each may fail and end the program where the code returns 1.
A pass is `tick`, `link` (the data link's own work), `restart`, `keys`, `sleep`.
`heard` is a ghost: the present network (the present hub connection on BACnet/SC) has had
an I-Am. The token ring's status lines and minute snapshot are log only and left
out, so of MS/TP's clock only the announcement time-out remains.

**`Transport`**. `SendToUdp` and `ReceiveFromUdp` with the last peer on a foreign
port, and the table of link-local senders of `SimpleUDP6`. `reach` counts how often
each peer gets the last frame.

**`Services`**. Ivory with a client's backup or restore, chunk by chunk, while others
write; the Network Port values the stack holds as pending, and their activation.
`WriteFile` computes as the code does: a start other than -1 becomes a `uint32_t`, and
the sum held against `FILE_MAX_SIZE` is taken modulo `Wrap`. A start below -1 may so pass
the check while the copy begins outside `g_fileData`; that is undefined, and the model
lets `g_fileData` hold anything afterwards and disturbs nothing else (that the process
may be killed by it, or other variables change, is left out). `touched` is a ghost: the
places of the running session that another client has written since. Beside
Network_Number a client may write `HeldOnIPv6` to the IPv6 port, as `docs/objects.json`
135 says. `SetAccepts` is what the three set callbacks take: everything on MS/TP, elsewhere
Network_Number alone. Whether the stack hands over the rest when one is refused is its
choice (`took`); what was refused stays pending, as `main.cpp` 640 says.

**`Device`** is the composition: `Transport` and `Services` act inside the tick of
`MainLoop`, the socket is opened where `main` opens it, and the I-Am of the start and
of a restart leaves through `SendToUdp`. The peer poll, the hub connector, the
certificate files and the outputs keep their own modules: their work in a pass has
its place in the loop but touches none of this state, except the hub status, which
`Changes` lets move in any way.

## The runs

| run | instance | shows |
|---|---|---|
| `peer_poll` | 2 addresses, 2 readings, 4 invoke ids, 2 reads in flight, comms loss 3, wrap 6 | Diamond's claims are true for every order of answers, also when the clock wraps |
| `peer_recovery` | 2 addresses, 3 ids, 1 in flight, with fairness | good answers make Diamond good again, whatever came before |
| `only_answers_end_a_read`, `cold_start_value` | 1 address, 1 reading, 3 ids | findings, below |
| `cert_stops` | 2 authorities, 3 key pairs, stops and temp files that fail | key and certificate change together; activation is all or nothing; `KeyCustody` |
| `cert_faults` | 1 authority, 3 key pairs, every fault | no half certificate on disk; a refused activation keeps what was written |
| `swap_not_finished` | 1 authority, failing key swap | a finding, below |
| `hub_links` | 2 URIs, 2 sockets, queue of 1, messages of up to 3 fragments with a ceiling of 2, with fairness | truth, liveness and isolation of connections; only whole messages reach the stack |
| `device_restart` | 2 priorities, delay 3, pass 2, with fairness | one restart, of the right kind, in time |
| `commissioning` | 2 device instances, 2 authorities, 3 key pairs, stops and files that cannot be opened | certificate, key, trust, request and UUID stay consistent |
| `import_without_key` | 1 authority, a stop between two renames | a finding, below |
| `device` | every command line of up to three of 25 words, all four data links, 3 peers, 3 IPv6 senders with 2 slots, Ivory of 2 octets, starts from -4 to 3 with sums modulo 8, with fairness | announcement, set-up, callbacks, transport, Ivory and activation together |

Why the bounds are enough. Addresses, readings, ids and keys are only compared
for equality, and no decision of the code looks at more than two of them at a
time; the third key is needed for a pending key that is replaced before its
certificate arrives. Two sockets for one URI are an attempt and the one it
supersedes; with two URIs they are one connection each. `Wrap` is just above what
`TimingAssumption` asks, so the clock wraps often. A ceiling of two fragments has
messages below, at and above it. The delay is longer than one pass and shorter
than two, so a restart can come in the pass after its request or later. Three words
are a data link, an option it needs and one that contradicts it. The hub may change
twice inside a tick and twice more while the sockets are serviced: enough for a
connection that comes and goes, or fails over, unseen. Three senders and two slots
make one be pushed out while it moves. A tick has one message; two only meet through
what the first left. Ivory has two octets and requests one or two, so that a request
ends before, at and past the end, and a start of -2 wraps past the check; it is exercised
on BACnet/IP only, the callbacks do not look at the data link. `Cap` stops the MS/TP age just above its time-out.
`Contract` is written out from `docs/objects.json`.

Fairness. The loop goes round (`while (running)`, no blocking call): weak fairness
of its steps; the operator's `q` is not modelled. The clock runs: strong fairness
of the steps in which time passes. A read that is due again and again is sent at
last, and the network lets one of infinitely many good answers through. An attempt
of a hub connection that is serviced again and again comes up or fails, since
libwebsockets has a timeout. `Device` assumes only weak fairness of its next-state
relation: `main` is one thread that waits for nobody. It may end at `q`, so its run
does not look for deadlocks.

## What is proved

TLAPS checks the following for every value of the constants that meets the
modules' assumptions (`TimingAssumption`, `NamesAssumption`, `RestartAssumption`,
`HubAssumption`, `CertStoreAssumption`, `CommissioningAssumption`,
`MainLoopAssumption`, `TransportAssumption` and `ServicesAssumption`). A theorem that excludes a fault says
so in its `ASSUME`; all others hold with every fault the module has.

`PeerPollProofs`. The invariant `IInv` is `TypeOK` with four facts. The one that
carries `SilenceIsReported` is `SilenceIsTimed`: up to the comms-loss time the
wrapping clock equals the true silence, and beyond it either the loss was reported
or the clock stands one above the limit and the poll is still to come. The poll
happens before the clock can move on, so the wrap comes too late to hide the loss;
the assumption `Wrap > CommsLoss + 1` is where the width of the clock enters.
`OneReadPerInvokeId` makes an answer end one read only. `FaultIsNeverHidden` and
`FallbackLeavesNothingBehind` are needed together: an ACK of the other service may
arrive after the FAULT. `LossEndsOnlyByAnswer` is proved of every step: only
`HandleReplyFromPeer`, taking a datagram for the answer to an outstanding read, ends the
loss (which datagrams it mistakes for one is the finding `only_answers_end_a_read`).

`DeviceRestartProofs`. `IInv` is `TypeOK`, `PromisesAreKept` and `AckIsTimed`: an
ACK just encoded has the whole delay before it at the end of the tick, so with
`MaxPass < Delay` it is not due in the same pass, and the next tick sends it. From
it follow `FirstAckIsOut`, and with the steps of the module `NeverPostponed` and
`CommandsOutliveWarmRestarts`. `NoPriorityIsTheLowest` rests on a lemma about the
least element of a set of priorities.

`DeviceProofs`. `ImplementsMainLoop` shows that `DSpec` implies `Spec` of `MainLoop`:
the composition only adds to the tick. So `NobodyMisses` needs `MainLoop` alone. Its
invariant `Announcing` adds that `hub` is 0 until the loop (so the start owes
nothing on BACnet/SC) and that the data link is one of four, which in turn needs
`Sound`: unless the parser has failed, `--datalink` has a value it knows.
`NotConnecting` says hub changes without a connection end with none, which is why
clearing the event is safe. `HearOnce` rests on `OneCopy`: the remembered peer is
never on our own port, where the broadcast arrives anyway. `LeaveWhereTheyCame`
rests on `Ring`: a sender has at most one slot, and it holds the interface the
sender last came by. `OnlyIPv6Refuses` rests on `PortWrites`: what is pending is what a
client may write on this data link, and nothing is before the data link is known.
`RoundTrips` rests on `Alike`: what a session has read or written is never longer than
the file, which is never shortened, and it differs from the file only at places another
client has touched since. `WriteEffect` shows that of every start and length, `RestoreEffect`
that the session's own sums never wrap, and this is where `Wrap > FileMaxSize + 2` enters.
`ServicesTyped` shows with it that the length never passes `FILE_MAX_SIZE`, also after a
wrapped sum, and that what is activated on MS/TP is clamped. `DeviceTypes` is the type invariant of the
composition: with `MainLoopTypes` it needs of `SimpleUDP6` only that remembering a sender
keeps the table a table.

`MainLoopProofs`. Nothing in it depends on which words may be typed, but for the
hypothesis of `OrderOfWords` below, nor on how many. The prover has no induction over sequences, so `FoldLemmas` makes its own: a
set of numbers that is not empty has a least element (`Smallest`, from the
well-foundedness of `<` on `Nat`), so what holds of 0 and goes from n to n + 1 holds
up to any length (`Everywhere`). From this come what `FlattenSeq` makes of a list of
words and what one more argument does to `ReadAll`. `MainLoopTypes` is `TypeOK`; its
invariant `Typed` adds that the value of an option is an argument that was typed or
its default (`ParsedSoFar`), that `--datalink` has a known name unless the parser
has failed (`Sound`), and that no set-up call is made before the data link is
settled.

`OrderOfWords` is `OrderDoesNotMatter`: `Merged` says of a list of words that a
parser which has not failed holds, option by option, the value of the one word that
gives it; that does not mention the order, and two parsers of which it holds are the
same (`MergedOnce`). The hypothesis of the theorem is that each word of `Words` is
`Whole`: an option with its value, or something refused by itself; either way it
does not take its value from the next word. Without it a word could complete the one
before, and the order would matter; TLC evaluates it for the words of the run
(`MCWordsAreWhole`).

`RunsWhatWasTyped` relates the two readings of the command line: `main()` reads one
argument a step, `ParseCommandLine` is asked for everything typed at once, and the
data link, the import and the end are the same (`LineRead`: what is in `argv` is the
rest of what was typed, and `parse` what the first part means).

`SetupAccepted` is `SetupIsAccepted`, proved feature by feature: `Leads` says that a
list of calls is accepted where there are certain objects and polled logs, and which
there are then; `LeadsOn` puts two lists together, and `SetupLeads` the whole of
`Setup` for each data link. `PlainCalls` takes any number of calls at once that only
need what is there.

`HubProofs`. `Attached` is the invariant behind `OpenMeansLive`: a connection has
no socket and is not open, or its socket is for its URI and open exactly when the
connection is. A superseded socket breaks nothing because every callback first asks
whether it is the current one. `FramesStay` needs only the types, `FramesWhole` needs
`Attached` and `Assembling`: what is put together has the length of what the current
socket sent of its message, unless the ceiling was passed and it was dropped.
`StackIsTold` rests on `TruthInv`: for each hub the last status waiting, or the
stack's belief if none is, agrees with the connection. It is inductive only with
`OnlyEndsWaitForTheStack`: when the stack has its turn the queue holds nothing but
ends of connections, so a new attempt does not contradict a Connected still waiting.

`CertProofs`. With every fault: `TypeCorrect`; `OnlyParsed`, since a commit
replaces only what was validated (`ParsedOnly`); `RefusedKeeps`, since the File objects
serve what was validated from the validation to the answer, file by file in or out of
the stage (`Aimed`, with `Remaining` for the files still to be renamed). The others
assume `RenamesWork`: the code renames within one directory and itself promises only
"as far as the filesystem allows" (`cert_store.cpp` 507). `swap_not_finished` shows
that this is needed: with a failing key swap `KeyIsAtHand` is false. The invariant is
`Matched`; its core is `Pair`, which says for every place in the commit which key the
certificate on disk is for, `Fresh`, that a pending key about to be saved is a new one,
and `Commitable`, that what is being put in place verifies as a whole. `RunsOnDisk`
also assumes the trusted-issuers bundle can be written: `ScNode.cpp` 475 carries on
without it. `ImplementsKeyCustody` maps the rename of the operational certificate to the
step of `KeyCustody` that changes both; the other renames, the key swap, stops and the
next start's repair are stutters, because the pending key counts as the device's while
the certificate on disk is for it.

`CommissioningProofs`. First `Shaped`: the types (a file is whole, torn or absent),
`Planned`, which writes may still be waiting and in which state of the device, and
`Imported`, the same for `--import-cari`. Then `Ports`: there is at most one port folder,
and the device uses it. From these, with every fault, an import beside the running
device included:
`IdentityKept` (the UUID seen on a network is the one in the file, and it is written
only where there was none); `FailsOnlyWhenCut` (`Answerable`: while no first write was
cut short, every port has its request and a pending key has a port); and
`RequestAnswered`, whose invariant `Asked` says that an archive is made where there is
none, for the request that is there, and that a renewal is for the newest key, so an
archive never gets ahead of the request. That the answer is then accepted is proved of
`ReadCariResponse` itself, through `ReadBack`: a zip that was written is read back, file
for file, and refused exactly if one of its paths is unsafe.
`TrustAsSent` assumes no `"overlap"`: an activation by the running device in the midst
of an import replaces issuer 1. Its invariant `Trusted` follows an import file by file
and says that only a renewal may be waiting while its result is in place. `KeyKept`
assumes neither `"overlap"` nor `"split"`: `import_without_key` shows what a stop
between the two renames of GENERATE_CSR_FILE does. Its invariant `Keyed` is that
the request is always for the pending key, or for the key in use if there is none
(`OnDisk`), so a certificate that answers it has a key; `Fresh`, `ForKey` and `Serving`
are what the writes still waiting owe to that.

`FallbackLeavesNothingBehind`, `NoClaimBeforeAReading`, `NeverPostponed`,
`NoPriorityIsTheLowest`, `RunsWhatWasTyped` and `ReadBack` are proved and no run repeats
them.

Only model-checked: all liveness (`Recovery`, `AttemptIsAnswered`,
`EveryRequestRestarts`, `Announced`), which is out of the prover's reach; and
`CallbacksMatchTheObjects`. That one compares the callbacks with `Contract`, the document
`docs/objects.json`: for another document it is false, for this one it is a finite
comparison on four data links, which TLC does in full.

## Where the code and its comments disagree

* `only_answers_end_a_read`: a request of the peer's own whose second octet equals
  an outstanding invoke id ends that read, restarts the silence clock and makes
  Diamond unreliable (`main.cpp` 2446, comment at 2393).
* `cold_start_value`: a COLDSTART sets Diamond to 50.0 and leaves its Reliability,
  so 50.0 is shown as a current reading until the next answer (`main.cpp` 3700,
  comment at 394).
* `swap_not_finished`: after a failed key swap the stage is empty, so a
  GENERATE_CSR_FILE is accepted and overwrites the only key of the certificate on
  disk (`cert_store.cpp` 532, 581, comment at 530).
* `import_without_key`: a stop between the renames of the pending key and of its
  request leaves a request whose key is gone; the import of its answer installs a
  certificate the device cannot use (`cert_store.cpp` 643, comment at 635).

Known, and without a run:

* A good answer that comes after the next read of its kind was sent is not counted as
  having been heard (`main.cpp` 2446, comment at 399).
* A rename that fails after another succeeded refuses an activation with part of it
  done (`cert_store.cpp` 523; `main.cpp` 1745 says nothing changes, `cert_store.cpp`
  507 only "as far as the filesystem allows").
* A restore shorter than Ivory leaves the old tail: `WriteFile` never shortens
  (`main.cpp` 1838) and File_Size of Ivory cannot be set, while `README.md` 557 says
  the file "reads back the restored content". `FileRoundTrips` therefore speaks of the
  octets the restore has written.
* `ipv6/README.md` 46 and `docs/objects.json` 135 say a client can write BACnet_IPv6_Mode,
  the FD_ and the BBMD_ properties of Network Port 2, "held by the stack and activated by
  ReinitializeDevice". `SetPropertyEnumerated`, `SetPropertyUnsignedInteger` and
  `SetPropertyBool` take none of them (`main.cpp` 1465-1538, 1566). If the stack hands
  them over as 635-645 and 1508 say it does with pending writes, that activation fails and
  so does every later one until DISCARD_CHANGES; the stack is closed, so this is stated as
  what `OnlyIPv6SettingsAreRefused` allows and not as a finding. FD_BBMD_Address and
  BBMD_Broadcast_Distribution_Table are of constructed types, have no set callback here
  and are left out.
* `WriteFile` of Ivory refuses no start below -1, as `cert_store.cpp` 387 does; the sum of
  such a start and the length can wrap past the size check (`main.cpp` 1833-1837).
* `docs/objects.json` lists Vermilion's Network_Type, Protocol_Level and
  Changes_Pending as answered by the application; no callback does, and the same
  properties of the other ports are listed as the stack's. `Contract` leaves them out.
* `--import-cari` used while the device runs can install a certificate whose pending
  key the device replaces meanwhile (`cert_tool.cpp` 504); the runs import with the
  device off (`Faults` without `"overlap"`), and nothing says whether that is required.

## Not modelled

The CAS BACnet Stack (closed, not in the repository) with its schedule, trend and alarm
engines and its MS/TP token passing, libwebsockets, the operating system's files and
sockets beyond what the modules say of them: they are the environment. The log's
decoder, the token ring's status lines and the wire tests change no state of the
device; the device clock's offset, the serial port and the IPv6 address look-up are
single calls to the operating system. A file that cannot be opened is modelled, a write
whose flush or close fails is not: `cert_tool.cpp` 195-213 and `ScNode.cpp` 114-121 do
not look at it, so that a full disk can leave a torn file behind a success. The values the Get callbacks answer are not
modelled where nothing changes them. Certificates have one authority and no chain of
several; TLS itself is a yes or no. A zip's octets are reduced to whether they pass
`ReadZip`'s checks. Passwords and requests for another device only refuse. The keys
of the console move Bronze's value, add an entry to Saffron's weekly schedule or
print; `DeviceRestart` has the schedule's writes as any writes.

## Modules

| module | models | checked by |
|---|---|---|
| `PeerPoll` | the poll of the remote sensor | `MCPeerPoll` |
| `PeerPollProofs` | theorems about `PeerPoll` | TLAPS |
| `CertStore` | the certificate files and procedures | `MCCertStore` |
| `KeyCustody` | what `CertStore` promises about keys: certificate and key change in one step | refined by `CertStore` |
| `CertProofs` | theorems about `CertStore`, and its refinement of `KeyCustody` | TLAPS |
| `HubConnector` | the WebSocket connections to the hubs and the main loop's work on them | `MCHubConnector` |
| `HubProofs` | theorems about `HubConnector` | TLAPS |
| `CariArchive` | request and response archives | `MCCommissioning` |
| `Commissioning` | the certificate directory from the first start to renewals | `MCCommissioning` |
| `CommissioningProofs` | theorems about `CariArchive` and `Commissioning` | TLAPS |
| `CommandLine` | the options | `MCDevice` |
| `DeviceSetup` | set-up calls and property callbacks | `MCDevice` |
| `MainLoop` | `main`, from the arguments to the end | `MCDevice` |
| `FoldLemmas` | induction up to a length, and what flattening a list of lists makes | TLAPS |
| `MainLoopProofs` | theorems about `CommandLine`, `DeviceSetup` and `MainLoop` | TLAPS |
| `Transport` | BACnet/IP and BACnet/IPv6 sockets | `MCDevice` |
| `Services` | Ivory, and writes to the Network Port | `MCDevice` |
| `Device` | the composition of the last five | `MCDevice` |
| `DeviceProofs` | theorems about `Device` | TLAPS |
| `DeviceRestart` | the deferred restart and the commandable outputs | `MCDeviceRestart` |
| `DeviceRestartProofs` | theorems about `DeviceRestart` | TLAPS |

In every module the operators marked *Mutant* are plausible wrong forms of the
definition that follows them; `PROJECT.json` names, for each property, one that
breaks it.
