--------------------------- MODULE Commissioning ----------------------------
(***************************************************************************)
(* How a BACnet/SC device gets, keeps and renews its identity in           *)
(* --sc-cert-dir: the start-up path (ScNode.cpp PrepareCertificates and    *)
(* AddNetworkPort), the request for a Certificate Authority and the import *)
(* of its answer (cert_tool.cpp, cert_layout.cpp).  These files are        *)
(* overwritten in place, one after the other, so a process that stops      *)
(* leaves one torn; the running device replaces its own by renames         *)
(* (CertStore models those checks; here GENERATE_CSR_FILE and an           *)
(* activation only appear as what they do to the files).                   *)
(***************************************************************************)
EXTENDS CariArchive

CONSTANTS
  Instance,  \* device instances the operator starts the device with
  NoInstance,
  Ca,        \* Certificate Authorities
  MaxKey,    \* bound: key pairs the device ever has
  MaxUuid,   \* bound: device UUIDs ever made
  Faults     \* what may go wrong, a subset of AnyFault

AnyFault == {"stop",     \* a process stops
             "open",     \* a file cannot be opened for writing
             "split",    \* a stop between the two renames of GENERATE_CSR_FILE
             "overlap"}  \* --import-cari is used while the device runs

ASSUME CommissioningAssumption ==
  /\ Instance # {} /\ NoInstance \notin Instance
  /\ MaxKey \in Nat \ {0} /\ MaxUuid \in Nat \ {0} /\ Faults \subseteq AnyFault

VARIABLES
  disk,       \* the files
  step,       \* what the device process is doing
  instance,   \* --deviceid of this run
  folder,     \* g_certPaths.folderDeviceInstance
  unlocked,   \* the key can be read: no password, or the right one was typed
  todo,       \* file writes still to be made, in order
  then,       \* where the device goes when they are made, and if one fails
  import,     \* the --import-cari process: the files to write and the set they are of
  sent,       \* keys whose request a Certificate Authority has
  newest,     \* the last key pair made
  made,       \* the last UUID made
  installed,  \* history: the set the last import installed, while it is in place
  outcome,    \* history: EnsureNodeRequest's last result, and whether a write of
              \* a first key and request was ever cut short
  vmac        \* history: the UUIDs this device was ever on a network with

process == <<step, instance, folder, unlocked, todo, then>>
history == <<installed, outcome, vmac>>
vars == <<disk, process, import, sent, newest, made, history>>

-----------------------------------------------------------------------------
(* Files and what they hold *)

Absent == [is |-> "absent"]
Torn   == [is |-> "torn"]
KeyPair(k)   == [is |-> "key", key |-> k, locked |-> FALSE]
Request(k)   == [is |-> "request", key |-> k]
Cert(k, a)   == [is |-> "certificate", key |-> k, ca |-> a, expired |-> FALSE]
Authority(a) == [is |-> "authority", ca |-> a]

Key(d) == <<"key", d>>
Csr(d) == <<"csr", d>>
Opr(d) == <<"opr", d>>
Pending == <<"pending", 0>>
Iss(n)  == <<"issuer", n>>
RequestZip     == <<"zip", 0>>
Uuid    == <<"uuid", 0>>
File == {Key(d) : d \in Instance} \cup {Csr(d) : d \in Instance} \cup {Opr(d) : d \in Instance}
        \cup {Pending, Iss(1), Iss(2), RequestZip, Uuid}

Exists(f) == disk[f] # Absent
KeyOf(f)  == IF disk[f].is \in {"key", "request", "certificate"} THEN disk[f].key ELSE 0

\* One write.  A rename puts all of it in place at once, the others truncate first.
At(f, data) == [g \in {f} |-> data]
InPlace(f, data) == [files |-> {f}, data |-> At(f, data), torn |-> TRUE]
Renamed(f, data) == [files |-> {f}, data |-> At(f, data), torn |-> FALSE]
Both(v, w) == [files |-> v.files \cup w.files, torn |-> FALSE,
               data  |-> [f \in v.files \cup w.files |-> IF f \in v.files THEN v.data[f] ELSE w.data[f]]]
Made(w)  == [f \in File |-> IF f \in w.files THEN w.data[f] ELSE disk[f]]
Stopped(writes) ==
  {disk} \cup (IF writes # <<>> /\ Head(writes).torn
               THEN {[f \in File |-> IF f \in Head(writes).files THEN Torn ELSE disk[f]]} ELSE {})

NoImport == [writes |-> <<>>, set |-> <<>>]

Nowhere == [done |-> "off", failed |-> "off"]
\* The process ends, with everything it had in memory.
PowerOff ==
  /\ step' = "off" /\ instance' = NoInstance /\ folder' = NoInstance /\ unlocked' = FALSE
  /\ todo' = <<>> /\ then' = Nowhere

\* An empty directory.
Init ==
  /\ disk = [f \in File |-> Absent]
  /\ step = "off" /\ instance = NoInstance /\ folder = NoInstance /\ unlocked = FALSE
  /\ todo = <<>> /\ then = Nowhere
  /\ import = NoImport
  /\ sent = {} /\ newest = 0 /\ made = 0
  /\ installed = <<>> /\ outcome = [request |-> "none", cut |-> FALSE] /\ vmac = {}

-----------------------------------------------------------------------------
(* cert_layout.cpp: the port folder in use *)

NodePorts == {d \in Instance : Exists(Key(d)) \/ Exists(Csr(d)) \/ Exists(Opr(d))}

\* Mutant: always the folder of the instance given.
OwnFolder(d) == {d}

\* This device's own folder if there is one, another's rather than none.
ResolveNodeCertPaths(d) ==
  IF NodePorts = {} THEN {d} ELSE IF d \in NodePorts THEN {d} ELSE NodePorts

-----------------------------------------------------------------------------
(* The device's start-up *)

\* The password of a protected key is asked for, three times at most; without it
\* the start goes on and fails when the key is needed.
Start(d) ==
  /\ step = "off" /\ ("overlap" \in Faults \/ import = NoImport)
  /\ step' = "reconcile" /\ instance' = d
  /\ \E port \in ResolveNodeCertPaths(d) :
       /\ folder' = port
       /\ unlocked' \in IF disk[Key(port)].is = "key" /\ disk[Key(port)].locked
                        THEN BOOLEAN ELSE {TRUE}
  /\ UNCHANGED <<disk, todo, then, import, sent, newest, made, history>>

\* The certificate is not for the key in use but for the pending one.
UnfinishedSwap ==
  /\ disk[Opr(folder)].is = "certificate" /\ disk[Pending].is = "key"
  /\ ~(KeyOf(Opr(folder)) = KeyOf(Key(folder)) /\ unlocked)
  /\ KeyOf(Opr(folder)) = KeyOf(Pending)

\* Mutant: the swap clears the request it answered.
PromotedAndCleared ==
  [disk EXCEPT ![Key(folder)] = disk[Pending], ![Pending] = Absent, ![Csr(folder)] = Absent]

Promoted == [disk EXCEPT ![Key(folder)] = disk[Pending], ![Pending] = Absent]

ReconcilePendingKey ==
  /\ step = "reconcile" /\ step' = "request"
  /\ disk' = IF UnfinishedSwap THEN Promoted ELSE disk
  /\ unlocked' = (unlocked \/ UnfinishedSwap)
  /\ UNCHANGED <<instance, folder, todo, then, import, sent, newest, made, history>>

Continue(next, result) ==
  /\ step' = next /\ outcome' = [outcome EXCEPT !.request = result]
  /\ UNCHANGED <<todo, then>>
Do(writes, done, failed) ==
  /\ step' = "writing" /\ todo' = writes /\ then' = [done |-> done, failed |-> failed]

\* NodeRequestZip: the request, in the folder it is for, and a note.
PortFolder(d) == <<Cert1, <<"device", d>>, <<"port", 4>>>>
NodeRequestZip(d, csr) ==
  WriteZip(AddFile(AddFile(EmptyTree, PortFolder(d) \o <<<<"csr", "node">>>>, csr),
                   <<Cert1, Notes>>, [is |-> "notes"]))
ZipFile(d, csr) == InPlace(RequestZip, [is |-> "zip", folder |-> d, csr |-> csr])
Archive == NodeRequestZip(disk[RequestZip].folder, disk[RequestZip].csr)

NeedsKey(d) == ~Exists(Csr(d)) /\ ~Exists(Key(d)) /\ ~Exists(Pending)

\* Mutant: the request in the key's file.
FirstFilesSwapped(d, k) ==
  <<InPlace(Key(d), Request(k)), InPlace(Csr(d), KeyPair(k)), ZipFile(d, Request(k))>>

FirstFiles(d, k) ==
  <<InPlace(Key(d), KeyPair(k)), InPlace(Csr(d), Request(k)), ZipFile(d, Request(k))>>

EnsureNodeRequest ==
  /\ step = "request"
  /\ \E d \in ResolveNodeCertPaths(instance) :
       \/ /\ Exists(RequestZip)
          /\ Continue("certificates", "AlreadyExists") /\ UNCHANGED newest
       \/ /\ ~Exists(RequestZip) /\ NeedsKey(d) /\ newest < MaxKey
          /\ newest' = newest + 1
          /\ Do(FirstFiles(d, newest'), "certificates", "certificates")
          /\ outcome' = [outcome EXCEPT !.request = "Created"]
       \/ /\ ~Exists(RequestZip) /\ disk[Csr(d)].is = "request"
          /\ Do(<<ZipFile(d, disk[Csr(d)])>>, "certificates", "certificates")
          /\ outcome' = [outcome EXCEPT !.request = "Created"] /\ UNCHANGED newest
       \/ /\ ~Exists(RequestZip) /\ ~NeedsKey(d) /\ disk[Csr(d)].is # "request"
          /\ Continue("certificates", "Failed") /\ UNCHANGED newest
  /\ UNCHANGED <<disk, instance, folder, unlocked, import, sent, made, installed, vmac>>

\* No certificate: print what to do and end.  No issuer to trust, or a certificate
\* libwebsockets cannot load with its key: end.
Usable ==
  /\ disk[Opr(folder)].is = "certificate"
  /\ \E n \in {1, 2} : disk[Iss(n)].is = "authority"
  /\ unlocked /\ KeyOf(Opr(folder)) = KeyOf(Key(folder))

Certificates ==
  /\ step = "certificates"
  /\ IF Usable
     THEN step' = "identity" /\ UNCHANGED <<instance, folder, unlocked, todo, then>>
     ELSE PowerOff
  /\ UNCHANGED <<disk, import, sent, newest, made, installed, vmac>>
  /\ outcome' = [outcome EXCEPT !.request = "none"]

\* Mutant: a UUID is made on every start.
NewUuidEachTime == TRUE

NeedsUuid == disk[Uuid].is # "uuid"

\* LoadOrCreateDeviceUuid; then the port goes on line under that UUID.
LoadOrCreateDeviceUuid ==
  /\ step = "identity"
  /\ IF NeedsUuid
     THEN /\ made < MaxUuid /\ made' = made + 1
          /\ Do(<<InPlace(Uuid, [is |-> "uuid", uuid |-> made'])>>, "online", "off")
     ELSE step' = "online" /\ UNCHANGED <<made, todo, then>>
  /\ UNCHANGED <<disk, instance, folder, unlocked, import, sent, newest, history>>

GoOnline ==
  /\ step = "online" /\ step' = "up"
  /\ vmac' = vmac \cup {disk[Uuid]}
  /\ UNCHANGED <<disk, instance, folder, unlocked, todo, then, import, sent, newest, made,
                 installed, outcome>>

-----------------------------------------------------------------------------
(* The running device: what it does to these files *)

\* GENERATE_CSR_FILE.  Its two renames count as one unless a stop may split them.
GenerateKeyAndCsr ==
  /\ step = "up" /\ newest < MaxKey
  /\ newest' = newest + 1
  /\ LET key == Renamed(Pending, KeyPair(newest'))
         csr == Renamed(Csr(folder), Request(newest'))
     IN  Do(IF "split" \in Faults THEN <<key, csr>> ELSE <<Both(key, csr)>>, "up", "up")
  /\ UNCHANGED <<disk, instance, folder, unlocked, import, sent, made, history>>

\* A client wrote a certificate and its issuer, and they were activated: the
\* certificate, the issuer, then the pending key if the certificate is for that.
Activate(k, a) ==
  /\ step = "up" /\ k \in sent \cap {KeyOf(Key(folder)), KeyOf(Pending)}
  /\ Do(<<Renamed(Opr(folder), Cert(k, a)), Renamed(Iss(1), Authority(a))>>
        \o IF k = KeyOf(Pending)
           THEN <<Both(Renamed(Key(folder), disk[Pending]), Renamed(Pending, Absent))>> ELSE <<>>,
        "up", "up")
  /\ installed' = <<>>
  /\ UNCHANGED <<disk, instance, folder, unlocked, import, sent, newest, made, outcome, vmac>>

\* Makes the next write.
Write ==
  /\ step = "writing"
  /\ disk' = Made(Head(todo)) /\ todo' = Tail(todo)
  /\ IF todo' = <<>>
     THEN step' = then.done /\ then' = Nowhere
     ELSE UNCHANGED <<step, then>>
  /\ UNCHANGED <<instance, folder, unlocked, import, sent, newest, made, history>>

\* Whether the start-up was making its request.
Cut == outcome.cut \/ (todo # <<>> /\ then.done = "certificates")

WriteFails ==
  /\ step = "writing" /\ "open" \in Faults /\ Head(todo).torn
  /\ IF then.failed = "off"
     THEN PowerOff
     ELSE /\ step' = then.failed /\ todo' = <<>> /\ then' = Nowhere
          /\ UNCHANGED <<instance, folder, unlocked>>
  /\ outcome' = [request |-> IF then.done = "certificates" THEN "Failed" ELSE outcome.request,
                 cut |-> Cut]
  /\ UNCHANGED <<disk, import, sent, newest, made, installed, vmac>>

Stop ==
  /\ step # "off" /\ "stop" \in Faults
  /\ PowerOff
  /\ disk' \in Stopped(todo)
  /\ outcome' = [request |-> "none", cut |-> Cut]
  /\ UNCHANGED <<import, sent, newest, made, installed, vmac>>

-----------------------------------------------------------------------------
(* The operator and the Certificate Authority *)

\* Sends the request archive, or the request alone.
SendRequest ==
  /\ \/ disk[RequestZip].is = "zip"
        /\ sent' = sent \cup {ReadZip(Archive).files[f].key :
                                f \in CsrFiles(ReadZip(Archive))}
     \/ \E d \in Instance : disk[Csr(d)].is = "request" /\ sent' = sent \cup {KeyOf(Csr(d))}
  /\ sent' # sent
  /\ UNCHANGED <<disk, process, import, newest, made, history>>

\* "delete it to make a new one"
DeleteRequest ==
  /\ step = "off" /\ Exists(RequestZip)
  /\ disk' = [disk EXCEPT ![RequestZip] = Absent]
  /\ UNCHANGED <<process, import, sent, newest, made, history>>

\* Puts a password on the key.
ProtectKey ==
  /\ step = "off"
  /\ \E d \in Instance : /\ disk[Key(d)].is = "key" /\ ~disk[Key(d)].locked
                         /\ disk' = [disk EXCEPT ![Key(d)].locked = TRUE]
  /\ UNCHANGED <<process, import, sent, newest, made, history>>

\* What an authority may send back for a key: certificates at places in the tree of
\* a request, and issuer files.
OwnPath(d)   == PortFolder(d) \o <<<<"opr", "node">>>>
OtherPath    == <<Cert1, <<"device", 0>>, <<"port", 1>>, <<"opr", "hub">>>>
IssuerPath(n) == <<Cert1, Issuer, <<"iss", n>>>>
Response(oprs, issuers) ==
  LET files == [p \in DOMAIN oprs \cup {IssuerPath(n) : n \in DOMAIN issuers} |->
                  IF p \in DOMAIN oprs THEN oprs[p] ELSE issuers[p[3][2]]]
  IN  WriteZip([folders |-> UNION {FoldersTo(Front(p)) : p \in DOMAIN files}, files |-> files])

Authorities == {Authority(a) : a \in Ca}
\* one certificate, and one or two issuers that may or may not be its own
OneCertificate(k) ==
  {Response(At(path, Cert(k, a)), issuers) :
     path \in {OwnPath(d) : d \in Instance} \cup {OtherPath}, a \in Ca,
     issuers \in {<<i>> : i \in Authorities} \cup {<<i, j>> : i, j \in Authorities}}
\* a request for a hub answered in the same archive, at this device's place
ForHubAnd(d, k, a) ==
  [p \in {OwnPath(d), OtherPath} |-> IF p = OtherPath THEN Cert(k, a) ELSE Cert(MaxKey + 1, a)]
TwoCertificates(k) ==
  {Response(ForHubAnd(d, k, a), <<Authority(a)>>) : d \in Instance, a \in Ca}
Expired(k) == {Response(At(OtherPath, [Cert(k, a) EXCEPT !.expired = TRUE]), <<Authority(a)>>) : a \in Ca}
\* an issuer file that is no authority's; three issuers or none
NoAuthority(k) == {Cert(k, c) : c \in Ca} \cup {[is |-> "notes"]}
OtherIssuer(k) ==
  {Response(At(OtherPath, Cert(k, a)), <<Authority(a), other>>) : a \in Ca, other \in NoAuthority(k)}
ThreeIssuers(k) == {Response(At(OtherPath, Cert(k, a)), [n \in 1 .. 3 |-> Authority(a)]) : a \in Ca}
NoIssuer(k)     == {Response(At(OtherPath, Cert(k, a)), <<>>) : a \in Ca}
Damaged(k)      == {[sound |-> TRUE, entries |-> {[FileEntry(OtherPath, Cert(k, a)) EXCEPT !.readable = FALSE]}] :
                      a \in Ca}
Responses == [k \in 1 .. MaxKey |->
  OneCertificate(k) \cup TwoCertificates(k) \cup Expired(k) \cup OtherIssuer(k)
  \cup ThreeIssuers(k) \cup NoIssuer(k) \cup Damaged(k)]

-----------------------------------------------------------------------------
(* cert_tool.cpp: --import-cari, a process of its own *)

OprFiles(tree)    == {p \in DOMAIN tree.files : Last(p)[1] = "opr"}
IssuerFiles(tree) == {p \in DOMAIN tree.files : Len(p) > 2 /\ p[1] = Cert1 /\ p[2] = Issuer
                                                /\ Last(p)[1] = "iss"}

\* Mutant: an answer to any request is taken.
MatchingAny(d, tree) == {p \in OprFiles(tree) : tree.files[p].is = "certificate"}

\* The certificate for this device's key: in its own place, or else anywhere.
Matching(d, tree) ==
  LET for == {p \in OprFiles(tree) : tree.files[p].is = "certificate"
                                      /\ tree.files[p].key = KeyOf(Csr(d))}
  IN  IF OwnPath(d) \in for THEN {OwnPath(d)} ELSE for

\* The issuers for a certificate, the one that signed it first: one or two, and
\* every one an authority.
Issuers(tree, c) ==
  LET paths  == IssuerFiles(tree)
      signed == {pq \in paths \X paths : paths = {pq[1], pq[2]} /\ tree.files[pq[1]].ca = c.ca}
  IN  IF \E p \in paths : tree.files[p].is # "authority" THEN {}
      ELSE {IF pq[1] = pq[2] THEN <<tree.files[pq[1]]>>
            ELSE <<tree.files[pq[1]], tree.files[pq[2]]>> : pq \in signed}

\* The certificate and its issuers; {} when it is refused.
ReadCariResponse(d, zip) ==
  LET tree == ReadZip(zip)
      set(c) == IF c.expired THEN {} ELSE {[opr |-> c, issuers |-> i] : i \in Issuers(tree, c)}
  IN  IF ~ZipReads(zip) \/ disk[Csr(d)].is # "request" THEN {}
      ELSE UNION {set(tree.files[p]) : p \in Matching(d, tree)}

\* Mutant: the second issuer slot is left as it is when there is only one issuer.
OnlyWhatIsSent(d, set) ==
  <<InPlace(Opr(d), set.opr)>> \o [n \in DOMAIN set.issuers |-> InPlace(Iss(n), set.issuers[n])]

\* One issuer fills both slots.
ResponseWrites(d, set) ==
  <<InPlace(Opr(d), set.opr), InPlace(Iss(1), set.issuers[1]), InPlace(Iss(2), Last(set.issuers))>>

ImportCariResponse(d, zip) ==
  /\ import = NoImport /\ ("overlap" \in Faults \/ step = "off")
  /\ \E port \in ResolveNodeCertPaths(d) : \E set \in ReadCariResponse(port, zip) :
       import' = [writes |-> ResponseWrites(port, set), set |-> set]
  /\ installed' = <<>>
  /\ UNCHANGED <<disk, process, sent, newest, made, outcome, vmac>>

ImportWrite ==
  /\ import # NoImport
  /\ disk' = Made(Head(import.writes))
  /\ IF Len(import.writes) = 1
     THEN import' = NoImport /\ installed' = <<import.set>>
     ELSE import' = [import EXCEPT !.writes = Tail(@)] /\ UNCHANGED installed
  /\ UNCHANGED <<process, sent, newest, made, outcome, vmac>>

\* Stopped, or the next file cannot be opened.
ImportEnds ==
  /\ import # NoImport
  /\ \/ "stop" \in Faults /\ disk' \in Stopped(import.writes)
     \/ "open" \in Faults /\ UNCHANGED disk
  /\ import' = NoImport
  /\ UNCHANGED <<process, sent, newest, made, history>>

-----------------------------------------------------------------------------
Next ==
  \/ \E d \in Instance : Start(d)
  \/ ReconcilePendingKey \/ EnsureNodeRequest \/ Certificates
  \/ LoadOrCreateDeviceUuid \/ GoOnline
  \/ GenerateKeyAndCsr \/ \E k \in 1 .. MaxKey, a \in Ca : Activate(k, a)
  \/ Write \/ WriteFails \/ Stop
  \/ SendRequest \/ DeleteRequest \/ ProtectKey
  \/ \E d \in Instance, k \in sent : \E zip \in Responses[k] : ImportCariResponse(d, zip)
  \/ ImportWrite \/ ImportEnds

Spec == Init /\ [][Next]_vars

-----------------------------------------------------------------------------
(* Properties *)

\* What a file holds when n key pairs have been made.
Keys(n)     == [is : {"key"}, key : 1 .. n, locked : BOOLEAN]
Requests(n) == {Request(k) : k \in 1 .. n}
Certs(n)    == {Cert(k, a) : k \in 1 .. n, a \in Ca}
Zips(n)     == [is : {"zip"}, folder : Instance, csr : Requests(n)]
Uuids       == [is : {"uuid"}, uuid : 1 .. MaxUuid]
Whole(f, n) ==
  CASE f[1] \in {"key", "pending"} -> Keys(n)
    [] f[1] = "csr"    -> Requests(n)
    [] f[1] = "opr"    -> Certs(n)
    [] f[1] = "issuer" -> Authorities
    [] f[1] = "zip"    -> Zips(n)
    [] f[1] = "uuid"   -> Uuids

TypeOK ==
  /\ disk = [f \in File |-> disk[f]] /\ \A f \in File : disk[f] \in Whole(f, newest) \cup {Absent, Torn}
  /\ step \in {"off", "reconcile", "request", "writing", "certificates", "identity", "online", "up"}
  /\ {instance, folder} \subseteq Instance \cup {NoInstance} /\ unlocked \in BOOLEAN
  /\ todo # <<>> <=> step = "writing"
  /\ sent \subseteq 1 .. newest /\ newest \in 0 .. MaxKey /\ made \in 0 .. MaxUuid
  /\ outcome.request \in {"none", "AlreadyExists", "Created", "Failed"}

\* A certificate on disk has its key beside it, in use or pending, in whatever
\* order requests, renewals, imports and stops come (cert_tool.cpp 432, "the
\* private key is never replaced").
CertificateHasItsKey ==
  \A d \in Instance : disk[Opr(d)].is = "certificate" =>
    KeyOf(Opr(d)) \in {KeyOf(Key(d)), KeyOf(Pending)}

\* After an import the device trusts the issuers of that answer and no other,
\* whatever an earlier import that was cut short left there, and the certificate
\* is one of theirs (cert_tool.cpp 502-511).
TrustIsWhatTheCaSent ==
  installed # <<>> =>
    /\ {disk[Iss(1)], disk[Iss(2)]} = ToSet(installed[1].issuers)
    /\ Authority(installed[1].opr.ca) \in {disk[Iss(1)], disk[Iss(2)]}
    /\ \E d \in Instance : disk[Opr(d)] = installed[1].opr

\* The request archive is legal, and its answer can be installed as long as no
\* later request was made - also when the device is started under another instance.
RequestCanBeAnswered ==
  disk[RequestZip].is = "zip" =>
    LET tree == ReadZip(Archive)
    IN  /\ ZipReads(Archive) /\ Validate(tree, FALSE)
        /\ \A f \in CsrFiles(tree), d \in Instance : \A port \in ResolveNodeCertPaths(d) :
             /\ tree.files[f].key <= KeyOf(Csr(port))
             /\ tree.files[f].key = KeyOf(Csr(port)) =>
                  \A a \in Ca : ReadCariResponse(port,
                     Response(At(OprPath(f), Cert(tree.files[f].key, a)), <<Authority(a)>>)) # {}

\* Only a first start that was cut short leaves a device that cannot make its
\* request any more (cert_tool.cpp 440-446).
FailsOnlyAfterACut == outcome.request = "Failed" => outcome.cut

\* The device keeps the UUID it was first seen with, through every start
\* (ScNode.cpp 87, "must stay the same across restarts").
IdentityIsKept == Cardinality(vmac) <= 1
=============================================================================
