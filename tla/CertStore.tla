----------------------------- MODULE CertStore ------------------------------
(***************************************************************************)
(* The BACnet/SC certificate files and the clause 19.8.3 procedures on     *)
(* them (sc/cert_store.cpp, the certificate part of sc/ScNode.cpp).  A     *)
(* client stages new files, ACTIVATE_CHANGES validates the staged set and  *)
(* replaces the files one rename at a time, GENERATE_CSR_FILE makes a      *)
(* pending key and a signing request, and the main loop then reloads TLS.  *)
(* Every step that changes the disk is an action of its own, so the        *)
(* process can stop, or a file operation fail, between any two of them;    *)
(* the start-up path (PrepareCertificates) then works with what it finds.  *)
(***************************************************************************)
EXTENDS Naturals, Sequences, SequencesExt

CONSTANTS
  Ca,        \* certificate authorities
  MaxKey,    \* bound: key pairs the device ever has
  Faults,    \* what may go wrong, a subset of AnyFault
  Absent,    \* a file that does not exist
  Garbled,   \* an issuer file that is not only PEM certificates
  Unusable,  \* an operational file without a first end-entity certificate
  NotStaged, NoTls

AnyFault == {"crash",    \* the process stops
             "temp",     \* a temp file cannot be written
             "replace",  \* a temp file cannot be renamed into place
             "promote",  \* the pending key cannot be renamed
             "bundle"}   \* trusted-issuers.pem cannot be replaced

Key   == 1 .. MaxKey
NoKey == 0
Cert  == [key : Key, ca : Ca]

Issuer == {"issuer1", "issuer2"}
File   == {"operational"} \cup Issuer

\* What the bytes of a file amount to.  An empty issuer file holds no certificate.
Contents(f) == IF f = "operational" THEN Cert \cup {Unusable} ELSE (SUBSET Ca) \cup {Garbled}
Context     == [cert : Cert, key : Key, trust : SUBSET Ca]

\* What stands for no file, no stage, no context and unusable contents is none of the rest.
ASSUME CertStoreAssumption ==
  /\ MaxKey \in Nat \ {0}
  /\ Faults \subseteq AnyFault
  /\ Absent # NotStaged /\ \A f \in File : \A c \in Contents(f) : c \notin {Absent, NotStaged}
  /\ \A c \in Cert : c # Unusable
  /\ \A t \in SUBSET Ca : t # Garbled
  /\ \A c \in Context : c # NoTls

VARIABLES
  step,        \* what the process is doing; "down" when it is not running
  disk,        \* the certificate files
  privateKey,  \* the key in the operational certificate's key file
  pendingKey,  \* the key in the pending key file, or NoKey
  csr,         \* the key the Certificate Signing Request file is for
  bundle,      \* trusted-issuers.pem
  staged,      \* g_staged
  promotes,    \* g_commitPromotesPendingKey
  todo,        \* CommitStaged's paths that are still to be renamed
  reload,      \* g_reloadCredentialsRequested
  tls,         \* what the libwebsockets context was loaded with, or NoTls
  newest,      \* the last key pair generated
  requested,   \* keys whose request was on disk: a CA may have signed them
  request      \* history: the activation, its files before and as validated

files  == <<disk, privateKey, pendingKey, csr, bundle>>
memory == <<staged, promotes, todo, reload, tls>>
vars   == <<step, files, memory, newest, requested, request>>

Nothing == [f \in File |-> NotStaged]

\* The bytes a File object serves: issuer 2 serves issuer 1 until it has its own.
Own(f)  == IF staged[f] = NotStaged THEN disk[f] ELSE staged[f]
Read(f) == IF Own(f) = Absent THEN Own("issuer1") ELSE Own(f)
Effective == [f \in File |-> Read(f)]

\* Every issuer certificate that parses.
Issuers(d) == UNION {d[f] : f \in {i \in Issuer : d[i] \notin {Absent, Garbled}}}

Idle == [answer |-> "none", before |-> Nothing, key |-> NoKey, wanted |-> Nothing]

TypeOK ==
  /\ step \in {"up", "replacing", "promoting", "bundling", "savingKey", "savingCsr",
               "down", "starting"}
  /\ disk = [f \in File |-> disk[f]]
  /\ \A f \in File : disk[f] \in Contents(f) \cup (IF f = "issuer2" THEN {Absent} ELSE {})
  /\ privateKey \in Key /\ pendingKey \in Key \cup {NoKey} /\ csr \in Key
  /\ bundle \in SUBSET Ca
  /\ staged = [f \in File |-> staged[f]]
  /\ \A f \in File : staged[f] \in Contents(f) \cup {NotStaged}
  /\ promotes \in BOOLEAN /\ reload \in BOOLEAN
  /\ todo \in Seq(File) /\ Len(todo) <= 3 /\ (todo # <<>> <=> step = "replacing")
  /\ tls = NoTls \/ tls \in Context
  /\ newest \in Key /\ requested \subseteq 1 .. newest
  /\ request.answer \in {"none", "nothing to do", "asked", "accepted", "refused"}

\* A device commissioned with one key, its certificate and one issuer.
Init ==
  /\ step = "down"
  /\ \E a \in Ca : disk = [operational |-> [key |-> 1, ca |-> a],
                           issuer1 |-> {a}, issuer2 |-> Absent]
  /\ privateKey = 1 /\ pendingKey = NoKey /\ csr = 1 /\ bundle = {}
  /\ staged = Nothing /\ promotes = FALSE /\ todo = <<>> /\ reload = FALSE
  /\ tls = NoTls /\ newest = 1 /\ requested = {1} /\ request = Idle

-----------------------------------------------------------------------------
(* Writing the certificate files *)

\* The staged copy is made before the write is looked at.
Stage(f, contents) ==
  /\ step = "up"
  /\ staged' = [staged EXCEPT ![f] = contents]
  /\ request' = Idle
  /\ UNCHANGED <<step, files, promotes, todo, reload, tls, newest, requested>>

\* AtomicWriteFile, a chunk at a time: what is there so far may be any contents
\* made of certificates a CA can have issued.
Write(f) ==
  \E c \in Contents(f) :
    /\ (f = "operational" /\ c # Unusable) => c.key \in requested
    /\ Stage(f, c)

\* A bad start position or a full file: refused, but staged all the same.
WriteRefused(f) == staged[f] = NotStaged /\ Stage(f, Read(f))

\* File_Size: cut back to what its first octets hold, or padded with zero octets.
Resized(f) ==
  IF f = "operational" THEN {Read(f), Unusable}
  ELSE {Garbled} \cup (IF Read(f) = Garbled THEN SUBSET Ca ELSE SUBSET Read(f))
Resize(f) == \E c \in Resized(f) : Stage(f, c)

DiscardStaged ==
  /\ step = "up"
  /\ staged' = Nothing /\ promotes' = FALSE /\ request' = Idle
  /\ UNCHANGED <<step, files, todo, reload, tls, newest, requested>>

-----------------------------------------------------------------------------
(* ReinitializeDevice ACTIVATE_CHANGES or WARMSTART: ApplyStagedCertificates *)

HasStagedChanges == staged # Nothing

CertFor(k) == Effective["operational"] # Unusable /\ Effective["operational"].key = k
\* Mutant: the staged certificate is not checked against the pending key.
ForAnyOtherKey == ~CertFor(privateKey) /\ pendingKey # NoKey

\* Mutant: nor is there a check that a pending key exists.
ForNotTheCurrentKey == ~CertFor(privateKey)

ForPendingKey == ~CertFor(privateKey) /\ pendingKey # NoKey /\ CertFor(pendingKey)

\* Mutant: an issuer file that does not parse is passed over, as the bundle does.
IssuersParseSome == Issuers(Effective) # {}

IssuersParse == /\ \A f \in Issuer : Effective[f] # Garbled
                /\ Issuers(Effective) # {}
\* Mutant: the certificate is not verified against the issuers.
VerifiesUnchained(d) == d["operational"] # Unusable

Verifies(d) == d["operational"] # Unusable /\ d["operational"].ca \in Issuers(d)

\* The files as they would be after the commit.
Valid == IssuersParse /\ Verifies(Effective) /\ (CertFor(privateKey) \/ ForPendingKey)

IfStaged(f) == IF staged[f] = NotStaged THEN <<>> ELSE <<f>>
Paths == IfStaged("operational") \o IfStaged("issuer1") \o IfStaged("issuer2")

Answer(a) == request' = [answer |-> a, before |-> request.before, key |-> request.key,
                         wanted |-> request.wanted]
Asked(a)  == request' = [answer |-> a, before |-> disk, key |-> privateKey, wanted |-> Effective]

\* Nothing is staged: accepted as it is.
ActivateNothing ==
  /\ step = "up" /\ ~HasStagedChanges
  /\ Asked("nothing to do")
  /\ UNCHANGED <<step, files, memory, newest, requested>>

\* Refused by ValidateStaged.
ActivateInvalid ==
  /\ step = "up" /\ HasStagedChanges /\ ~Valid
  /\ promotes' = IF IssuersParse /\ Effective["operational"] # Unusable THEN ForPendingKey ELSE promotes
  /\ Asked("refused")
  /\ UNCHANGED <<step, files, staged, todo, reload, tls, newest, requested>>

\* Mutant: each file is renamed as soon as its temp file is written, and a later
\* temp file cannot be written.
ActivateFileByFile ==
  /\ step = "up" /\ HasStagedChanges /\ Valid /\ "temp" \in Faults
  /\ promotes' = ForPendingKey
  /\ disk' = [disk EXCEPT ![Head(Paths)] = staged[Head(Paths)]]
  /\ Asked("refused")
  /\ UNCHANGED <<step, privateKey, pendingKey, csr, bundle, staged, todo, reload, tls,
                 newest, requested>>

\* Validated, but a temp file cannot be written.
ActivateNoTempFiles ==
  /\ step = "up" /\ HasStagedChanges /\ Valid /\ "temp" \in Faults
  /\ promotes' = ForPendingKey
  /\ Asked("refused")
  /\ UNCHANGED <<step, files, staged, todo, reload, tls, newest, requested>>

\* Validated, and every staged file is in its temp file.
Activate ==
  /\ step = "up" /\ HasStagedChanges /\ Valid
  /\ promotes' = ForPendingKey
  /\ step' = "replacing" /\ todo' = Paths
  /\ Asked("asked")
  /\ UNCHANGED <<files, staged, reload, tls, newest, requested>>

Replace ==
  /\ step = "replacing"
  /\ disk' = [disk EXCEPT ![Head(todo)] = staged[Head(todo)]]
  /\ todo' = Tail(todo)
  /\ IF todo' = <<>>
     THEN staged' = Nothing /\ step' = IF promotes THEN "promoting" ELSE "bundling"
     ELSE UNCHANGED <<staged, step>>
  /\ UNCHANGED <<privateKey, pendingKey, csr, bundle, promotes, reload, tls,
                 newest, requested, request>>

\* Mutant: the stage is dropped.
ReplaceFailsUnstaged ==
  /\ step = "replacing" /\ "replace" \in Faults
  /\ step' = "up" /\ todo' = <<>>
  /\ staged' = Nothing
  /\ Answer("refused")
  /\ UNCHANGED <<files, promotes, reload, tls, newest, requested>>

\* Keeps the stage, so activating again retries.
ReplaceFails ==
  /\ step = "replacing" /\ "replace" \in Faults
  /\ step' = "up" /\ todo' = <<>>
  /\ Answer("refused")
  /\ UNCHANGED <<files, staged, promotes, reload, tls, newest, requested>>

\* Mutant: the pending key is copied, not moved.
CopyPendingKey == privateKey' = pendingKey /\ UNCHANGED pendingKey

PromotePendingKey == privateKey' = pendingKey /\ pendingKey' = NoKey

Promote ==
  /\ step = "promoting" /\ step' = "bundling"
  /\ PromotePendingKey /\ promotes' = FALSE
  /\ UNCHANGED <<disk, csr, bundle, staged, todo, reload, tls, newest, requested, request>>

\* The stage is gone already; only a later activation or a restart swaps the key.
PromoteFails ==
  /\ step = "promoting" /\ "promote" \in Faults
  /\ step' = "up"
  /\ Answer("refused")
  /\ UNCHANGED <<files, memory, newest, requested>>

\* Mutant: TLS is not told.
WriteBundleOnly(written) ==
  /\ step = "bundling" /\ step' = "up"
  /\ IF written THEN bundle' = Issuers(disk) ELSE "bundle" \in Faults /\ UNCHANGED bundle
  /\ Answer("accepted")
  /\ UNCHANGED <<disk, privateKey, pendingKey, csr, staged, promotes, todo, reload, tls,
                 newest, requested>>

\* Whether or not the bundle is refreshed, the request is accepted.
WriteTrustedIssuerBundle(written) ==
  /\ step = "bundling" /\ step' = "up"
  /\ IF written THEN bundle' = Issuers(disk) ELSE "bundle" \in Faults /\ UNCHANGED bundle
  /\ reload' = TRUE
  /\ Answer("accepted")
  /\ UNCHANGED <<disk, privateKey, pendingKey, csr, staged, promotes, todo, tls, newest, requested>>

-----------------------------------------------------------------------------
(* Network Port Command GENERATE_CSR_FILE *)

\* Refused while anything is staged; a temp file that cannot be written changes
\* nothing.  (A key pair whose files never reach the disk is a spent number.)
GenerateKeyAndCsr ==
  /\ step = "up" /\ ~HasStagedChanges /\ Effective["operational"] # Unusable
  /\ newest < MaxKey
  /\ newest' = newest + 1
  /\ step' = "savingKey" /\ request' = Idle
  /\ UNCHANGED <<files, memory, requested>>

SavePendingKey ==
  /\ step = "savingKey" /\ step' = "savingCsr"
  /\ pendingKey' = newest
  /\ UNCHANGED <<disk, privateKey, csr, bundle, memory, newest, requested, request>>

SaveCsr ==
  /\ step = "savingCsr" /\ step' = "up"
  /\ csr' = newest /\ requested' = requested \cup {newest}
  /\ UNCHANGED <<disk, privateKey, pendingKey, bundle, memory, newest, request>>

SaveFails ==
  /\ step \in {"savingKey", "savingCsr"} /\ "replace" \in Faults
  /\ step' = "up"
  /\ UNCHANGED <<files, memory, newest, requested, request>>

-----------------------------------------------------------------------------
(* The main loop's ScNode::Service, a stop at any point, and the start-up path *)

\* libwebsockets loads the certificate only with its own key.
Loaded(trust) ==
  IF disk["operational"] # Unusable /\ disk["operational"].key = privateKey
  THEN [cert |-> disk["operational"], key |-> privateKey, trust |-> trust]
  ELSE NoTls

ReloadCredentials ==
  /\ step = "up" /\ reload
  /\ reload' = FALSE /\ tls' = Loaded(bundle)
  /\ UNCHANGED <<step, files, staged, promotes, todo, newest, requested, request>>

Crash ==
  /\ step # "down" /\ "crash" \in Faults
  /\ step' = "down"
  /\ staged' = Nothing /\ promotes' = FALSE /\ todo' = <<>> /\ reload' = FALSE
  /\ tls' = NoTls /\ request' = Idle
  /\ UNCHANGED <<files, newest, requested>>

\* PrepareCertificates begins with the key swap an activation did not finish.
UnfinishedSwap ==
  /\ disk["operational"] # Unusable /\ pendingKey # NoKey
  /\ disk["operational"].key # privateKey /\ disk["operational"].key = pendingKey

ReconcilePendingKey ==
  /\ step = "down" /\ step' = "starting"
  /\ IF UnfinishedSwap
     THEN PromotePendingKey \/ ("promote" \in Faults /\ UNCHANGED <<privateKey, pendingKey>>)
     ELSE UNCHANGED <<privateKey, pendingKey>>
  /\ UNCHANGED <<disk, csr, bundle, memory, newest, requested, request>>

\* Without an issuer to trust, or a certificate with its key, the program ends.
Start ==
  /\ step = "starting"
  /\ Issuers(disk) # {} /\ Loaded(Issuers(disk)) # NoTls
  /\ bundle' = Issuers(disk) /\ tls' = Loaded(bundle') /\ step' = "up"
  /\ UNCHANGED <<disk, privateKey, pendingKey, csr, staged, promotes, todo, reload,
                 newest, requested, request>>

StartFails ==
  /\ step = "starting" /\ step' = "down"
  /\ \/ Issuers(disk) = {} /\ UNCHANGED bundle
     \/ "bundle" \in Faults /\ UNCHANGED bundle
     \/ Issuers(disk) # {} /\ Loaded(Issuers(disk)) = NoTls /\ bundle' = Issuers(disk)
  /\ UNCHANGED <<disk, privateKey, pendingKey, csr, memory, newest, requested, request>>

Client ==
  \/ \E f \in File : Write(f) \/ WriteRefused(f) \/ Resize(f)
  \/ DiscardStaged
  \/ ActivateNothing \/ ActivateInvalid \/ ActivateNoTempFiles \/ Activate
  \/ GenerateKeyAndCsr

Commit == Replace \/ ReplaceFails \/ Promote \/ PromoteFails
          \/ \E written \in BOOLEAN : WriteTrustedIssuerBundle(written)

Next ==
  \/ Client \/ Commit
  \/ SavePendingKey \/ SaveCsr \/ SaveFails
  \/ ReloadCredentials
  \/ Crash \/ ReconcilePendingKey \/ Start \/ StartFails

Spec == Init /\ [][Next]_vars

-----------------------------------------------------------------------------
(* Properties *)

\* The certificate on disk always has its key beside it: in use, or pending and
\* so within reach of ReconcilePendingKey - wherever the process stops between
\* the renames of CommitStaged (cert_store.cpp 521-536).
KeyIsAtHand == disk["operational"].key \in {privateKey, pendingKey}

\* A running device uses exactly what is on its disk: the certificate with its
\* key, and all issuers - as soon as no reload is pending (ScNode.cpp Service).
RunsOnWhatIsOnDisk ==
  step = "up" /\ ~reload =>
    tls = [cert |-> disk["operational"], key |-> privateKey, trust |-> Issuers(disk)]

\* "the request is refused and nothing changes" (main.cpp 1745).
RefusedMeansUnchanged ==
  request.answer = "refused" => disk = request.before /\ privateKey = request.key

\* An accepted activation left the disk as ValidateStaged saw it, stage and key
\* swap included: what is on disk verifies and belongs to the key in use, though
\* two requests may be served before the main loop reloads.
AcceptedMeansInstalled ==
  request.answer = "accepted" =>
    /\ ~HasStagedChanges /\ Effective = request.wanted
    /\ disk["operational"].key = privateKey /\ disk["operational"].ca \in Issuers(disk)

\* Whatever failed, nothing a client wrote is lost by a refused activation:
\* activating again still aims at the same files (CommitStaged, "keeps the stage,
\* so activating again retries").
RefusedKeepsTheWrites == request.answer = "refused" => Effective = request.wanted

\* A half-written or unparsable file never replaces one on disk, where a restart
\* would load it (cert_store.h 33-36).
OnlyParsedFilesOnDisk ==
  disk["operational"] # Unusable /\ \A f \in Issuer : disk[f] # Garbled

-----------------------------------------------------------------------------
(* The rename of the operational certificate is the step that changes the pair:
   from then on the pending key is as good as promoted. *)
Swapped == disk["operational"].key # privateKey

Custody == INSTANCE KeyCustody WITH
  cert    <- disk["operational"],
  key     <- IF Swapped THEN pendingKey ELSE privateKey,
  offered <- IF Swapped THEN NoKey ELSE pendingKey

\* With stops at any point, but no failing rename, the pair changes atomically.
KeysChangeWithCertificates == Custody!Spec
=============================================================================
