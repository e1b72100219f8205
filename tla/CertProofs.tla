----------------------------- MODULE CertProofs -----------------------------
(***************************************************************************)
(* What CertStore promises, for every set of authorities, any number of    *)
(* key pairs and any stop: nothing unparsable reaches the disk, a refused  *)
(* activation loses nothing, the certificate and its key change together.  *)
(***************************************************************************)
EXTENDS CertStore, SequenceTheorems, TLAPS

-----------------------------------------------------------------------------
(* The inductive invariants *)

\* While files are renamed into place: those to come are staged, the operational
\* certificate the first of them if at all; the other staged ones are in place.
Remaining ==
  step = "replacing" =>
    /\ \A i \in DOMAIN todo : staged[todo[i]] # NotStaged /\ (i > 1 => todo[i] # "operational")
    /\ \A f \in File : staged[f] # NotStaged => disk[f] = staged[f] \/ \E i \in DOMAIN todo : todo[i] = f

\* What is renamed into place parses.
ParsedOnly ==
  step = "replacing" => staged["operational"] # Unusable /\ \A f \in Issuer : staged[f] # Garbled

\* From the validation on, whatever is answered, a File object serves what was validated.
Aimed == request.answer # "none" => Effective = request.wanted

\* The stage is gone when the last file is in place.
Unstaged == step \in {"promoting", "bundling"} => staged = Nothing

\* A key that is to be promoted is there, and another than the one in use.
Promising ==
  /\ step = "promoting" => promotes
  /\ step \in {"replacing", "promoting"} /\ promotes => pendingKey # NoKey /\ pendingKey # privateKey

\* A request is being carried out, or it is answered and the client can ask again.
Answering ==
  /\ step \in {"replacing", "promoting", "bundling"} => request.answer = "asked"
  /\ request.answer \in {"accepted", "refused"} => step = "up"
  /\ step = "bundling" \/ request.answer = "accepted" => staged = Nothing

\* The set being put in place belongs together.
Commitable ==
  /\ step \in {"replacing", "promoting", "bundling"} => Verifies(Effective)
  /\ request.answer = "accepted" => Verifies(Effective)

\* Whether the operational certificate is in place, and which key it is for then.
InPlace == ~ \E i \in DOMAIN todo : todo[i] = "operational"
NewKey  == IF promotes THEN pendingKey ELSE privateKey

\* Which key the certificate on disk is for.
DiskKey == disk["operational"].key
Pair ==
  /\ step \in {"up", "bundling", "savingKey", "savingCsr", "starting"} => DiskKey = privateKey
  /\ step = "replacing" =>
       IF InPlace THEN DiskKey = NewKey
       ELSE DiskKey = privateKey /\ staged["operational"].key = NewKey
  /\ step = "promoting" => DiskKey = pendingKey
  /\ step = "down" => DiskKey \in {privateKey, pendingKey}

\* Key pairs are numbered as they are generated.
Fresh ==
  /\ privateKey <= newest /\ pendingKey <= newest
  /\ step = "savingKey" => privateKey < newest

\* What TLS was loaded with, and what it would be loaded with.
Serving ==
  step \in {"up", "savingKey", "savingCsr"} =>
    /\ bundle = Issuers(disk)
    /\ ~reload => tls = [cert |-> disk["operational"], key |-> privateKey, trust |-> Issuers(disk)]

\* A refusal happens with nothing renamed.
NothingRenamed == request.answer = "refused" => disk = request.before /\ privateKey = request.key

-----------------------------------------------------------------------------
(* Files and what they hold *)

LEMMA Names ==
  /\ File = {"operational", "issuer1", "issuer2"} /\ Issuer = {"issuer1", "issuer2"}
  /\ Issuer \subseteq File /\ \A f \in Issuer : f # "operational"
PROOF BY DEF File, Issuer

LEMMA Distinct ==
  /\ \A f \in File : Absent \notin Contents(f) /\ NotStaged \notin Contents(f)
  /\ Absent # NotStaged /\ Unusable \notin Cert /\ Garbled \notin SUBSET Ca /\ NoTls \notin Context
PROOF BY CertStoreAssumption

LEMMA Keys == MaxKey \in Nat /\ MaxKey >= 1 /\ NoKey \notin Key /\ 1 \in Key
PROOF BY CertStoreAssumption DEF Key, NoKey

LEMMA Joined ==
  \A a, b, c : /\ (<<>> \o <<b>>) \o <<c>> = <<b, c>> /\ (<<a>> \o <<>>) \o <<c>> = <<a, c>>
               /\ (<<a>> \o <<b>>) \o <<>> = <<a, b>> /\ (<<a>> \o <<b>>) \o <<c>> = <<a, b, c>>
PROOF
<1> TAKE a, b, c
<1> DEFINE S == {a, b, c}
<1>1. <<>> \o <<b>> = <<b>> /\ <<a>> \o <<>> = <<a>> /\ <<a, b>> \o <<>> = <<a, b>>
  <2>1. <<b>> \in Seq(S) /\ <<a>> \in Seq(S) /\ <<a, b>> \in Seq(S)
    OBVIOUS
  <2> HIDE DEF S
  <2> QED
    BY <2>1, ConcatEmptySeq
<1>2. ASSUME NEW q \in Seq(S), NEW x \in S
      PROVE  q \o <<x>> = Append(q, x)
  BY <1>2, AppendIsConcat
<1>3. <<a>> \o <<b>> = Append(<<a>>, b) /\ <<b>> \o <<c>> = Append(<<b>>, c)
      /\ <<a>> \o <<c>> = Append(<<a>>, c) /\ <<a, b>> \o <<c>> = Append(<<a, b>>, c)
  <2>1. <<a>> \in Seq(S) /\ <<b>> \in Seq(S) /\ <<a, b>> \in Seq(S) /\ b \in S /\ c \in S
    OBVIOUS
  <2> HIDE DEF S
  <2> QED
    BY <2>1, <1>2
\* Sequences of the same length and elements are the same.
<1>4. ASSUME NEW x \in S, NEW y \in S
      PROVE  Append(<<x>>, y) = <<x, y>>
  <2>1. <<x>> \in Seq(S) /\ Len(<<x>>) = 1 /\ <<x>>[1] = x
    BY <1>4
  <2>2. <<x, y>> \in Seq(S) /\ Len(<<x, y>>) = 2 /\ <<x, y>>[1] = x /\ <<x, y>>[2] = y
    BY <1>4
  <2> DEFINE q == Append(<<x>>, y)
             r == <<x, y>>
  <2>3. q \in Seq(S) /\ Len(q) = 2 /\ q[1] = x /\ q[2] = y
    BY <1>4, <2>1, AppendProperties
  <2> HIDE DEF q, r, S
  <2>4. r \in Seq(S) /\ Len(r) = 2 /\ r[1] = x /\ r[2] = y
    BY <2>2 DEF r
  <2>5. \A i \in 1 .. Len(q) : q[i] = r[i]
    BY <2>3, <2>4
  <2>6. q = r
    BY <2>3, <2>4, <2>5, SeqEqual
  <2> QED
    BY <2>6 DEF q, r
<1>5. a \in S /\ b \in S /\ c \in S
  OBVIOUS
<1>6. ASSUME NEW p \in Seq(S), NEW x \in S
      PROVE  /\ Append(p, x) \in Seq(S) /\ Len(Append(p, x)) = Len(p) + 1
             /\ Append(p, x)[Len(p) + 1] = x /\ \A i \in 1 .. Len(p) : Append(p, x)[i] = p[i]
  BY <1>6, AppendProperties
<1>7. Append(<<a, b>>, c) = <<a, b, c>>
  <2> DEFINE p == <<a, b>>
             q == Append(p, c)
             r == <<a, b, c>>
  <2>1. p \in Seq(S) /\ Len(p) = 2 /\ p[1] = a /\ p[2] = b
    OBVIOUS
  <2>2. r \in Seq(S) /\ Len(r) = 3 /\ r[1] = a /\ r[2] = b /\ r[3] = c
    OBVIOUS
  <2> HIDE DEF p, r, S
  <2>3. q \in Seq(S) /\ Len(q) = 3 /\ q[1] = a /\ q[2] = b /\ q[3] = c
    <3>1. q \in Seq(S) /\ Len(q) = Len(p) + 1 /\ q[Len(p) + 1] = c /\ \A i \in 1 .. Len(p) : q[i] = p[i]
      BY <1>5, <2>1, <1>6
    <3> HIDE DEF q
    <3> QED
      BY <2>1, <3>1
  <2> HIDE DEF q
  <2>4. \A i \in 1 .. Len(q) : q[i] = r[i]
    BY <2>2, <2>3
  <2>5. q = r
    BY <2>2, <2>3, <2>4, SeqEqual
  <2> QED
    BY <2>5 DEF p, q, r
<1> HIDE DEF S
<1> QED
  BY <1>1, <1>3, <1>4, <1>5, <1>7

\* The paths CommitStaged collects are those of the staged files, each once, the
\* operational certificate's before the issuers'.
LEMMA PathsFacts ==
  /\ Paths \in Seq(File) /\ Len(Paths) <= 3
  /\ Paths = <<>> <=> \A f \in File : staged[f] = NotStaged
  /\ \A i \in DOMAIN Paths : staged[Paths[i]] # NotStaged /\ (i > 1 => Paths[i] # "operational")
  /\ \A f \in File : staged[f] # NotStaged => \E i \in DOMAIN Paths : Paths[i] = f
PROOF
<1> USE Names
<1>1. CASE staged["operational"] = NotStaged
  <2>1. CASE staged["issuer1"] = NotStaged /\ staged["issuer2"] = NotStaged
    <3>1. Paths = <<>>
      BY <1>1, <2>1 DEF Paths, IfStaged
    <3> QED
      BY <1>1, <2>1, <3>1
  <2>2. CASE staged["issuer1"] = NotStaged /\ staged["issuer2"] # NotStaged
    <3>1. Paths = <<"issuer2">>
      BY <1>1, <2>2 DEF Paths, IfStaged
    <3> QED
      BY <1>1, <2>2, <3>1
  <2>3. CASE staged["issuer1"] # NotStaged /\ staged["issuer2"] = NotStaged
    <3>1. Paths = <<"issuer1">>
      BY <1>1, <2>3 DEF Paths, IfStaged
    <3> QED
      BY <1>1, <2>3, <3>1
  <2>4. CASE staged["issuer1"] # NotStaged /\ staged["issuer2"] # NotStaged
    <3>1. Paths = <<"issuer1", "issuer2">>
      BY <1>1, <2>4, Joined DEF Paths, IfStaged
    <3> QED
      BY <1>1, <2>4, <3>1
  <2> QED
    BY <2>1, <2>2, <2>3, <2>4
<1>2. CASE staged["operational"] # NotStaged
  <2>1. CASE staged["issuer1"] = NotStaged /\ staged["issuer2"] = NotStaged
    <3>1. Paths = <<"operational">>
      BY <1>2, <2>1 DEF Paths, IfStaged
    <3> QED
      BY <1>2, <2>1, <3>1
  <2>2. CASE staged["issuer1"] = NotStaged /\ staged["issuer2"] # NotStaged
    <3>1. Paths = <<"operational", "issuer2">>
      BY <1>2, <2>2, Joined DEF Paths, IfStaged
    <3> QED
      BY <1>2, <2>2, <3>1
  <2>3. CASE staged["issuer1"] # NotStaged /\ staged["issuer2"] = NotStaged
    <3>1. Paths = <<"operational", "issuer1">>
      BY <1>2, <2>3, Joined DEF Paths, IfStaged
    <3> QED
      BY <1>2, <2>3, <3>1
  <2>4. CASE staged["issuer1"] # NotStaged /\ staged["issuer2"] # NotStaged
    <3>1. Paths = <<"operational", "issuer1", "issuer2">>
      BY <1>2, <2>4, Joined DEF Paths, IfStaged
    <3> QED
      BY <1>2, <2>4, <3>1
  <2> QED
    BY <2>1, <2>2, <2>3, <2>4
<1> QED
  BY <1>1, <1>2

\* A File object always serves contents of its kind.
LEMMA ReadTyped == TypeOK => \A f \in File : Read(f) \in Contents(f)
PROOF
<1> SUFFICES ASSUME TypeOK, NEW f \in File PROVE Read(f) \in Contents(f)
  OBVIOUS
<1>1. \A g \in File : Own(g) \in Contents(g) \cup (IF g = "issuer2" THEN {Absent} ELSE {})
  BY DEF TypeOK, Own
<1>2. CASE Own(f) # Absent
  BY <1>1, <1>2 DEF Read
<1>3. CASE Own(f) = Absent
  <2>1. f = "issuer2"
    BY <1>1, <1>3, Distinct
  <2>2. Own("issuer1") \in Contents("issuer1") /\ Contents("issuer1") = Contents("issuer2")
    BY <1>1, Names DEF Contents
  <2> QED
    BY <1>3, <2>1, <2>2 DEF Read
<1> QED
  BY <1>2, <1>3

LEMMA IssuersTyped ==
  ASSUME NEW d, \A f \in Issuer : d[f] \in (SUBSET Ca) \cup {Garbled, Absent}
  PROVE  Issuers(d) \in SUBSET Ca
PROOF BY DEF Issuers

LEMMA DiskTyped ==
  TypeOK => /\ disk["operational"] \in Cert \cup {Unusable}
            /\ \A f \in Issuer : disk[f] \in (SUBSET Ca) \cup {Garbled, Absent}
            /\ Issuers(disk) \in SUBSET Ca
            /\ disk["issuer1"] # Absent /\ disk["operational"] # Absent
PROOF
<1> SUFFICES ASSUME TypeOK
             PROVE  /\ disk["operational"] \in Cert \cup {Unusable}
                    /\ \A f \in Issuer : disk[f] \in (SUBSET Ca) \cup {Garbled, Absent}
                    /\ Issuers(disk) \in SUBSET Ca
                    /\ disk["issuer1"] # Absent /\ disk["operational"] # Absent
  OBVIOUS
<1>1. disk["operational"] \in Contents("operational") /\ disk["issuer1"] \in Contents("issuer1")
      /\ disk["issuer2"] \in Contents("issuer2") \cup {Absent}
  BY Names DEF TypeOK
<1>2. disk["operational"] \in Cert \cup {Unusable}
  BY <1>1 DEF Contents
<1>3. \A f \in Issuer : disk[f] \in (SUBSET Ca) \cup {Garbled, Absent}
  BY <1>1, Names DEF Contents
<1> QED
  BY <1>1, <1>2, <1>3, IssuersTyped, Distinct, Names

LEMMA LoadedTyped ==
  ASSUME TypeOK, NEW trust \in SUBSET Ca
  PROVE  Loaded(trust) = NoTls \/ Loaded(trust) \in Context
PROOF BY DiskTyped DEF Loaded, Context, TypeOK

-----------------------------------------------------------------------------
(* Types *)

LEMMA InitTyped == Init => TypeOK
PROOF
<1> SUFFICES ASSUME Init PROVE TypeOK
  OBVIOUS
<1> USE Names, Keys
<1>1. PICK a \in Ca : disk = [operational |-> [key |-> 1, ca |-> a], issuer1 |-> {a}, issuer2 |-> Absent]
  BY DEF Init
<1>2. [key |-> 1, ca |-> a] \in Cert
  BY DEF Cert
<1>3. /\ disk["operational"] = [key |-> 1, ca |-> a] /\ disk["issuer1"] = {a} /\ disk["issuer2"] = Absent
      /\ DOMAIN disk = File
  BY <1>1
<1>4. disk = [f \in File |-> disk[f]]
  BY <1>1
<1>5. \A f \in File : disk[f] \in Contents(f) \cup (IF f = "issuer2" THEN {Absent} ELSE {})
  BY <1>2, <1>3 DEF Contents
<1>6. /\ staged = [f \in File |-> staged[f]]
      /\ \A f \in File : staged[f] \in Contents(f) \cup {NotStaged}
  BY DEF Init, Nothing
<1>7. privateKey \in Key /\ pendingKey \in Key \cup {NoKey} /\ csr \in Key /\ bundle \in SUBSET Ca
  BY DEF Init
<1>8. todo \in Seq(File) /\ Len(todo) <= 3 /\ (todo # <<>> <=> step = "replacing")
  BY DEF Init
<1>9. newest \in Key /\ requested \subseteq 1 .. newest /\ request.answer = "none"
  BY DEF Init, Idle
<1> QED
  BY <1>4, <1>5, <1>6, <1>7, <1>8, <1>9 DEF Init, TypeOK

\* TypeOK in parts.
DiskOK   == /\ disk = [f \in File |-> disk[f]]
            /\ \A f \in File : disk[f] \in Contents(f) \cup (IF f = "issuer2" THEN {Absent} ELSE {})
StagedOK == /\ staged = [f \in File |-> staged[f]]
            /\ \A f \in File : staged[f] \in Contents(f) \cup {NotStaged}
KeysOK   == /\ privateKey \in Key /\ pendingKey \in Key \cup {NoKey} /\ csr \in Key
            /\ newest \in Key /\ requested \subseteq 1 .. newest
TodoOK   == todo \in Seq(File) /\ Len(todo) <= 3 /\ (todo # <<>> <=> step = "replacing")
StepOK   == step \in {"up", "replacing", "promoting", "bundling", "savingKey", "savingCsr",
                      "down", "starting"}
TlsOK    == bundle \in SUBSET Ca /\ (tls = NoTls \/ tls \in Context)
AnswerOK == request.answer \in {"none", "nothing to do", "asked", "accepted", "refused"}

LEMMA Parts == TypeOK <=> /\ DiskOK /\ StagedOK /\ KeysOK /\ TodoOK /\ StepOK /\ TlsOK /\ AnswerOK
                          /\ promotes \in BOOLEAN /\ reload \in BOOLEAN
PROOF BY DEF TypeOK, DiskOK, StagedOK, KeysOK, TodoOK, StepOK, TlsOK, AnswerOK

LEMMA PartsNext == TypeOK' <=> /\ DiskOK' /\ StagedOK' /\ KeysOK' /\ TodoOK' /\ StepOK' /\ TlsOK' /\ AnswerOK'
                               /\ promotes' \in BOOLEAN /\ reload' \in BOOLEAN
PROOF BY DEF TypeOK, DiskOK, StagedOK, KeysOK, TodoOK, StepOK, TlsOK, AnswerOK

\* What a step leaves alone keeps its type.
LEMMA Kept ==
  /\ DiskOK /\ disk' = disk => DiskOK'
  /\ StagedOK /\ (staged' = staged \/ staged' = Nothing) => StagedOK'
  /\ KeysOK /\ UNCHANGED <<privateKey, pendingKey, csr, newest, requested>> => KeysOK'
  /\ TodoOK /\ UNCHANGED <<todo, step>> => TodoOK'
  /\ TodoOK /\ todo' = todo /\ step # "replacing" /\ step' # "replacing" => TodoOK'
  /\ TlsOK /\ UNCHANGED <<bundle, tls>> => TlsOK'
PROOF BY DEF DiskOK, StagedOK, KeysOK, TodoOK, TlsOK, Nothing

\* Whatever the client writes, it stages contents of the file's kind.
LEMMA StageTyped ==
  ASSUME TypeOK, NEW f \in File, NEW c \in Contents(f), Stage(f, c)
  PROVE  TypeOK'
PROOF
<1>1. StagedOK'
  BY Parts DEF StagedOK, Stage
<1>2. AnswerOK' /\ StepOK'
  BY Parts DEF Stage, Idle, AnswerOK, StepOK
<1>3. DiskOK' /\ KeysOK' /\ TodoOK' /\ TlsOK'
  BY Parts, Kept DEF Stage, files
<1>4. promotes' \in BOOLEAN /\ reload' \in BOOLEAN
  BY DEF Stage, TypeOK
<1> QED
  BY <1>1, <1>2, <1>3, <1>4, PartsNext

\* Each kind of write is one to a file, of contents of its kind.
LEMMA WritesStage ==
  ASSUME TypeOK, NEW f \in File, Write(f) \/ WriteRefused(f) \/ Resize(f)
  PROVE  \E c \in Contents(f) : Stage(f, c)
PROOF
<1>1. CASE Write(f)
  BY <1>1 DEF Write
<1>2. CASE WriteRefused(f)
  BY <1>2, ReadTyped DEF WriteRefused
<1>3. CASE Resize(f)
  <2>1. \A c \in Resized(f) : c \in Contents(f)
    BY ReadTyped DEF Resized, Contents
  <2> QED
    BY <1>3, <2>1 DEF Resize
<1> QED
  BY <1>1, <1>2, <1>3

LEMMA ActivateTyped ==
  ASSUME TypeOK, DiscardStaged \/ ActivateNothing \/ ActivateInvalid \/ ActivateNoTempFiles
                 \/ Activate \/ GenerateKeyAndCsr
  PROVE  TypeOK'
PROOF
<1>a. DiskOK /\ StagedOK /\ KeysOK /\ TodoOK /\ StepOK /\ TlsOK /\ AnswerOK
      /\ promotes \in BOOLEAN /\ reload \in BOOLEAN
  BY Parts
<1>b. ForPendingKey \in BOOLEAN
  BY Zenon DEF ForPendingKey
<1>1. CASE DiscardStaged
  BY <1>1, <1>a, Kept, PartsNext DEF DiscardStaged, files, Idle, AnswerOK, StepOK
<1>2. CASE ActivateNothing
  BY <1>2, <1>a, Kept, PartsNext DEF ActivateNothing, files, memory, Asked, AnswerOK, StepOK
<1>3. ASSUME step' = step, UNCHANGED <<files, staged, todo, reload, tls, newest, requested>>,
             Asked("refused"), promotes' \in BOOLEAN
      PROVE  TypeOK'
  BY <1>3, <1>a, Kept, PartsNext DEF files, Asked, AnswerOK, StepOK
<1>4. CASE ActivateInvalid
  <2>1. promotes' = ForPendingKey \/ promotes' = promotes
    BY <1>4 DEF ActivateInvalid
  <2>2. promotes' \in BOOLEAN
    BY <2>1, <1>a, <1>b
  <2> QED
    BY <1>3, <1>4, <2>2 DEF ActivateInvalid
<1>5. CASE ActivateNoTempFiles
  <2>1. promotes' \in BOOLEAN
    BY <1>5, <1>b DEF ActivateNoTempFiles
  <2> QED
    BY <1>3, <1>5, <2>1 DEF ActivateNoTempFiles
<1>6. CASE Activate
  <2>1. promotes' \in BOOLEAN
    BY <1>6, <1>b DEF Activate
  <2>2. TodoOK' /\ StepOK'
    <3>1. \E f \in File : staged[f] # NotStaged
      BY <1>6, <1>a DEF Activate, HasStagedChanges, StagedOK, Nothing
    <3>2. Paths # <<>> /\ Paths \in Seq(File) /\ Len(Paths) <= 3
      BY <3>1, PathsFacts
    <3> QED
      BY <1>6, <3>2 DEF Activate, TodoOK, StepOK
  <2> QED
    BY <1>6, <1>a, <2>1, <2>2, Kept, PartsNext DEF Activate, files, Asked, AnswerOK
<1>7. CASE GenerateKeyAndCsr
  <2>1. KeysOK'
    BY <1>7, <1>a, Keys DEF GenerateKeyAndCsr, KeysOK, Key, files
  <2>2. TodoOK' /\ StepOK'
    BY <1>7, <1>a, Kept DEF GenerateKeyAndCsr, memory, StepOK
  <2> QED
    BY <1>7, <1>a, <2>1, <2>2, Kept, PartsNext DEF GenerateKeyAndCsr, files, memory, Idle, AnswerOK
<1> QED
  BY <1>1, <1>2, <1>4, <1>5, <1>6, <1>7

\* One rename puts the first path's staged contents in place.
LEMMA Renamed ==
  ASSUME TypeOK, Remaining, Replace
  PROVE  /\ todo # <<>> /\ todo[1] \in File /\ staged[todo[1]] # NotStaged
         /\ staged[todo[1]] \in Contents(todo[1])
         /\ disk' = [disk EXCEPT ![todo[1]] = staged[todo[1]]]
         /\ disk'[todo[1]] = staged[todo[1]] /\ \A g \in File : g # todo[1] => disk'[g] = disk[g]
         /\ todo' = Tail(todo) /\ todo' \in Seq(File) /\ Len(todo') = Len(todo) - 1
         /\ \A i \in DOMAIN todo' : i + 1 \in DOMAIN todo /\ todo'[i] = todo[i + 1]
         /\ \A i \in DOMAIN todo : i > 1 => i - 1 \in DOMAIN todo' /\ todo'[i - 1] = todo[i]
PROOF
<1> DEFINE h == todo[1]
<1>1. todo \in Seq(File) /\ todo # <<>> /\ step = "replacing"
  BY DEF Replace, TypeOK
<1>2. 1 \in DOMAIN todo /\ h \in File /\ Head(todo) = h
  BY <1>1
<1>3. staged[h] # NotStaged
  BY <1>1, <1>2 DEF Remaining
<1>4. staged[h] \in Contents(h)
  BY <1>2, <1>3 DEF TypeOK
<1>5. disk' = [disk EXCEPT ![h] = staged[h]]
  BY <1>2 DEF Replace
<1> HIDE DEF h
<1>6. disk'[h] = staged[h] /\ \A g \in File : g # h => disk'[g] = disk[g]
  BY <1>2, <1>5 DEF TypeOK
<1>7. todo' = Tail(todo)
  BY DEF Replace
<1>8. /\ todo' \in Seq(File) /\ Len(todo') = Len(todo) - 1
      /\ \A i \in DOMAIN todo' : i + 1 \in DOMAIN todo /\ todo'[i] = todo[i + 1]
      /\ \A i \in DOMAIN todo : i > 1 => i - 1 \in DOMAIN todo' /\ todo'[i - 1] = todo[i]
  BY <1>1, <1>7
<1> QED
  BY <1>1, <1>2, <1>3, <1>4, <1>5, <1>6, <1>7, <1>8 DEF h

LEMMA CommitTyped ==
  ASSUME TypeOK, Promising, Remaining, Commit
  PROVE  TypeOK'
PROOF
<1>a. DiskOK /\ StagedOK /\ KeysOK /\ TodoOK /\ StepOK /\ TlsOK /\ AnswerOK
      /\ promotes \in BOOLEAN /\ reload \in BOOLEAN
  BY Parts
<1>1. CASE Replace
  <2> DEFINE h == todo[1]
  <2>1. h \in File /\ staged[h] \in Contents(h) /\ disk' = [disk EXCEPT ![h] = staged[h]]
        /\ todo' \in Seq(File) /\ Len(todo') = Len(todo) - 1
    BY <1>1, Renamed
  <2> HIDE DEF h
  <2>4. DiskOK'
    BY <1>a, <2>1 DEF DiskOK
  <2>5. TodoOK' /\ StepOK'
    BY <1>1, <1>a, <2>1 DEF Replace, TodoOK, StepOK
  <2>6. StagedOK'
    BY <1>1, <1>a, Kept DEF Replace
  <2> QED
    BY <1>1, <1>a, <2>4, <2>5, <2>6, Kept, PartsNext DEF Replace, AnswerOK
<1>2. CASE ReplaceFails
  <2>1. TodoOK' /\ StepOK'
    BY <1>2 DEF ReplaceFails, TodoOK, StepOK
  <2> QED
    BY <1>2, <1>a, <2>1, Kept, PartsNext DEF ReplaceFails, files, Answer, AnswerOK
<1>3. CASE Promote
  <2>1. KeysOK'
    BY <1>3, <1>a DEF Promote, PromotePendingKey, KeysOK, Promising
  <2>2. TodoOK' /\ StepOK'
    BY <1>3, <1>a, Kept DEF Promote, StepOK
  <2> QED
    BY <1>3, <1>a, <2>1, <2>2, Kept, PartsNext DEF Promote, AnswerOK
<1>4. CASE PromoteFails
  <2>1. TodoOK' /\ StepOK'
    BY <1>4, <1>a, Kept DEF PromoteFails, memory, StepOK
  <2> QED
    BY <1>4, <1>a, <2>1, Kept, PartsNext DEF PromoteFails, files, memory, Answer, AnswerOK
<1>5. ASSUME NEW written \in BOOLEAN, WriteTrustedIssuerBundle(written)
      PROVE  TypeOK'
  <2>1. TodoOK' /\ StepOK'
    BY <1>5, <1>a, Kept DEF WriteTrustedIssuerBundle, StepOK
  <2>2. TlsOK'
    BY <1>5, <1>a, DiskTyped DEF WriteTrustedIssuerBundle, TlsOK
  <2> QED
    BY <1>5, <1>a, <2>1, <2>2, Kept, PartsNext DEF WriteTrustedIssuerBundle, Answer, AnswerOK
<1> QED
  BY <1>1, <1>2, <1>3, <1>4, <1>5 DEF Commit

\* The rest of GENERATE_CSR_FILE, the main loop, stops and starts.
LEMMA OtherTyped ==
  ASSUME TypeOK,
         \/ SavePendingKey \/ SaveCsr \/ SaveFails \/ ReloadCredentials
         \/ Crash \/ ReconcilePendingKey \/ Start \/ StartFails
  PROVE  TypeOK'
PROOF
<1>a. DiskOK /\ StagedOK /\ KeysOK /\ TodoOK /\ StepOK /\ TlsOK /\ AnswerOK
      /\ promotes \in BOOLEAN /\ reload \in BOOLEAN
  BY Parts
<1>1. CASE SavePendingKey
  <2>1. KeysOK'
    BY <1>1, <1>a DEF SavePendingKey, KeysOK
  <2>2. TodoOK' /\ StepOK'
    BY <1>1, <1>a, Kept DEF SavePendingKey, memory, StepOK
  <2> QED
    BY <1>1, <1>a, <2>1, <2>2, Kept, PartsNext DEF SavePendingKey, memory, AnswerOK
<1>2. CASE SaveCsr
  <2>1. KeysOK'
    BY <1>2, <1>a DEF SaveCsr, KeysOK, Key
  <2>2. TodoOK' /\ StepOK'
    BY <1>2, <1>a, Kept DEF SaveCsr, memory, StepOK
  <2> QED
    BY <1>2, <1>a, <2>1, <2>2, Kept, PartsNext DEF SaveCsr, memory, AnswerOK
<1>3. CASE SaveFails
  <2>1. TodoOK' /\ StepOK'
    BY <1>3, <1>a, Kept DEF SaveFails, memory, StepOK
  <2> QED
    BY <1>3, <1>a, <2>1, Kept, PartsNext DEF SaveFails, files, memory, AnswerOK
<1>4. CASE ReloadCredentials
  <2>1. TlsOK'
    <3>1. Loaded(bundle) = NoTls \/ Loaded(bundle) \in Context
      BY <1>a, LoadedTyped DEF TlsOK
    <3> QED
      BY <1>4, <1>a, <3>1 DEF ReloadCredentials, TlsOK, files
  <2> QED
    BY <1>4, <1>a, <2>1, Kept, PartsNext DEF ReloadCredentials, files, AnswerOK, StepOK
<1>5. CASE Crash
  <2>1. TodoOK' /\ StepOK'
    BY <1>5 DEF Crash, TodoOK, StepOK
  <2>2. TlsOK'
    BY <1>5, <1>a DEF Crash, files, TlsOK
  <2> QED
    BY <1>5, <1>a, <2>1, <2>2, Kept, PartsNext DEF Crash, files, Idle, AnswerOK
<1>6. CASE ReconcilePendingKey
  <2>1. KeysOK'
    BY <1>6, <1>a DEF ReconcilePendingKey, UnfinishedSwap, PromotePendingKey, KeysOK
  <2>2. TodoOK' /\ StepOK'
    BY <1>6, <1>a, Kept DEF ReconcilePendingKey, memory, StepOK
  <2> QED
    BY <1>6, <1>a, <2>1, <2>2, Kept, PartsNext DEF ReconcilePendingKey, memory, AnswerOK
<1>7. CASE Start
  <2>1. TlsOK'
    BY <1>7, <1>a, DiskTyped, LoadedTyped DEF Start, TlsOK
  <2>2. TodoOK' /\ StepOK'
    BY <1>7, <1>a, Kept DEF Start, StepOK
  <2> QED
    BY <1>7, <1>a, <2>1, <2>2, Kept, PartsNext DEF Start, AnswerOK
<1>8. CASE StartFails
  <2>1. TlsOK'
    BY <1>8, <1>a, DiskTyped DEF StartFails, TlsOK, memory
  <2>2. TodoOK' /\ StepOK'
    BY <1>8, <1>a, Kept DEF StartFails, memory, StepOK
  <2> QED
    BY <1>8, <1>a, <2>1, <2>2, Kept, PartsNext DEF StartFails, memory, AnswerOK
<1> QED
  BY <1>1, <1>2, <1>3, <1>4, <1>5, <1>6, <1>7, <1>8

LEMMA TypedStep == TypeOK /\ Promising /\ Remaining /\ [Next]_vars => TypeOK'
PROOF
<1> SUFFICES ASSUME TypeOK, Promising, Remaining, [Next]_vars
             PROVE  TypeOK'
  OBVIOUS
<1>1. ASSUME NEW f \in File, Write(f) \/ WriteRefused(f) \/ Resize(f)
      PROVE  TypeOK'
  BY <1>1, WritesStage, StageTyped
<1>2. CASE UNCHANGED vars
  BY <1>2, Parts, PartsNext, Kept DEF vars, files, memory, StepOK, AnswerOK
<1> QED
  BY <1>1, <1>2, ActivateTyped, CommitTyped, OtherTyped DEF Next, Client

-----------------------------------------------------------------------------
(* What a File object serves, and what is validated *)

\* A staged file is served as it is staged.
LEMMA ServesStaged ==
  TypeOK => \A f \in File :
    /\ staged[f] # NotStaged => Read(f) = staged[f]
    /\ staged[f] = NotStaged /\ disk[f] # Absent => Read(f) = disk[f]
PROOF BY Distinct DEF TypeOK, Read, Own

LEMMA EffectiveIs == \A f \in File : Effective[f] = Read(f)
PROOF BY DEF Effective

\* The operational certificate is served by its own file.
LEMMA OperationalServed ==
  TypeOK => Effective["operational"] =
              IF staged["operational"] = NotStaged THEN disk["operational"] ELSE staged["operational"]
PROOF BY Names, ServesStaged, EffectiveIs, DiskTyped

LEMMA ValidFacts ==
  ASSUME TypeOK, Valid
  PROVE  /\ staged["operational"] # Unusable /\ \A f \in Issuer : staged[f] # Garbled
         /\ Effective["operational"] \in Cert /\ Verifies(Effective)
         /\ IF ForPendingKey
            THEN /\ pendingKey # NoKey /\ pendingKey # privateKey
                 /\ Effective["operational"].key = pendingKey
            ELSE Effective["operational"].key = privateKey
PROOF
<1>1. Effective["operational"] # Unusable
  BY DEF Valid, Verifies
<1>2. Effective["operational"] \in Cert
  BY <1>1, Names, EffectiveIs, ReadTyped DEF Contents
<1>3. staged["operational"] # Unusable
  <2>1. staged["operational"] # NotStaged => Effective["operational"] = staged["operational"]
    BY OperationalServed
  <2>2. NotStaged # Unusable
    BY Names, Distinct DEF Contents
  <2> QED
    BY <1>1, <2>1, <2>2
<1>4. \A f \in Issuer : staged[f] # Garbled
  <2> SUFFICES ASSUME NEW f \in Issuer, staged[f] = Garbled
               PROVE  FALSE
    OBVIOUS
  <2>1. staged[f] # NotStaged
    BY Names, Distinct DEF Contents
  <2>2. Effective[f] = Garbled
    BY <2>1, Names, ServesStaged, EffectiveIs
  <2> QED
    BY <2>2 DEF Valid, IssuersParse
<1>5. CASE ForPendingKey
  BY <1>2, <1>3, <1>4, <1>5 DEF ForPendingKey, CertFor, Valid
<1>6. CASE ~ForPendingKey
  BY <1>2, <1>3, <1>4, <1>6 DEF CertFor, Valid
<1> QED
  BY <1>5, <1>6

\* Renaming a file into place does not change what is served, the last one
\* included, when the stage is dropped.
LEMMA ReplaceServesTheSame ==
  ASSUME TypeOK, Remaining, Replace
  PROVE  Effective' = Effective
PROOF
<1> DEFINE h == todo[1]
<1>1. /\ todo # <<>> /\ h \in File /\ staged[h] # NotStaged /\ todo' = Tail(todo)
      /\ disk'[h] = staged[h] /\ \A g \in File : g # h => disk'[g] = disk[g]
  BY Renamed
<1>2. todo \in Seq(File) /\ step = "replacing"
  BY DEF Replace, TypeOK
<1>3. \A f \in File : Own(f)' = Own(f)
  <2>1. CASE todo' = <<>>
    <3>1. staged' = Nothing
      BY <2>1 DEF Replace
    <3>2. DOMAIN todo = {1}
      <4>1. Len(todo') = 0 /\ Len(todo') = Len(todo) - 1
        BY <2>1, Renamed
      <4>2. Len(todo) = 1
        BY <1>2, <4>1
      <4> QED
        BY <1>2, <4>2
    <3>3. \A f \in File : staged[f] # NotStaged => disk[f] = staged[f] \/ f = h
      BY <1>2, <3>2 DEF Remaining
    <3> HIDE DEF h
    <3>4. \A f \in File : staged'[f] = NotStaged
      BY <3>1 DEF Nothing
    <3> QED
      BY <1>1, <3>3, <3>4 DEF Own
  <2>2. CASE todo' # <<>>
    <3>1. staged' = staged
      BY <2>2 DEF Replace
    <3> HIDE DEF h
    <3> QED
      BY <1>1, <3>1 DEF Own
  <2> QED
    BY <2>1, <2>2
<1>4. \A f \in File : Read(f)' = Read(f)
  BY <1>3, Names DEF Read
<1> QED
  BY <1>4 DEF Effective

-----------------------------------------------------------------------------
(* The steps, by what they change *)

LEMMA OnlyReplaceRenames == Next /\ ~Replace => disk' = disk
PROOF
<1> SUFFICES ASSUME Next, ~Replace
             PROVE  disk' = disk
  OBVIOUS
<1> USE DEF files, memory, vars
<1>1. CASE Client
  BY <1>1 DEF Client, Write, WriteRefused, Resize, Stage, DiscardStaged, ActivateNothing,
              ActivateInvalid, ActivateNoTempFiles, Activate, GenerateKeyAndCsr
<1>2. CASE Commit
  BY <1>2 DEF Commit, ReplaceFails, Promote, PromoteFails, WriteTrustedIssuerBundle
<1> QED
  BY <1>1, <1>2 DEF Next, SavePendingKey, SaveCsr, SaveFails, ReloadCredentials, Crash,
                    ReconcilePendingKey, Start, StartFails

LEMMA Putting ==
  Next /\ step' \in {"replacing", "promoting"} => Activate \/ Replace
PROOF
<1> SUFFICES ASSUME Next, step' \in {"replacing", "promoting"}
             PROVE  Activate \/ Replace
  OBVIOUS
<1> USE DEF files, memory, vars
<1>1. CASE Client
  BY <1>1 DEF Client, Write, WriteRefused, Resize, Stage, DiscardStaged, ActivateNothing,
              ActivateInvalid, ActivateNoTempFiles, GenerateKeyAndCsr
<1>2. CASE Commit
  BY <1>2 DEF Commit, ReplaceFails, Promote, PromoteFails, WriteTrustedIssuerBundle
<1> QED
  BY <1>1, <1>2 DEF Next, SavePendingKey, SaveCsr, SaveFails, ReloadCredentials, Crash,
                    ReconcilePendingKey, Start, StartFails

\* A step drops the request, answers a new one with nothing renamed, or carries
\* one on without changing what the File objects serve.
LEMMA Requesting ==
  ASSUME TypeOK, Remaining, Next
  PROVE  \/ request' = Idle
         \/ /\ UNCHANGED <<disk, staged, privateKey>> /\ step = "up"
            /\ \E a \in {"nothing to do", "refused", "asked"} : Asked(a)
         \/ /\ Effective' = Effective
            /\ \/ request' = request
               \/ step \in {"replacing", "promoting", "bundling"} /\ \E a \in {"accepted", "refused"} : Answer(a)
PROOF
<1> USE DEF files, memory, vars
<1>1. CASE Client
  BY <1>1 DEF Client, Write, WriteRefused, Resize, Stage, DiscardStaged, ActivateNothing,
              ActivateInvalid, ActivateNoTempFiles, Activate, GenerateKeyAndCsr
<1>2. UNCHANGED <<disk, staged>> => Effective' = Effective
  BY DEF Effective, Read, Own
<1>3. CASE Replace
  BY <1>3, ReplaceServesTheSame DEF Replace
<1>4. CASE Commit /\ ~Replace
  BY <1>2, <1>4 DEF Commit, ReplaceFails, Promote, PromoteFails, WriteTrustedIssuerBundle
<1>5. CASE Crash
  BY <1>5 DEF Crash
<1>6. CASE ~Client /\ ~Commit /\ ~Crash
  BY <1>2, <1>6 DEF Next, SavePendingKey, SaveCsr, SaveFails, ReloadCredentials,
                    ReconcilePendingKey, Start, StartFails
<1> QED
  BY <1>1, <1>3, <1>4, <1>5, <1>6

-----------------------------------------------------------------------------
(* Whatever fails *)

LEMMA RemainingStep == TypeOK /\ Remaining /\ Next => Remaining'
PROOF
<1> SUFFICES ASSUME TypeOK, Remaining, Next, step' = "replacing"
             PROVE  /\ \A i \in DOMAIN todo' : staged'[todo'[i]] # NotStaged /\ (i > 1 => todo'[i] # "operational")
                    /\ \A f \in File : staged'[f] # NotStaged =>
                         disk'[f] = staged'[f] \/ \E i \in DOMAIN todo' : todo'[i] = f
  BY DEF Remaining
<1>1. CASE Activate
  BY <1>1, PathsFacts DEF Activate, files
<1>2. CASE Replace
  <2> DEFINE h == todo[1]
  <2>1. /\ disk'[h] = staged[h] /\ \A g \in File : g # h => disk'[g] = disk[g]
        /\ todo' \in Seq(File) /\ todo \in Seq(File)
        /\ \A i \in DOMAIN todo' : i + 1 \in DOMAIN todo /\ todo'[i] = todo[i + 1]
        /\ \A i \in DOMAIN todo : i > 1 => i - 1 \in DOMAIN todo' /\ todo'[i - 1] = todo[i]
    BY <1>2, Renamed DEF TypeOK
  <2>2. staged' = staged /\ step = "replacing"
    BY <1>2 DEF Replace
  <2>3. \A i \in DOMAIN todo' : staged'[todo'[i]] # NotStaged /\ (i > 1 => todo'[i] # "operational")
    <3> TAKE i \in DOMAIN todo'
    <3>1. i \in Nat /\ i >= 1 /\ i + 1 \in DOMAIN todo /\ todo'[i] = todo[i + 1]
      BY <2>1
    <3> QED
      BY <2>2, <3>1 DEF Remaining
  <2>4. ASSUME NEW f \in File, staged'[f] # NotStaged, disk'[f] # staged'[f]
        PROVE  \E i \in DOMAIN todo' : todo'[i] = f
    <3>1. f # h /\ disk'[f] = disk[f]
      BY <2>1, <2>2, <2>4
    <3>2. PICK i \in DOMAIN todo : todo[i] = f
      BY <2>2, <2>4, <3>1 DEF Remaining
    <3>3. i \in Nat /\ i >= 1 /\ i # 1
      BY <2>1, <3>1, <3>2
    <3> QED
      BY <2>1, <3>2, <3>3
  <2> QED
    BY <2>3, <2>4
<1> QED
  BY <1>1, <1>2, Putting

LEMMA ParsedOnlyStep == TypeOK /\ ParsedOnly /\ Next => ParsedOnly'
PROOF
<1> SUFFICES ASSUME TypeOK, ParsedOnly, Next, step' = "replacing"
             PROVE  staged'["operational"] # Unusable /\ \A f \in Issuer : staged'[f] # Garbled
  BY DEF ParsedOnly
<1>1. CASE Activate
  BY <1>1, ValidFacts DEF Activate
<1>2. CASE Replace
  BY <1>2 DEF Replace, ParsedOnly
<1> QED
  BY <1>1, <1>2, Putting

LEMMA PromisingStep == TypeOK /\ Promising /\ Next => Promising'
PROOF
<1> SUFFICES ASSUME TypeOK, Promising, Next, step' \in {"replacing", "promoting"}
             PROVE  /\ step' = "promoting" => promotes'
                    /\ promotes' => pendingKey' # NoKey /\ pendingKey' # privateKey'
  BY DEF Promising
<1>1. CASE Activate
  BY <1>1, ValidFacts DEF Activate, files
<1>2. CASE Replace
  BY <1>2 DEF Replace, Promising
<1> QED
  BY <1>1, <1>2, Putting

\* Stuttering leaves everything as it is.
LEMMA StutterReplacing ==
  ASSUME UNCHANGED vars, Remaining, ParsedOnly, Promising
  PROVE  Remaining' /\ ParsedOnly' /\ Promising'
PROOF BY DEF vars, files, memory, Remaining, ParsedOnly, Promising

LEMMA StutterRequest ==
  ASSUME UNCHANGED vars, Answering, Unstaged, Aimed
  PROVE  Answering' /\ Unstaged' /\ Aimed'
PROOF
<1>1. Effective' = Effective
  BY DEF vars, files, memory, Effective, Read, Own
<1> QED
  BY <1>1 DEF vars, files, memory, Answering, Unstaged, Aimed

\* The part of the invariant no failing file operation can break.
Sound == TypeOK /\ Remaining /\ ParsedOnly /\ Promising

LEMMA SoundInit == Init => Sound
PROOF BY InitTyped DEF Init, Sound, Remaining, ParsedOnly, Promising

LEMMA SoundStep == Sound /\ [Next]_vars => Sound'
PROOF
<1> SUFFICES ASSUME TypeOK, Remaining, ParsedOnly, Promising, [Next]_vars
             PROVE  Sound'
  BY DEF Sound
<1>1. TypeOK'
  BY TypedStep
<1>2. Remaining' /\ ParsedOnly' /\ Promising'
  <2>1. CASE Next
    BY <2>1, RemainingStep, ParsedOnlyStep, PromisingStep
  <2>2. CASE UNCHANGED vars
    BY <2>2, StutterReplacing
  <2> QED
    BY <2>1, <2>2
<1> QED
  BY <1>1, <1>2 DEF Sound

LEMMA AlwaysSound == Spec => []Sound
PROOF BY SoundInit, SoundStep, PTL DEF Spec

\* Every file, key and stage holds what it can hold, todo is non-empty exactly
\* while files are renamed, and every requested key was generated
\* (cert_store.cpp, ScNode.cpp), whatever fails and wherever the process stops.
THEOREM TypeCorrect == Spec => []TypeOK
PROOF BY AlwaysSound, PTL DEF Sound

LEMMA ParsedStep == Sound /\ OnlyParsedFilesOnDisk /\ [Next]_vars => OnlyParsedFilesOnDisk'
PROOF
<1> SUFFICES ASSUME Sound, OnlyParsedFilesOnDisk, Next
             PROVE  OnlyParsedFilesOnDisk'
  BY DEF OnlyParsedFilesOnDisk, vars, files
<1>1. CASE ~Replace
  BY <1>1, OnlyReplaceRenames DEF OnlyParsedFilesOnDisk
<1>2. CASE Replace
  <2> DEFINE h == todo[1]
  <2>1. h \in File /\ disk'[h] = staged[h] /\ \A g \in File : g # h => disk'[g] = disk[g]
    BY <1>2, Renamed DEF Sound
  <2>2. staged["operational"] # Unusable /\ \A f \in Issuer : staged[f] # Garbled
    BY <1>2 DEF Replace, Sound, ParsedOnly
  <2> HIDE DEF h
  <2> QED
    BY <2>1, <2>2, Names DEF OnlyParsedFilesOnDisk
<1> QED
  BY <1>1, <1>2

LEMMA ParsedInit == Init => OnlyParsedFilesOnDisk
PROOF
<1> SUFFICES ASSUME Init PROVE OnlyParsedFilesOnDisk
  OBVIOUS
<1>1. PICK a \in Ca : disk = [operational |-> [key |-> 1, ca |-> a], issuer1 |-> {a}, issuer2 |-> Absent]
  BY DEF Init
<1>2. [key |-> 1, ca |-> a] \in Cert
  BY Keys DEF Cert
<1>3. Garbled # Absent
  BY Names, Distinct DEF Contents
<1> QED
  BY <1>1, <1>2, <1>3, Names, Distinct DEF OnlyParsedFilesOnDisk

\* No half-written or unparsable file replaces one on disk (cert_store.h 33-36):
\* ValidateStaged's verdict still holds at every rename after it.
THEOREM OnlyParsed == Spec => []OnlyParsedFilesOnDisk
PROOF BY AlwaysSound, ParsedInit, ParsedStep, PTL DEF Spec

LEMMA AnsweringStep == Sound /\ Answering /\ Unstaged /\ Next => Answering' /\ Unstaged'
PROOF
<1> SUFFICES ASSUME Sound, Answering, Unstaged, Next
             PROVE  Answering' /\ Unstaged'
  OBVIOUS
<1> USE DEF Answering, Unstaged, files, memory, vars
<1>1. CASE Replace
  BY <1>1 DEF Replace
<1>2. CASE ReplaceFails \/ Promote \/ PromoteFails \/ \E written \in BOOLEAN : WriteTrustedIssuerBundle(written)
  BY <1>2 DEF ReplaceFails, Promote, PromoteFails, WriteTrustedIssuerBundle, Answer
<1>3. ASSUME NEW f \in File, NEW c \in Contents(f), Stage(f, c)
      PROVE  Answering' /\ Unstaged'
  BY <1>3 DEF Stage, Idle
<1>4. ASSUME NEW f \in File, Write(f) \/ WriteRefused(f) \/ Resize(f)
      PROVE  Answering' /\ Unstaged'
  BY <1>3, <1>4, WritesStage DEF Sound
<1>5. CASE DiscardStaged \/ GenerateKeyAndCsr
  BY <1>5 DEF DiscardStaged, GenerateKeyAndCsr, Idle
<1>a. ASSUME NEW a, Asked(a)
      PROVE  request'.answer = a
  BY <1>a DEF Asked
<1>7. CASE ActivateNothing \/ ActivateInvalid \/ ActivateNoTempFiles
  <2>1. request'.answer \in {"nothing to do", "refused"}
    BY <1>7, <1>a DEF ActivateNothing, ActivateInvalid, ActivateNoTempFiles
  <2>2. step = "up" /\ step' = "up"
    BY <1>7 DEF ActivateNothing, ActivateInvalid, ActivateNoTempFiles
  <2> QED
    BY <2>1, <2>2
<1>8. CASE Activate
  <2>1. request'.answer = "asked" /\ step' = "replacing"
    BY <1>8, <1>a DEF Activate
  <2> QED
    BY <2>1
<1>6. CASE SavePendingKey \/ SaveCsr \/ SaveFails \/ ReloadCredentials \/ Crash \/ ReconcilePendingKey
           \/ Start \/ StartFails
  BY <1>6 DEF SavePendingKey, SaveCsr, SaveFails, ReloadCredentials, Crash, Idle, ReconcilePendingKey,
              Start, StartFails
<1> QED
  BY <1>1, <1>2, <1>4, <1>5, <1>6, <1>7, <1>8 DEF Next, Client, Commit

LEMMA AimedStep == Sound /\ Answering /\ Aimed /\ Next => Aimed'
PROOF
<1> SUFFICES ASSUME Sound, Answering, Aimed, Next
             PROVE  Aimed'
  OBVIOUS
<1>1. CASE request' = Idle
  BY <1>1 DEF Aimed, Idle
<1>2. CASE UNCHANGED <<disk, staged>> /\ \E a \in {"nothing to do", "refused", "asked"} : Asked(a)
  <2>1. Effective' = Effective
    BY <1>2 DEF Effective, Read, Own
  <2>2. request'.wanted = Effective
    <3>1. PICK a \in {"nothing to do", "refused", "asked"} : Asked(a)
      BY <1>2
    <3> QED
      BY <3>1, Zenon DEF Asked
  <2> QED
    BY <2>1, <2>2 DEF Aimed
<1>3. CASE Effective' = Effective /\ request' = request
  BY <1>3 DEF Aimed
<1>4. CASE /\ Effective' = Effective
           /\ step \in {"replacing", "promoting", "bundling"} /\ \E a \in {"accepted", "refused"} : Answer(a)
  <2>1. request'.wanted = request.wanted /\ request.answer = "asked"
    BY <1>4 DEF Answer, Answering
  <2> QED
    BY <1>4, <2>1 DEF Aimed
<1> QED
  BY <1>1, <1>2, <1>3, <1>4, Requesting DEF Sound

\* What a request aims at, and where it stands.
Requests == Sound /\ Answering /\ Unstaged /\ Aimed

LEMMA RequestsStep == Requests /\ [Next]_vars => Requests'
PROOF
<1> SUFFICES ASSUME Requests, [Next]_vars
             PROVE  Requests'
  OBVIOUS
<1>1. Sound'
  BY SoundStep DEF Requests
<1>2. CASE Next
  BY <1>1, <1>2, AnsweringStep, AimedStep DEF Requests
<1>3. CASE UNCHANGED vars
  BY <1>1, <1>3, StutterRequest DEF Requests
<1> QED
  BY <1>2, <1>3

LEMMA AlwaysRequests == Spec => []Requests
PROOF
<1>1. Init => Requests
  <2>1. Init => step = "down" /\ request.answer = "none"
    BY DEF Init, Idle
  <2> QED
    BY <2>1, SoundInit DEF Requests, Answering, Unstaged, Aimed
<1> QED
  BY <1>1, RequestsStep, PTL DEF Spec

\* A refused activation loses nothing a client wrote, whatever failed and however
\* many files were renamed by then (CommitStaged, "keeps the stage, so activating
\* again retries"): the File objects still serve what was validated.
THEOREM RefusedKeeps == Spec => []RefusedKeepsTheWrites
PROOF
<1>1. Requests => RefusedKeepsTheWrites
  BY DEF Requests, Aimed, RefusedKeepsTheWrites
<1> QED
  BY <1>1, AlwaysRequests, PTL

-----------------------------------------------------------------------------
(* When no rename fails: the process may stop anywhere, temp files and the
   bundle may fail to be written *)

RenamesWork == {"replace", "promote"} \cap Faults = {}

LEMMA OnDisk ==
  TypeOK /\ OnlyParsedFilesOnDisk => disk["operational"] \in Cert /\ DiskKey \in Key
PROOF BY DiskTyped DEF OnlyParsedFilesOnDisk, Cert, DiskKey

LEMMA KeysStay ==
  Next /\ ~Promote /\ ~ReconcilePendingKey /\ ~SavePendingKey => UNCHANGED <<privateKey, pendingKey>>
PROOF
<1> SUFFICES ASSUME Next, ~Promote, ~ReconcilePendingKey, ~SavePendingKey
             PROVE  UNCHANGED <<privateKey, pendingKey>>
  OBVIOUS
<1> USE DEF files, memory, vars
<1>1. CASE Client
  BY <1>1 DEF Client, Write, WriteRefused, Resize, Stage, DiscardStaged, ActivateNothing,
              ActivateInvalid, ActivateNoTempFiles, Activate, GenerateKeyAndCsr
<1>2. CASE Commit
  BY <1>2 DEF Commit, Replace, ReplaceFails, PromoteFails, WriteTrustedIssuerBundle
<1> QED
  BY <1>1, <1>2 DEF Next, SaveCsr, SaveFails, ReloadCredentials, Crash, Start, StartFails

\* Renaming one file: what it does to the pair.
LEMMA ReplacePair ==
  ASSUME Sound, Pair, Replace
  PROVE  InPlace' /\ DiskKey' = NewKey
PROOF
<1> DEFINE h == todo[1]
<1>1. /\ h \in File /\ disk'[h] = staged[h] /\ \A g \in File : g # h => disk'[g] = disk[g]
      /\ todo' \in Seq(File) /\ todo \in Seq(File) /\ todo # <<>>
      /\ \A i \in DOMAIN todo' : i + 1 \in DOMAIN todo /\ todo'[i] = todo[i + 1]
      /\ \A i \in DOMAIN todo : i > 1 => i - 1 \in DOMAIN todo' /\ todo'[i - 1] = todo[i]
  BY Renamed DEF Sound, TypeOK
<1>2. /\ step = "replacing"
      /\ \A i \in DOMAIN todo : i > 1 => todo[i] # "operational"
  BY DEF Replace, Sound, Remaining
\* After the first rename the operational certificate is in place, come what may.
<1>3. InPlace'
  <2>1. ASSUME NEW i \in DOMAIN todo'
        PROVE  todo'[i] # "operational"
    <3>1. i \in Nat /\ i >= 1 /\ i + 1 \in DOMAIN todo /\ todo'[i] = todo[i + 1]
      BY <1>1
    <3> QED
      BY <1>2, <3>1
  <2> QED
    BY <2>1 DEF InPlace
<1>4. CASE h = "operational"
  <2>1. ~InPlace
    BY <1>1, <1>4 DEF InPlace
  <2>2. DiskKey' = staged["operational"].key
    BY <1>1, <1>4 DEF DiskKey
  <2> QED
    BY <1>2, <1>3, <2>1, <2>2 DEF Pair
<1>5. CASE h # "operational"
  <2>1. InPlace
    <3>1. \A i \in DOMAIN todo : i = 1 \/ i > 1
      BY <1>1
    <3> QED
      BY <1>2, <1>5, <3>1 DEF InPlace
  <2>2. DiskKey' = DiskKey
    BY <1>1, <1>5, Names DEF DiskKey
  <2> QED
    BY <1>2, <1>3, <2>1, <2>2 DEF Pair
<1> QED
  BY <1>4, <1>5

LEMMA PairStep ==
  ASSUME RenamesWork, Sound, OnlyParsedFilesOnDisk, Pair, Next
  PROVE  Pair'
PROOF
<1>a. TypeOK /\ DiskKey \in Key /\ disk["operational"] # Unusable
  BY OnDisk DEF Sound, OnlyParsedFilesOnDisk
<1>b. "replace" \notin Faults /\ "promote" \notin Faults
  BY DEF RenamesWork
<1>c. UNCHANGED disk => DiskKey' = DiskKey
  BY DEF DiskKey
<1>1. CASE Replace
  <2>1. DiskKey' = NewKey /\ InPlace'
    BY <1>1, ReplacePair
  <2>2. NewKey' = NewKey /\ privateKey' = privateKey /\ pendingKey' = pendingKey
    BY <1>1 DEF NewKey, Replace
  <2>3. step' = "replacing" \/ step' = IF promotes THEN "promoting" ELSE "bundling"
    BY <1>1 DEF Replace
  <2> QED
    BY <2>1, <2>2, <2>3 DEF Pair, NewKey
<1>2. CASE Activate
  <2>1. DiskKey = privateKey
    BY <1>2 DEF Activate, Pair
  <2>2. UNCHANGED <<disk, privateKey, pendingKey, staged>> /\ step' = "replacing" /\ todo' = Paths
        /\ promotes' = ForPendingKey /\ Valid
    BY <1>2 DEF Activate, files
  <2>3. NewKey' = Effective["operational"].key
    BY <1>a, <2>2, ValidFacts DEF NewKey
  <2>4. CASE staged["operational"] = NotStaged
    <3>1. InPlace'
      BY <2>2, <2>4, PathsFacts DEF InPlace
    <3>2. NewKey' = DiskKey
      BY <1>a, <2>3, <2>4, OperationalServed DEF DiskKey
    <3> QED
      BY <1>c, <2>2, <3>1, <3>2 DEF Pair
  <2>5. CASE staged["operational"] # NotStaged
    <3>1. ~InPlace'
      BY <2>2, <2>5, PathsFacts, Names DEF InPlace
    <3>2. staged'["operational"].key = NewKey'
      BY <1>a, <2>2, <2>3, <2>5, OperationalServed
    <3> QED
      BY <1>c, <2>1, <2>2, <3>1, <3>2 DEF Pair
  <2> QED
    BY <2>4, <2>5
<1>3. CASE Promote
  BY <1>3, <1>c DEF Promote, PromotePendingKey, Pair
<1>4. CASE ReconcilePendingKey
  <2>1. DiskKey \in {privateKey, pendingKey} /\ DiskKey' = DiskKey /\ step' = "starting"
    BY <1>4, <1>c DEF ReconcilePendingKey, Pair
  <2>2. CASE UnfinishedSwap
    BY <1>4, <1>b, <2>1, <2>2 DEF ReconcilePendingKey, PromotePendingKey, UnfinishedSwap, Pair, DiskKey
  <2>3. CASE ~UnfinishedSwap
    <3>1. privateKey' = privateKey
      BY <1>4, <2>3 DEF ReconcilePendingKey
    <3>2. DiskKey = privateKey
      BY <1>a, <2>1, <2>3, Keys DEF UnfinishedSwap, DiskKey
    <3> QED
      BY <2>1, <3>1, <3>2 DEF Pair
  <2> QED
    BY <2>2, <2>3
<1>5. CASE Crash
  <2>1. UNCHANGED <<disk, privateKey, pendingKey>> /\ step' = "down"
    BY <1>5 DEF Crash, files
  <2>2. DiskKey \in {privateKey, pendingKey}
    BY <1>a DEF Pair, NewKey, TypeOK
  <2> QED
    BY <1>c, <2>1, <2>2 DEF Pair
<1>6. CASE Client /\ ~Activate
  <2>1. /\ UNCHANGED <<disk, privateKey>> /\ step = "up" /\ step' \in {"up", "savingKey"}
    BY <1>6 DEF Client, Write, WriteRefused, Resize, Stage, DiscardStaged, ActivateNothing,
                ActivateInvalid, ActivateNoTempFiles, GenerateKeyAndCsr, files
  <2> QED
    BY <1>c, <2>1 DEF Pair
<1>7. CASE SavePendingKey \/ SaveCsr \/ SaveFails \/ ReloadCredentials \/ Start
           \/ \E written \in BOOLEAN : WriteTrustedIssuerBundle(written)
  <2>1. /\ UNCHANGED <<disk, privateKey>> /\ step \in {"up", "savingKey", "savingCsr", "starting", "bundling"}
        /\ step' \in {"up", "savingCsr"}
    BY <1>7 DEF SavePendingKey, SaveCsr, SaveFails, ReloadCredentials, Start, WriteTrustedIssuerBundle,
                files, memory
  <2> QED
    BY <1>c, <2>1 DEF Pair
<1>8. CASE StartFails
  BY <1>8, <1>c DEF StartFails, Pair
<1>9. ~ReplaceFails /\ ~PromoteFails
  BY <1>b DEF ReplaceFails, PromoteFails
<1> QED
  BY <1>1, <1>2, <1>3, <1>4, <1>5, <1>6, <1>7, <1>8, <1>9 DEF Next, Commit

LEMMA FreshStep == TypeOK /\ Fresh /\ Next => Fresh'
PROOF
<1> SUFFICES ASSUME TypeOK, Fresh, Next
             PROVE  Fresh'
  OBVIOUS
<1>a. newest \in Nat /\ privateKey \in Nat /\ pendingKey \in Nat /\ newest >= 0
  <2>1. newest \in Key /\ privateKey \in Key /\ pendingKey \in Key \cup {NoKey}
    BY DEF TypeOK
  <2> QED
    BY <2>1, Keys DEF Key, NoKey
<1> USE DEF files, memory, vars, Fresh
<1>1. CASE Client
  <2>1. /\ UNCHANGED <<privateKey, pendingKey>>
        /\ (newest' = newest /\ step' # "savingKey") \/ newest' = newest + 1
    BY <1>1 DEF Client, Write, WriteRefused, Resize, Stage, DiscardStaged, ActivateNothing,
                ActivateInvalid, ActivateNoTempFiles, Activate, GenerateKeyAndCsr
  <2> QED
    BY <1>a, <2>1
<1>2. CASE Commit
  BY <1>2, <1>a DEF Commit, Replace, ReplaceFails, Promote, PromotePendingKey, PromoteFails,
                    WriteTrustedIssuerBundle, NoKey
<1>3. CASE ReconcilePendingKey
  BY <1>3, <1>a DEF ReconcilePendingKey, PromotePendingKey, NoKey
<1>4. CASE SavePendingKey \/ SaveCsr \/ SaveFails \/ ReloadCredentials \/ Crash \/ Start \/ StartFails
  BY <1>4, <1>a DEF SavePendingKey, SaveCsr, SaveFails, ReloadCredentials, Crash, Start, StartFails
<1> QED
  BY <1>1, <1>2, <1>3, <1>4 DEF Next

LEMMA CommitableStep == Sound /\ Answering /\ Commitable /\ Next => Commitable'
PROOF
<1> SUFFICES ASSUME Sound, Answering, Commitable, Next,
                    step' \in {"replacing", "promoting", "bundling"} \/ request'.answer = "accepted"
             PROVE  Verifies(Effective')
  BY DEF Commitable, Verifies, Issuers
<1> USE DEF files, memory, vars
<1>1. UNCHANGED <<disk, staged>> => Effective' = Effective
  BY DEF Effective, Read, Own
<1>2. CASE Replace
  <2>1. Verifies(Effective)
    BY <1>2 DEF Replace, Commitable
  <2> QED
    BY <1>2, <2>1, ReplaceServesTheSame DEF Sound
<1>3. CASE Activate
  BY <1>1, <1>3, ValidFacts DEF Activate, Sound
<1>4. CASE Commit /\ ~Replace
  <2>1. step \in {"replacing", "promoting", "bundling"} /\ UNCHANGED <<disk, staged>>
    BY <1>4 DEF Commit, ReplaceFails, Promote, PromoteFails, WriteTrustedIssuerBundle
  <2> QED
    BY <1>1, <2>1 DEF Commitable
<1>5. CASE Client /\ ~Activate
  <2>1. step' \in {"up", "savingKey"}
    BY <1>5 DEF Client, Write, WriteRefused, Resize, Stage, DiscardStaged, ActivateNothing,
                ActivateInvalid, ActivateNoTempFiles, GenerateKeyAndCsr
  <2>2. request' = Idle \/ \E a \in {"nothing to do", "refused"} : Asked(a)
    BY <1>5 DEF Client, Write, WriteRefused, Resize, Stage, DiscardStaged, ActivateNothing,
                ActivateInvalid, ActivateNoTempFiles, GenerateKeyAndCsr
  <2>3. ASSUME NEW a, Asked(a)
        PROVE  request'.answer = a
    BY <2>3 DEF Asked
  <2>4. request'.answer \in {"none", "nothing to do", "refused"}
    <3>1. request' = Idle => request'.answer = "none"
      BY DEF Idle
    <3> QED
      BY <2>2, <2>3, <3>1
  <2> QED
    BY <2>1, <2>4
<1>6. CASE Crash
  BY <1>6 DEF Crash, Idle
<1>7. CASE ~Client /\ ~Commit /\ ~Crash
  <2>1. UNCHANGED <<disk, staged, request>> /\ step' \notin {"replacing", "promoting", "bundling"}
    BY <1>7 DEF Next, SavePendingKey, SaveCsr, SaveFails, ReloadCredentials,
                    ReconcilePendingKey, Start, StartFails
  <2> QED
    BY <1>1, <2>1 DEF Commitable
<1> QED
  BY <1>2, <1>3, <1>4, <1>5, <1>6, <1>7

LEMMA NothingRenamedStep ==
  ASSUME RenamesWork, Sound, Answering, NothingRenamed, Next
  PROVE  NothingRenamed'
PROOF
<1>b. "replace" \notin Faults /\ "promote" \notin Faults
  BY DEF RenamesWork
<1> USE DEF files, memory, vars
<1>1. CASE Client
  <2>1. UNCHANGED <<disk, privateKey>> /\ (request' = Idle \/ \E a \in {"nothing to do", "refused", "asked"} : Asked(a))
    BY <1>1 DEF Client, Write, WriteRefused, Resize, Stage, DiscardStaged, ActivateNothing,
                ActivateInvalid, ActivateNoTempFiles, Activate, GenerateKeyAndCsr
  <2>2. CASE request' = Idle
    BY <2>2 DEF Idle, NothingRenamed
  <2>3. ASSUME NEW a, Asked(a)
        PROVE  request'.before = disk /\ request'.key = privateKey
    BY <2>3 DEF Asked
  <2> QED
    BY <2>1, <2>2, <2>3 DEF NothingRenamed
<1>2. CASE Commit
  <2>1. request.answer = "asked"
    BY <1>2, <1>b DEF Commit, Replace, ReplaceFails, Promote, PromoteFails, WriteTrustedIssuerBundle, Answering
  <2>2. request' = request \/ Answer("accepted")
    BY <1>2, <1>b DEF Commit, Replace, ReplaceFails, Promote, PromoteFails, WriteTrustedIssuerBundle
  <2>3. request'.answer # "refused"
    BY <2>1, <2>2 DEF Answer
  <2> QED
    BY <2>3 DEF NothingRenamed
<1>3. CASE ReloadCredentials
  BY <1>3 DEF ReloadCredentials, NothingRenamed
<1>4. CASE Crash
  BY <1>4 DEF Crash, Idle, NothingRenamed
<1>5. CASE SavePendingKey \/ SaveCsr \/ SaveFails \/ ReconcilePendingKey \/ Start \/ StartFails
  <2>1. step # "up" /\ request' = request
    BY <1>5 DEF SavePendingKey, SaveCsr, SaveFails, ReconcilePendingKey, Start, StartFails
  <2> QED
    BY <2>1 DEF Answering, NothingRenamed
<1> QED
  BY <1>1, <1>2, <1>3, <1>4, <1>5 DEF Next

\* Sound' needs the keys to be there; the pair needs what Sound says.
Matched == Requests /\ OnlyParsedFilesOnDisk /\ Pair /\ Fresh /\ Commitable /\ NothingRenamed

LEMMA MatchedInit == Init => Matched
PROOF
<1> SUFFICES ASSUME Init
             PROVE  Matched
  OBVIOUS
<1>1. step = "down" /\ request.answer = "none" /\ privateKey = 1 /\ pendingKey = 0 /\ newest = 1
  BY DEF Init, Idle, NoKey
<1>2. DiskKey = 1
  BY DEF Init, DiskKey
<1>3. Requests
  BY <1>1, SoundInit DEF Requests, Answering, Unstaged, Aimed
<1>4. Pair /\ Fresh /\ Commitable /\ NothingRenamed
  BY <1>1, <1>2 DEF Pair, Fresh, Commitable, NothingRenamed
<1> QED
  BY <1>3, <1>4, ParsedInit DEF Matched

LEMMA MatchedStep ==
  ASSUME RenamesWork, Matched, [Next]_vars
  PROVE  Matched'
PROOF
<1>1. Requests' /\ OnlyParsedFilesOnDisk'
  BY RequestsStep, ParsedStep DEF Matched, Requests
<1>2. CASE Next
  <2>1. Pair'
    BY <1>2, PairStep DEF Matched, Requests
  <2>2. Fresh'
    BY <1>2, FreshStep DEF Matched, Requests, Sound
  <2>3. Commitable'
    BY <1>2, CommitableStep DEF Matched, Requests
  <2>4. NothingRenamed'
    BY <1>2, NothingRenamedStep DEF Matched, Requests
  <2> QED
    BY <1>1, <2>1, <2>2, <2>3, <2>4 DEF Matched
<1>3. CASE UNCHANGED vars
  <2>1. Pair' /\ Fresh' /\ NothingRenamed'
    BY <1>3 DEF vars, files, memory, Matched, Pair, DiskKey, InPlace, NewKey, Fresh, NothingRenamed
  <2>2. Effective' = Effective
    BY <1>3 DEF vars, files, memory, Effective, Read, Own
  <2>3. Commitable'
    BY <1>3, <2>2 DEF vars, Matched, Commitable, Verifies, Issuers
  <2> QED
    BY <1>1, <2>1, <2>3 DEF Matched
<1> QED
  BY <1>2, <1>3

LEMMA AlwaysMatched == ASSUME RenamesWork PROVE Spec => []Matched
PROOF
<1>1. Matched /\ [Next]_vars => Matched'
  BY MatchedStep
<1> QED
  BY <1>1, MatchedInit, PTL DEF Spec

\* Wherever the process stops between the renames of CommitStaged (cert_store.cpp
\* 521-536), the key of the certificate on disk is the one in use or the pending
\* one.  The hypothesis is needed: SwapNotFinished.cfg shows a failed rename lose it.
THEOREM KeyAtHand == ASSUME RenamesWork PROVE Spec => []KeyIsAtHand
PROOF
<1>1. Matched => KeyIsAtHand
  <2> SUFFICES ASSUME Matched
               PROVE  DiskKey \in {privateKey, pendingKey}
    BY DEF KeyIsAtHand, DiskKey
  <2> QED
    BY DEF Matched, Requests, Sound, TypeOK, Pair, NewKey
<1> QED
  BY <1>1, AlwaysMatched, PTL

\* "the request is refused and nothing changes" (main.cpp 1745), when the only
\* files that can fail are temp files and the bundle.
THEOREM RefusedUnchanged == ASSUME RenamesWork PROVE Spec => []RefusedMeansUnchanged
PROOF
<1>1. Matched => RefusedMeansUnchanged
  BY DEF Matched, NothingRenamed, RefusedMeansUnchanged
<1> QED
  BY <1>1, AlwaysMatched, PTL

\* After an accepted activation the disk holds the set that was validated, stage
\* and key swap included, and it verifies (ScNode.cpp ApplyStagedCertificates).
THEOREM AcceptedInstalled == ASSUME RenamesWork PROVE Spec => []AcceptedMeansInstalled
PROOF
<1>1. Matched => AcceptedMeansInstalled
  <2> SUFFICES ASSUME Matched, request.answer = "accepted"
               PROVE  /\ ~HasStagedChanges /\ Effective = request.wanted
                      /\ DiskKey = privateKey /\ disk["operational"].ca \in Issuers(disk)
    BY DEF AcceptedMeansInstalled, DiskKey
  <2>1. TypeOK /\ staged = Nothing /\ step = "up" /\ Effective = request.wanted
    BY DEF Matched, Requests, Sound, Answering, Aimed
  <2>2. DiskKey = privateKey
    BY <2>1 DEF Matched, Pair
  <2>3. Effective["operational"] = disk["operational"]
    BY <2>1, Names, OperationalServed DEF Nothing
  \* Issuer 2 serves issuer 1 until it has a file of its own.
  <2>4. \A f \in Issuer : Effective[f] = disk[f] \/ Effective[f] = disk["issuer1"]
    BY <2>1, Names DEF Nothing, Effective, Read, Own
  <2>5. Issuers(Effective) \subseteq Issuers(disk)
    BY <2>4, Names DEF Issuers
  <2>6. Effective["operational"].ca \in Issuers(Effective)
    BY DEF Matched, Commitable, Verifies
  <2> QED
    BY <2>1, <2>2, <2>3, <2>5, <2>6 DEF HasStagedChanges
<1> QED
  BY <1>1, AlwaysMatched, PTL

-----------------------------------------------------------------------------
(* When the bundle can be replaced, too *)

LEMMA LoadedIs ==
  ASSUME disk["operational"] # Unusable, DiskKey = privateKey, NEW trust
  PROVE  Loaded(trust) = [cert |-> disk["operational"], key |-> privateKey, trust |-> trust]
PROOF BY DEF Loaded, DiskKey

LEMMA ServingStep ==
  ASSUME RenamesWork, "bundle" \notin Faults, Matched, Serving, Next
  PROVE  Serving'
PROOF
<1>a. /\ "replace" \notin Faults /\ "promote" \notin Faults /\ "bundle" \notin Faults
      /\ disk["operational"] # Unusable
  BY DEF RenamesWork, Matched, OnlyParsedFilesOnDisk
<1>b. UNCHANGED disk => Issuers(disk)' = Issuers(disk)
  BY DEF Issuers
<1> USE DEF files, memory, vars
<1>1. CASE Client
  <2>1. UNCHANGED <<files, reload, tls>> /\ step = "up"
    BY <1>1 DEF Client, Write, WriteRefused, Resize, Stage, DiscardStaged, ActivateNothing,
                ActivateInvalid, ActivateNoTempFiles, Activate, GenerateKeyAndCsr
  <2> QED
    BY <1>b, <2>1 DEF Serving
<1>2. CASE SavePendingKey \/ SaveCsr \/ SaveFails
  <2>1. UNCHANGED <<disk, privateKey, bundle, reload, tls>> /\ step \in {"savingKey", "savingCsr"}
    BY <1>2 DEF SavePendingKey, SaveCsr, SaveFails
  <2> QED
    BY <1>b, <2>1 DEF Serving
<1>3. CASE ReloadCredentials
  <2>1. UNCHANGED <<disk, privateKey, bundle>> /\ tls' = Loaded(bundle) /\ step = "up"
    BY <1>3 DEF ReloadCredentials
  <2>2. DiskKey = privateKey
    BY <2>1 DEF Matched, Pair
  <2>3. tls' = [cert |-> disk["operational"], key |-> privateKey, trust |-> bundle]
    BY <1>a, <2>1, <2>2, LoadedIs
  <2> QED
    BY <1>b, <2>1, <2>3 DEF Serving
<1>4. CASE Start
  <2>1. UNCHANGED <<disk, privateKey>> /\ bundle' = Issuers(disk) /\ tls' = Loaded(bundle') /\ step = "starting"
    BY <1>4 DEF Start
  <2>2. DiskKey = privateKey
    BY <2>1 DEF Matched, Pair
  <2>3. tls' = [cert |-> disk["operational"], key |-> privateKey, trust |-> bundle']
    BY <1>a, <2>1, <2>2, LoadedIs
  <2> QED
    BY <1>b, <2>1, <2>3 DEF Serving
<1>5. ASSUME NEW written \in BOOLEAN, WriteTrustedIssuerBundle(written)
      PROVE  Serving'
  <2>1. bundle' = Issuers(disk) /\ disk' = disk /\ reload'
    BY <1>5, <1>a DEF WriteTrustedIssuerBundle
  <2> QED
    BY <1>b, <2>1 DEF Serving
<1>6. CASE Replace \/ Promote \/ Crash \/ ReconcilePendingKey \/ StartFails
  <2>1. step' \notin {"up", "savingKey", "savingCsr"}
    BY <1>6 DEF Replace, Promote, Crash, ReconcilePendingKey, StartFails
  <2> QED
    BY <2>1 DEF Serving
<1>7. ~ReplaceFails /\ ~PromoteFails
  BY <1>a DEF ReplaceFails, PromoteFails
<1> QED
  BY <1>1, <1>2, <1>3, <1>4, <1>5, <1>6, <1>7 DEF Next, Commit

\* As soon as no reload is pending, a running device uses exactly the certificate,
\* the key and the issuers that are on its disk (ScNode.cpp Service), provided the
\* renames and the bundle's replacement do not fail: the code carries on without
\* the bundle (ScNode.cpp 475).
THEOREM RunsOnDisk ==
  ASSUME RenamesWork, "bundle" \notin Faults
  PROVE  Spec => []RunsOnWhatIsOnDisk
PROOF
<1>1. Init => Serving
  BY DEF Init, Serving
<1>2. Matched /\ Serving /\ [Next]_vars => Serving'
  <2> SUFFICES ASSUME Matched, Serving, [Next]_vars
               PROVE  Serving'
    OBVIOUS
  <2>1. CASE Next
    BY <2>1, ServingStep
  <2>2. CASE UNCHANGED vars
    BY <2>2 DEF vars, files, memory, Serving, Issuers
  <2> QED
    BY <2>1, <2>2
<1>3. Serving => RunsOnWhatIsOnDisk
  BY DEF Serving, RunsOnWhatIsOnDisk
<1> QED
  BY <1>1, <1>2, <1>3, AlwaysMatched, PTL DEF Spec

-----------------------------------------------------------------------------
(* CertStore implements KeyCustody *)

\* The abstract key is the one the certificate on disk is for.
Held    == IF Swapped THEN pendingKey ELSE privateKey
Offered == IF Swapped THEN NoKey ELSE pendingKey

LEMMA HeldIs == Matched => Held = DiskKey /\ (Swapped <=> DiskKey # privateKey)
PROOF
<1> SUFFICES ASSUME Matched
             PROVE  DiskKey \in {privateKey, pendingKey}
  BY DEF Held, Swapped, DiskKey
<1> QED
  BY DEF Matched, Requests, Sound, TypeOK, Pair, NewKey

\* What a step of the abstract specification is, in terms of the disk.
LEMMA CustodySteps ==
  /\ UNCHANGED <<disk["operational"], Held, Offered>> => UNCHANGED Custody!vars
  /\ \A c \in Cert : c.key = Held /\ disk'["operational"] = c /\ UNCHANGED <<Held, Offered>> => Custody!Next
  /\ \A c \in Cert : c.key = Offered /\ disk'["operational"] = c /\ Held' = Offered /\ Offered' = NoKey
                        => Custody!Next
  /\ \A k \in Key : k # Held /\ Offered' = k /\ UNCHANGED <<disk["operational"], Held>> => Custody!Next
PROOF
<1>1. UNCHANGED <<disk["operational"], Held, Offered>> => UNCHANGED Custody!vars
  BY DEF Held, Offered, Custody!vars
<1>2. \A c \in Cert : c.key = Held /\ disk'["operational"] = c /\ UNCHANGED <<Held, Offered>> => Custody!Renew(c)
  BY DEF Held, Offered, Custody!Renew
<1>3. \A c \in Cert : c.key = Offered /\ disk'["operational"] = c /\ Held' = Offered /\ Offered' = NoKey
                        => Custody!Install(c)
  BY DEF Held, Offered, Custody!Install
<1>4. \A k \in Key : k # Held /\ Offered' = k /\ UNCHANGED <<disk["operational"], Held>> => Custody!Offer(k)
  BY DEF Held, Offered, Custody!Offer
<1> QED
  BY <1>1, <1>2, <1>3, <1>4 DEF Custody!Next

LEMMA ReplaceImplements ==
  ASSUME Matched, Matched', Replace
  PROVE  Custody!Next \/ UNCHANGED Custody!vars
PROOF
<1> DEFINE h == todo[1]
<1>1. /\ h \in File /\ disk'[h] = staged[h] /\ staged[h] \in Contents(h) /\ todo # <<>> /\ todo \in Seq(File)
      /\ \A g \in File : g # h => disk'[g] = disk[g]
  BY Renamed DEF Matched, Requests, Sound, TypeOK
<1>2. step = "replacing" /\ UNCHANGED <<privateKey, pendingKey>>
  BY DEF Replace
<1>3. CASE h # "operational"
  <2>1. disk'["operational"] = disk["operational"]
    BY <1>1, <1>3, Names
  <2> QED
    BY <1>2, <2>1, CustodySteps DEF Held, Offered, Swapped
<1>4. CASE h = "operational"
  <2> DEFINE c == staged["operational"]
  <2>1. c \in Cert /\ disk'["operational"] = c
    BY <1>1, <1>2, <1>4 DEF Contents, Matched, Requests, Sound, ParsedOnly
  <2>2. ~InPlace
    BY <1>1, <1>4 DEF InPlace
  <2>3. DiskKey = privateKey /\ c.key = NewKey
    BY <1>2, <2>2 DEF Matched, Pair
  <2>4. DiskKey' = NewKey
    BY <2>1, <2>3 DEF DiskKey
  <2>5. Held = privateKey /\ Offered = pendingKey
    BY <2>3, HeldIs DEF Offered
  <2>6. CASE promotes
    <3>1. NewKey = pendingKey /\ pendingKey # privateKey
      BY <1>2, <2>6 DEF NewKey, Matched, Requests, Sound, Promising
    <3>2. Swapped'
      BY <1>2, <2>4, <3>1 DEF Swapped, DiskKey
    <3>3. Held' = Offered /\ Offered' = NoKey
      BY <1>2, <2>5, <3>2 DEF Held, Offered
    <3> QED
      BY <2>1, <2>3, <2>5, <3>1, <3>3, CustodySteps
  <2>7. CASE ~promotes
    <3>1. NewKey = privateKey
      BY <2>7 DEF NewKey
    <3>2. ~Swapped'
      BY <1>2, <2>4, <3>1 DEF Swapped, DiskKey
    <3>3. Held' = Held /\ Offered' = Offered
      BY <1>2, <2>5, <3>2 DEF Held, Offered
    <3> QED
      BY <2>1, <2>3, <2>5, <3>1, <3>3, CustodySteps
  <2> QED
    BY <2>6, <2>7
<1> QED
  BY <1>3, <1>4

\* The key swap itself only completes what the rename did.
LEMMA PromotionImplements ==
  ASSUME Swapped, DiskKey = pendingKey, PromotePendingKey, UNCHANGED disk
  PROVE  UNCHANGED Custody!vars
PROOF
<1>1. ~Swapped'
  BY DEF Swapped, DiskKey, PromotePendingKey
<1>2. Held' = Held /\ Offered' = Offered
  BY <1>1 DEF Held, Offered, PromotePendingKey
<1> QED
  BY <1>2, CustodySteps

LEMMA StepImplements ==
  ASSUME Matched, Matched', [Next]_vars
  PROVE  Custody!Next \/ UNCHANGED Custody!vars
PROOF
<1>a. UNCHANGED <<disk, privateKey, pendingKey>> => UNCHANGED Custody!vars
  BY CustodySteps DEF Held, Offered, Swapped
<1>1. CASE Replace
  BY <1>1, ReplaceImplements
<1>2. CASE Promote
  <2>1. DiskKey = pendingKey /\ pendingKey # privateKey /\ UNCHANGED disk /\ PromotePendingKey
    BY <1>2 DEF Promote, Matched, Requests, Sound, Promising, Pair
  <2> QED
    BY <2>1, PromotionImplements DEF Swapped, DiskKey
<1>3. CASE ReconcilePendingKey
  <2>1. CASE UnfinishedSwap /\ PromotePendingKey
    BY <1>3, <2>1, PromotionImplements DEF ReconcilePendingKey, UnfinishedSwap, Swapped, DiskKey
  <2>2. CASE ~(UnfinishedSwap /\ PromotePendingKey)
    BY <1>3, <1>a, <2>2 DEF ReconcilePendingKey
  <2> QED
    BY <2>1, <2>2
<1>4. CASE SavePendingKey
  <2>1. step = "savingKey" /\ pendingKey' = newest /\ UNCHANGED <<disk, privateKey>>
    BY <1>4 DEF SavePendingKey
  <2>2. newest \in Key /\ privateKey < newest /\ privateKey \in Nat /\ newest \in Nat
    <3>1. newest \in Key /\ privateKey \in Key /\ privateKey < newest
      BY <2>1 DEF Matched, Requests, Sound, TypeOK, Fresh
    <3> QED
      BY <3>1, Keys DEF Key
  <2>3. DiskKey = privateKey
    BY <2>1 DEF Matched, Pair
  <2>4. ~Swapped /\ ~Swapped'
    BY <2>1, <2>3 DEF Swapped, DiskKey
  <2>5. Held = privateKey /\ Held' = Held /\ Offered' = newest
    BY <2>1, <2>4 DEF Held, Offered
  <2> QED
    BY <2>1, <2>2, <2>5, CustodySteps
<1>5. CASE Next /\ ~Replace /\ ~Promote /\ ~ReconcilePendingKey /\ ~SavePendingKey
  BY <1>5, <1>a, OnlyReplaceRenames, KeysStay
<1>6. CASE UNCHANGED vars
  BY <1>6, <1>a DEF vars, files
<1> QED
  BY <1>1, <1>2, <1>3, <1>4, <1>5, <1>6

LEMMA InitImplements == Init => Custody!Init
PROOF
<1> SUFFICES ASSUME Init
             PROVE  Custody!Init
  OBVIOUS
<1>1. disk["operational"] \in Cert /\ DiskKey = 1 /\ privateKey = 1 /\ pendingKey = NoKey
  BY Keys DEF Init, Cert, DiskKey
<1>2. ~Swapped
  BY <1>1 DEF Swapped, DiskKey
<1> QED
  BY <1>1, <1>2 DEF Custody!Init, DiskKey

\* The certificate and its key change together, in one step, to a pair that belongs
\* together, and a key on offer waits until a certificate for it is installed
\* (cert_store.h, "So the device never runs with a key that has no certificate"):
\* the rename of the operational certificate is that step, wherever the process stops.
THEOREM ImplementsKeyCustody == ASSUME RenamesWork PROVE Spec => KeysChangeWithCertificates
PROOF
<1>1. Matched /\ Matched' /\ [Next]_vars => [Custody!Next]_Custody!vars
  BY StepImplements
<1> QED
  BY <1>1, InitImplements, AlwaysMatched, PTL DEF Spec, KeysChangeWithCertificates, Custody!Spec
=============================================================================
