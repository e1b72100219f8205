------------------------ MODULE CommissioningProofs -------------------------
(***************************************************************************)
(* Theorems about Commissioning: types, the identity that is kept, when a  *)
(* request can fail, certificates that have their key, and the issuers an  *)
(* import leaves trusted.                                                  *)
(***************************************************************************)
EXTENDS Commissioning, SequenceTheorems, FiniteSetTheorems, TLAPS

-----------------------------------------------------------------------------
(* Files and writes *)

Content(f, n) == Whole(f, n) \cup {Absent, Torn}

LEMMA FileNames ==
  /\ {Pending, Iss(1), Iss(2), RequestZip, Uuid} \subseteq File
  /\ \A d \in Instance : {Key(d), Csr(d), Opr(d)} \subseteq File
  /\ \A f \in File : \/ f \in {Pending, Iss(1), Iss(2), RequestZip, Uuid}
                     \/ \E d \in Instance : f \in {Key(d), Csr(d), Opr(d)}
PROOF BY DEF File

\* No two files are the same.
LEMMA Distinct ==
  /\ \A d, e : /\ Key(d) = Key(e) => d = e
               /\ Csr(d) = Csr(e) => d = e
               /\ Opr(d) = Opr(e) => d = e
               /\ Key(d) # Csr(e) /\ Key(d) # Opr(e) /\ Csr(d) # Opr(e)
  /\ \A d : {Key(d), Csr(d), Opr(d)} \cap {Pending, Iss(1), Iss(2), RequestZip, Uuid} = {}
  /\ Pending \notin {Iss(1), Iss(2), RequestZip, Uuid}
  /\ Iss(1) \notin {Iss(2), RequestZip, Uuid} /\ Iss(2) \notin {RequestZip, Uuid} /\ RequestZip # Uuid
PROOF BY DEF Key, Csr, Opr, Pending, Iss, RequestZip, Uuid

LEMMA Wholes ==
  ASSUME NEW n
  PROVE  /\ \A d : Whole(Key(d), n) = Keys(n) /\ Whole(Csr(d), n) = Requests(n) /\ Whole(Opr(d), n) = Certs(n)
         /\ Whole(Pending, n) = Keys(n) /\ Whole(Iss(1), n) = Authorities /\ Whole(Iss(2), n) = Authorities
         /\ Whole(RequestZip, n) = Zips(n) /\ Whole(Uuid, n) = Uuids
PROOF
<1>1. /\ \A d : Key(d)[1] = "key" /\ Csr(d)[1] = "csr" /\ Opr(d)[1] = "opr"
      /\ Pending[1] = "pending" /\ Iss(1)[1] = "issuer" /\ Iss(2)[1] = "issuer"
      /\ RequestZip[1] = "zip" /\ Uuid[1] = "uuid"
  BY DEF Key, Csr, Opr, Pending, Iss, RequestZip, Uuid
<1> QED
  BY <1>1 DEF Whole

\* With more key pairs a file may hold more.
LEMMA Grows ==
  ASSUME NEW m \in Nat, NEW n \in Nat, m <= n, NEW f \in File
  PROVE  Content(f, m) \subseteq Content(f, n)
PROOF
<1>1. 1 .. m \subseteq 1 .. n
  OBVIOUS
<1>2. Keys(m) \subseteq Keys(n)
  BY <1>1 DEF Keys
<1>3. Requests(m) \subseteq Requests(n)
  BY <1>1 DEF Requests
<1>4. Certs(m) \subseteq Certs(n)
  BY <1>1 DEF Certs
<1>5. Zips(m) \subseteq Zips(n)
  BY <1>3 DEF Zips
<1>6. Whole(f, m) \subseteq Whole(f, n)
  BY <1>2, <1>3, <1>4, <1>5, FileNames, Wholes
<1> QED
  BY <1>6 DEF Content

\* A write whose files get contents of their kind.
Step(n) ==
  {w \in UNION {[files : {F}, data : [F -> UNION {Content(f, n) : f \in File}], torn : BOOLEAN] : F \in SUBSET File} :
     \A f \in w.files : w.data[f] \in Content(f, n)}

LEMMA StepFacts ==
  ASSUME NEW n, NEW w \in Step(n)
  PROVE  /\ w.files \subseteq File /\ w.torn \in BOOLEAN
         /\ \A f \in w.files : w.data[f] \in Content(f, n)
PROOF BY DEF Step

LEMMA SingleSteps ==
  ASSUME NEW n, NEW f \in File, NEW c \in Content(f, n)
  PROVE  InPlace(f, c) \in Step(n) /\ Renamed(f, c) \in Step(n)
PROOF
<1>1. At(f, c) \in [{f} -> UNION {Content(g, n) : g \in File}] /\ At(f, c)[f] = c
  BY DEF At
<1>2. {f} \in SUBSET File
  OBVIOUS
<1> QED
  BY <1>1, <1>2 DEF InPlace, Renamed, Step

LEMMA BothSteps ==
  ASSUME NEW n, NEW v \in Step(n), NEW w \in Step(n)
  PROVE  Both(v, w) \in Step(n)
PROOF
<1> DEFINE F == v.files \cup w.files
           g == [f \in F |-> IF f \in v.files THEN v.data[f] ELSE w.data[f]]
<1>1. F \in SUBSET File /\ \A f \in F : g[f] \in Content(f, n)
  BY StepFacts
<1>2. g \in [F -> UNION {Content(f, n) : f \in File}]
  BY <1>1
<1>3. Both(v, w) = [files |-> F, torn |-> FALSE, data |-> g]
  BY DEF Both
<1> HIDE DEF F, g
<1> QED
  BY <1>1, <1>2, <1>3 DEF Step

LEMMA StepsGrow ==
  ASSUME NEW m \in Nat, NEW n \in Nat, m <= n
  PROVE  Step(m) \subseteq Step(n) /\ Seq(Step(m)) \subseteq Seq(Step(n))
PROOF
<1>1. \A f \in File : Content(f, m) \subseteq Content(f, n)
  BY Grows
<1>2. UNION {Content(f, m) : f \in File} \subseteq UNION {Content(f, n) : f \in File}
  BY <1>1
<1> DEFINE A(k) == UNION {Content(f, k) : f \in File}
           W(k) == UNION {[files : {F}, data : [F -> A(k)], torn : BOOLEAN] : F \in SUBSET File}
<1>3. W(m) \subseteq W(n)
  <2> SUFFICES ASSUME NEW w \in W(m) PROVE w \in W(n)
    OBVIOUS
  <2>1. PICK F \in SUBSET File : w \in [files : {F}, data : [F -> A(m)], torn : BOOLEAN]
    OBVIOUS
  <2> HIDE DEF A
  <2>2. [F -> A(m)] \subseteq [F -> A(n)]
    BY <1>2 DEF A
  <2> QED
    BY <2>1, <2>2
<1>4. \A w \in Step(m) : w \in W(m) /\ w.files \subseteq File
  BY DEF Step
<1>5. Step(m) \subseteq Step(n)
  <2> SUFFICES ASSUME NEW w \in Step(m) PROVE w \in W(n) /\ \A f \in w.files : w.data[f] \in Content(f, n)
    BY DEF Step
  <2> QED
    BY <1>1, <1>3, <1>4, StepFacts
<1> QED
  BY <1>5, SeqMonotonic

-----------------------------------------------------------------------------
(* The disk *)

Disk(n) == disk = [f \in File |-> disk[f]] /\ \A f \in File : disk[f] \in Content(f, n)

LEMMA MadeTyped ==
  ASSUME NEW n, Disk(n), NEW w \in Step(n), disk' = Made(w)
  PROVE  Disk(n)'
PROOF BY StepFacts DEF Disk, Made, Content

LEMMA StoppedTyped ==
  ASSUME NEW n, Disk(n), NEW q \in Seq(Step(n)), disk' \in Stopped(q)
  PROVE  Disk(n)'
PROOF BY DEF Disk, Stopped, Content

LEMMA HeadTail ==
  ASSUME NEW S, NEW q \in Seq(S), q # <<>>
  PROVE  /\ Head(q) \in S /\ Tail(q) \in Seq(S)
         /\ Head(q) = q[1] /\ Len(Tail(q)) = Len(q) - 1
         /\ \A i \in 1 .. Len(q) - 1 : Tail(q)[i] = q[i + 1]
PROOF BY HeadTailProperties

LEMMA Joined ==
  ASSUME NEW a, NEW b, NEW c, NEW d
  PROVE  /\ <<a, b, c>> \o <<d>> = <<a, b, c, d>> /\ Append(<<a, b, c>>, d) = <<a, b, c, d>>
         /\ <<a, b>> \o <<c>> = <<a, b, c>>
         /\ Front(<<a, b, c, d>>) = <<a, b, c>> /\ Front(<<a, b, c>>) = <<a, b>> /\ Front(<<a, b>>) = <<a>>
PROOF
<1> DEFINE S == {a, b, c, d}
<1>1. /\ <<a, b, c, d>> \in Seq(S) /\ <<a, b, c>> \in Seq(S) /\ <<a, b>> \in Seq(S)
      /\ <<a>> \in Seq(S) /\ <<c>> \in Seq(S) /\ <<d>> \in Seq(S)
  OBVIOUS
<1>2. <<a, b, c>> \o <<d>> = <<a, b, c, d>>
  <2>1. /\ <<a, b, c>> \o <<d>> \in Seq(S) /\ Len(<<a, b, c>> \o <<d>>) = 4
        /\ \A i \in 1 .. 4 : (<<a, b, c>> \o <<d>>)[i] = <<a, b, c, d>>[i]
    BY <1>1, ConcatProperties
  <2> QED
    BY <1>1, <2>1, SeqEqual
<1>3. Append(<<a, b, c>>, d) = <<a, b, c, d>>
  BY <1>1, <1>2, AppendIsConcat
<1>4. <<a, b>> \o <<c>> = <<a, b, c>>
  <2>1. /\ <<a, b>> \o <<c>> \in Seq(S) /\ Len(<<a, b>> \o <<c>>) = 3
        /\ \A i \in 1 .. 3 : (<<a, b>> \o <<c>>)[i] = <<a, b, c>>[i]
    BY <1>1, ConcatProperties
  <2> QED
    BY <1>1, <2>1, SeqEqual
<1>5. Front(<<a, b, c, d>>) = <<a, b, c>>
  <2>1. /\ SubSeq(<<a, b, c, d>>, 1, 3) \in Seq(S) /\ Len(SubSeq(<<a, b, c, d>>, 1, 3)) = 3
        /\ \A i \in 1 .. 3 : SubSeq(<<a, b, c, d>>, 1, 3)[i] = <<a, b, c>>[i]
    BY <1>1, SubSeqProperties
  <2>2. SubSeq(<<a, b, c, d>>, 1, 3) = <<a, b, c>>
    BY <1>1, <2>1, SeqEqual
  <2>3. Len(<<a, b, c, d>>) - 1 = 3
    OBVIOUS
  <2> QED
    BY <2>2, <2>3, Zenon DEF Front
<1>6. Front(<<a, b, c>>) = <<a, b>>
  <2>1. /\ SubSeq(<<a, b, c>>, 1, 2) \in Seq(S) /\ Len(SubSeq(<<a, b, c>>, 1, 2)) = 2
        /\ \A i \in 1 .. 2 : SubSeq(<<a, b, c>>, 1, 2)[i] = <<a, b>>[i]
    BY <1>1, SubSeqProperties
  <2>2. SubSeq(<<a, b, c>>, 1, 2) = <<a, b>>
    BY <1>1, <2>1, SeqEqual
  <2>3. Len(<<a, b, c>>) - 1 = 2
    OBVIOUS
  <2> QED
    BY <2>2, <2>3, Zenon DEF Front
<1>7. Front(<<a, b>>) = <<a>>
  <2>1. /\ SubSeq(<<a, b>>, 1, 1) \in Seq(S) /\ Len(SubSeq(<<a, b>>, 1, 1)) = 1
        /\ \A i \in 1 .. 1 : SubSeq(<<a, b>>, 1, 1)[i] = <<a>>[i]
    BY <1>1, SubSeqProperties
  <2>2. SubSeq(<<a, b>>, 1, 1) = <<a>>
    BY <1>1, <2>1, SeqEqual
  <2>3. Len(<<a, b>>) - 1 = 1
    OBVIOUS
  <2> QED
    BY <2>2, <2>3, Zenon DEF Front
<1> QED
  BY <1>2, <1>3, <1>4, <1>5, <1>6, <1>7

LEMMA Parents ==
  ASSUME NEW a, NEW b, NEW c
  PROVE  /\ FoldersTo(<<a, b, c>>) = {<<a>>, <<a, b>>, <<a, b, c>>}
         /\ FoldersTo(<<a, b>>) = {<<a>>, <<a, b>>}
         /\ FoldersTo(<<a>>) = {<<a>>}
         /\ SubSeq(<<a, b, c>>, 1, 2) = <<a, b>>
PROOF
<1> DEFINE S == {a, b, c}
<1>1. <<a, b, c>> \in Seq(S) /\ <<a, b>> \in Seq(S) /\ <<a>> \in Seq(S)
  OBVIOUS
<1>2. SubSeq(<<a, b, c>>, 1, 1) = <<a>>
  <2>1. /\ SubSeq(<<a, b, c>>, 1, 1) \in Seq(S) /\ Len(SubSeq(<<a, b, c>>, 1, 1)) = 1
        /\ \A i \in 1 .. 1 : SubSeq(<<a, b, c>>, 1, 1)[i] = <<a>>[i]
    BY <1>1, SubSeqProperties
  <2> QED
    BY <1>1, <2>1, SeqEqual
<1>3. SubSeq(<<a, b, c>>, 1, 2) = <<a, b>> /\ SubSeq(<<a, b>>, 1, 1) = <<a>>
  <2>1. Front(<<a, b, c>>) = SubSeq(<<a, b, c>>, 1, 2)
    <3>1. Len(<<a, b, c>>) - 1 = 2
      OBVIOUS
    <3> QED
      BY <3>1, Zenon DEF Front
  <2>2. Front(<<a, b>>) = SubSeq(<<a, b>>, 1, 1)
    <3>1. Len(<<a, b>>) - 1 = 1
      OBVIOUS
    <3> QED
      BY <3>1, Zenon DEF Front
  <2> QED
    BY <2>1, <2>2, Joined
<1>4. SubSeq(<<a, b, c>>, 1, 3) = <<a, b, c>> /\ SubSeq(<<a, b>>, 1, 2) = <<a, b>> /\ SubSeq(<<a>>, 1, 1) = <<a>>
  BY <1>1, SubSeqFull
<1>5. 1 .. Len(<<a, b, c>>) = {1, 2, 3} /\ 1 .. Len(<<a, b>>) = {1, 2} /\ 1 .. Len(<<a>>) = {1}
  OBVIOUS
<1> QED
  BY <1>2, <1>3, <1>4, <1>5 DEF FoldersTo

-----------------------------------------------------------------------------
(* Archives *)

\* WriteZip's archive is read back by ReadZip with the files it was written from,
\* their parent folders added, and is refused exactly if a path of it is unsafe.
THEOREM ReadBack ==
  ASSUME NEW tree, tree.files = [p \in DOMAIN tree.files |-> tree.files[p]]
  PROVE  /\ ReadZip(WriteZip(tree)).files = tree.files
         /\ ReadZip(WriteZip(tree)).folders =
              UNION ({FoldersTo(f) : f \in tree.folders} \cup {FoldersTo(Front(p)) : p \in DOMAIN tree.files})
         /\ ZipReads(WriteZip(tree)) <=>
              /\ \A p \in DOMAIN tree.files : IsSafeZipPath(p)
              /\ \A f \in tree.folders : IsSafeZipPath(f)
PROOF
<1> DEFINE zip == WriteZip(tree)
<1>1. /\ Files(zip) = {FileEntry(p, tree.files[p]) : p \in DOMAIN tree.files}
      /\ Folders(zip) = {FolderEntry(f) : f \in tree.folders}
      /\ zip.sound /\ zip.entries = Files(zip) \cup Folders(zip)
  BY DEF WriteZip, Files, Folders, FileEntry, FolderEntry
<1> HIDE DEF zip
<1>2. /\ {e.path : e \in Files(zip)} = DOMAIN tree.files
      /\ \A e \in Files(zip) : e.data = tree.files[e.path] /\ e.readable
      /\ \A e, f \in Files(zip) : e.path = f.path => e = f
      /\ \A e \in Folders(zip) : e.readable
      /\ {e.path : e \in Folders(zip)} = tree.folders
  <2>1. \A p : LET e == FileEntry(p, tree.files[p]) IN e.path = p /\ e.data = tree.files[p] /\ e.readable
    BY DEF FileEntry
  <2>2. \A f : FolderEntry(f).path = f /\ FolderEntry(f).readable
    BY DEF FolderEntry
  <2>3. \A e \in Files(zip) : \E p \in DOMAIN tree.files : e = FileEntry(p, tree.files[p])
    BY <1>1
  <2>4. \A p \in DOMAIN tree.files : FileEntry(p, tree.files[p]) \in Files(zip)
    BY <1>1
  <2>5. {e.path : e \in Files(zip)} = DOMAIN tree.files
    BY <2>1, <2>3, <2>4
  <2>6. /\ \A e \in Files(zip) : e.data = tree.files[e.path] /\ e.readable
        /\ \A e, f \in Files(zip) : e.path = f.path => e = f
    BY <2>1, <2>3
  <2>7. \A e \in Folders(zip) : e.readable
    BY <1>1, <2>2
  <2>8. {e.path : e \in Folders(zip)} = tree.folders
    BY <1>1, <2>2
  <2> QED
    BY <2>5, <2>6, <2>7, <2>8
<1>3. \A p \in DOMAIN tree.files : (CHOOSE e \in Files(zip) : e.path = p).data = tree.files[p]
  <2> SUFFICES ASSUME NEW p \in DOMAIN tree.files
               PROVE  (CHOOSE e \in Files(zip) : e.path = p).data = tree.files[p]
    OBVIOUS
  <2>1. \E e \in Files(zip) : e.path = p
    BY <1>2
  <2> QED
    BY <1>2, <2>1
<1>4. ReadZip(zip).files = tree.files
  BY <1>2, <1>3 DEF ReadZip
<1>5. ReadZip(zip).folders =
        UNION ({FoldersTo(f) : f \in tree.folders} \cup {FoldersTo(Front(p)) : p \in DOMAIN tree.files})
  BY <1>1, <1>2 DEF ReadZip, FileEntry, FolderEntry
<1>6. ZipReads(zip) <=> /\ \A p \in DOMAIN tree.files : IsSafeZipPath(p)
                        /\ \A f \in tree.folders : IsSafeZipPath(f)
  BY <1>1, <1>2 DEF ZipReads, FileEntry, FolderEntry
<1> QED
  BY <1>4, <1>5, <1>6 DEF zip

\* The place of the request in its archive.
CsrPath(d) == <<Cert1, <<"device", d>>, <<"port", 4>>, <<"csr", "node">>>>

LEMMA ArchiveTree ==
  ASSUME NEW d, NEW csr, NEW tree, tree = ReadZip(NodeRequestZip(d, csr))
  PROVE  /\ tree.files = [p \in {CsrPath(d), <<Cert1, Notes>>} |->
                             IF p = CsrPath(d) THEN csr ELSE [is |-> "notes"]]
         /\ tree.folders = {<<Cert1>>, <<Cert1, <<"device", d>>>>, PortFolder(d)}
         /\ ZipReads(NodeRequestZip(d, csr))
PROOF
<1> DEFINE place == CsrPath(d)
           notes == <<Cert1, Notes>>
           one == AddFile(EmptyTree, place, csr)
           two == AddFile(one, notes, [is |-> "notes"])
           parents == {<<Cert1>>, <<Cert1, <<"device", d>>>>, PortFolder(d)}
<1>1. /\ PortFolder(d) \o <<<<"csr", "node">>>> = place
      /\ Front(place) = PortFolder(d) /\ Front(notes) = <<Cert1>>
  <2>1. /\ \A a, b, c, e : <<a, b, c>> \o <<e>> = <<a, b, c, e>> /\ Front(<<a, b, c, e>>) = <<a, b, c>>
        /\ \A a, b : Front(<<a, b>>) = <<a>>
    BY Joined
  <2>2. PortFolder(d) \o <<<<"csr", "node">>>> = place /\ Front(place) = PortFolder(d)
    BY <2>1, Zenon DEF PortFolder, CsrPath
  <2> QED
    BY <2>1, <2>2
<1>2. FoldersTo(PortFolder(d)) = parents /\ FoldersTo(<<Cert1>>) = {<<Cert1>>}
      /\ FoldersTo(<<Cert1, <<"device", d>>>>) = {<<Cert1>>, <<Cert1, <<"device", d>>>>}
  BY Parents DEF PortFolder
<1>3. NodeRequestZip(d, csr) = WriteZip(two)
  BY <1>1 DEF NodeRequestZip
<1>4. place # notes
  BY DEF CsrPath
<1>5. /\ \A i \in DOMAIN place : place[i] # <<"unsafe">>
      /\ \A i \in DOMAIN notes : notes[i] # <<"unsafe">>
      /\ \A f \in parents : f # <<>> /\ \A i \in DOMAIN f : f[i] # <<"unsafe">>
      /\ place # <<>> /\ notes # <<>>
  BY DEF CsrPath, PortFolder, Cert1, Notes
<1> HIDE DEF place, notes, parents
<1>6. one.files = [p \in {place} |-> csr] /\ one.folders = parents
  BY <1>1, <1>2 DEF AddFile, EmptyTree
<1>7. <<Cert1>> \in parents
  BY DEF parents
<1> HIDE DEF one
<1>8. /\ two.files = [p \in {place, notes} |-> IF p = place THEN csr ELSE [is |-> "notes"]]
      /\ two.folders = parents
  BY <1>1, <1>2, <1>4, <1>6, <1>7 DEF AddFile
<1> HIDE DEF two
<1>9. /\ two.files = [p \in DOMAIN two.files |-> two.files[p]] /\ DOMAIN two.files = {place, notes}
      /\ two.folders = parents
  BY <1>8
<1>10. UNION ({FoldersTo(f) : f \in two.folders} \cup {FoldersTo(Front(p)) : p \in DOMAIN two.files}) = parents
  BY <1>1, <1>2, <1>9 DEF parents
<1>11. tree.files = two.files /\ tree.folders = parents
  BY <1>3, <1>9, <1>10, ReadBack
<1>12. ZipReads(WriteZip(two))
  BY <1>5, <1>9, ReadBack DEF IsSafeZipPath
<1> QED
  BY <1>3, <1>8, <1>11, <1>12 DEF place, notes, parents

LEMMA ArchiveCsrs ==
  ASSUME NEW d, NEW csr, NEW tree, tree = ReadZip(NodeRequestZip(d, csr))
  PROVE  CsrFiles(tree) = {CsrPath(d)} /\ tree.files[CsrPath(d)] = csr
PROOF
<1>1. DOMAIN tree.files = {CsrPath(d), <<Cert1, Notes>>} /\ tree.files[CsrPath(d)] = csr
  <2>1. tree.files = [p \in {CsrPath(d), <<Cert1, Notes>>} |-> IF p = CsrPath(d) THEN csr ELSE [is |-> "notes"]]
    BY ArchiveTree
  <2> QED
    BY <2>1
<1>2. Len(<<Cert1, Notes>>) = 2
  OBVIOUS
<1>3. /\ Len(CsrPath(d)) = 4 /\ CsrPath(d)[1] = Cert1 /\ CsrPath(d)[2][1] = "device"
      /\ CsrPath(d)[3][1] = "port" /\ CsrPath(d)[4][1] = "csr"
  BY DEF CsrPath
<1> QED
  BY <1>1, <1>2, <1>3 DEF CsrFiles

\* What an authority may put in its answer.
Sendable == [is : {"certificate"}, key : 1 .. MaxKey + 1, ca : Ca, expired : BOOLEAN]
            \cup Authorities \cup {[is |-> "notes"], [is |-> "nothing"]}

LEMMA ResponseData ==
  ASSUME NEW oprs, \A p \in DOMAIN oprs : oprs[p] \in Sendable,
         NEW issuers, \A n \in DOMAIN issuers : issuers[n] \in Sendable,
         NEW e \in Response(oprs, issuers).entries
  PROVE  e.data \in Sendable
PROOF
<1> DEFINE files == [p \in DOMAIN oprs \cup {IssuerPath(n) : n \in DOMAIN issuers} |->
                       IF p \in DOMAIN oprs THEN oprs[p] ELSE issuers[p[3][2]]]
           folders == UNION {FoldersTo(Front(p)) : p \in DOMAIN files}
           tree == [folders |-> folders, files |-> files]
<1>1. \A n : IssuerPath(n)[3][2] = n
  BY DEF IssuerPath
<1>2. \A p \in DOMAIN files : files[p] \in Sendable
  BY <1>1
<1>3. Response(oprs, issuers) = WriteZip(tree)
  BY DEF Response
<1> HIDE DEF files, folders
<1>4. e \in {FolderEntry(f) : f \in folders} \/ e \in {FileEntry(p, files[p]) : p \in DOMAIN files}
  BY <1>3 DEF WriteZip
<1>5. [is |-> "nothing"] \in Sendable
  BY DEF Sendable
<1> QED
  BY <1>2, <1>4, <1>5 DEF FolderEntry, FileEntry

LEMMA CertsSendable ==
  ASSUME NEW k \in 1 .. MaxKey + 1, NEW a \in Ca
  PROVE  Cert(k, a) \in Sendable /\ [Cert(k, a) EXCEPT !.expired = TRUE] \in Sendable
PROOF BY DEF Cert, Sendable

LEMMA KeysSendable ==
  /\ \A k \in 1 .. MaxKey : k \in 1 .. MaxKey + 1
  /\ MaxKey + 1 \in 1 .. MaxKey + 1
PROOF BY CommissioningAssumption

LEMMA OthersSendable ==
  Authorities \subseteq Sendable /\ (\A a \in Ca : Authority(a) \in Sendable) /\ [is |-> "notes"] \in Sendable
PROOF BY DEF Authorities, Sendable

LEMMA SendableKinds ==
  ASSUME NEW x \in Sendable
  PROVE  /\ x.is = "authority" => x \in Authorities
         /\ x.is = "certificate" => x \in [is : {"certificate"}, key : 1 .. MaxKey + 1, ca : Ca, expired : BOOLEAN]
PROOF BY DEF Sendable, Authorities, Authority

LEMMA SendableAt ==
  ASSUME NEW f, NEW c \in Sendable, NEW p \in DOMAIN At(f, c)
  PROVE  At(f, c)[p] \in Sendable
PROOF BY DEF At

LEMMA CertificateAt ==
  ASSUME NEW k \in 1 .. MaxKey, NEW a \in Ca, NEW path,
         NEW issuers, \A n \in DOMAIN issuers : issuers[n] \in Sendable,
         NEW e \in Response(At(path, Cert(k, a)), issuers).entries
  PROVE  e.data \in Sendable
PROOF
<1>1. Cert(k, a) \in Sendable
  BY KeysSendable, CertsSendable
<1>2. \A p \in DOMAIN At(path, Cert(k, a)) : At(path, Cert(k, a))[p] \in Sendable
  BY <1>1, SendableAt
<1> QED
  BY <1>2, ResponseData

LEMMA OneCertificateForm ==
  ASSUME NEW k, NEW zip \in OneCertificate(k)
  PROVE  \E path \in {OwnPath(d) : d \in Instance} \cup {OtherPath}, a \in Ca,
            issuers \in {<<i>> : i \in Authorities} \cup {<<i, j>> : i, j \in Authorities} :
           zip = Response(At(path, Cert(k, a)), issuers)
PROOF BY DEF OneCertificate

LEMMA TwoCertificatesForm ==
  ASSUME NEW k, NEW zip \in TwoCertificates(k)
  PROVE  \E d \in Instance, a \in Ca : zip = Response(ForHubAnd(d, k, a), <<Authority(a)>>)
PROOF BY DEF TwoCertificates

LEMMA OtherIssuerForm ==
  ASSUME NEW k, NEW zip \in OtherIssuer(k)
  PROVE  \E a \in Ca, other \in NoAuthority(k) : zip = Response(At(OtherPath, Cert(k, a)), <<Authority(a), other>>)
PROOF BY DEF OtherIssuer

LEMMA ResponsesSendable ==
  ASSUME NEW k \in 1 .. MaxKey, NEW zip \in Responses[k], NEW e \in zip.entries
  PROVE  e.data \in Sendable
PROOF
<1>1. ASSUME zip \in OneCertificate(k)
      PROVE  e.data \in Sendable
  <2>1. PICK path \in {OwnPath(d) : d \in Instance} \cup {OtherPath}, a \in Ca, issuers \in {<<i>> : i \in Authorities} \cup {<<i, j>> : i, j \in Authorities} :
          zip = Response(At(path, Cert(k, a)), issuers)
    BY <1>1, OneCertificateForm
  <2>2. \A i \in Authorities, j \in Authorities :
          /\ \A n \in DOMAIN <<i>> : <<i>>[n] \in Authorities
          /\ \A n \in DOMAIN <<i, j>> : <<i, j>>[n] \in Authorities
    OBVIOUS
  <2>3. \A n \in DOMAIN issuers : issuers[n] \in Sendable
    BY <2>2, OthersSendable
  <2> QED
    BY <2>1, <2>3, CertificateAt
<1>2. ASSUME zip \in TwoCertificates(k)
      PROVE  e.data \in Sendable
  <2>1. PICK d \in Instance, a \in Ca : zip = Response(ForHubAnd(d, k, a), <<Authority(a)>>)
    BY <1>2, TwoCertificatesForm
  <2>2. Cert(k, a) \in Sendable /\ Cert(MaxKey + 1, a) \in Sendable
    BY KeysSendable, CertsSendable
  <2>3. \A p \in DOMAIN ForHubAnd(d, k, a) : ForHubAnd(d, k, a)[p] \in Sendable
    BY <2>2 DEF ForHubAnd
  <2>4. \A n \in DOMAIN <<Authority(a)>> : <<Authority(a)>>[n] \in Sendable
    BY OthersSendable
  <2> QED
    BY <2>1, <2>3, <2>4, ResponseData
<1>3. ASSUME zip \in Expired(k)
      PROVE  e.data \in Sendable
  <2> DEFINE old(a) == [Cert(k, a) EXCEPT !.expired = TRUE]
  <2>1. PICK a \in Ca : zip = Response(At(OtherPath, old(a)), <<Authority(a)>>)
    BY <1>3 DEF Expired
  <2>2. old(a) \in Sendable
    BY KeysSendable, CertsSendable
  <2> HIDE DEF old
  <2>3. \A p \in DOMAIN At(OtherPath, old(a)) : At(OtherPath, old(a))[p] \in Sendable
    BY <2>2, SendableAt
  <2>4. \A n \in DOMAIN <<Authority(a)>> : <<Authority(a)>>[n] \in Sendable
    BY OthersSendable
  <2> QED
    BY <2>1, <2>3, <2>4, ResponseData
<1>4. ASSUME zip \in OtherIssuer(k)
      PROVE  e.data \in Sendable
  <2>1. PICK a \in Ca, other \in NoAuthority(k) :
          zip = Response(At(OtherPath, Cert(k, a)), <<Authority(a), other>>)
    BY <1>4, OtherIssuerForm
  <2>2. other \in Sendable
    BY KeysSendable, CertsSendable, OthersSendable DEF NoAuthority
  <2>3. \A n \in DOMAIN <<Authority(a), other>> : <<Authority(a), other>>[n] \in Sendable
    BY <2>2, OthersSendable
  <2> QED
    BY <2>1, <2>3, CertificateAt
<1>5. ASSUME zip \in ThreeIssuers(k)
      PROVE  e.data \in Sendable
  <2>1. PICK a \in Ca : zip = Response(At(OtherPath, Cert(k, a)), [n \in 1 .. 3 |-> Authority(a)])
    BY <1>5 DEF ThreeIssuers
  <2>2. \A n \in DOMAIN [m \in 1 .. 3 |-> Authority(a)] : [m \in 1 .. 3 |-> Authority(a)][n] \in Sendable
    BY OthersSendable
  <2> QED
    BY <2>1, <2>2, CertificateAt
<1>6. ASSUME zip \in NoIssuer(k)
      PROVE  e.data \in Sendable
  <2>1. PICK a \in Ca : zip = Response(At(OtherPath, Cert(k, a)), <<>>)
    BY <1>6 DEF NoIssuer
  <2> QED
    BY <2>1, CertificateAt
<1>7. ASSUME zip \in Damaged(k)
      PROVE  e.data \in Sendable
  <2>1. PICK a \in Ca : zip = [sound |-> TRUE, entries |-> {[FileEntry(OtherPath, Cert(k, a)) EXCEPT !.readable = FALSE]}]
    BY <1>7 DEF Damaged
  <2>2. Cert(k, a) \in Sendable
    BY KeysSendable, CertsSendable
  <2> QED
    BY <2>1, <2>2 DEF FileEntry
<1> QED
  BY <1>1, <1>2, <1>3, <1>4, <1>5, <1>6, <1>7 DEF Responses

LEMMA FilesSendable ==
  ASSUME NEW k \in 1 .. MaxKey, NEW zip \in Responses[k], NEW p \in DOMAIN ReadZip(zip).files
  PROVE  ReadZip(zip).files[p] \in Sendable
PROOF
<1>1. \E e \in Files(zip) : e.path = p
  BY DEF ReadZip
<1>2. ReadZip(zip).files[p] = (CHOOSE e \in Files(zip) : e.path = p).data
  BY DEF ReadZip
<1>3. (CHOOSE e \in Files(zip) : e.path = p) \in zip.entries
  BY <1>1 DEF Files
<1> QED
  BY <1>2, <1>3, ResponsesSendable

\* What is read from an answer.
LEMMA IssuersRead ==
  ASSUME NEW k \in 1 .. MaxKey, NEW zip \in Responses[k],
         NEW c, NEW list \in Issuers(ReadZip(zip), c)
  PROVE  \E i \in Authorities, j \in Authorities : i.ca = c.ca /\ list \in {<<i>>, <<i, j>>}
PROOF
<1> DEFINE tree == ReadZip(zip)
           paths == IssuerFiles(tree)
           signed == {pq \in paths \X paths : paths = {pq[1], pq[2]} /\ tree.files[pq[1]].ca = c.ca}
<1>1. \A p \in paths : p \in DOMAIN tree.files
  BY DEF IssuerFiles
<1>2. \A p \in paths : tree.files[p].is = "authority"
  BY DEF Issuers
<1>3. \A p \in paths : tree.files[p] \in Authorities
  BY <1>1, <1>2, FilesSendable, SendableKinds
<1> HIDE DEF tree, paths
<1>4. list \in {IF pq[1] = pq[2] THEN <<tree.files[pq[1]]>>
                ELSE <<tree.files[pq[1]], tree.files[pq[2]]>> : pq \in signed}
  BY DEF Issuers, tree, paths
<1>5. PICK pq \in signed : list \in {<<tree.files[pq[1]]>>, <<tree.files[pq[1]], tree.files[pq[2]]>>}
  BY <1>4
<1>6. pq[1] \in paths /\ pq[2] \in paths /\ tree.files[pq[1]].ca = c.ca
  OBVIOUS
<1> QED
  BY <1>3, <1>5, <1>6

LEMMA ImportReads ==
  ASSUME NEW k \in 1 .. MaxKey, NEW zip \in Responses[k], NEW port, NEW set \in ReadCariResponse(port, zip)
  PROVE  /\ disk[Csr(port)].is = "request"
         /\ \E a \in Ca : /\ set.opr = Cert(KeyOf(Csr(port)), a)
                         /\ \E i \in Authorities, j \in Authorities : i.ca = a /\ set.issuers \in {<<i>>, <<i, j>>}
         /\ set = [opr |-> set.opr, issuers |-> set.issuers]
PROOF
<1> DEFINE tree == ReadZip(zip)
<1>1. disk[Csr(port)].is = "request"
  BY DEF ReadCariResponse
<1>2. PICK p \in Matching(port, tree) :
        set \in IF tree.files[p].expired THEN {}
               ELSE {[opr |-> tree.files[p], issuers |-> i] : i \in Issuers(tree, tree.files[p])}
  BY DEF ReadCariResponse
<1>3. p \in DOMAIN tree.files /\ tree.files[p].is = "certificate" /\ tree.files[p].key = KeyOf(Csr(port))
  BY DEF Matching, OprFiles
<1>4. tree.files[p] \in [is : {"certificate"}, key : 1 .. MaxKey + 1, ca : Ca, expired : BOOLEAN]
  BY <1>3, FilesSendable, SendableKinds
<1> HIDE DEF tree
<1>5. PICK i \in Issuers(tree, tree.files[p]) : set = [opr |-> tree.files[p], issuers |-> i]
  BY <1>2
<1>6. ~tree.files[p].expired
  BY <1>2
<1>7. tree.files[p] = Cert(KeyOf(Csr(port)), tree.files[p].ca)
  BY <1>3, <1>4, <1>6 DEF Cert
<1>8. tree.files[p].ca \in Ca
  BY <1>4
<1>9. \E x \in Authorities, y \in Authorities : x.ca = tree.files[p].ca /\ i \in {<<x>>, <<x, y>>}
  BY <1>5, IssuersRead DEF tree
<1> QED
  BY <1>1, <1>5, <1>7, <1>8, <1>9

-----------------------------------------------------------------------------
(* Types *)

\* What a file of each kind can hold.
LEMMA Held ==
  ASSUME NEW n, Disk(n), NEW d \in Instance
  PROVE  /\ disk[Key(d)] \in Keys(n) \cup {Absent, Torn} /\ disk[Pending] \in Keys(n) \cup {Absent, Torn}
         /\ disk[Csr(d)] \in Requests(n) \cup {Absent, Torn}
         /\ disk[Opr(d)] \in Certs(n) \cup {Absent, Torn}
         /\ disk[RequestZip] \in Zips(n) \cup {Absent, Torn}
         /\ disk[Uuid] \in Uuids \cup {Absent, Torn}
PROOF BY Wholes, FileNames DEF Disk, Content

LEMMA HeldRequest ==
  ASSUME NEW n \in Nat, Disk(n), NEW d \in Instance, disk[Csr(d)].is = "request"
  PROVE  /\ disk[Csr(d)] = Request(KeyOf(Csr(d))) /\ KeyOf(Csr(d)) = disk[Csr(d)].key
         /\ KeyOf(Csr(d)) \in 1 .. n
         /\ disk[Csr(d)] \in Requests(n)
PROOF BY Held DEF Requests, Request, Absent, Torn, KeyOf

\* What the program writes is of the kind of the file.
LEMMA Written ==
  ASSUME NEW n \in Nat
  PROVE  /\ \A k \in 1 .. n : /\ \A d \in Instance : /\ KeyPair(k) \in Content(Key(d), n)
                                                    /\ Request(k) \in Content(Csr(d), n)
                             /\ KeyPair(k) \in Content(Pending, n)
                             /\ \A d \in Instance, a \in Ca : Cert(k, a) \in Content(Opr(d), n)
         /\ \A d \in Instance, c \in Requests(n) : [is |-> "zip", folder |-> d, csr |-> c] \in Content(RequestZip, n)
         /\ \A a \in Authorities : a \in Content(Iss(1), n) /\ a \in Content(Iss(2), n)
         /\ \A u \in 1 .. MaxUuid : [is |-> "uuid", uuid |-> u] \in Content(Uuid, n)
         /\ \A f : Absent \in Content(f, n) /\ Torn \in Content(f, n)
PROOF
<1>1. \A k \in 1 .. n : /\ \A d \in Instance : KeyPair(k) \in Content(Key(d), n)
                       /\ KeyPair(k) \in Content(Pending, n)
  BY Wholes DEF KeyPair, Keys, Content
<1>2. \A k \in 1 .. n, d \in Instance : Request(k) \in Content(Csr(d), n)
  BY Wholes DEF Requests, Content
<1>3. \A k \in 1 .. n, d \in Instance, a \in Ca : Cert(k, a) \in Content(Opr(d), n)
  BY Wholes DEF Certs, Content
<1>4. \A d \in Instance, c \in Requests(n) : [is |-> "zip", folder |-> d, csr |-> c] \in Content(RequestZip, n)
  BY Wholes DEF Zips, Content
<1>5. \A a \in Authorities : a \in Content(Iss(1), n) /\ a \in Content(Iss(2), n)
  BY Wholes DEF Content
<1>6. \A u \in 1 .. MaxUuid : [is |-> "uuid", uuid |-> u] \in Content(Uuid, n)
  BY Wholes DEF Uuids, Content
<1>7. \A f : Absent \in Content(f, n) /\ Torn \in Content(f, n)
  BY DEF Content
<1> QED
  BY <1>1, <1>2, <1>3, <1>4, <1>5, <1>6, <1>7

\* The plans of the device and of the import.
LEMMA Plans ==
  ASSUME NEW n \in Nat, NEW d \in Instance
  PROVE  /\ \A k \in 1 .. n : FirstFiles(d, k) \in Seq(Step(n))
         /\ \A c \in Requests(n) : <<ZipFile(d, c)>> \in Seq(Step(n))
         /\ \A u \in 1 .. MaxUuid : <<InPlace(Uuid, [is |-> "uuid", uuid |-> u])>> \in Seq(Step(n))
         /\ \A k \in 1 .. n : LET key == Renamed(Pending, KeyPair(k))
                                csr == Renamed(Csr(d), Request(k))
                            IN  <<key, csr>> \in Seq(Step(n)) /\ <<Both(key, csr)>> \in Seq(Step(n))
PROOF
<1>1. \A c \in Requests(n) : ZipFile(d, c) \in Step(n)
  BY Written, SingleSteps, FileNames DEF ZipFile
<1>2. \A k \in 1 .. n : /\ InPlace(Key(d), KeyPair(k)) \in Step(n)
                       /\ InPlace(Csr(d), Request(k)) \in Step(n)
                       /\ Renamed(Pending, KeyPair(k)) \in Step(n)
                       /\ Renamed(Csr(d), Request(k)) \in Step(n)
                       /\ Request(k) \in Requests(n)
  <2>1. \A k \in 1 .. n : /\ KeyPair(k) \in Content(Key(d), n) /\ Request(k) \in Content(Csr(d), n)
                         /\ KeyPair(k) \in Content(Pending, n)
    BY Written
  <2>2. \A k \in 1 .. n : Request(k) \in Requests(n)
    BY DEF Requests
  <2> QED
    BY <2>1, <2>2, SingleSteps, FileNames
<1>3. \A k \in 1 .. n : FirstFiles(d, k) \in Seq(Step(n))
  BY <1>1, <1>2 DEF FirstFiles
<1>4. \A u \in 1 .. MaxUuid : InPlace(Uuid, [is |-> "uuid", uuid |-> u]) \in Step(n)
  BY Written, SingleSteps, FileNames
<1>5. \A k \in 1 .. n : Both(Renamed(Pending, KeyPair(k)), Renamed(Csr(d), Request(k))) \in Step(n)
  BY <1>2, BothSteps
<1> QED
  BY <1>1, <1>2, <1>3, <1>4, <1>5

Activation(d, k, a) ==
  <<Renamed(Opr(d), Cert(k, a)), Renamed(Iss(1), Authority(a))>>
  \o IF k = KeyOf(Pending)
     THEN <<Both(Renamed(Key(d), disk[Pending]), Renamed(Pending, Absent))>> ELSE <<>>

LEMMA Activations ==
  ASSUME NEW d, NEW k, NEW a
  PROVE  LET opr == Renamed(Opr(d), Cert(k, a))
             iss == Renamed(Iss(1), Authority(a))
             swap == Both(Renamed(Key(d), disk[Pending]), Renamed(Pending, Absent))
         IN  Activation(d, k, a) = IF k = KeyOf(Pending) THEN <<opr, iss, swap>> ELSE <<opr, iss>>
PROOF
<1> DEFINE opr == Renamed(Opr(d), Cert(k, a))
           iss == Renamed(Iss(1), Authority(a))
           swap == Both(Renamed(Key(d), disk[Pending]), Renamed(Pending, Absent))
<1>1. Activation(d, k, a) = <<opr, iss>> \o IF k = KeyOf(Pending) THEN <<swap>> ELSE <<>>
  BY DEF Activation
<1> HIDE DEF opr, iss, swap
<1>2. <<opr, iss>> \o <<swap>> = <<opr, iss, swap>>
  BY Joined
<1>3. <<opr, iss>> \o <<>> = <<opr, iss>>
  BY ConcatEmptySeq
<1>4. Activation(d, k, a) = IF k = KeyOf(Pending) THEN <<opr, iss, swap>> ELSE <<opr, iss>>
  BY <1>1, <1>2, <1>3
<1> QED
  BY <1>4 DEF opr, iss, swap

LEMMA ActivationTyped ==
  ASSUME NEW n \in Nat, Disk(n), NEW d \in Instance, NEW k \in 1 .. n, NEW a \in Ca
  PROVE  Activation(d, k, a) \in Seq(Step(n))
PROOF
<1>1. Renamed(Opr(d), Cert(k, a)) \in Step(n) /\ Renamed(Iss(1), Authority(a)) \in Step(n)
  <2>1. Cert(k, a) \in Content(Opr(d), n) /\ Authority(a) \in Content(Iss(1), n)
    BY Written DEF Authorities
  <2> QED
    BY <2>1, SingleSteps, FileNames
<1>2. Both(Renamed(Key(d), disk[Pending]), Renamed(Pending, Absent)) \in Step(n)
  <2>1. disk[Pending] \in Content(Key(d), n) /\ Absent \in Content(Pending, n)
    BY Held, Written, Wholes DEF Content
  <2>2. Renamed(Key(d), disk[Pending]) \in Step(n) /\ Renamed(Pending, Absent) \in Step(n)
    BY <2>1, SingleSteps, FileNames
  <2> QED
    BY <2>2, BothSteps
<1> DEFINE first == <<Renamed(Opr(d), Cert(k, a)), Renamed(Iss(1), Authority(a))>>
           swap  == Both(Renamed(Key(d), disk[Pending]), Renamed(Pending, Absent))
           last  == IF k = KeyOf(Pending) THEN <<swap>> ELSE <<>>
<1>3. first \in Seq(Step(n)) /\ <<swap>> \in Seq(Step(n)) /\ <<>> \in Seq(Step(n))
  BY <1>1, <1>2
<1>4. Activation(d, k, a) = first \o last
  BY DEF Activation
<1> HIDE DEF first, swap
<1>5. last \in Seq(Step(n))
  BY <1>3
<1> QED
  BY <1>3, <1>4, <1>5, ConcatProperties

LEMMA ImportTyped ==
  ASSUME NEW n \in Nat, Disk(n), NEW k \in 1 .. MaxKey, NEW zip \in Responses[k],
         NEW port \in Instance, NEW set \in ReadCariResponse(port, zip)
  PROVE  ResponseWrites(port, set) \in Seq(Step(n))
PROOF
<1>1. disk[Csr(port)].is = "request"
  BY ImportReads
<1>2. PICK a \in Ca, i \in Authorities, j \in Authorities :
        set.opr = Cert(KeyOf(Csr(port)), a) /\ set.issuers \in {<<i>>, <<i, j>>}
  BY ImportReads
<1>3. set.issuers[1] = i /\ Last(set.issuers) \in {i, j}
  <2>1. /\ <<i>>[1] = i /\ <<i>>[Len(<<i>>)] = i
        /\ <<i, j>>[1] = i /\ <<i, j>>[Len(<<i, j>>)] = j
    OBVIOUS
  <2> QED
    BY <1>2, <2>1 DEF Last
<1>4. KeyOf(Csr(port)) \in 1 .. n
  BY <1>1, HeldRequest
<1>5. /\ InPlace(Opr(port), set.opr) \in Step(n)
      /\ InPlace(Iss(1), set.issuers[1]) \in Step(n)
      /\ InPlace(Iss(2), Last(set.issuers)) \in Step(n)
  <2>1. /\ set.opr \in Content(Opr(port), n)
        /\ set.issuers[1] \in Content(Iss(1), n) /\ Last(set.issuers) \in Content(Iss(2), n)
    BY <1>2, <1>3, <1>4, Written
  <2> QED
    BY <2>1, SingleSteps, FileNames
<1> QED
  BY <1>5 DEF ResponseWrites

Importing(n) ==
  /\ import = [writes |-> import.writes, set |-> import.set]
  /\ import.writes \in Seq(Step(n))
  /\ import # NoImport => import.writes # <<>>

Running ==
  /\ step \in {"off", "reconcile", "request", "writing", "certificates", "identity", "online", "up"}
  /\ {instance, folder} \subseteq Instance \cup {NoInstance} /\ unlocked \in BOOLEAN
  /\ todo # <<>> <=> step = "writing"
  /\ then \in [done : {"off", "certificates", "online", "up"}, failed : {"off", "certificates", "online", "up"}]
  /\ step # "off" => instance \in Instance /\ folder \in Instance

Counted ==
  /\ sent \subseteq 1 .. newest /\ newest \in 0 .. MaxKey /\ made \in 0 .. MaxUuid

Result ==
  outcome \in [request : {"none", "AlreadyExists", "Created", "Failed"}, cut : BOOLEAN]

Typed ==
  Disk(newest) /\ Running /\ todo \in Seq(Step(newest)) /\ Importing(newest) /\ Counted /\ Result

LEMMA TypedInit == Init => Typed
PROOF
<1> SUFFICES ASSUME Init PROVE Typed
  OBVIOUS
<1>1. Disk(newest)
  BY DEF Init, Disk, Content
<1>2. Running
  BY DEF Init, Running, Nowhere
<1>5. todo \in Seq(Step(newest))
  BY DEF Init
<1>3. Importing(newest)
  BY DEF Init, Importing, NoImport
<1>4. Counted /\ Result
  BY CommissioningAssumption DEF Init, Counted, Result
<1> QED
  BY <1>1, <1>2, <1>3, <1>4, <1>5 DEF Typed

LEMMA PortsKnown ==
  ASSUME NEW d \in Instance, NEW port \in ResolveNodeCertPaths(d)
  PROVE  port \in Instance /\ (NodePorts # {} => port \in NodePorts)
PROOF BY DEF ResolveNodeCertPaths, NodePorts

LEMMA Unchanged ==
  ASSUME Typed, newest' = newest
  PROVE  /\ disk' = disk => Disk(newest)'
         /\ import' = import => Importing(newest)'
         /\ todo' \in {todo, <<>>} => (todo \in Seq(Step(newest)))'
         /\ newest \in Nat /\ newest' \in Nat
PROOF
<1>1. newest \in Nat /\ newest' \in Nat
  BY CommissioningAssumption DEF Typed, Counted
<1>2. disk' = disk => Disk(newest)'
  BY DEF Typed, Disk
<1>3. import' = import => Importing(newest)'
  BY DEF Typed, Importing
<1>4. todo' \in {todo, <<>>} => (todo \in Seq(Step(newest)))'
  <2>1. <<>> \in Seq(Step(newest))
    OBVIOUS
  <2> QED
    BY <2>1 DEF Typed
<1> QED
  BY <1>1, <1>2, <1>3, <1>4

LEMMA KeyMade ==
  ASSUME Typed, newest < MaxKey, newest' = newest + 1
  PROVE  /\ newest' \in 1 .. newest' /\ newest' \in Nat /\ newest \in Nat
         /\ disk' = disk => Disk(newest)'
         /\ import' = import => Importing(newest)'
         /\ sent' = sent /\ made' = made => Counted'
PROOF
<1>1. newest \in Nat /\ newest' \in Nat /\ newest <= newest' /\ newest' \in 1 .. newest' /\ newest' \in 0 .. MaxKey
      /\ 1 .. newest \subseteq 1 .. newest'
  BY CommissioningAssumption DEF Typed, Counted
<1>2. disk' = disk => Disk(newest)'
  BY <1>1, Grows DEF Typed, Disk
<1>3. import' = import => Importing(newest)'
  BY <1>1, StepsGrow DEF Typed, Importing
<1>4. sent' = sent /\ made' = made => Counted'
  BY <1>1 DEF Typed, Counted
<1> QED
  BY <1>1, <1>2, <1>3, <1>4

LEMMA PoweredOff ==
  ASSUME Typed, PowerOff
  PROVE  Running' /\ todo' = <<>>
PROOF BY DEF PowerOff, Typed, Running, Nowhere

LEMMA SwapTyped ==
  ASSUME NEW n, Disk(n), folder \in Instance, disk' = Promoted
  PROVE  Disk(n)'
PROOF
<1>1. disk[Pending] \in Content(Key(folder), n) /\ Absent \in Content(Pending, n)
  BY Held, Wholes DEF Content
<1> QED
  BY <1>1 DEF Disk, Promoted

LEMMA DeviceStepTyped ==
  ASSUME Typed,
         \/ \E d \in Instance : Start(d)
         \/ ReconcilePendingKey \/ EnsureNodeRequest \/ Certificates
         \/ LoadOrCreateDeviceUuid \/ GoOnline
  PROVE  Typed'
PROOF
<1>1. ASSUME NEW d \in Instance, Start(d)
      PROVE  Typed'
  <2>1. Running'
    BY <1>1, PortsKnown DEF Start, Typed, Running
  <2>2. Disk(newest)' /\ Importing(newest)' /\ (todo \in Seq(Step(newest)))'
    BY <1>1, Unchanged DEF Start
  <2>3. Counted' /\ Result'
    BY <1>1 DEF Start, Typed, Counted, Result, history
  <2> QED
    BY <2>1, <2>2, <2>3 DEF Typed
<1>2. ASSUME ReconcilePendingKey
      PROVE  Typed'
  <2>1. Running'
    BY <1>2 DEF ReconcilePendingKey, Typed, Running, UnfinishedSwap
  <2>2. Importing(newest)' /\ (todo \in Seq(Step(newest)))' /\ (disk' = disk => Disk(newest)')
    BY <1>2, Unchanged DEF ReconcilePendingKey
  <2>3. disk' = Promoted => Disk(newest)'
    BY <1>2, SwapTyped DEF ReconcilePendingKey, Typed, Running, Disk
  <2>4. disk' = disk \/ disk' = Promoted
    BY <1>2 DEF ReconcilePendingKey
  <2>5. Counted' /\ Result'
    BY <1>2 DEF ReconcilePendingKey, Typed, Counted, Result, history
  <2> QED
    BY <2>1, <2>2, <2>3, <2>4, <2>5 DEF Typed
<1>3. ASSUME EnsureNodeRequest
      PROVE  Typed'
  <2>1. UNCHANGED <<disk, instance, folder, unlocked, import, sent, made>> /\ step = "request"
    BY <1>3 DEF EnsureNodeRequest
  <2>2. PICK d \in ResolveNodeCertPaths(instance) :
           \/ /\ Continue("certificates", "AlreadyExists") /\ UNCHANGED newest
           \/ /\ newest < MaxKey /\ newest' = newest + 1
              /\ Do(FirstFiles(d, newest'), "certificates", "certificates")
              /\ outcome' = [outcome EXCEPT !.request = "Created"]
           \/ /\ disk[Csr(d)].is = "request"
              /\ Do(<<ZipFile(d, disk[Csr(d)])>>, "certificates", "certificates")
              /\ outcome' = [outcome EXCEPT !.request = "Created"] /\ UNCHANGED newest
           \/ /\ Continue("certificates", "Failed") /\ UNCHANGED newest
    BY <1>3 DEF EnsureNodeRequest
  <2>3. d \in Instance
    BY <2>1, PortsKnown DEF Typed, Running
  <2>4. CASE \E r \in {"AlreadyExists", "Failed"} : Continue("certificates", r) /\ UNCHANGED newest
    <3>1. Disk(newest)' /\ Importing(newest)' /\ (todo \in Seq(Step(newest)))'
      BY <2>1, <2>4, Unchanged DEF Continue
    <3>2. Running'
      BY <2>1, <2>4 DEF Continue, Typed, Running
    <3>3. Counted' /\ Result'
      BY <2>1, <2>4 DEF Continue, Typed, Counted, Result
    <3> QED
      BY <3>1, <3>2, <3>3 DEF Typed
  <2>5. CASE /\ newest < MaxKey /\ newest' = newest + 1
             /\ Do(FirstFiles(d, newest'), "certificates", "certificates")
             /\ outcome' = [outcome EXCEPT !.request = "Created"]
    <3>1. Disk(newest)' /\ Importing(newest)' /\ Counted' /\ newest' \in 1 .. newest' /\ newest' \in Nat
      BY <2>1, <2>5, KeyMade
    <3>2. (todo \in Seq(Step(newest)))' /\ todo' # <<>>
      BY <2>3, <2>5, <3>1, Plans DEF Do, FirstFiles
    <3>3. Running'
      BY <2>1, <2>5, <3>2 DEF Do, Typed, Running
    <3>4. Result'
      BY <2>5 DEF Typed, Result
    <3> QED
      BY <3>1, <3>2, <3>3, <3>4 DEF Typed
  <2>6. CASE /\ disk[Csr(d)].is = "request"
             /\ Do(<<ZipFile(d, disk[Csr(d)])>>, "certificates", "certificates")
             /\ outcome' = [outcome EXCEPT !.request = "Created"] /\ UNCHANGED newest
    <3>1. Disk(newest)' /\ Importing(newest)' /\ newest \in Nat
      BY <2>1, <2>6, Unchanged
    <3>2. disk[Csr(d)] \in Requests(newest)
      BY <2>3, <2>6, <3>1, HeldRequest DEF Typed
    <3>3. (todo \in Seq(Step(newest)))' /\ todo' # <<>>
      BY <2>3, <2>6, <3>1, <3>2, Plans DEF Do
    <3>4. Running'
      BY <2>1, <2>6, <3>3 DEF Do, Typed, Running
    <3>5. Counted' /\ Result'
      BY <2>1, <2>6 DEF Typed, Counted, Result
    <3> QED
      BY <3>1, <3>3, <3>4, <3>5 DEF Typed
  <2> QED
    BY <2>2, <2>4, <2>5, <2>6
<1>4. ASSUME Certificates
      PROVE  Typed'
  <2>1. Disk(newest)' /\ Importing(newest)' /\ newest \in Nat
    BY <1>4, Unchanged DEF Certificates
  <2>2. CASE PowerOff
    <3>1. Running' /\ todo' = <<>>
      BY <2>2, PoweredOff
    <3>2. Counted' /\ Result'
      BY <1>4 DEF Certificates, Typed, Counted, Result
    <3> QED
      BY <2>1, <3>1, <3>2 DEF Typed
  <2>3. CASE step' = "identity" /\ UNCHANGED <<instance, folder, unlocked, todo, then>>
    <3>1. Running' /\ (todo \in Seq(Step(newest)))'
      BY <1>4, <2>3, Unchanged DEF Certificates, Typed, Running
    <3>2. Counted' /\ Result'
      BY <1>4 DEF Certificates, Typed, Counted, Result
    <3> QED
      BY <2>1, <3>1, <3>2 DEF Typed
  <2> QED
    BY <1>4, <2>2, <2>3 DEF Certificates
<1>5. ASSUME LoadOrCreateDeviceUuid
      PROVE  Typed'
  <2>1. Disk(newest)' /\ Importing(newest)' /\ newest \in Nat /\ newest' = newest
    BY <1>5, Unchanged DEF LoadOrCreateDeviceUuid
  <2>2. CASE NeedsUuid
    <3>1. made < MaxUuid /\ made' = made + 1 /\ todo' = <<InPlace(Uuid, [is |-> "uuid", uuid |-> made'])>>
          /\ step' = "writing" /\ then' = [done |-> "online", failed |-> "off"]
      BY <1>5, <2>2 DEF LoadOrCreateDeviceUuid, Do
    <3>2. Counted' /\ made' \in 1 .. MaxUuid
      BY <1>5, <3>1, CommissioningAssumption DEF LoadOrCreateDeviceUuid, Typed, Counted
    <3>3. \A d \in Instance : (todo \in Seq(Step(newest)))'
      BY <2>1, <3>1, <3>2, Plans
    <3>4. Instance # {}
      BY CommissioningAssumption
    <3>5. Running'
      BY <1>5, <3>1 DEF LoadOrCreateDeviceUuid, Typed, Running
    <3>6. Result'
      BY <1>5 DEF LoadOrCreateDeviceUuid, Typed, Result, history
    <3> QED
      BY <2>1, <3>2, <3>3, <3>4, <3>5, <3>6 DEF Typed
  <2>3. CASE ~NeedsUuid
    <3>1. Running' /\ (todo \in Seq(Step(newest)))'
      BY <1>5, <2>3, Unchanged DEF LoadOrCreateDeviceUuid, Typed, Running
    <3>2. Counted' /\ Result'
      BY <1>5, <2>3 DEF LoadOrCreateDeviceUuid, Typed, Counted, Result, history
    <3> QED
      BY <2>1, <3>1, <3>2 DEF Typed
  <2> QED
    BY <2>2, <2>3
<1>6. ASSUME GoOnline
      PROVE  Typed'
  <2>1. Disk(newest)' /\ Importing(newest)' /\ (todo \in Seq(Step(newest)))'
    BY <1>6, Unchanged DEF GoOnline
  <2>2. Running'
    BY <1>6 DEF GoOnline, Typed, Running
  <2>3. Counted' /\ Result'
    BY <1>6 DEF GoOnline, Typed, Counted, Result
  <2> QED
    BY <2>1, <2>2, <2>3 DEF Typed
<1> QED
  BY <1>1, <1>2, <1>3, <1>4, <1>5, <1>6

LEMMA RunningDeviceTyped ==
  ASSUME Typed,
         GenerateKeyAndCsr \/ \E k \in 1 .. MaxKey, a \in Ca : Activate(k, a)
  PROVE  Typed'
PROOF
<1>1. ASSUME GenerateKeyAndCsr
      PROVE  Typed'
  <2>1. Disk(newest)' /\ Importing(newest)' /\ Counted' /\ newest' \in 1 .. newest' /\ newest' \in Nat
    BY <1>1, KeyMade DEF GenerateKeyAndCsr
  <2>2. folder \in Instance
    BY <1>1 DEF GenerateKeyAndCsr, Typed, Running
  <2> DEFINE key == Renamed(Pending, KeyPair(newest'))
             csr == Renamed(Csr(folder), Request(newest'))
  <2>3. <<key, csr>> \in Seq(Step(newest')) /\ <<Both(key, csr)>> \in Seq(Step(newest'))
    BY <2>1, <2>2, Plans
  <2>4. todo' \in {<<key, csr>>, <<Both(key, csr)>>} /\ step' = "writing" /\ then' = [done |-> "up", failed |-> "up"]
    BY <1>1 DEF GenerateKeyAndCsr, Do
  <2> HIDE DEF key, csr
  <2>5. (todo \in Seq(Step(newest)))' /\ todo' # <<>>
    <3>1. <<key, csr>> # <<>> /\ <<Both(key, csr)>> # <<>>
      OBVIOUS
    <3>2. todo' \in Seq(Step(newest'))
      BY <2>3, <2>4
    <3> QED
      BY <2>4, <3>1, <3>2
  <2>6. Running'
    BY <1>1, <2>4, <2>5 DEF GenerateKeyAndCsr, Typed, Running
  <2>7. Result'
    BY <1>1 DEF GenerateKeyAndCsr, Typed, Result, history
  <2> QED
    BY <2>1, <2>5, <2>6, <2>7 DEF Typed
<1>2. ASSUME NEW k \in 1 .. MaxKey, NEW a \in Ca, Activate(k, a)
      PROVE  Typed'
  <2>1. Disk(newest)' /\ Importing(newest)' /\ newest \in Nat /\ newest' = newest
    BY <1>2, Unchanged DEF Activate
  <2>2. folder \in Instance /\ k \in 1 .. newest
    BY <1>2 DEF Activate, Typed, Running, Counted
  <2>3. todo' = Activation(folder, k, a) /\ step' = "writing" /\ then' = [done |-> "up", failed |-> "up"]
    BY <1>2 DEF Activate, Do, Activation
  <2>4. Activation(folder, k, a) \in Seq(Step(newest))
    BY <2>1, <2>2, ActivationTyped DEF Typed
  <2>5. Activation(folder, k, a) # <<>>
    BY Activations
  <2>6. (todo \in Seq(Step(newest)))' /\ todo' # <<>>
    BY <2>1, <2>3, <2>4, <2>5
  <2>7. Running'
    BY <1>2, <2>3, <2>6 DEF Activate, Typed, Running
  <2>8. Counted' /\ Result'
    BY <1>2 DEF Activate, Typed, Counted, Result
  <2> QED
    BY <2>1, <2>6, <2>7, <2>8 DEF Typed
<1> QED
  BY <1>1, <1>2

LEMMA WritingTyped ==
  ASSUME Typed, Write \/ WriteFails \/ Stop
  PROVE  Typed'
PROOF
<1>1. ASSUME Write
      PROVE  Typed'
  <2>1. todo \in Seq(Step(newest)) /\ todo # <<>> /\ newest' = newest
    BY <1>1 DEF Write, Typed, Running
  <2>2. Head(todo) \in Step(newest) /\ Tail(todo) \in Seq(Step(newest))
    BY <2>1, HeadTail
  <2>3. Disk(newest)' /\ (todo \in Seq(Step(newest)))' /\ Importing(newest)'
    <3>1. Disk(newest)'
      <4>1. ASSUME NEW n, n = newest PROVE Disk(n)'
        BY <1>1, <2>2, <4>1, MadeTyped DEF Write, Typed
      <4> QED
        BY <2>1, <4>1 DEF Disk
    <3> QED
      BY <1>1, <2>1, <2>2, <3>1, Unchanged DEF Write
  <2>4. CASE todo' = <<>>
    <3>1. step' = then.done /\ then' = Nowhere /\ then.done # "writing"
      BY <1>1, <2>4 DEF Write, Typed, Running
    <3>2. Running'
      BY <1>1, <2>4, <3>1 DEF Write, Typed, Running, Nowhere
    <3> QED
      BY <1>1, <2>3, <3>2 DEF Write, Typed, Counted, Result, history
  <2>5. CASE todo' # <<>>
    <3>1. Running'
      BY <1>1, <2>5 DEF Write, Typed, Running
    <3> QED
      BY <1>1, <2>3, <3>1 DEF Write, Typed, Counted, Result, history
  <2> QED
    BY <2>4, <2>5
<1>2. ASSUME WriteFails
      PROVE  Typed'
  <2>1. Disk(newest)' /\ Importing(newest)' /\ Counted'
    BY <1>2, Unchanged DEF WriteFails, Typed, Counted
  <2>2. Result'
    BY <1>2 DEF WriteFails, Typed, Result, Cut
  <2>3. CASE PowerOff
    BY <1>2, <2>1, <2>2, <2>3, PoweredOff, Unchanged DEF Typed, WriteFails
  <2>4. CASE /\ step' = then.failed /\ todo' = <<>> /\ then' = Nowhere
             /\ UNCHANGED <<instance, folder, unlocked>>
    <3>1. Running'
      BY <1>2, <2>4 DEF WriteFails, Typed, Running, Nowhere
    <3> QED
      BY <1>2, <2>1, <2>2, <2>4, <3>1, Unchanged DEF Typed, WriteFails
  <2> QED
    BY <1>2, <2>3, <2>4 DEF WriteFails
<1>3. ASSUME Stop
      PROVE  Typed'
  <2>1. Disk(newest)'
    <3>1. ASSUME NEW n, n = newest PROVE Disk(n)'
      BY <1>3, <3>1, StoppedTyped DEF Stop, Typed
    <3> QED
      BY <1>3, <3>1 DEF Stop, Disk
  <2>2. Importing(newest)' /\ Counted'
    BY <1>3, Unchanged DEF Stop, Typed, Counted
  <2>3. Result'
    BY <1>3 DEF Stop, Typed, Result, Cut
  <2>4. Running' /\ (todo \in Seq(Step(newest)))'
    BY <1>3, PoweredOff, Unchanged DEF Stop
  <2> QED
    BY <2>1, <2>2, <2>3, <2>4 DEF Typed
<1> QED
  BY <1>1, <1>2, <1>3

LEMMA ZipHeld ==
  ASSUME NEW n, Disk(n), disk[RequestZip].is = "zip"
  PROVE  /\ disk[RequestZip] \in Zips(n)
         /\ disk[RequestZip].folder \in Instance /\ disk[RequestZip].csr \in Requests(n)
PROOF
<1>1. disk[RequestZip] \in Zips(n) \cup {Absent, Torn}
  BY Wholes, FileNames DEF Disk, Content
<1>2. disk[RequestZip] \in Zips(n)
  BY <1>1 DEF Absent, Torn
<1> QED
  BY <1>2 DEF Zips

LEMMA OperatorTyped ==
  ASSUME Typed, SendRequest \/ DeleteRequest \/ ProtectKey
  PROVE  Typed'
PROOF
<1>1. ASSUME SendRequest
      PROVE  Typed'
  <2>1. UNCHANGED <<disk, import, newest, made, todo>> /\ UNCHANGED <<step, instance, folder, unlocked, then>> /\ UNCHANGED history
    BY <1>1 DEF SendRequest, process
  <2>2. newest \in Nat
    BY <2>1, Unchanged
  <2>3. ASSUME disk[RequestZip].is = "zip",
               sent' = sent \cup {ReadZip(Archive).files[f].key : f \in CsrFiles(ReadZip(Archive))}
        PROVE  sent' \subseteq 1 .. newest
    <3>1. disk[RequestZip].csr \in Requests(newest)
      BY <2>3, ZipHeld DEF Typed
    <3>2. CsrFiles(ReadZip(Archive)) = {CsrPath(disk[RequestZip].folder)}
          /\ ReadZip(Archive).files[CsrPath(disk[RequestZip].folder)] = disk[RequestZip].csr
      BY ArchiveCsrs DEF Archive
    <3>3. disk[RequestZip].csr.key \in 1 .. newest
      BY <3>1 DEF Requests, Request
    <3> QED
      BY <2>3, <3>2, <3>3 DEF Typed, Counted
  <2>4. ASSUME NEW d \in Instance, disk[Csr(d)].is = "request", sent' = sent \cup {KeyOf(Csr(d))}
        PROVE  sent' \subseteq 1 .. newest
    BY <2>2, <2>4, HeldRequest DEF Typed, Counted
  <2>5. sent' \subseteq 1 .. newest
    BY <1>1, <2>3, <2>4 DEF SendRequest
  <2>6. Counted'
    BY <2>1, <2>5 DEF Typed, Counted
  <2>7. Disk(newest)' /\ Importing(newest)' /\ (todo \in Seq(Step(newest)))'
    BY <2>1, Unchanged
  <2>8. Running' /\ Result'
    BY <2>1 DEF Typed, Running, Result, history
  <2> QED
    BY <2>6, <2>7, <2>8 DEF Typed
<1>2. ASSUME DeleteRequest
      PROVE  Typed'
  <2>1. UNCHANGED <<import, newest, made, todo, sent>> /\ UNCHANGED <<step, instance, folder, unlocked, then>> /\ UNCHANGED history
    BY <1>2 DEF DeleteRequest, process
  <2>2. Disk(newest)'
    BY <1>2 DEF DeleteRequest, Typed, Disk, Content
  <2>3. Importing(newest)' /\ (todo \in Seq(Step(newest)))'
    BY <2>1, Unchanged
  <2>4. Running' /\ Result' /\ Counted'
    BY <2>1 DEF Typed, Running, Result, history, Counted
  <2> QED
    BY <2>2, <2>3, <2>4 DEF Typed
<1>3. ASSUME ProtectKey
      PROVE  Typed'
  <2>1. UNCHANGED <<import, newest, made, todo, sent>> /\ UNCHANGED <<step, instance, folder, unlocked, then>> /\ UNCHANGED history
    BY <1>3 DEF ProtectKey, process
  <2>2. PICK d \in Instance : disk[Key(d)].is = "key" /\ disk' = [disk EXCEPT ![Key(d)].locked = TRUE]
    BY <1>3 DEF ProtectKey
  <2>3. disk[Key(d)] \in Keys(newest)
    BY <2>2, Held DEF Typed, Absent, Torn
  <2>4. [disk[Key(d)] EXCEPT !.locked = TRUE] \in Content(Key(d), newest)
    <3>1. [disk[Key(d)] EXCEPT !.locked = TRUE] \in Keys(newest)
      BY <2>3 DEF Keys
    <3>2. Whole(Key(d), newest) = Keys(newest)
      BY Wholes
    <3> QED
      BY <3>1, <3>2 DEF Content
  <2>5. Disk(newest)'
    <3>1. PICK c : c = [disk[Key(d)] EXCEPT !.locked = TRUE]
      OBVIOUS
    <3>2. disk' = [disk EXCEPT ![Key(d)] = c] /\ c \in Content(Key(d), newest)
      BY <2>2, <2>4, <3>1
    <3> QED
      BY <2>1, <3>2 DEF Typed, Disk
  <2>6. Importing(newest)' /\ (todo \in Seq(Step(newest)))'
    BY <2>1, Unchanged
  <2>7. Running' /\ Result' /\ Counted'
    BY <2>1 DEF Typed, Running, Result, history, Counted
  <2> QED
    BY <2>5, <2>6, <2>7 DEF Typed
<1> QED
  BY <1>1, <1>2, <1>3

LEMMA ImportStepTyped ==
  ASSUME Typed,
         \/ \E d \in Instance, k \in sent : \E zip \in Responses[k] : ImportCariResponse(d, zip)
         \/ ImportWrite \/ ImportEnds
  PROVE  Typed'
PROOF
<1>1. ASSUME NEW d \in Instance, NEW k \in sent, NEW zip \in Responses[k], ImportCariResponse(d, zip)
      PROVE  Typed'
  <2>1. UNCHANGED <<disk, newest, made, sent, todo>> /\ UNCHANGED <<step, instance, folder, unlocked, then>> /\ outcome' = outcome
    BY <1>1 DEF ImportCariResponse, process
  <2>2. PICK port \in ResolveNodeCertPaths(d) : \E set \in ReadCariResponse(port, zip) :
          import' = [writes |-> ResponseWrites(port, set), set |-> set]
    BY <1>1 DEF ImportCariResponse
  <2>3. PICK set \in ReadCariResponse(port, zip) : import' = [writes |-> ResponseWrites(port, set), set |-> set]
    BY <2>2
  <2>4. port \in Instance /\ k \in 1 .. MaxKey /\ newest \in Nat
    <3>1. newest \in 0 .. MaxKey /\ k \in 1 .. newest /\ MaxKey \in Nat
      BY CommissioningAssumption DEF Typed, Counted
    <3> QED
      BY <3>1, PortsKnown
  <2>5. ResponseWrites(port, set) \in Seq(Step(newest))
    BY <2>4, ImportTyped DEF Typed
  <2>6. ResponseWrites(port, set) # <<>>
    BY DEF ResponseWrites
  <2>7. Importing(newest)'
    BY <2>1, <2>3, <2>5, <2>6 DEF Importing
  <2>8. Disk(newest)' /\ (todo \in Seq(Step(newest)))'
    BY <2>1, Unchanged
  <2>9. Running' /\ Result' /\ Counted'
    BY <2>1 DEF Typed, Running, Result, Counted
  <2> QED
    BY <2>7, <2>8, <2>9 DEF Typed
<1>2. ASSUME ImportWrite
      PROVE  Typed'
  <2>1. UNCHANGED <<newest, made, sent, todo>> /\ UNCHANGED <<step, instance, folder, unlocked, then>> /\ outcome' = outcome
        /\ import # NoImport /\ disk' = Made(Head(import.writes))
    BY <1>2 DEF ImportWrite, process
  <2>2. import.writes \in Seq(Step(newest)) /\ import.writes # <<>> /\ import = [writes |-> import.writes, set |-> import.set]
    BY <2>1 DEF Typed, Importing
  <2>3. /\ Head(import.writes) \in Step(newest) /\ Tail(import.writes) \in Seq(Step(newest))
        /\ Len(Tail(import.writes)) = Len(import.writes) - 1 /\ Len(import.writes) \in Nat
    BY <2>2, HeadTail
  <2>4. Disk(newest)'
    <3>1. ASSUME NEW n, n = newest PROVE Disk(n)'
      BY <2>1, <2>3, <3>1, MadeTyped DEF Typed
    <3> QED
      BY <2>1, <3>1 DEF Disk
  <2>5. Importing(newest)'
    <3>1. CASE Len(import.writes) = 1
      <4>1. import' = NoImport
        BY <1>2, <3>1 DEF ImportWrite
      <4> QED
        BY <2>1, <4>1 DEF Importing, NoImport
    <3>2. CASE Len(import.writes) # 1
      <4>1. import' = [writes |-> Tail(import.writes), set |-> import.set]
        BY <1>2, <2>2, <3>2 DEF ImportWrite
      <4>2. Len(Tail(import.writes)) # 0
        BY <2>3, <3>2
      <4>3. Tail(import.writes) # <<>>
        BY <4>2, EmptySeq
      <4> QED
        BY <2>1, <2>3, <4>1, <4>3 DEF Importing
    <3> QED
      BY <3>1, <3>2
  <2>6. (todo \in Seq(Step(newest)))'
    BY <2>1, Unchanged
  <2>7. Running' /\ Result' /\ Counted'
    BY <2>1 DEF Typed, Running, Result, Counted
  <2> QED
    BY <2>4, <2>5, <2>6, <2>7 DEF Typed
<1>3. ASSUME ImportEnds
      PROVE  Typed'
  <2>1. UNCHANGED <<newest, made, sent, todo>> /\ UNCHANGED <<step, instance, folder, unlocked, then>> /\ UNCHANGED history
        /\ (disk' \in Stopped(import.writes) \/ disk' = disk) /\ import' = NoImport
    BY <1>3 DEF ImportEnds, process
  <2>2. Disk(newest)'
    <3>1. ASSUME NEW n, n = newest PROVE Disk(n)'
      BY <2>1, <3>1, StoppedTyped DEF Typed, Importing, Disk
    <3> QED
      BY <2>1, <3>1 DEF Disk
  <2>3. Importing(newest)'
    BY <2>1 DEF Importing, NoImport
  <2>4. (todo \in Seq(Step(newest)))'
    BY <2>1, Unchanged
  <2>5. Running' /\ Result' /\ Counted'
    BY <2>1 DEF Typed, Running, Result, Counted, history
  <2> QED
    BY <2>2, <2>3, <2>4, <2>5 DEF Typed
<1> QED
  BY <1>1, <1>2, <1>3

LEMMA TypedNext == Typed /\ [Next]_vars => Typed'
PROOF
<1> SUFFICES ASSUME Typed, [Next]_vars PROVE Typed'
  OBVIOUS
<1>1. CASE UNCHANGED vars
  <2>1. UNCHANGED <<disk, import, newest, made, sent, todo>> /\ UNCHANGED <<step, instance, folder, unlocked, then, outcome>>
    BY <1>1 DEF vars, process, history
  <2>2. Disk(newest)' /\ Importing(newest)' /\ (todo \in Seq(Step(newest)))'
    BY <2>1, Unchanged
  <2> QED
    BY <2>1, <2>2 DEF Typed, Running, Result, Counted
<1> QED
  BY <1>1, DeviceStepTyped, RunningDeviceTyped, WritingTyped, OperatorTyped, ImportStepTyped DEF Next

LEMMA AlwaysTyped == Spec => []Typed
PROOF BY TypedInit, TypedNext, PTL DEF Spec

\* Every file holds what its name says, an absent or a half-written one apart,
\* whatever is cut short, and no request is out for a key the device never made.
THEOREM TypeCorrect == Spec => []TypeOK
PROOF
<1>1. Typed => TypeOK
  BY DEF Typed, TypeOK, Disk, Content, Running, Counted, Result
<1> QED
  BY <1>1, AlwaysTyped, PTL

-----------------------------------------------------------------------------
(* What is still to be written *)

KeyFile(d, k)  == InPlace(Key(d), KeyPair(k))
CsrFile(d, k)  == InPlace(Csr(d), Request(k))
ZipOf(d, k)    == ZipFile(d, Request(k))
UuidFile(u)    == InPlace(Uuid, [is |-> "uuid", uuid |-> u])
NewKey(k)      == Renamed(Pending, KeyPair(k))
NewCsr(k)      == Renamed(Csr(folder), Request(k))
NewOpr(k, a)   == Renamed(Opr(folder), Cert(k, a))
NewIss(a)      == Renamed(Iss(1), Authority(a))
Swap           == Both(Renamed(Key(folder), disk[Pending]), Renamed(Pending, Absent))

FirstPlan(d, k) ==
  {<<KeyFile(d, k), CsrFile(d, k), ZipOf(d, k)>>, <<CsrFile(d, k), ZipOf(d, k)>>, <<ZipOf(d, k)>>}
RenewalPlan(k) == {<<NewKey(k), NewCsr(k)>>, <<NewCsr(k)>>, <<Both(NewKey(k), NewCsr(k))>>}
InstallPlan(k, a) == {<<NewOpr(k, a), NewIss(a)>>, <<NewIss(a)>>}
SwapPlan(k, a) == {<<NewOpr(k, a), NewIss(a), Swap>>, <<NewIss(a), Swap>>, <<Swap>>}

Installing == \E k \in 1 .. newest, a \in Ca : todo \in InstallPlan(k, a)
Swapping   == \E k \in 1 .. newest, a \in Ca : todo \in SwapPlan(k, a) /\ KeyOf(Pending) = k

Planned ==
  step = "writing" =>
    \/ /\ then = [done |-> "certificates", failed |-> "certificates"]
       /\ \E d \in Instance, k \in 1 .. newest : todo \in FirstPlan(d, k)
    \/ /\ then = [done |-> "online", failed |-> "off"]
       /\ \E u \in 1 .. MaxUuid : todo = <<UuidFile(u)>>
    \/ /\ then = [done |-> "up", failed |-> "up"]
       /\ \/ \E k \in 1 .. newest : todo \in RenewalPlan(k)
          \/ Installing \/ Swapping

\* What the import still has to write, and what of.
ImportPlan(port) ==
  LET set == import.set
      opr == InPlace(Opr(port), set.opr)
      one == InPlace(Iss(1), set.issuers[1])
      two == InPlace(Iss(2), Last(set.issuers))
  IN  {<<opr, one, two>>, <<one, two>>, <<two>>}

Answer(set) ==
  \E k \in 1 .. newest, a \in Ca :
    /\ set.opr = Cert(k, a)
    /\ \E i \in Authorities, j \in Authorities : i.ca = a /\ set.issuers \in {<<i>>, <<i, j>>}

Imported ==
  import # NoImport => Answer(import.set) /\ \E port \in Instance : import.writes \in ImportPlan(port)

\* One write, and two at once.
LEMMA Effects ==
  ASSUME disk = [f \in File |-> disk[f]]
  PROVE  /\ \A f, c : Made(InPlace(f, c)) = [disk EXCEPT ![f] = c] /\ Made(Renamed(f, c)) = [disk EXCEPT ![f] = c]
         /\ \A f, c, g, e : f # g => Made(Both(Renamed(f, c), Renamed(g, e))) = [disk EXCEPT ![f] = c, ![g] = e]
PROOF
<1>1. ASSUME NEW f, NEW c
      PROVE  Made(InPlace(f, c)) = [disk EXCEPT ![f] = c] /\ Made(Renamed(f, c)) = [disk EXCEPT ![f] = c]
  <2>1. At(f, c)[f] = c
    BY DEF At
  <2>2. Made(InPlace(f, c)) = [g \in File |-> IF g = f THEN c ELSE disk[g]]
    BY <2>1 DEF Made, InPlace
  <2>3. Made(Renamed(f, c)) = [g \in File |-> IF g = f THEN c ELSE disk[g]]
    BY <2>1 DEF Made, Renamed
  <2>4. [disk EXCEPT ![f] = c] = [g \in File |-> IF g = f THEN c ELSE disk[g]]
    OBVIOUS
  <2> QED
    BY <2>2, <2>3, <2>4
<1>2. ASSUME NEW f, NEW c, NEW g, NEW e, f # g
      PROVE  Made(Both(Renamed(f, c), Renamed(g, e))) = [disk EXCEPT ![f] = c, ![g] = e]
  <2> DEFINE w == Both(Renamed(f, c), Renamed(g, e))
  <2>1. w.files = {f, g} /\ w.data[f] = c /\ w.data[g] = e
    BY <1>2 DEF Both, Renamed, At
  <2> HIDE DEF w
  <2>2. Made(w) = [h \in File |-> IF h = f THEN c ELSE IF h = g THEN e ELSE disk[h]]
    BY <1>2, <2>1 DEF Made
  <2>3. [disk EXCEPT ![f] = c, ![g] = e] = [h \in File |-> IF h = f THEN c ELSE IF h = g THEN e ELSE disk[h]]
    BY <1>2
  <2> QED
    BY <2>2, <2>3 DEF w
<1> QED
  BY <1>1, <1>2

\* The writes of the device, plan by plan.
GoesOn(rest) == todo' = rest /\ UNCHANGED <<step, then>>
Ends(next)   == todo' = <<>> /\ step' = next /\ then' = Nowhere

FirstWrite(d, k) ==
  /\ then = [done |-> "certificates", failed |-> "certificates"]
  /\ \/ /\ todo = <<KeyFile(d, k), CsrFile(d, k), ZipOf(d, k)>>
        /\ disk' = [disk EXCEPT ![Key(d)] = KeyPair(k)] /\ GoesOn(<<CsrFile(d, k), ZipOf(d, k)>>)
     \/ /\ todo = <<CsrFile(d, k), ZipOf(d, k)>>
        /\ disk' = [disk EXCEPT ![Csr(d)] = Request(k)] /\ GoesOn(<<ZipOf(d, k)>>)
     \/ /\ todo = <<ZipOf(d, k)>>
        /\ disk' = [disk EXCEPT ![RequestZip] = [is |-> "zip", folder |-> d, csr |-> Request(k)]]
        /\ Ends("certificates")

UuidWrite(u) ==
  /\ then = [done |-> "online", failed |-> "off"] /\ todo = <<UuidFile(u)>>
  /\ disk' = [disk EXCEPT ![Uuid] = [is |-> "uuid", uuid |-> u]] /\ Ends("online")

RenewalWrite(k) ==
  /\ then = [done |-> "up", failed |-> "up"]
  /\ \/ /\ todo = <<NewKey(k), NewCsr(k)>>
        /\ disk' = [disk EXCEPT ![Pending] = KeyPair(k)] /\ GoesOn(<<NewCsr(k)>>)
     \/ /\ todo = <<NewCsr(k)>>
        /\ disk' = [disk EXCEPT ![Csr(folder)] = Request(k)] /\ Ends("up")
     \/ /\ todo = <<Both(NewKey(k), NewCsr(k))>>
        /\ disk' = [disk EXCEPT ![Pending] = KeyPair(k), ![Csr(folder)] = Request(k)] /\ Ends("up")

ActivationWrite(k, a) ==
  /\ then = [done |-> "up", failed |-> "up"]
  /\ \/ /\ todo = <<NewOpr(k, a), NewIss(a)>>
        /\ disk' = [disk EXCEPT ![Opr(folder)] = Cert(k, a)] /\ GoesOn(<<NewIss(a)>>)
     \/ /\ todo = <<NewIss(a)>>
        /\ disk' = [disk EXCEPT ![Iss(1)] = Authority(a)] /\ Ends("up")
     \/ /\ todo = <<NewOpr(k, a), NewIss(a), Swap>> /\ KeyOf(Pending) = k
        /\ disk' = [disk EXCEPT ![Opr(folder)] = Cert(k, a)] /\ GoesOn(<<NewIss(a), Swap>>)
     \/ /\ todo = <<NewIss(a), Swap>> /\ KeyOf(Pending) = k
        /\ disk' = [disk EXCEPT ![Iss(1)] = Authority(a)] /\ GoesOn(<<Swap>>)
     \/ /\ todo = <<Swap>> /\ KeyOf(Pending) = k
        /\ disk' = Promoted /\ Ends("up")

LEMMA Lists ==
  ASSUME NEW a, NEW b, NEW c
  PROVE  /\ Head(<<a, b, c>>) = a /\ Tail(<<a, b, c>>) = <<b, c>> /\ <<b, c>> # <<>>
         /\ Head(<<a, b>>) = a /\ Tail(<<a, b>>) = <<b>> /\ <<b>> # <<>>
         /\ Head(<<a>>) = a /\ Tail(<<a>>) = <<>>
         /\ Len(<<a>>) = 1 /\ Len(<<a, b>>) = 2 /\ Len(<<a, b, c>>) = 3
PROOF OBVIOUS

LEMMA WriteMoves ==
  ASSUME Typed, Planned, Write
  PROVE  /\ step = "writing" /\ UNCHANGED <<instance, folder, unlocked, import, sent, newest, made, installed, outcome, vmac>>
         /\ \/ \E d \in Instance, k \in 1 .. newest : FirstWrite(d, k)
            \/ \E u \in 1 .. MaxUuid : UuidWrite(u)
            \/ \E k \in 1 .. newest : RenewalWrite(k)
            \/ \E k \in 1 .. newest, a \in Ca : ActivationWrite(k, a)
PROOF
<1>1. /\ step = "writing" /\ UNCHANGED <<instance, folder, unlocked, import, sent, newest, made, installed, outcome, vmac>>
      /\ disk' = Made(Head(todo)) /\ todo' = Tail(todo)
      /\ todo' = <<>> => step' = then.done /\ then' = Nowhere
      /\ todo' # <<>> => UNCHANGED <<step, then>>
  BY DEF Write, history
<1>2. disk = [f \in File |-> disk[f]]
  BY DEF Typed, Disk
<1>3. ASSUME NEW d \in Instance, NEW k \in 1 .. newest,
             then = [done |-> "certificates", failed |-> "certificates"], todo \in FirstPlan(d, k)
      PROVE  FirstWrite(d, k)
  <2>1. CASE todo = <<KeyFile(d, k), CsrFile(d, k), ZipOf(d, k)>>
    <3>1. Head(todo) = KeyFile(d, k) /\ Tail(todo) = <<CsrFile(d, k), ZipOf(d, k)>> /\ Tail(todo) # <<>>
      BY <2>1, Lists
    <3>2. Made(KeyFile(d, k)) = [disk EXCEPT ![Key(d)] = KeyPair(k)]
      BY <1>2, Effects DEF KeyFile
    <3> QED
      BY <1>1, <1>3, <2>1, <3>1, <3>2 DEF FirstWrite, GoesOn
  <2>2. CASE todo = <<CsrFile(d, k), ZipOf(d, k)>>
    <3>1. Head(todo) = CsrFile(d, k) /\ Tail(todo) = <<ZipOf(d, k)>> /\ Tail(todo) # <<>>
      BY <2>2, Lists
    <3>2. Made(CsrFile(d, k)) = [disk EXCEPT ![Csr(d)] = Request(k)]
      BY <1>2, Effects DEF CsrFile
    <3> QED
      BY <1>1, <1>3, <2>2, <3>1, <3>2 DEF FirstWrite, GoesOn
  <2>3. CASE todo = <<ZipOf(d, k)>>
    <3>1. Head(todo) = ZipOf(d, k) /\ Tail(todo) = <<>>
      BY <2>3, Lists
    <3>2. Made(ZipOf(d, k)) = [disk EXCEPT ![RequestZip] = [is |-> "zip", folder |-> d, csr |-> Request(k)]]
      BY <1>2, Effects DEF ZipOf, ZipFile
    <3> QED
      BY <1>1, <1>3, <2>3, <3>1, <3>2 DEF FirstWrite, Ends
  <2> QED
    BY <1>3, <2>1, <2>2, <2>3 DEF FirstPlan
<1>4. ASSUME NEW u \in 1 .. MaxUuid, then = [done |-> "online", failed |-> "off"], todo = <<UuidFile(u)>>
      PROVE  UuidWrite(u)
  <2>1. Head(todo) = UuidFile(u) /\ Tail(todo) = <<>>
    BY <1>4, Lists
  <2>2. Made(UuidFile(u)) = [disk EXCEPT ![Uuid] = [is |-> "uuid", uuid |-> u]]
    BY <1>2, Effects DEF UuidFile
  <2> QED
    BY <1>1, <1>4, <2>1, <2>2 DEF UuidWrite, Ends
<1>5. ASSUME NEW k \in 1 .. newest, then = [done |-> "up", failed |-> "up"], todo \in RenewalPlan(k)
      PROVE  RenewalWrite(k)
  <2>1. CASE todo = <<NewKey(k), NewCsr(k)>>
    <3>1. Head(todo) = NewKey(k) /\ Tail(todo) = <<NewCsr(k)>> /\ Tail(todo) # <<>>
      BY <2>1, Lists
    <3>2. Made(NewKey(k)) = [disk EXCEPT ![Pending] = KeyPair(k)]
      BY <1>2, Effects DEF NewKey
    <3> QED
      BY <1>1, <1>5, <2>1, <3>1, <3>2 DEF RenewalWrite, GoesOn
  <2>2. CASE todo = <<NewCsr(k)>>
    <3>1. Head(todo) = NewCsr(k) /\ Tail(todo) = <<>>
      BY <2>2, Lists
    <3>2. Made(NewCsr(k)) = [disk EXCEPT ![Csr(folder)] = Request(k)]
      BY <1>2, Effects DEF NewCsr
    <3> QED
      BY <1>1, <1>5, <2>2, <3>1, <3>2 DEF RenewalWrite, Ends
  <2>3. CASE todo = <<Both(NewKey(k), NewCsr(k))>>
    <3>1. Head(todo) = Both(NewKey(k), NewCsr(k)) /\ Tail(todo) = <<>>
      BY <2>3, Lists
    <3>2. Pending # Csr(folder)
      BY Distinct
    <3>3. Made(Both(NewKey(k), NewCsr(k))) = [disk EXCEPT ![Pending] = KeyPair(k), ![Csr(folder)] = Request(k)]
      BY <1>2, <3>2, Effects DEF NewKey, NewCsr
    <3> QED
      BY <1>1, <1>5, <2>3, <3>1, <3>3 DEF RenewalWrite, Ends
  <2> QED
    BY <1>5, <2>1, <2>2, <2>3 DEF RenewalPlan
<1>6. ASSUME NEW k \in 1 .. newest, NEW a \in Ca, then = [done |-> "up", failed |-> "up"],
             todo \in InstallPlan(k, a) \/ (todo \in SwapPlan(k, a) /\ KeyOf(Pending) = k)
      PROVE  ActivationWrite(k, a)
  <2>1. /\ Made(NewOpr(k, a)) = [disk EXCEPT ![Opr(folder)] = Cert(k, a)]
        /\ Made(NewIss(a)) = [disk EXCEPT ![Iss(1)] = Authority(a)]
        /\ Made(Swap) = Promoted
    <3>1. Key(folder) # Pending
      BY Distinct
    <3> QED
      BY <1>2, <3>1, Effects DEF NewOpr, NewIss, Swap, Promoted
  <2>2. CASE todo = <<NewOpr(k, a), NewIss(a)>>
    <3>1. Head(todo) = NewOpr(k, a) /\ Tail(todo) = <<NewIss(a)>> /\ Tail(todo) # <<>>
      BY <2>2, Lists
    <3> QED
      BY <1>1, <1>6, <2>1, <2>2, <3>1 DEF ActivationWrite, GoesOn
  <2>3. CASE todo = <<NewIss(a)>>
    <3>1. Head(todo) = NewIss(a) /\ Tail(todo) = <<>>
      BY <2>3, Lists
    <3> QED
      BY <1>1, <1>6, <2>1, <2>3, <3>1 DEF ActivationWrite, Ends
  <2>4. CASE todo = <<NewOpr(k, a), NewIss(a), Swap>> /\ KeyOf(Pending) = k
    <3>1. Head(todo) = NewOpr(k, a) /\ Tail(todo) = <<NewIss(a), Swap>> /\ Tail(todo) # <<>>
      BY <2>4, Lists
    <3> QED
      BY <1>1, <1>6, <2>1, <2>4, <3>1 DEF ActivationWrite, GoesOn
  <2>5. CASE todo = <<NewIss(a), Swap>> /\ KeyOf(Pending) = k
    <3>1. Head(todo) = NewIss(a) /\ Tail(todo) = <<Swap>> /\ Tail(todo) # <<>>
      BY <2>5, Lists
    <3> QED
      BY <1>1, <1>6, <2>1, <2>5, <3>1 DEF ActivationWrite, GoesOn
  <2>6. CASE todo = <<Swap>> /\ KeyOf(Pending) = k
    <3>1. Head(todo) = Swap /\ Tail(todo) = <<>>
      BY <2>6, Lists
    <3> QED
      BY <1>1, <1>6, <2>1, <2>6, <3>1 DEF ActivationWrite, Ends
  <2> QED
    BY <1>6, <2>2, <2>3, <2>4, <2>5, <2>6 DEF InstallPlan, SwapPlan
<1>7. CASE /\ then = [done |-> "certificates", failed |-> "certificates"]
           /\ \E d \in Instance, k \in 1 .. newest : todo \in FirstPlan(d, k)
  BY <1>1, <1>3, <1>7
<1>8. CASE /\ then = [done |-> "online", failed |-> "off"]
           /\ \E u \in 1 .. MaxUuid : todo = <<UuidFile(u)>>
  BY <1>1, <1>4, <1>8
<1>9. CASE /\ then = [done |-> "up", failed |-> "up"]
           /\ \E k \in 1 .. newest : todo \in RenewalPlan(k)
  BY <1>1, <1>5, <1>9
<1>10. CASE then = [done |-> "up", failed |-> "up"] /\ (Installing \/ Swapping)
  <2>1. PICK k \in 1 .. newest, a \in Ca :
          todo \in InstallPlan(k, a) \/ (todo \in SwapPlan(k, a) /\ KeyOf(Pending) = k)
    <3>1. CASE Installing
      BY <3>1 DEF Installing
    <3>2. CASE Swapping
      BY <3>2 DEF Swapping
    <3> QED
      BY <1>10, <3>1, <3>2
  <2>2. ActivationWrite(k, a)
    BY <1>6, <1>10, <2>1
  <2> QED
    BY <1>1, <2>2
<1> QED
  BY <1>1, <1>7, <1>8, <1>9, <1>10 DEF Planned

\* A stop of the device, or of the import: as it was, or one file half-written.
LEMMA Tears ==
  ASSUME disk = [f \in File |-> disk[f]], NEW w, NEW q, q # <<>>, Head(q) = w, disk' \in Stopped(q)
  PROVE  /\ \A f, c : w = InPlace(f, c) => disk' = disk \/ disk' = [disk EXCEPT ![f] = Torn]
         /\ ~w.torn => disk' = disk
PROOF
<1> DEFINE torn == [f \in File |-> IF f \in w.files THEN Torn ELSE disk[f]]
<1>0. disk' \in {disk} \cup (IF w.torn THEN {torn} ELSE {})
  BY DEF Stopped
<1>1. disk' = disk \/ (w.torn /\ disk' = torn)
  <2> HIDE DEF torn
  <2>1. CASE w.torn
    BY <1>0, <2>1
  <2>2. CASE ~w.torn
    BY <1>0, <2>2
  <2> QED
    BY <2>1, <2>2
<1>2. ASSUME NEW f, NEW c, w = InPlace(f, c)
      PROVE  [g \in File |-> IF g \in w.files THEN Torn ELSE disk[g]] = [disk EXCEPT ![f] = Torn]
  <2>1. w.files = {f}
    BY <1>2 DEF InPlace
  <2> QED
    BY <2>1
<1> QED
  BY <1>1, <1>2

LEMMA StopMoves ==
  ASSUME Typed, Planned, Stop
  PROVE  /\ PowerOff /\ UNCHANGED <<import, sent, newest, made, installed, vmac>>
         /\ outcome' = [request |-> "none", cut |-> Cut]
         /\ \/ disk' = disk
            \/ /\ step = "writing" /\ then.done = "certificates"
               /\ \E d \in Instance, k \in 1 .. newest :
                    \/ todo = <<KeyFile(d, k), CsrFile(d, k), ZipOf(d, k)>> /\ disk' = [disk EXCEPT ![Key(d)] = Torn]
                    \/ todo = <<CsrFile(d, k), ZipOf(d, k)>> /\ disk' = [disk EXCEPT ![Csr(d)] = Torn]
                    \/ todo = <<ZipOf(d, k)>> /\ disk' = [disk EXCEPT ![RequestZip] = Torn]
            \/ /\ step = "writing" /\ then.done = "online"
               /\ (\E u : todo = <<UuidFile(u)>>) /\ disk' = [disk EXCEPT ![Uuid] = Torn]
PROOF
<1>1. /\ PowerOff /\ UNCHANGED <<import, sent, newest, made, installed, vmac>>
      /\ outcome' = [request |-> "none", cut |-> Cut] /\ disk' \in Stopped(todo)
  BY DEF Stop
<1>2. disk = [f \in File |-> disk[f]] /\ (todo # <<>> <=> step = "writing")
  BY DEF Typed, Disk, Running
<1>3. CASE todo = <<>>
  BY <1>1, <1>3 DEF Stopped
<1>4. ASSUME NEW d \in Instance, NEW k \in 1 .. newest, todo \in FirstPlan(d, k)
      PROVE  \/ disk' = disk
             \/ todo = <<KeyFile(d, k), CsrFile(d, k), ZipOf(d, k)>> /\ disk' = [disk EXCEPT ![Key(d)] = Torn]
             \/ todo = <<CsrFile(d, k), ZipOf(d, k)>> /\ disk' = [disk EXCEPT ![Csr(d)] = Torn]
             \/ todo = <<ZipOf(d, k)>> /\ disk' = [disk EXCEPT ![RequestZip] = Torn]
  <2>1. CASE todo = <<KeyFile(d, k), CsrFile(d, k), ZipOf(d, k)>>
    <3>1. todo # <<>> /\ Head(todo) = KeyFile(d, k)
      BY <2>1, Lists
    <3> QED
      BY <1>1, <1>2, <2>1, <3>1, Tears DEF KeyFile
  <2>2. CASE todo = <<CsrFile(d, k), ZipOf(d, k)>>
    <3>1. todo # <<>> /\ Head(todo) = CsrFile(d, k)
      BY <2>2, Lists
    <3> QED
      BY <1>1, <1>2, <2>2, <3>1, Tears DEF CsrFile
  <2>3. CASE todo = <<ZipOf(d, k)>>
    <3>1. todo # <<>> /\ Head(todo) = ZipOf(d, k)
      BY <2>3, Lists
    <3> QED
      BY <1>1, <1>2, <2>3, <3>1, Tears DEF ZipOf, ZipFile
  <2> QED
    BY <1>4, <2>1, <2>2, <2>3 DEF FirstPlan
<1>5. ASSUME NEW u, todo = <<UuidFile(u)>>
      PROVE  disk' = disk \/ disk' = [disk EXCEPT ![Uuid] = Torn]
  <2>1. todo # <<>> /\ Head(todo) = UuidFile(u)
    BY <1>5, Lists
  <2> QED
    BY <1>1, <1>2, <2>1, Tears DEF UuidFile
<1>6. ASSUME (\E k \in 1 .. newest : todo \in RenewalPlan(k)) \/ Installing \/ Swapping
      PROVE  disk' = disk
  <2>1. \A k, a : ~NewKey(k).torn /\ ~NewCsr(k).torn /\ ~Both(NewKey(k), NewCsr(k)).torn
                /\ ~NewOpr(k, a).torn /\ ~NewIss(a).torn /\ ~Swap.torn
    BY DEF NewKey, NewCsr, NewOpr, NewIss, Swap, Renamed, Both
  <2>2. todo # <<>> /\ ~Head(todo).torn
    <3>1. ASSUME NEW k, todo \in RenewalPlan(k) PROVE todo # <<>> /\ ~Head(todo).torn
      BY <2>1, <3>1, Lists DEF RenewalPlan
    <3>2. ASSUME NEW k, NEW a, todo \in InstallPlan(k, a) \cup SwapPlan(k, a) PROVE todo # <<>> /\ ~Head(todo).torn
      BY <2>1, <3>2, Lists DEF InstallPlan, SwapPlan
    <3> QED
      BY <1>6, <3>1, <3>2 DEF Installing, Swapping
  <2> QED
    BY <1>1, <1>2, <2>2, Tears
<1>7. CASE step = "writing" /\ then = [done |-> "certificates", failed |-> "certificates"]
           /\ \E d \in Instance, k \in 1 .. newest : todo \in FirstPlan(d, k)
  BY <1>1, <1>4, <1>7
<1>8. CASE step = "writing" /\ then = [done |-> "online", failed |-> "off"]
           /\ \E u \in 1 .. MaxUuid : todo = <<UuidFile(u)>>
  BY <1>1, <1>5, <1>8
<1> QED
  BY <1>1, <1>2, <1>3, <1>6, <1>7, <1>8 DEF Planned

\* The import is about to write the certificate of that port.
ImportsTo(d) == import # NoImport /\ Head(import.writes).files = {Opr(d)}

\* What the import does to the files.
LEMMA ImportMoves ==
  ASSUME Typed, Imported, ImportWrite
  PROVE  /\ UNCHANGED <<step, instance, folder, unlocked, todo, then, sent, newest, made, outcome, vmac>>
         /\ Answer(import.set) /\ import # NoImport
         /\ \E port \in Instance :
              LET set == import.set
                  opr == InPlace(Opr(port), set.opr)
                  one == InPlace(Iss(1), set.issuers[1])
                  two == InPlace(Iss(2), Last(set.issuers))
              IN  \/ /\ import.writes = <<opr, one, two>> /\ disk' = [disk EXCEPT ![Opr(port)] = set.opr]
                     /\ import' = [writes |-> <<one, two>>, set |-> set] /\ UNCHANGED installed
                  \/ /\ import.writes = <<one, two>> /\ disk' = [disk EXCEPT ![Iss(1)] = set.issuers[1]]
                     /\ import' = [writes |-> <<two>>, set |-> set] /\ UNCHANGED installed
                  \/ /\ import.writes = <<two>> /\ disk' = [disk EXCEPT ![Iss(2)] = Last(set.issuers)]
                     /\ import' = NoImport /\ installed' = <<set>>
PROOF
<1>1. /\ UNCHANGED <<step, instance, folder, unlocked, todo, then, sent, newest, made, outcome, vmac>>
      /\ Answer(import.set) /\ import # NoImport /\ disk' = Made(Head(import.writes))
  BY DEF ImportWrite, Imported, process
<1>2. PICK port \in Instance : import.writes \in ImportPlan(port)
  BY <1>1 DEF Imported
<1>3. disk = [f \in File |-> disk[f]] /\ import = [writes |-> import.writes, set |-> import.set]
  BY DEF Typed, Disk, Importing
<1> DEFINE set == import.set
           opr == InPlace(Opr(port), set.opr)
           one == InPlace(Iss(1), set.issuers[1])
           two == InPlace(Iss(2), Last(set.issuers))
<1>4. /\ Made(opr) = [disk EXCEPT ![Opr(port)] = set.opr]
      /\ Made(one) = [disk EXCEPT ![Iss(1)] = set.issuers[1]]
      /\ Made(two) = [disk EXCEPT ![Iss(2)] = Last(set.issuers)]
  BY <1>3, Effects
<1>5. import.writes \in {<<opr, one, two>>, <<one, two>>, <<two>>}
  BY <1>2 DEF ImportPlan
<1>6. /\ Len(import.writes) = 1 => import' = NoImport /\ installed' = <<set>>
      /\ Len(import.writes) # 1 => import' = [writes |-> Tail(import.writes), set |-> set] /\ UNCHANGED installed
  BY <1>3 DEF ImportWrite
<1> HIDE DEF opr, one, two
<1>7. CASE import.writes = <<opr, one, two>>
  <2>1. Head(import.writes) = opr /\ Tail(import.writes) = <<one, two>> /\ Len(import.writes) # 1
    BY <1>7, Lists
  <2> QED
    BY <1>1, <1>4, <1>6, <1>7, <2>1 DEF opr, one, two
<1>8. CASE import.writes = <<one, two>>
  <2>1. Head(import.writes) = one /\ Tail(import.writes) = <<two>> /\ Len(import.writes) # 1
    BY <1>8, Lists
  <2> QED
    BY <1>1, <1>4, <1>6, <1>8, <2>1 DEF opr, one, two
<1>9. CASE import.writes = <<two>>
  <2>1. Head(import.writes) = two /\ Len(import.writes) = 1
    BY <1>9, Lists
  <2> QED
    BY <1>1, <1>4, <1>6, <1>9, <2>1 DEF opr, one, two
<1> QED
  BY <1>5, <1>7, <1>8, <1>9

LEMMA ImportEndMoves ==
  ASSUME Typed, Imported, ImportEnds
  PROVE  /\ UNCHANGED <<step, instance, folder, unlocked, todo, then, sent, newest, made, installed, outcome, vmac>>
         /\ import # NoImport /\ import' = NoImport
         /\ \/ disk' = disk
            \/ \E port \in Instance : ImportsTo(port) /\ disk' = [disk EXCEPT ![Opr(port)] = Torn]
            \/ disk' = [disk EXCEPT ![Iss(1)] = Torn]
            \/ disk' = [disk EXCEPT ![Iss(2)] = Torn]
PROOF
<1>1. /\ UNCHANGED <<step, instance, folder, unlocked, todo, then, sent, newest, made, installed, outcome, vmac>>
      /\ import # NoImport /\ import' = NoImport
      /\ disk' = disk \/ disk' \in Stopped(import.writes)
  BY DEF ImportEnds, process, history
<1>2. PICK port \in Instance : import.writes \in ImportPlan(port)
  BY <1>1 DEF Imported
<1>3. disk = [f \in File |-> disk[f]]
  BY DEF Typed, Disk
<1> DEFINE set == import.set
           opr == InPlace(Opr(port), set.opr)
           one == InPlace(Iss(1), set.issuers[1])
           two == InPlace(Iss(2), Last(set.issuers))
<1>4. import.writes \in {<<opr, one, two>>, <<one, two>>, <<two>>}
  BY <1>2 DEF ImportPlan
<1>5. import.writes # <<>> /\ Head(import.writes) \in {opr, one, two}
  <2> HIDE DEF opr, one, two
  <2> QED
    BY <1>4, Lists
<1>6. CASE disk' \in Stopped(import.writes) /\ Head(import.writes) = opr
  <2>1. disk' = disk \/ disk' = [disk EXCEPT ![Opr(port)] = Torn]
    BY <1>3, <1>5, <1>6, Tears
  <2>2. ImportsTo(port)
    BY <1>1, <1>6 DEF ImportsTo, InPlace
  <2> QED
    BY <1>1, <2>1, <2>2
<1>7. CASE disk' \in Stopped(import.writes) /\ Head(import.writes) \in {one, two}
  <2>1. disk' = disk \/ disk' = [disk EXCEPT ![Iss(1)] = Torn] \/ disk' = [disk EXCEPT ![Iss(2)] = Torn]
    BY <1>3, <1>5, <1>7, Tears
  <2> QED
    BY <1>1, <2>1
<1> QED
  BY <1>1, <1>5, <1>6, <1>7

LEMMA Apart ==
  ASSUME NEW d, NEW e
  PROVE  /\ Key(d) # Csr(e) /\ Key(d) # Opr(e) /\ Csr(d) # Opr(e)
         /\ \A f \in {Pending, Iss(1), Iss(2), RequestZip, Uuid} : Key(d) # f /\ Csr(d) # f /\ Opr(d) # f
         /\ \A f \in {Iss(1), Iss(2), RequestZip, Uuid} : Pending # f
         /\ Iss(1) # Iss(2) /\ \A f \in {RequestZip, Uuid} : Iss(1) # f /\ Iss(2) # f
         /\ RequestZip # Uuid
         /\ (Key(d) = Key(e) \/ Csr(d) = Csr(e) \/ Opr(d) = Opr(e)) => d = e
PROOF BY DEF Key, Csr, Opr, Pending, Iss, RequestZip, Uuid

LEMMA PendingThere ==
  ASSUME Typed
  PROVE  Pending \in DOMAIN disk
PROOF BY FileNames DEF Typed, Disk

LEMMA PlannedKept ==
  ASSUME Planned, UNCHANGED <<step, folder, todo, then, newest>>, disk'[Pending] = disk[Pending]
  PROVE  Planned'
PROOF
<1>1. /\ \A k : RenewalPlan(k)' = RenewalPlan(k)
      /\ \A k, a : InstallPlan(k, a)' = InstallPlan(k, a) /\ SwapPlan(k, a)' = SwapPlan(k, a)
      /\ KeyOf(Pending)' = KeyOf(Pending)
  <2>1. /\ \A k : NewCsr(k)' = NewCsr(k) /\ NewKey(k)' = NewKey(k)
        /\ \A k, a : NewOpr(k, a)' = NewOpr(k, a) /\ NewIss(a)' = NewIss(a)
        /\ Swap' = Swap
    BY DEF NewCsr, NewKey, NewOpr, NewIss, Swap
  <2> QED
    BY <2>1 DEF RenewalPlan, InstallPlan, SwapPlan, KeyOf
<1>2. Installing => Installing'
  BY <1>1 DEF Installing
<1>3. Swapping => Swapping'
  BY <1>1 DEF Swapping
<1>4. (\E k \in 1 .. newest : todo \in RenewalPlan(k)) => (\E k \in 1 .. newest : todo \in RenewalPlan(k))'
  BY <1>1
<1>5. (\E d \in Instance, k \in 1 .. newest : todo \in FirstPlan(d, k))
        => (\E d \in Instance, k \in 1 .. newest : todo \in FirstPlan(d, k))'
  BY DEF FirstPlan, KeyFile, CsrFile, ZipOf
<1>6. (\E u \in 1 .. MaxUuid : todo = <<UuidFile(u)>>) => (\E u \in 1 .. MaxUuid : todo = <<UuidFile(u)>>)'
  OBVIOUS
<1> QED
  BY <1>2, <1>3, <1>4, <1>5, <1>6 DEF Planned

LEMMA WritePlanned ==
  ASSUME Typed, Planned, Write
  PROVE  Planned'
PROOF
<1>1. /\ step = "writing" /\ UNCHANGED <<folder, newest>>
      /\ \/ \E d \in Instance, k \in 1 .. newest : FirstWrite(d, k)
         \/ \E u \in 1 .. MaxUuid : UuidWrite(u)
         \/ \E k \in 1 .. newest : RenewalWrite(k)
         \/ \E k \in 1 .. newest, a \in Ca : ActivationWrite(k, a)
  BY WriteMoves
<1>2. ASSUME NEW d \in Instance, NEW k \in 1 .. newest, FirstWrite(d, k)
      PROVE  Planned'
  <2>1. step' = "writing" => /\ then' = [done |-> "certificates", failed |-> "certificates"]
                            /\ todo' \in {<<CsrFile(d, k), ZipOf(d, k)>>, <<ZipOf(d, k)>>}
    BY <1>1, <1>2 DEF FirstWrite, GoesOn, Ends
  <2>2. step' = "writing" => todo' \in FirstPlan(d, k)
    BY <2>1 DEF FirstPlan
  <2>3. step' = "writing" => (\E e \in Instance, l \in 1 .. newest : todo \in FirstPlan(e, l))'
    BY <1>1, <2>2 DEF FirstPlan, KeyFile, CsrFile, ZipOf
  <2> QED
    BY <2>1, <2>3 DEF Planned
<1>3. ASSUME NEW u, UuidWrite(u)
      PROVE  Planned'
  BY <1>3 DEF UuidWrite, Ends, Planned
<1>4. ASSUME NEW k \in 1 .. newest, RenewalWrite(k)
      PROVE  Planned'
  <2>1. step' = "writing" => then' = [done |-> "up", failed |-> "up"] /\ todo' = <<NewCsr(k)>>
    BY <1>1, <1>4 DEF RenewalWrite, GoesOn, Ends
  <2>2. NewCsr(k)' = NewCsr(k)
    BY <1>1 DEF NewCsr
  <2>3. step' = "writing" => (\E l \in 1 .. newest : todo \in RenewalPlan(l))'
    BY <1>1, <2>1, <2>2 DEF RenewalPlan
  <2> QED
    BY <2>1, <2>3 DEF Planned
<1>5. ASSUME NEW k \in 1 .. newest, NEW a \in Ca, ActivationWrite(k, a)
      PROVE  Planned'
  <2>1. step' = "writing" =>
          /\ then' = [done |-> "up", failed |-> "up"]
          /\ \/ todo' = <<NewIss(a)>>
             \/ /\ KeyOf(Pending) = k /\ todo' \in {<<NewIss(a), Swap>>, <<Swap>>}
                /\ \/ disk' = [disk EXCEPT ![Opr(folder)] = Cert(k, a)]
                   \/ disk' = [disk EXCEPT ![Iss(1)] = Authority(a)]
    BY <1>1, <1>5 DEF ActivationWrite, GoesOn, Ends
  <2>2. CASE step' = "writing" /\ todo' = <<NewIss(a)>>
    <3>1. Installing'
      BY <1>1, <2>2 DEF Installing, InstallPlan, NewIss
    <3> QED
      BY <2>1, <2>2, <3>1 DEF Planned
  <2>3. CASE /\ step' = "writing" /\ KeyOf(Pending) = k /\ todo' \in {<<NewIss(a), Swap>>, <<Swap>>}
             /\ disk' = [disk EXCEPT ![Opr(folder)] = Cert(k, a)] \/ disk' = [disk EXCEPT ![Iss(1)] = Authority(a)]
    <3>1. disk'[Pending] = disk[Pending]
      BY <2>3, Apart, PendingThere
    <3>2. Swap' = Swap /\ NewIss(a)' = NewIss(a) /\ KeyOf(Pending)' = k
      BY <1>1, <2>3, <3>1 DEF Swap, NewIss, KeyOf
    <3>3. (todo \in SwapPlan(k, a))'
      BY <2>3, <3>2 DEF SwapPlan
    <3>4. Swapping'
      BY <1>1, <3>2, <3>3 DEF Swapping
    <3> QED
      BY <2>1, <2>3, <3>4 DEF Planned
  <2>4. CASE step' # "writing"
    BY <2>4 DEF Planned
  <2> QED
    BY <2>1, <2>2, <2>3, <2>4
<1> QED
  BY <1>1, <1>2, <1>3, <1>4, <1>5

LEMMA PlannedNext == Typed /\ Imported /\ Planned /\ [Next]_vars => Planned'
PROOF
<1> SUFFICES ASSUME Typed, Imported, Planned, [Next]_vars PROVE Planned'
  OBVIOUS
<1>1. ASSUME \/ \E d \in Instance : Start(d)
             \/ ReconcilePendingKey \/ Certificates \/ GoOnline \/ WriteFails \/ Stop \/ DeleteRequest \/ ProtectKey
      PROVE  Planned'
  <2>1. step' # "writing"
    BY <1>1 DEF Start, ReconcilePendingKey, Certificates, GoOnline, WriteFails, Stop, DeleteRequest, ProtectKey,
                process, PowerOff, Typed, Running
  <2> QED
    BY <2>1 DEF Planned
<1>2. ASSUME EnsureNodeRequest
      PROVE  Planned'
  <2>1. PICK d \in ResolveNodeCertPaths(instance) :
           \/ step' = "certificates"
           \/ newest < MaxKey /\ newest' = newest + 1 /\ Do(FirstFiles(d, newest'), "certificates", "certificates")
           \/ /\ disk[Csr(d)].is = "request" /\ newest' = newest
              /\ Do(<<ZipFile(d, disk[Csr(d)])>>, "certificates", "certificates")
    BY <1>2 DEF EnsureNodeRequest, Continue
  <2>2. d \in Instance /\ newest \in Nat
    BY <1>2, PortsKnown, CommissioningAssumption DEF EnsureNodeRequest, Typed, Running, Counted
  <2>3. CASE step' = "certificates"
    BY <2>3 DEF Planned
  <2>4. CASE newest < MaxKey /\ newest' = newest + 1 /\ Do(FirstFiles(d, newest'), "certificates", "certificates")
    <3>1. todo' \in FirstPlan(d, newest') /\ newest' \in 1 .. newest'
      BY <2>2, <2>4 DEF Do, FirstFiles, FirstPlan, KeyFile, CsrFile, ZipOf
    <3>2. (\E e \in Instance, k \in 1 .. newest : todo \in FirstPlan(e, k))'
      BY <2>2, <3>1 DEF FirstPlan, KeyFile, CsrFile, ZipOf
    <3> QED
      BY <2>4, <3>2 DEF Do, Planned
  <2>5. CASE /\ disk[Csr(d)].is = "request" /\ newest' = newest
             /\ Do(<<ZipFile(d, disk[Csr(d)])>>, "certificates", "certificates")
    <3>1. KeyOf(Csr(d)) \in 1 .. newest /\ disk[Csr(d)] = Request(KeyOf(Csr(d)))
      BY <2>2, <2>5, HeldRequest DEF Typed
    <3>2. todo' = <<ZipOf(d, KeyOf(Csr(d)))>>
      BY <2>5, <3>1 DEF Do, ZipOf
    <3>3. \A k : todo' = <<ZipOf(d, k)>> => todo' \in FirstPlan(d, k)
      BY DEF FirstPlan
    <3>4. (\E e \in Instance, k \in 1 .. newest : todo \in FirstPlan(e, k))'
      BY <2>2, <2>5, <3>1, <3>2, <3>3 DEF FirstPlan, KeyFile, CsrFile, ZipOf
    <3> QED
      BY <2>5, <3>4 DEF Do, Planned
  <2> QED
    BY <2>1, <2>3, <2>4, <2>5
<1>3. ASSUME LoadOrCreateDeviceUuid
      PROVE  Planned'
  <2>1. \/ step' = "online"
        \/ /\ made < MaxUuid /\ made' = made + 1
           /\ todo' = <<UuidFile(made')>> /\ then' = [done |-> "online", failed |-> "off"]
    BY <1>3 DEF LoadOrCreateDeviceUuid, Do, UuidFile
  <2>2. made < MaxUuid /\ made' = made + 1 => made' \in 1 .. MaxUuid
    BY CommissioningAssumption DEF Typed, Counted
  <2>3. step' = "online" \/ (\E u \in 1 .. MaxUuid : todo' = <<UuidFile(u)>> /\ then' = [done |-> "online", failed |-> "off"])
    BY <2>1, <2>2
  <2> QED
    BY <2>3 DEF Planned, UuidFile
<1>4. ASSUME GenerateKeyAndCsr
      PROVE  Planned'
  <2>1. newest' \in 1 .. newest'
    BY <1>4, KeyMade DEF GenerateKeyAndCsr
  <2>2. todo' \in RenewalPlan(newest') /\ then' = [done |-> "up", failed |-> "up"] /\ folder' = folder
    BY <1>4 DEF GenerateKeyAndCsr, Do, RenewalPlan, NewKey, NewCsr
  <2>3. RenewalPlan(newest') = RenewalPlan(newest)'
    BY <2>2 DEF RenewalPlan, NewKey, NewCsr
  <2>4. (\E k \in 1 .. newest : todo \in RenewalPlan(k))'
    BY <2>1, <2>2, <2>3
  <2> QED
    BY <2>2, <2>4 DEF Planned
<1>5. ASSUME NEW k \in 1 .. MaxKey, NEW a \in Ca, Activate(k, a)
      PROVE  Planned'
  <2>1. todo' = Activation(folder, k, a) /\ then' = [done |-> "up", failed |-> "up"] /\ UNCHANGED <<disk, folder, newest>>
        /\ k \in 1 .. newest
    BY <1>5 DEF Activate, Do, Activation, Typed, Counted
  <2>2. Activation(folder, k, a) = IF k = KeyOf(Pending) THEN <<NewOpr(k, a), NewIss(a), Swap>> ELSE <<NewOpr(k, a), NewIss(a)>>
    BY Activations DEF NewOpr, NewIss, Swap
  <2>3. NewOpr(k, a)' = NewOpr(k, a) /\ NewIss(a)' = NewIss(a) /\ Swap' = Swap /\ KeyOf(Pending)' = KeyOf(Pending)
    BY <2>1 DEF NewOpr, NewIss, Swap, KeyOf
  <2>4. CASE k = KeyOf(Pending)
    <3>1. (todo \in SwapPlan(k, a))'
      BY <2>1, <2>2, <2>3, <2>4 DEF SwapPlan
    <3>2. Swapping'
      BY <2>1, <2>3, <2>4, <3>1 DEF Swapping
    <3> QED
      BY <2>1, <3>2 DEF Planned
  <2>5. CASE k # KeyOf(Pending)
    <3>1. (todo \in InstallPlan(k, a))'
      BY <2>1, <2>2, <2>3, <2>5 DEF InstallPlan
    <3>2. Installing'
      BY <2>1, <3>1 DEF Installing
    <3> QED
      BY <2>1, <3>2 DEF Planned
  <2> QED
    BY <2>4, <2>5
<1>6. ASSUME Write
      PROVE  Planned'
  BY <1>6, WritePlanned
<1>7. ASSUME SendRequest \/ UNCHANGED vars \/ \E d \in Instance, k \in sent : \E zip \in Responses[k] : ImportCariResponse(d, zip)
      PROVE  Planned'
  <2>1. UNCHANGED <<step, folder, todo, then, newest, disk>>
    BY <1>7 DEF SendRequest, ImportCariResponse, vars, process
  <2> QED
    BY <2>1, PlannedKept
<1>8. ASSUME ImportWrite
      PROVE  Planned'
  <2>1. UNCHANGED <<step, folder, todo, then, newest>>
    BY <1>8, ImportMoves
  <2>2. PICK f \in {Opr(port) : port \in Instance} \cup {Iss(1), Iss(2)} : \E c : disk' = [disk EXCEPT ![f] = c]
    BY <1>8, ImportMoves
  <2>3. disk'[Pending] = disk[Pending]
    BY <2>2, Apart, PendingThere
  <2> QED
    BY <2>1, <2>3, PlannedKept
<1>9. ASSUME ImportEnds
      PROVE  Planned'
  <2>1. UNCHANGED <<step, folder, todo, then, newest>>
    BY <1>9, ImportEndMoves
  <2>2. disk' = disk \/ \E f \in {Opr(port) : port \in Instance} \cup {Iss(1), Iss(2)} : disk' = [disk EXCEPT ![f] = Torn]
    BY <1>9, ImportEndMoves
  <2>3. disk'[Pending] = disk[Pending]
    BY <2>2, Apart, PendingThere
  <2> QED
    BY <2>1, <2>3, PlannedKept
<1> QED
  BY <1>1, <1>2, <1>3, <1>4, <1>5, <1>6, <1>7, <1>8, <1>9 DEF Next

LEMMA ImportStarts ==
  ASSUME Typed, NEW d \in Instance, NEW k \in sent, NEW zip \in Responses[k], ImportCariResponse(d, zip)
  PROVE  /\ import = NoImport /\ ("overlap" \in Faults \/ step = "off")
         /\ UNCHANGED <<disk, step, instance, folder, unlocked, todo, then, sent, newest, made, outcome, vmac>>
         /\ installed' = <<>>
         /\ \E port \in ResolveNodeCertPaths(d) :
              /\ port \in Instance /\ disk[Csr(port)].is = "request" /\ import'.set.opr.key = KeyOf(Csr(port))
              /\ Answer(import'.set)
              /\ import'.writes = <<InPlace(Opr(port), import'.set.opr), InPlace(Iss(1), import'.set.issuers[1]),
                                   InPlace(Iss(2), Last(import'.set.issuers))>>
PROOF
<1>1. /\ import = NoImport /\ ("overlap" \in Faults \/ step = "off")
      /\ UNCHANGED <<disk, step, instance, folder, unlocked, todo, then, sent, newest, made, outcome, vmac>>
      /\ installed' = <<>>
  BY DEF ImportCariResponse, process
<1>2. PICK port \in ResolveNodeCertPaths(d) : \E set \in ReadCariResponse(port, zip) :
        import' = [writes |-> ResponseWrites(port, set), set |-> set]
  BY DEF ImportCariResponse
<1>3. PICK set \in ReadCariResponse(port, zip) : import' = [writes |-> ResponseWrites(port, set), set |-> set]
  BY <1>2
<1>4. port \in Instance /\ k \in 1 .. MaxKey /\ newest \in Nat
  <2>1. newest \in 0 .. MaxKey /\ k \in 1 .. newest /\ MaxKey \in Nat
    BY CommissioningAssumption DEF Typed, Counted
  <2> QED
    BY <2>1, PortsKnown
<1>5. disk[Csr(port)].is = "request"
  BY <1>4, ImportReads
<1>6. KeyOf(Csr(port)) \in 1 .. newest
  BY <1>4, <1>5, HeldRequest DEF Typed
<1>7. PICK a \in Ca : /\ set.opr = Cert(KeyOf(Csr(port)), a)
                     /\ \E i \in Authorities, j \in Authorities : i.ca = a /\ set.issuers \in {<<i>>, <<i, j>>}
  BY <1>4, ImportReads
<1>8. Answer(set)
  BY <1>6, <1>7 DEF Answer
<1>9. import'.set = set /\ import'.writes = ResponseWrites(port, set)
  BY <1>3
<1>10. set.opr.key = KeyOf(Csr(port))
  BY <1>7 DEF Cert
<1> QED
  BY <1>1, <1>4, <1>5, <1>8, <1>9, <1>10 DEF ResponseWrites

LEMMA ImportedNext == Typed /\ Imported /\ [Next]_vars => Imported'
PROOF
<1> SUFFICES ASSUME Typed, Imported, [Next]_vars PROVE Imported'
  OBVIOUS
<1>1. ASSUME NEW d \in Instance, NEW k \in sent, NEW zip \in Responses[k], ImportCariResponse(d, zip)
      PROVE  Imported'
  <2>1. newest' = newest
    BY <1>1, ImportStarts
  <2>2. PICK port \in Instance : /\ Answer(import'.set)
                                /\ import'.writes = <<InPlace(Opr(port), import'.set.opr),
                                                     InPlace(Iss(1), import'.set.issuers[1]),
                                                     InPlace(Iss(2), Last(import'.set.issuers))>>
    BY <1>1, ImportStarts
  <2>3. Answer(import.set)' /\ (import.writes \in ImportPlan(port))'
    BY <2>1, <2>2 DEF Answer, ImportPlan
  <2> QED
    BY <2>3 DEF Imported
<1>2. ASSUME ImportWrite
      PROVE  Imported'
  <2>1. newest' = newest /\ Answer(import.set)
    BY <1>2, ImportMoves
  <2>2. PICK port \in Instance :
          \/ import' = NoImport
          \/ /\ import'.set = import.set
             /\ import'.writes \in {<<InPlace(Iss(1), import.set.issuers[1]), InPlace(Iss(2), Last(import.set.issuers))>>,
                                    <<InPlace(Iss(2), Last(import.set.issuers))>>}
    <3>1. PICK port \in Instance :
             \/ import' = [writes |-> <<InPlace(Iss(1), import.set.issuers[1]), InPlace(Iss(2), Last(import.set.issuers))>>,
                           set |-> import.set]
             \/ import' = [writes |-> <<InPlace(Iss(2), Last(import.set.issuers))>>, set |-> import.set]
             \/ import' = NoImport
      BY <1>2, ImportMoves
    <3> QED
      BY <3>1
  <2>3. import' # NoImport => Answer(import.set)' /\ (import.writes \in ImportPlan(port))'
    BY <2>1, <2>2 DEF Answer, ImportPlan
  <2> QED
    BY <2>3 DEF Imported
<1>3. ASSUME ImportEnds
      PROVE  Imported'
  BY <1>3 DEF ImportEnds, Imported, NoImport
<1>4. ASSUME import' = import, newest' = newest \/ newest' = newest + 1
      PROVE  Imported'
  <2>1. newest \in Nat
    BY CommissioningAssumption DEF Typed, Counted
  <2>2. Answer(import.set) => Answer(import.set)'
    <3>1. 1 .. newest \subseteq 1 .. newest'
      BY <1>4, <2>1
    <3> QED
      BY <1>4, <3>1 DEF Answer
  <2>3. \A port : ImportPlan(port)' = ImportPlan(port)
    BY <1>4 DEF ImportPlan
  <2> QED
    BY <1>4, <2>2, <2>3 DEF Imported
<1>5. ASSUME \/ UNCHANGED vars \/ SendRequest \/ DeleteRequest \/ ProtectKey
             \/ \E d \in Instance : Start(d)
             \/ ReconcilePendingKey \/ EnsureNodeRequest \/ Certificates \/ LoadOrCreateDeviceUuid \/ GoOnline
             \/ GenerateKeyAndCsr \/ (\E k \in 1 .. MaxKey, a \in Ca : Activate(k, a))
             \/ Write \/ WriteFails \/ Stop
      PROVE  import' = import /\ (newest' = newest \/ newest' = newest + 1)
  BY <1>5 DEF vars, SendRequest, DeleteRequest, ProtectKey, Start, ReconcilePendingKey, EnsureNodeRequest, Certificates,
              LoadOrCreateDeviceUuid, GoOnline, GenerateKeyAndCsr, Activate, Write, WriteFails, Stop
<1> QED
  BY <1>1, <1>2, <1>3, <1>4, <1>5 DEF Next

Shaped == Typed /\ Planned /\ Imported

LEMMA AlwaysShaped == Spec => []Shaped
PROOF
<1>1. Init => Shaped
  BY TypedInit DEF Init, Shaped, Planned, Imported, NoImport
<1>2. Shaped /\ [Next]_vars => Shaped'
  BY TypedNext, PlannedNext, ImportedNext DEF Shaped
<1> QED
  BY <1>1, <1>2, PTL DEF Spec

-----------------------------------------------------------------------------
(* One port folder *)

\* The port and the key of the first files that are being written.
Making    == step = "writing" /\ then.done = "certificates"
FirstPort == todo[Len(todo)].data[RequestZip].folder
FirstKey  == todo[Len(todo)].data[RequestZip].csr.key

LEMMA LastOfFirstPlan ==
  ASSUME NEW d, NEW k, NEW q \in FirstPlan(d, k)
  PROVE  q[Len(q)].data[RequestZip].folder = d /\ q[Len(q)].data[RequestZip].csr.key = k
PROOF
<1>1. q[Len(q)] = ZipOf(d, k)
  <2>1. \A a, b, c : /\ <<a, b, c>>[Len(<<a, b, c>>)] = c
                    /\ <<a, b>>[Len(<<a, b>>)] = b /\ <<a>>[Len(<<a>>)] = a
    OBVIOUS
  <2>2. q \in {<<KeyFile(d, k), CsrFile(d, k), ZipOf(d, k)>>, <<CsrFile(d, k), ZipOf(d, k)>>, <<ZipOf(d, k)>>}
    BY DEF FirstPlan
  <2> QED
    BY <2>1, <2>2
<1>2. ZipOf(d, k).data[RequestZip] = [is |-> "zip", folder |-> d, csr |-> Request(k)]
  BY DEF ZipOf, ZipFile, InPlace, At
<1> QED
  BY <1>1, <1>2 DEF Request

LEMMA FirstPlanOf ==
  ASSUME NEW d, NEW k, todo \in FirstPlan(d, k)
  PROVE  FirstPort = d /\ FirstKey = k
PROOF BY LastOfFirstPlan DEF FirstPort, FirstKey

InUse == step \in {"identity", "online", "up"} \/ (step = "writing" /\ then.done \in {"online", "up"})

Ports ==
  /\ \A d \in NodePorts, e \in NodePorts : d = e
  /\ InUse => folder \in NodePorts
  /\ Making => NodePorts \subseteq {FirstPort}
  /\ \A d \in Instance : ImportsTo(d) => d \in NodePorts

\* What a write does to the ports there are.
LEMMA PortsAfter ==
  ASSUME Typed, NEW d \in Instance, NEW f \in {Key(d), Csr(d), Opr(d)}, NEW c, c # Absent,
         disk' = [disk EXCEPT ![f] = c]
  PROVE  NodePorts' = NodePorts \cup {d}
PROOF
<1>1. disk = [g \in File |-> disk[g]] /\ f \in File
  BY FileNames DEF Typed, Disk
<1>2. \A g \in File : disk'[g] = IF g = f THEN c ELSE disk[g]
  BY <1>1
<1>3. \A e \in Instance : {Key(e), Csr(e), Opr(e)} \subseteq File
  BY FileNames
<1>4. \A e \in Instance : e # d => f \notin {Key(e), Csr(e), Opr(e)}
  BY Apart
<1> QED
  BY <1>2, <1>3, <1>4 DEF NodePorts, Exists

LEMMA PortsElsewhere ==
  ASSUME Typed, NEW f \in {Pending, Iss(1), Iss(2), RequestZip, Uuid}, NEW c,
         disk' = [disk EXCEPT ![f] = c]
  PROVE  NodePorts' = NodePorts
PROOF
<1>1. disk = [g \in File |-> disk[g]]
  BY DEF Typed, Disk
<1>2. \A e \in Instance : {Key(e), Csr(e), Opr(e)} \subseteq File /\ f \notin {Key(e), Csr(e), Opr(e)}
  BY FileNames, Apart
<1>3. \A e \in Instance, g \in File : g # f => disk'[g] = disk[g]
  BY <1>1
<1> QED
  BY <1>2, <1>3 DEF NodePorts, Exists

LEMMA PortsBoth ==
  ASSUME Typed, NEW d \in Instance, NEW f \in {Key(d), Csr(d), Opr(d)}, NEW c, c # Absent, NEW e,
         \/ disk' = [disk EXCEPT ![f] = c, ![Pending] = e]
         \/ disk' = [disk EXCEPT ![Pending] = e, ![f] = c]
  PROVE  NodePorts' = NodePorts \cup {d}
PROOF
<1>1. disk = [g \in File |-> disk[g]] /\ f \in File /\ f # Pending /\ Pending \in File
  BY FileNames, Apart DEF Typed, Disk
<1>2. \A g \in File : g # Pending => disk'[g] = IF g = f THEN c ELSE disk[g]
  BY <1>1
<1>3. \A p \in Instance : {Key(p), Csr(p), Opr(p)} \subseteq File /\ Pending \notin {Key(p), Csr(p), Opr(p)}
  BY FileNames, Apart
<1>4. \A p \in Instance : p # d => f \notin {Key(p), Csr(p), Opr(p)}
  BY Apart
<1> QED
  BY <1>2, <1>3, <1>4 DEF NodePorts, Exists

LEMMA NotAbsent ==
  /\ \A k : KeyPair(k) # Absent /\ Request(k) # Absent
  /\ \A k, a : Cert(k, a) # Absent
  /\ Torn # Absent
  /\ \A f : disk[f].is \in {"key", "request", "certificate", "zip", "uuid"} \/ KeyOf(f) # 0 => Exists(f)
PROOF BY DEF KeyPair, Request, Cert, Torn, Absent, Exists, KeyOf

LEMMA PortsWrite ==
  ASSUME Shaped, Ports, Write
  PROVE  Ports'
PROOF
<1>1. /\ step = "writing" /\ UNCHANGED <<folder, import>>
      /\ \/ \E d \in Instance, k \in 1 .. newest : FirstWrite(d, k)
         \/ \E u \in 1 .. MaxUuid : UuidWrite(u)
         \/ \E k \in 1 .. newest : RenewalWrite(k)
         \/ \E k \in 1 .. newest, a \in Ca : ActivationWrite(k, a)
  BY WriteMoves DEF Shaped
<1>2. Typed /\ folder \in Instance
  BY <1>1 DEF Shaped, Typed, Running
<1>3. ASSUME NodePorts \subseteq NodePorts'
      PROVE  \A d \in Instance : ImportsTo(d)' => d \in NodePorts'
  BY <1>1, <1>3 DEF ImportsTo, Ports
<1>4. ASSUME NEW d \in Instance, NEW k \in 1 .. newest, FirstWrite(d, k)
      PROVE  Ports'
  <2>1. todo \in FirstPlan(d, k) /\ Making
    BY <1>1, <1>4 DEF FirstWrite, FirstPlan, Making
  <2>2. NodePorts \subseteq {d}
    BY <2>1, FirstPlanOf DEF Ports
  <2>3. NodePorts' = NodePorts \cup {d} \/ NodePorts' = NodePorts
    BY <1>2, <1>4, PortsAfter, PortsElsewhere, NotAbsent DEF FirstWrite
  <2>4. step' = "writing" => todo' \in FirstPlan(d, k)
    BY <1>4 DEF FirstWrite, GoesOn, Ends, FirstPlan
  <2>5. ASSUME step' = "writing" PROVE FirstPort' = d
    <3>1. todo' \in FirstPlan(d, k)'
      BY <2>4, <2>5 DEF FirstPlan, KeyFile, CsrFile, ZipOf
    <3>2. \A q : q \in FirstPlan(d, k) => q[Len(q)].data[RequestZip].folder = d
      BY LastOfFirstPlan
    <3> QED
      BY <2>4, <2>5, <3>2 DEF FirstPort
  <2>6. ~InUse'
    BY <1>1, <1>4 DEF FirstWrite, GoesOn, Ends, InUse
  <2> QED
    BY <1>3, <2>2, <2>3, <2>5, <2>6 DEF Ports, Making
<1>5. ASSUME NEW u, UuidWrite(u)
      PROVE  Ports'
  <2>1. NodePorts' = NodePorts /\ ~Making' /\ folder \in NodePorts
    BY <1>1, <1>2, <1>5, PortsElsewhere DEF UuidWrite, Ends, Making, Ports, InUse
  <2> QED
    BY <1>1, <1>3, <2>1 DEF Ports
<1>6. ASSUME NEW k \in 1 .. newest, RenewalWrite(k)
      PROVE  Ports'
  <2>1. ~Making' /\ folder \in NodePorts
    BY <1>1, <1>6 DEF RenewalWrite, GoesOn, Ends, Making, Ports, InUse
  <2>2. NodePorts' = NodePorts \cup {folder} \/ NodePorts' = NodePorts
    BY <1>2, <1>6, PortsAfter, PortsElsewhere, PortsBoth, NotAbsent DEF RenewalWrite
  <2> QED
    BY <1>1, <1>3, <2>1, <2>2 DEF Ports
<1>7. ASSUME NEW k \in 1 .. newest, NEW a \in Ca, ActivationWrite(k, a)
      PROVE  Ports'
  <2>1. ~Making' /\ folder \in NodePorts
    BY <1>1, <1>7 DEF ActivationWrite, GoesOn, Ends, Making, Ports, InUse
  <2>2. disk' = Promoted /\ KeyOf(Pending) = k => NodePorts' = NodePorts \cup {folder}
    <3>1. KeyOf(Pending) = k => disk[Pending] # Absent
      BY NotAbsent, CommissioningAssumption DEF Exists, Shaped, Typed, Counted
    <3> QED
      BY <1>2, <3>1, PortsBoth DEF Promoted
  <2>3. NodePorts' = NodePorts \cup {folder} \/ NodePorts' = NodePorts
    BY <1>2, <1>7, <2>2, PortsAfter, PortsElsewhere, NotAbsent DEF ActivationWrite
  <2> QED
    BY <1>1, <1>3, <2>1, <2>3 DEF Ports
<1> QED
  BY <1>1, <1>4, <1>5, <1>6, <1>7

LEMMA PortsDevice ==
  ASSUME Shaped, Ports,
         \/ \E d \in Instance : Start(d)
         \/ ReconcilePendingKey \/ EnsureNodeRequest \/ Certificates
         \/ LoadOrCreateDeviceUuid \/ GoOnline
         \/ GenerateKeyAndCsr \/ (\E k \in 1 .. MaxKey, a \in Ca : Activate(k, a))
         \/ WriteFails \/ Stop
  PROVE  Ports'
PROOF
<1>1. Typed /\ (step # "off" => instance \in Instance /\ folder \in Instance)
  BY DEF Shaped, Typed, Running
<1>2. ASSUME UNCHANGED <<disk, import>>, InUse' => folder' \in NodePorts, ~Making'
      PROVE  Ports'
  <2>1. NodePorts' = NodePorts
    BY <1>2 DEF NodePorts, Exists
  <2> QED
    BY <1>2, <2>1 DEF Ports, ImportsTo
<1>3. ASSUME NEW d \in Instance, Start(d)
      PROVE  Ports'
  BY <1>2, <1>3 DEF Start, InUse, Making
<1>4. ASSUME ReconcilePendingKey
      PROVE  Ports'
  <2>1. ~InUse' /\ ~Making' /\ UNCHANGED <<folder, import>> /\ folder \in Instance
    BY <1>1, <1>4 DEF ReconcilePendingKey, InUse, Making
  <2>2. CASE UnfinishedSwap
    <3>1. Exists(Opr(folder)) /\ disk[Pending] # Absent
      BY <2>2, NotAbsent DEF UnfinishedSwap, Exists
    <3>2. folder \in NodePorts
      BY <2>1, <3>1 DEF NodePorts
    <3>3. NodePorts' = NodePorts \cup {folder}
      BY <1>1, <1>4, <2>1, <2>2, <3>1, PortsBoth DEF ReconcilePendingKey, Promoted
    <3> QED
      BY <2>1, <3>2, <3>3 DEF Ports, ImportsTo
  <2>3. CASE ~UnfinishedSwap
    BY <1>2, <1>4, <2>1, <2>3 DEF ReconcilePendingKey
  <2> QED
    BY <2>2, <2>3
<1>5. ASSUME EnsureNodeRequest
      PROVE  Ports'
  <2>1. PICK d \in ResolveNodeCertPaths(instance) :
           \/ step' = "certificates"
           \/ Do(FirstFiles(d, newest'), "certificates", "certificates")
           \/ /\ disk[Csr(d)].is = "request"
              /\ Do(<<ZipFile(d, disk[Csr(d)])>>, "certificates", "certificates")
    BY <1>5 DEF EnsureNodeRequest, Continue
  <2>2. UNCHANGED <<disk, import>> /\ d \in Instance /\ NodePorts \subseteq {d}
    BY <1>1, <1>5, PortsKnown DEF EnsureNodeRequest, Ports
  <2>3. CASE step' = "certificates"
    BY <1>2, <2>2, <2>3 DEF InUse, Making
  <2>4. ASSUME NEW k, todo' \in FirstPlan(d, k), step' = "writing", then'.done = "certificates"
        PROVE  Ports'
    <3>1. \A q : q \in FirstPlan(d, k) => q[Len(q)].data[RequestZip].folder = d
      BY LastOfFirstPlan
    <3>2. FirstPort' = d
      BY <2>4, <3>1 DEF FirstPort
    <3>3. NodePorts' = NodePorts
      BY <2>2 DEF NodePorts, Exists
    <3> QED
      BY <2>2, <2>4, <3>2, <3>3 DEF Ports, ImportsTo, InUse
  <2>5. CASE Do(FirstFiles(d, newest'), "certificates", "certificates")
    <3>1. FirstFiles(d, newest') \in FirstPlan(d, newest')
      BY DEF FirstFiles, FirstPlan, KeyFile, CsrFile, ZipOf
    <3> QED
      BY <2>4, <2>5, <3>1 DEF Do
  <2>6. CASE /\ disk[Csr(d)].is = "request"
             /\ Do(<<ZipFile(d, disk[Csr(d)])>>, "certificates", "certificates")
    <3>1. disk[Csr(d)] = Request(KeyOf(Csr(d)))
      BY <1>1, <2>2, <2>6, HeldRequest, CommissioningAssumption DEF Typed, Counted
    <3>2. \A k : <<ZipFile(d, Request(k))>> \in FirstPlan(d, k)
      BY DEF FirstPlan, ZipOf
    <3> QED
      BY <2>4, <2>6, <3>1, <3>2 DEF Do
  <2> QED
    BY <2>1, <2>3, <2>5, <2>6
<1>6. ASSUME Certificates
      PROVE  Ports'
  <2>1. UNCHANGED <<disk, import>> /\ ~Making'
    BY <1>6 DEF Certificates, PowerOff, Making
  <2>2. InUse' => Usable /\ folder' = folder
    BY <1>6 DEF Certificates, PowerOff, InUse
  <2>3. Usable => folder \in NodePorts
    BY <1>1, <1>6, NotAbsent DEF Certificates, Usable, NodePorts
  <2> QED
    BY <1>2, <2>1, <2>2, <2>3
<1>7. ASSUME LoadOrCreateDeviceUuid \/ GoOnline \/ GenerateKeyAndCsr \/ (\E k \in 1 .. MaxKey, a \in Ca : Activate(k, a))
      PROVE  Ports'
  <2>1. UNCHANGED <<disk, import, folder>> /\ step \in {"identity", "online", "up"}
        /\ (step' = "writing" => then'.done \in {"online", "up"})
    <3>1. CASE LoadOrCreateDeviceUuid
      BY <3>1 DEF LoadOrCreateDeviceUuid, Do
    <3>2. CASE GoOnline
      BY <3>2 DEF GoOnline
    <3>3. CASE GenerateKeyAndCsr
      BY <3>3 DEF GenerateKeyAndCsr, Do
    <3>4. ASSUME NEW k \in 1 .. MaxKey, NEW a \in Ca, Activate(k, a)
          PROVE  /\ UNCHANGED <<disk, import, folder>> /\ step \in {"identity", "online", "up"}
                 /\ (step' = "writing" => then'.done \in {"online", "up"})
      BY <3>4 DEF Activate, Do
    <3> QED
      BY <1>7, <3>1, <3>2, <3>3, <3>4
  <2> QED
    BY <1>2, <2>1 DEF Ports, InUse, Making
<1>8. ASSUME WriteFails
      PROVE  Ports'
  <2>1. UNCHANGED <<disk, import>> /\ step' # "writing"
    BY <1>1, <1>8 DEF WriteFails, PowerOff, Typed, Running
  <2>2. then.failed = "up" => then.done = "up"
    BY <1>8 DEF WriteFails, Shaped, Planned
  <2>3. then.failed \in {"off", "certificates", "up"}
    BY <1>8 DEF WriteFails, Shaped, Planned
  <2>4. InUse' => InUse /\ folder' = folder
    BY <1>8, <2>2, <2>3 DEF WriteFails, PowerOff, InUse
  <2> QED
    BY <1>2, <2>1, <2>4 DEF Ports, Making
<1>9. ASSUME Stop
      PROVE  Ports'
  <2>1. ~InUse' /\ ~Making' /\ import' = import
    BY <1>9, StopMoves DEF Shaped, PowerOff, InUse, Making
  <2>2. CASE disk' = disk
    BY <1>2, <2>1, <2>2
  <2>3. ASSUME NodePorts' = NodePorts PROVE Ports'
    BY <2>1, <2>3 DEF Ports, ImportsTo
  <2>4. CASE disk' = [disk EXCEPT ![Uuid] = Torn]
    BY <1>1, <2>3, <2>4, PortsElsewhere
  <2>5. ASSUME NEW d \in Instance, NEW k \in 1 .. newest, Making, todo \in FirstPlan(d, k),
               \/ disk' = [disk EXCEPT ![Key(d)] = Torn] \/ disk' = [disk EXCEPT ![Csr(d)] = Torn]
               \/ disk' = [disk EXCEPT ![RequestZip] = Torn]
        PROVE  Ports'
    <3>1. NodePorts \subseteq {d}
      BY <2>5, FirstPlanOf DEF Ports
    <3>2. NodePorts' = NodePorts \/ NodePorts' = NodePorts \cup {d}
      BY <1>1, <2>5, PortsAfter, PortsElsewhere, NotAbsent
    <3> QED
      BY <2>1, <3>1, <3>2 DEF Ports, ImportsTo
  <2> QED
    <3>1. \/ disk' = disk \/ disk' = [disk EXCEPT ![Uuid] = Torn]
          \/ /\ Making
             /\ \E d \in Instance, k \in 1 .. newest :
                  /\ todo \in FirstPlan(d, k)
                  /\ \/ disk' = [disk EXCEPT ![Key(d)] = Torn] \/ disk' = [disk EXCEPT ![Csr(d)] = Torn]
                     \/ disk' = [disk EXCEPT ![RequestZip] = Torn]
      BY <1>9, StopMoves DEF Shaped, Making, FirstPlan
    <3> QED
      BY <2>2, <2>4, <2>5, <3>1
<1> QED
  BY <1>3, <1>4, <1>5, <1>6, <1>7, <1>8, <1>9

\* The import touches its port's certificate and the issuers, and makes no port.
LEMMA ImportPorts ==
  ASSUME Shaped, Ports, ImportWrite \/ ImportEnds
  PROVE  /\ NodePorts' = NodePorts /\ \A e \in Instance : ~ImportsTo(e)'
         /\ \A f \in File : f \notin {Opr(d) : d \in Instance} \cup {Iss(1), Iss(2)} => disk'[f] = disk[f]
         /\ \A d \in Instance : ~ImportsTo(d) => disk'[Opr(d)] = disk[Opr(d)]
PROOF
<1>1. Typed /\ disk = [f \in File |-> disk[f]]
  BY DEF Shaped, Typed, Disk
<1>2. \A d \in Instance : Opr(d) \in File /\ Opr(d) # Iss(1) /\ Opr(d) # Iss(2)
  BY FileNames, Apart
<1>3. \A d \in Instance, e \in Instance : Opr(d) = Opr(e) => d = e
  BY Apart
<1>4. ASSUME ImportWrite
      PROVE  /\ NodePorts' = NodePorts /\ \A e \in Instance : ~ImportsTo(e)'
             /\ \A f \in File : f \notin {Opr(d) : d \in Instance} \cup {Iss(1), Iss(2)} => disk'[f] = disk[f]
             /\ \A d \in Instance : ~ImportsTo(d) => disk'[Opr(d)] = disk[Opr(d)]
  <2> DEFINE set == import.set
             opr(port) == InPlace(Opr(port), set.opr)
             one == InPlace(Iss(1), set.issuers[1])
             two == InPlace(Iss(2), Last(set.issuers))
  <2>1. import # NoImport /\ Answer(set)
    BY <1>4, ImportMoves DEF Shaped
  <2>2. PICK port \in Instance :
          \/ /\ import.writes = <<opr(port), one, two>> /\ disk' = [disk EXCEPT ![Opr(port)] = set.opr]
             /\ import' = [writes |-> <<one, two>>, set |-> set]
          \/ /\ disk' = [disk EXCEPT ![Iss(1)] = set.issuers[1]]
             /\ import' = [writes |-> <<two>>, set |-> set]
          \/ /\ disk' = [disk EXCEPT ![Iss(2)] = Last(set.issuers)] /\ import' = NoImport
    BY <1>4, ImportMoves DEF Shaped
  <2>3. \A e \in Instance : one.files # {Opr(e)} /\ two.files # {Opr(e)} /\ opr(e).files = {Opr(e)}
    BY Apart DEF InPlace
  <2>4. set.opr # Absent
    BY <2>1, NotAbsent DEF Answer
  <2> HIDE DEF opr, one, two, set
  <2>5. \A e \in Instance : ~ImportsTo(e)'
    <3>1. Head(<<one, two>>) = one /\ Head(<<two>>) = two
      BY Lists
    <3> QED
      BY <2>2, <2>3, <3>1 DEF ImportsTo
  <2>6. CASE import.writes = <<opr(port), one, two>> /\ disk' = [disk EXCEPT ![Opr(port)] = set.opr]
    <3>1. Head(import.writes) = opr(port)
      BY <2>6, Lists
    <3>2. port \in NodePorts /\ ImportsTo(port)
      BY <2>1, <2>3, <3>1 DEF Ports, ImportsTo
    <3>3. NodePorts' = NodePorts
      BY <1>1, <2>4, <2>6, <3>2, PortsAfter
    <3> QED
      BY <1>1, <1>2, <1>3, <2>5, <2>6, <3>2, <3>3
  <2>7. CASE \E f \in {Iss(1), Iss(2)} : \E c : disk' = [disk EXCEPT ![f] = c]
    <3>1. PICK f \in {Iss(1), Iss(2)} : \E c : disk' = [disk EXCEPT ![f] = c]
      BY <2>7
    <3>2. NodePorts' = NodePorts
      BY <1>1, <3>1, PortsElsewhere
    <3> QED
      BY <1>1, <1>2, <2>5, <3>1, <3>2
  <2> QED
    BY <2>2, <2>6, <2>7
<1>5. ASSUME ImportEnds
      PROVE  /\ NodePorts' = NodePorts /\ \A e \in Instance : ~ImportsTo(e)'
             /\ \A f \in File : f \notin {Opr(d) : d \in Instance} \cup {Iss(1), Iss(2)} => disk'[f] = disk[f]
             /\ \A d \in Instance : ~ImportsTo(d) => disk'[Opr(d)] = disk[Opr(d)]
  <2>1. \A e \in Instance : ~ImportsTo(e)'
    BY <1>5, ImportEndMoves DEF Shaped, ImportsTo
  <2>2. CASE disk' = disk
    BY <2>1, <2>2 DEF NodePorts, Exists
  <2>3. ASSUME NEW port \in Instance, ImportsTo(port), disk' = [disk EXCEPT ![Opr(port)] = Torn]
        PROVE  /\ NodePorts' = NodePorts
               /\ \A f \in File : f \notin {Opr(d) : d \in Instance} \cup {Iss(1), Iss(2)} => disk'[f] = disk[f]
               /\ \A d \in Instance : ~ImportsTo(d) => disk'[Opr(d)] = disk[Opr(d)]
    <3>1. NodePorts' = NodePorts
      BY <1>1, <2>3, PortsAfter, NotAbsent DEF Ports
    <3> QED
      BY <1>1, <1>2, <1>3, <2>3, <3>1
  <2>4. CASE \E f \in {Iss(1), Iss(2)} : disk' = [disk EXCEPT ![f] = Torn]
    <3>1. PICK f \in {Iss(1), Iss(2)} : disk' = [disk EXCEPT ![f] = Torn]
      BY <2>4
    <3>2. NodePorts' = NodePorts
      BY <1>1, <3>1, PortsElsewhere
    <3> QED
      BY <1>1, <1>2, <2>1, <3>1, <3>2
  <2> QED
    BY <1>5, <2>1, <2>2, <2>3, <2>4, ImportEndMoves DEF Shaped
<1> QED
  BY <1>4, <1>5

LEMMA ProtectPorts ==
  ASSUME Shaped, ProtectKey
  PROVE  /\ NodePorts' = NodePorts
         /\ \A f \in File : f \notin {Key(d) : d \in Instance} => disk'[f] = disk[f]
         /\ \A d \in Instance : KeyOf(Key(d))' = KeyOf(Key(d)) /\ disk'[Key(d)].is = disk[Key(d)].is
PROOF
<1>1. Typed /\ disk = [f \in File |-> disk[f]]
  BY DEF Shaped, Typed, Disk
<1>2. PICK d \in Instance : disk[Key(d)].is = "key" /\ disk' = [disk EXCEPT ![Key(d)] = [disk[Key(d)] EXCEPT !.locked = TRUE]]
  BY DEF ProtectKey
<1>3. disk[Key(d)] \in Keys(newest) /\ Key(d) \in File
  <2>1. disk[Key(d)] \in Keys(newest)
    BY <1>1, <1>2, Held DEF Typed, Absent, Torn
  <2> QED
    BY <2>1, FileNames
<1>4. LET c == [disk[Key(d)] EXCEPT !.locked = TRUE] IN c # Absent /\ c.is = "key" /\ c.key = disk[Key(d)].key
  BY <1>3 DEF Keys, Absent
<1>5. d \in NodePorts
  BY <1>2, NotAbsent DEF NodePorts
<1>6. NodePorts' = NodePorts
  <2>1. PICK c : c = [disk[Key(d)] EXCEPT !.locked = TRUE]
    OBVIOUS
  <2>2. c # Absent /\ disk' = [disk EXCEPT ![Key(d)] = c]
    BY <1>2, <1>4, <2>1
  <2>3. NodePorts' = NodePorts \cup {d}
    BY <1>1, <2>2, PortsAfter
  <2> QED
    BY <1>5, <2>3
<1>7. \A e \in Instance : Key(e) \in File /\ (Key(e) = Key(d) => e = d)
  BY FileNames, Apart
<1>8. \A e \in Instance : KeyOf(Key(e))' = KeyOf(Key(e)) /\ disk'[Key(e)].is = disk[Key(e)].is
  BY <1>1, <1>2, <1>3, <1>4, <1>7 DEF KeyOf
<1> QED
  BY <1>1, <1>2, <1>6, <1>8

LEMMA PortsOthers ==
  ASSUME Shaped, Ports,
         \/ SendRequest \/ DeleteRequest \/ ProtectKey \/ UNCHANGED vars
         \/ \E d \in Instance, k \in sent : \E zip \in Responses[k] : ImportCariResponse(d, zip)
         \/ ImportWrite \/ ImportEnds
  PROVE  Ports'
PROOF
<1>1. Typed
  BY DEF Shaped
<1>2. ASSUME NodePorts' = NodePorts, UNCHANGED <<step, folder, todo, then>>,
             \A d \in Instance : ImportsTo(d)' => d \in NodePorts
      PROVE  Ports'
  BY <1>2 DEF Ports, InUse, Making, FirstPort
<1>3. UNCHANGED <<step, folder, todo, then>>
  BY ImportMoves, ImportEndMoves, ImportStarts
     DEF Shaped, SendRequest, DeleteRequest, ProtectKey, vars, process
<1>4. ASSUME SendRequest \/ UNCHANGED vars
      PROVE  Ports'
  BY <1>2, <1>3, <1>4 DEF SendRequest, vars, Ports, ImportsTo, NodePorts, Exists
<1>5. ASSUME DeleteRequest
      PROVE  Ports'
  <2>1. NodePorts' = NodePorts
    BY <1>1, <1>5, PortsElsewhere DEF DeleteRequest
  <2> QED
    BY <1>2, <1>3, <1>5, <2>1 DEF DeleteRequest, Ports, ImportsTo
<1>6. ASSUME ProtectKey
      PROVE  Ports'
  BY <1>2, <1>3, <1>6, ProtectPorts DEF ProtectKey, Ports, ImportsTo
<1>7. ASSUME NEW d \in Instance, NEW k \in sent, NEW zip \in Responses[k], ImportCariResponse(d, zip)
      PROVE  Ports'
  <2>1. PICK port \in Instance :
          /\ disk[Csr(port)].is = "request"
          /\ import'.writes = <<InPlace(Opr(port), import'.set.opr), InPlace(Iss(1), import'.set.issuers[1]),
                               InPlace(Iss(2), Last(import'.set.issuers))>>
    BY <1>1, <1>7, ImportStarts
  <2>2. Head(import'.writes) = InPlace(Opr(port), import'.set.opr)
    BY <2>1, Lists
  <2>3. Head(import'.writes).files = {Opr(port)}
    BY <2>2 DEF InPlace
  <2>4. port \in NodePorts
    BY <2>1, NotAbsent DEF NodePorts
  <2>5. \A e \in Instance : ImportsTo(e)' => e = port
    BY <2>3, Apart DEF ImportsTo
  <2>6. NodePorts' = NodePorts
    BY <1>1, <1>7, ImportStarts DEF NodePorts, Exists
  <2> QED
    BY <1>2, <1>3, <2>4, <2>5, <2>6
<1>8. ASSUME ImportWrite \/ ImportEnds
      PROVE  Ports'
  BY <1>2, <1>3, <1>8, ImportPorts
<1> QED
  BY <1>4, <1>5, <1>6, <1>7, <1>8

LEMMA AlwaysPorts == Spec => [](Shaped /\ Ports)
PROOF
<1>1. Init => Ports
  <2> SUFFICES ASSUME Init PROVE Ports
    OBVIOUS
  <2>1. NodePorts = {}
    BY FileNames DEF Init, NodePorts, Exists
  <2> QED
    BY <2>1 DEF Init, Ports, InUse, Making, ImportsTo
<1>2. Shaped /\ Ports /\ [Next]_vars => Ports'
  BY PortsWrite, PortsDevice, PortsOthers DEF Next
<1> QED
  BY <1>1, <1>2, AlwaysShaped, PTL DEF Spec

-----------------------------------------------------------------------------
(* The UUID *)

\* The UUID on disk is the only one the device was ever on a network with; it is
\* written only while there is none.
Identity ==
  /\ vmac \subseteq {disk[Uuid]}
  /\ vmac # {} \/ step = "online" => disk[Uuid].is = "uuid"
  /\ step = "writing" /\ then.done = "online" => disk[Uuid].is # "uuid"

LEMMA UuidKept ==
  ASSUME Shaped, [Next]_vars
  PROVE  \/ disk'[Uuid] = disk[Uuid]
         \/ step = "writing" /\ then.done = "online" /\ step' = "off" /\ vmac' = vmac
         \/ /\ step = "writing" /\ then.done = "online" /\ step' = "online" /\ vmac' = vmac
            /\ disk'[Uuid].is = "uuid"
PROOF
<1>1. Typed /\ (step # "off" => folder \in Instance) /\ disk = [f \in File |-> disk[f]] /\ Uuid \in File
  BY FileNames DEF Shaped, Typed, Running, Disk
<1>2. ASSUME NEW f \in {Pending, Iss(1), Iss(2), RequestZip} \cup UNION {{Key(d), Csr(d), Opr(d)} : d \in Instance},
             NEW c, disk' = [disk EXCEPT ![f] = c]
      PROVE  disk'[Uuid] = disk[Uuid]
  <2>1. f # Uuid
    BY Apart
  <2> QED
    BY <1>1, <1>2, <2>1
<1>3. ASSUME NEW d \in Instance, NEW f \in {Key(d), Csr(d)}, NEW c, NEW e,
             \/ disk' = [disk EXCEPT ![f] = c, ![Pending] = e]
             \/ disk' = [disk EXCEPT ![Pending] = e, ![f] = c]
      PROVE  disk'[Uuid] = disk[Uuid]
  <2>1. f # Uuid /\ Pending # Uuid
    BY Apart
  <2> QED
    BY <1>1, <1>3, <2>1
<1>4. ASSUME Write
      PROVE  \/ disk'[Uuid] = disk[Uuid]
             \/ /\ step = "writing" /\ then.done = "online" /\ step' = "online" /\ vmac' = vmac
                /\ disk'[Uuid].is = "uuid"
  <2>1. /\ step = "writing" /\ vmac' = vmac
        /\ \/ \E d \in Instance, k \in 1 .. newest : FirstWrite(d, k)
           \/ \E u \in 1 .. MaxUuid : UuidWrite(u)
           \/ \E k \in 1 .. newest : RenewalWrite(k)
           \/ \E k \in 1 .. newest, a \in Ca : ActivationWrite(k, a)
    BY <1>4, WriteMoves DEF Shaped
  <2>2. ASSUME NEW d \in Instance, NEW k, FirstWrite(d, k) PROVE disk'[Uuid] = disk[Uuid]
    BY <1>2, <2>2 DEF FirstWrite
  <2>3. ASSUME NEW u, UuidWrite(u) PROVE then.done = "online" /\ step' = "online" /\ disk'[Uuid].is = "uuid"
    BY <1>1, <2>3 DEF UuidWrite, Ends
  <2>4. ASSUME NEW k, RenewalWrite(k) PROVE disk'[Uuid] = disk[Uuid]
    BY <1>1, <1>2, <1>3, <2>1, <2>4 DEF RenewalWrite
  <2>5. ASSUME NEW k, NEW a, ActivationWrite(k, a) PROVE disk'[Uuid] = disk[Uuid]
    BY <1>1, <1>2, <1>3, <2>1, <2>5 DEF ActivationWrite, Promoted
  <2> QED
    BY <2>1, <2>2, <2>3, <2>4, <2>5
<1>5. ASSUME Stop
      PROVE  \/ disk'[Uuid] = disk[Uuid]
             \/ step = "writing" /\ then.done = "online" /\ step' = "off" /\ vmac' = vmac
  <2>1. step' = "off" /\ vmac' = vmac
    BY <1>5, StopMoves DEF Shaped, PowerOff
  <2>2. \/ disk' = disk
        \/ \E d \in Instance : \/ disk' = [disk EXCEPT ![Key(d)] = Torn] \/ disk' = [disk EXCEPT ![Csr(d)] = Torn]
        \/ disk' = [disk EXCEPT ![RequestZip] = Torn]
        \/ step = "writing" /\ then.done = "online"
    BY <1>5, StopMoves DEF Shaped
  <2> QED
    BY <1>2, <2>1, <2>2
<1>6. ASSUME ReconcilePendingKey
      PROVE  disk'[Uuid] = disk[Uuid]
  <2>1. folder \in Instance /\ (disk' = disk \/ disk' = Promoted)
    BY <1>1, <1>6 DEF ReconcilePendingKey
  <2> QED
    BY <1>3, <2>1 DEF Promoted
<1>7. ASSUME DeleteRequest \/ ProtectKey
      PROVE  disk'[Uuid] = disk[Uuid]
  <2>1. \/ disk' = [disk EXCEPT ![RequestZip] = Absent]
        \/ \E d \in Instance : disk' = [disk EXCEPT ![Key(d)] = [disk[Key(d)] EXCEPT !.locked = TRUE]]
    <3>1. CASE DeleteRequest
      BY <3>1 DEF DeleteRequest
    <3>2. CASE ProtectKey
      BY <3>2 DEF ProtectKey
    <3> QED
      BY <1>7, <3>1, <3>2
  <2>2. \/ disk' = [disk EXCEPT ![RequestZip] = Absent]
        \/ \E f \in UNION {{Key(d), Csr(d), Opr(d)} : d \in Instance} : \E c : disk' = [disk EXCEPT ![f] = c]
    BY <2>1
  <2> QED
    BY <1>2, <2>2
<1>8. ASSUME ImportWrite
      PROVE  disk'[Uuid] = disk[Uuid]
  <2>1. PICK f \in {Opr(port) : port \in Instance} \cup {Iss(1), Iss(2)} : \E c : disk' = [disk EXCEPT ![f] = c]
    BY <1>8, ImportMoves DEF Shaped
  <2>2. f \in {Pending, Iss(1), Iss(2), RequestZip} \cup UNION {{Key(d), Csr(d), Opr(d)} : d \in Instance}
    OBVIOUS
  <2>3. PICK c : disk' = [disk EXCEPT ![f] = c]
    BY <2>1
  <2> QED
    BY <1>2, <2>2, <2>3
<1>9. ASSUME ImportEnds
      PROVE  disk'[Uuid] = disk[Uuid]
  <2>1. disk' = disk \/ \E f \in {Opr(port) : port \in Instance} \cup {Iss(1), Iss(2)} : disk' = [disk EXCEPT ![f] = Torn]
    BY <1>9, ImportEndMoves DEF Shaped
  <2> QED
    BY <1>2, <2>1
<1>10. ASSUME \/ UNCHANGED vars \/ \E d \in Instance : Start(d)
              \/ EnsureNodeRequest \/ Certificates \/ LoadOrCreateDeviceUuid \/ GoOnline
              \/ GenerateKeyAndCsr \/ (\E k \in 1 .. MaxKey, a \in Ca : Activate(k, a))
              \/ WriteFails \/ SendRequest
              \/ \E d \in Instance, k \in sent : \E zip \in Responses[k] : ImportCariResponse(d, zip)
       PROVE  disk' = disk
  BY <1>10 DEF vars, Start, EnsureNodeRequest, Certificates, LoadOrCreateDeviceUuid, GoOnline, GenerateKeyAndCsr,
               Activate, WriteFails, SendRequest, ImportCariResponse
<1> QED
  BY <1>4, <1>5, <1>6, <1>7, <1>8, <1>9, <1>10 DEF Next

LEMMA IdentityNext == Shaped /\ Identity /\ [Next]_vars => Identity'
PROOF
<1> SUFFICES ASSUME Shaped, Identity, [Next]_vars PROVE Identity'
  OBVIOUS
<1>1. CASE step = "writing" /\ then.done = "online" /\ step' = "off" /\ vmac' = vmac
  BY <1>1 DEF Identity
<1>2. CASE /\ step = "writing" /\ then.done = "online" /\ step' = "online" /\ vmac' = vmac
           /\ disk'[Uuid].is = "uuid"
  BY <1>2 DEF Identity
<1>3. CASE GoOnline
  <2>1. disk' = disk /\ vmac' = vmac \cup {disk[Uuid]} /\ step = "online" /\ step' = "up"
    BY <1>3 DEF GoOnline
  <2> QED
    BY <2>1 DEF Identity
<1>4. CASE LoadOrCreateDeviceUuid
  <2>1. disk' = disk /\ vmac' = vmac
    BY <1>4 DEF LoadOrCreateDeviceUuid, history
  <2>2. step' = "online" => disk[Uuid].is = "uuid"
    BY <1>4 DEF LoadOrCreateDeviceUuid, NeedsUuid, Do
  <2>3. step' = "writing" => disk[Uuid].is # "uuid"
    BY <1>4 DEF LoadOrCreateDeviceUuid, NeedsUuid, Do
  <2> QED
    BY <2>1, <2>2, <2>3 DEF Identity
<1>5. CASE disk'[Uuid] = disk[Uuid] /\ ~GoOnline /\ ~LoadOrCreateDeviceUuid
  <2>1. vmac' = vmac /\ (step' = "online" => step = "online")
        /\ (step' = "writing" /\ then'.done = "online" => step = "writing" /\ then.done = "online")
    <3>1. CASE \/ \E d \in Instance : Start(d)
               \/ ReconcilePendingKey \/ Certificates \/ Stop
      BY <3>1 DEF Start, ReconcilePendingKey, Certificates, Stop, PowerOff, history
    <3>2. CASE EnsureNodeRequest
      BY <3>2 DEF EnsureNodeRequest, Continue, Do
    <3>3. CASE GenerateKeyAndCsr \/ (\E k \in 1 .. MaxKey, a \in Ca : Activate(k, a))
      <4>1. CASE GenerateKeyAndCsr
        BY <4>1 DEF GenerateKeyAndCsr, Do, history
      <4>2. ASSUME NEW k \in 1 .. MaxKey, NEW a \in Ca, Activate(k, a)
            PROVE  vmac' = vmac /\ step' = "writing" /\ then'.done = "up"
        BY <4>2 DEF Activate, Do
      <4> QED
        BY <3>3, <4>1, <4>2
    <3>4. CASE Write
      <4>1. then.done = "online" => disk'[Uuid].is = "uuid"
        <5>1. /\ step = "writing"
              /\ \/ \E d \in Instance, k \in 1 .. newest : FirstWrite(d, k)
                 \/ \E u \in 1 .. MaxUuid : UuidWrite(u)
                 \/ \E k \in 1 .. newest : RenewalWrite(k)
                 \/ \E k \in 1 .. newest, a \in Ca : ActivationWrite(k, a)
          BY <3>4, WriteMoves DEF Shaped
        <5>2. then.done = "online" => \E u \in 1 .. MaxUuid : UuidWrite(u)
          <6>1. /\ \A d, k : FirstWrite(d, k) => then.done = "certificates"
                /\ \A k : RenewalWrite(k) => then.done = "up"
                /\ \A k, a : ActivationWrite(k, a) => then.done = "up"
            BY DEF FirstWrite, RenewalWrite, ActivationWrite
          <6> QED
            BY <5>1, <6>1
        <5>3. Uuid \in DOMAIN disk
          BY FileNames DEF Shaped, Typed, Disk
        <5> QED
          BY <5>2, <5>3 DEF UuidWrite
      <4>2. step = "writing" /\ then.done # "online"
        BY <1>5, <3>4, <4>1 DEF Write, Identity
      <4> QED
        BY <3>4, <4>2 DEF Write, history, Nowhere
    <3>5. CASE WriteFails
      <4>1. then.failed # "online" /\ then.failed # "writing"
        BY <3>5 DEF WriteFails, Shaped, Planned
      <4> QED
        BY <3>5, <4>1 DEF WriteFails, PowerOff
    <3>6. CASE \/ UNCHANGED vars \/ SendRequest \/ DeleteRequest \/ ProtectKey \/ ImportWrite \/ ImportEnds
               \/ \E d \in Instance, k \in sent : \E zip \in Responses[k] : ImportCariResponse(d, zip)
      BY <3>6 DEF vars, SendRequest, DeleteRequest, ProtectKey, ImportWrite, ImportEnds, ImportCariResponse, process, history
    <3> QED
      BY <1>5, <3>1, <3>2, <3>3, <3>4, <3>5, <3>6 DEF Next
  <2> QED
    BY <1>5, <2>1 DEF Identity
<1> QED
  BY <1>1, <1>2, <1>3, <1>4, <1>5, UuidKept

\* The device is never on a network under a second UUID, whatever is cut short
\* and however often it starts (ScNode.cpp 87).
THEOREM IdentityKept == Spec => []IdentityIsKept
PROOF
<1>1. Init => Identity
  BY DEF Init, Identity
<1>2. Identity => IdentityIsKept
  <2> SUFFICES ASSUME Identity PROVE Cardinality(vmac) <= 1
    BY DEF IdentityIsKept
  <2>1. vmac = {} \/ vmac = {disk[Uuid]}
    BY DEF Identity
  <2>2. Cardinality({}) = 0 /\ Cardinality({disk[Uuid]}) = 1
    BY FS_EmptySet, FS_Singleton
  <2> QED
    BY <2>1, <2>2
<1> QED
  BY <1>1, <1>2, IdentityNext, AlwaysShaped, PTL DEF Spec
-----------------------------------------------------------------------------
(* The request that can be made again *)

\* Before the first request is on disk.
Early == Making /\ Len(todo) # 1

\* While no first write was cut short: a pending key needs a port, the first files
\* are written where there was nothing, and every port has its request.
Requested ==
  /\ NodePorts = {} => ~Exists(Pending)
  /\ Making /\ Len(todo) = 3 => NodePorts = {}
  /\ ~Early => \A d \in NodePorts : disk[Csr(d)].is = "request"

Answerable ==
  /\ outcome.request = "Failed" => outcome.cut
  /\ outcome.cut \/ Requested

LEMMA AnswerKept ==
  ASSUME Answerable, outcome'.cut = outcome.cut, outcome'.request \in {outcome.request, "none"},
         (~Making' /\ ~Making) \/ UNCHANGED <<step, todo, then>>,
         NodePorts' = NodePorts,
         \A d \in NodePorts : disk[Csr(d)].is = "request" => disk'[Csr(d)].is = "request",
         Exists(Pending)' => Exists(Pending) \/ NodePorts # {}
  PROVE  Answerable'
PROOF
<1>1. Early' => Early
  BY DEF Early, Making
<1>2. ~Early' => ~Early
  BY DEF Early, Making
<1>3. (Making /\ Len(todo) = 3)' => Making /\ Len(todo) = 3
  BY DEF Making
<1>4. Requested => Requested'
  BY <1>1, <1>2, <1>3 DEF Requested
<1> QED
  BY <1>4 DEF Answerable

LEMMA AnswerableDevice ==
  ASSUME Shaped, Ports, Answerable,
         \/ \E d \in Instance : Start(d)
         \/ ReconcilePendingKey \/ EnsureNodeRequest \/ Certificates
         \/ LoadOrCreateDeviceUuid \/ GoOnline
         \/ GenerateKeyAndCsr \/ (\E k \in 1 .. MaxKey, a \in Ca : Activate(k, a))
         \/ WriteFails \/ Stop
  PROVE  Answerable'
PROOF
<1>1. Typed /\ (step # "off" => instance \in Instance /\ folder \in Instance)
  BY DEF Shaped, Typed, Running
<1>2. ASSUME disk' = disk, outcome'.cut = outcome.cut, outcome'.request \in {outcome.request, "none"},
             ~Making' /\ ~Making
      PROVE  Answerable'
  BY <1>2, AnswerKept DEF NodePorts, Exists
<1>3. ASSUME \/ \E d \in Instance : Start(d)
             \/ Certificates \/ LoadOrCreateDeviceUuid \/ GoOnline
             \/ GenerateKeyAndCsr \/ (\E k \in 1 .. MaxKey, a \in Ca : Activate(k, a))
      PROVE  Answerable'
  <2>1. CASE Certificates \/ GoOnline \/ \E d \in Instance : Start(d)
    <3>1. outcome'.cut = outcome.cut /\ outcome'.request \in {outcome.request, "none"}
      BY <2>1 DEF Certificates, GoOnline, Start, history, Shaped, Typed, Result
    <3> QED
      BY <1>2, <2>1, <3>1 DEF Certificates, GoOnline, Start, Making, PowerOff
  <2>2. CASE LoadOrCreateDeviceUuid
    BY <1>2, <2>2 DEF LoadOrCreateDeviceUuid, Do, history, Making
  <2>3. CASE GenerateKeyAndCsr
    BY <1>2, <2>3 DEF GenerateKeyAndCsr, Do, history, Making
  <2>4. ASSUME NEW k \in 1 .. MaxKey, NEW a \in Ca, Activate(k, a)
        PROVE  Answerable'
    BY <1>2, <2>4 DEF Activate, Do, Making
  <2> QED
    BY <1>3, <2>1, <2>2, <2>3, <2>4
<1>4. ASSUME ReconcilePendingKey
      PROVE  Answerable'
  <2>1. ~Making' /\ ~Making /\ folder \in Instance /\ outcome' = outcome
    BY <1>1, <1>4 DEF ReconcilePendingKey, Making, history
  <2>2. CASE UnfinishedSwap
    <3>1. Exists(Opr(folder)) /\ disk[Pending] # Absent
      BY <2>2, NotAbsent DEF UnfinishedSwap, Exists
    <3>2. NodePorts' = NodePorts \cup {folder} /\ folder \in NodePorts
      BY <1>1, <1>4, <2>1, <2>2, <3>1, PortsBoth DEF ReconcilePendingKey, Promoted, NodePorts
    <3>3. \A d \in Instance : disk'[Csr(d)] = disk[Csr(d)]
      <4>1. disk' = [disk EXCEPT ![Key(folder)] = disk[Pending], ![Pending] = Absent]
        BY <1>4, <2>2 DEF ReconcilePendingKey, Promoted
      <4>2. \A d \in Instance : Csr(d) # Key(folder) /\ Csr(d) # Pending
        BY Apart
      <4> QED
        BY <1>1, <4>1, <4>2, FileNames DEF Typed, Disk
    <3>4. NodePorts' = NodePorts /\ NodePorts # {}
      BY <3>2
    <3>5. \A d \in NodePorts : d \in Instance
      BY DEF NodePorts
    <3> QED
      BY <2>1, <3>3, <3>4, <3>5, AnswerKept
  <2>3. CASE ~UnfinishedSwap
    BY <1>2, <1>4, <2>1, <2>3 DEF ReconcilePendingKey
  <2> QED
    BY <2>2, <2>3
<1>5. ASSUME EnsureNodeRequest
      PROVE  Answerable'
  <2>1. disk' = disk /\ step = "request" /\ outcome'.cut = outcome.cut /\ ~Making
    BY <1>5 DEF EnsureNodeRequest, Continue, Making, Shaped, Typed, Result
  <2>2. PICK d \in ResolveNodeCertPaths(instance) :
           \/ step' = "certificates" /\ outcome'.request = "AlreadyExists"
           \/ /\ NeedsKey(d) /\ Do(FirstFiles(d, newest'), "certificates", "certificates")
              /\ outcome'.request = "Created"
           \/ /\ disk[Csr(d)].is = "request" /\ Do(<<ZipFile(d, disk[Csr(d)])>>, "certificates", "certificates")
              /\ outcome'.request = "Created"
           \/ ~NeedsKey(d) /\ disk[Csr(d)].is # "request" /\ step' = "certificates" /\ outcome'.request = "Failed"
    BY <1>5 DEF EnsureNodeRequest, Continue, Shaped, Typed, Result
  <2>3. NodePorts' = NodePorts /\ Exists(Pending)' = Exists(Pending)
    BY <2>1 DEF NodePorts, Exists
  <2>4. (d \notin NodePorts => NodePorts = {}) /\ d \in Instance
    BY <1>1, <2>1, PortsKnown DEF ResolveNodeCertPaths
  <2>5. ASSUME Requested, outcome'.request # "Failed", ~Early',
               (Making /\ Len(todo) = 3)' => NodePorts = {}
        PROVE  Answerable'
    BY <2>1, <2>3, <2>5 DEF Answerable, Requested, Early
  <2>6. CASE outcome.cut
    BY <2>1, <2>6 DEF Answerable
  <2>7. CASE Requested /\ step' = "certificates" /\ outcome'.request = "AlreadyExists"
    BY <2>5, <2>7 DEF Early, Making
  <2>8. CASE Requested /\ NeedsKey(d) /\ Do(FirstFiles(d, newest'), "certificates", "certificates")
             /\ outcome'.request = "Created"
    <3>1. Absent.is # "request"
      BY DEF Absent
    <3>2. NodePorts = {}
      BY <2>1, <2>4, <2>8, <3>1 DEF NeedsKey, Exists, Requested, Early
    <3>3. Early'
      BY <2>8, Lists DEF Do, FirstFiles, Early, Making
    <3> QED
      BY <2>1, <2>3, <2>8, <3>2, <3>3 DEF Answerable, Requested
  <2>9. CASE /\ Requested /\ disk[Csr(d)].is = "request"
             /\ Do(<<ZipFile(d, disk[Csr(d)])>>, "certificates", "certificates") /\ outcome'.request = "Created"
    <3>1. Len(todo') = 1
      BY <2>9, Lists DEF Do
    <3> QED
      BY <2>5, <2>9, <3>1 DEF Early
  <2>10. CASE Requested /\ ~NeedsKey(d) /\ disk[Csr(d)].is # "request"
    <3>1. NodePorts = {} /\ d \notin NodePorts
      BY <2>1, <2>4, <2>10 DEF Requested, Early
    <3> QED
      BY <2>4, <2>10, <3>1 DEF Requested, NodePorts, NeedsKey
  <2> QED
    BY <2>2, <2>6, <2>7, <2>8, <2>9, <2>10 DEF Answerable
<1>6. ASSUME WriteFails \/ Stop
      PROVE  Answerable'
  <2>1. step = "writing" => todo # <<>>
    BY <1>1 DEF Typed, Running
  <2>2. CASE Making
    <3>1. Cut
      BY <2>1, <2>2 DEF Making, Cut
    <3>2. outcome'.cut = Cut
      BY <1>6 DEF WriteFails, Stop
    <3> QED
      BY <3>1, <3>2 DEF Answerable
  <2>3. CASE ~Making
    <3>1. step # "writing" => todo = <<>>
      BY <1>1 DEF Typed, Running
    <3>2. outcome'.cut = outcome.cut /\ outcome'.request \in {outcome.request, "none"}
      BY <1>1, <1>6, <2>3, <3>1 DEF WriteFails, Stop, Making, Cut, Typed, Result
    <3>3. ~Making'
      BY <1>6 DEF WriteFails, Stop, PowerOff, Making, Shaped, Planned
    <3>4. CASE disk' = disk
      BY <1>2, <2>3, <3>2, <3>3, <3>4
    <3>5. CASE disk' = [disk EXCEPT ![Uuid] = Torn]
      <4>1. NodePorts' = NodePorts
        BY <1>1, <3>5, PortsElsewhere
      <4>2. \A d \in Instance : disk'[Csr(d)] = disk[Csr(d)]
        BY <1>1, <3>5, Apart DEF Typed, Disk
      <4>3. disk'[Pending] = disk[Pending]
        BY <3>5, Apart
      <4> QED
        BY <2>3, <3>2, <3>3, <4>1, <4>2, <4>3, AnswerKept DEF NodePorts, Exists
    <3> QED
      BY <1>6, <2>3, <3>4, <3>5, StopMoves DEF Shaped, WriteFails, Making
  <2> QED
    BY <2>2, <2>3
<1> QED
  BY <1>3, <1>4, <1>5, <1>6

LEMMA AnswerableWrite ==
  ASSUME Shaped, Ports, Answerable, Write
  PROVE  Answerable'
PROOF
<1>1. /\ step = "writing" /\ UNCHANGED <<folder, outcome>>
      /\ \/ \E d \in Instance, k \in 1 .. newest : FirstWrite(d, k)
         \/ \E u \in 1 .. MaxUuid : UuidWrite(u)
         \/ \E k \in 1 .. newest : RenewalWrite(k)
         \/ \E k \in 1 .. newest, a \in Ca : ActivationWrite(k, a)
  BY WriteMoves DEF Shaped
<1>2. Typed /\ folder \in Instance /\ disk = [f \in File |-> disk[f]] /\ outcome'.request \in {outcome.request, "none"}
      /\ outcome'.cut = outcome.cut
  BY <1>1 DEF Shaped, Typed, Running, Disk
<1>3. \A d \in Instance : \A f, c : disk' = [disk EXCEPT ![f] = c] /\ f # Csr(d) => disk'[Csr(d)] = disk[Csr(d)]
  BY <1>2, FileNames
<1>4. \A f, c : disk' = [disk EXCEPT ![f] = c] /\ f # Pending => disk'[Pending] = disk[Pending]
  BY <1>2, FileNames
<1>5. CASE outcome.cut
  BY <1>1, <1>5 DEF Answerable
<1>6. ASSUME Requested, NEW d \in Instance, NEW k \in 1 .. newest, FirstWrite(d, k)
      PROVE  Answerable'
  <2>1. todo \in FirstPlan(d, k) /\ Making
    BY <1>1, <1>6 DEF FirstWrite, FirstPlan, Making
  <2>2. NodePorts \subseteq {d}
    BY <2>1, FirstPlanOf DEF Ports
  <2>3. CASE /\ todo = <<KeyFile(d, k), CsrFile(d, k), ZipOf(d, k)>>
             /\ disk' = [disk EXCEPT ![Key(d)] = KeyPair(k)] /\ GoesOn(<<CsrFile(d, k), ZipOf(d, k)>>)
    <3>1. NodePorts' = NodePorts \cup {d}
      BY <1>2, <2>3, PortsAfter, NotAbsent
    <3>2. Early' /\ Len(todo') = 2
      BY <2>1, <2>3, Lists DEF GoesOn, Early, Making
    <3> QED
      BY <1>2, <3>1, <3>2 DEF Answerable, Requested
  <2>4. CASE /\ todo = <<CsrFile(d, k), ZipOf(d, k)>>
             /\ disk' = [disk EXCEPT ![Csr(d)] = Request(k)] /\ GoesOn(<<ZipOf(d, k)>>)
    <3>1. NodePorts' = NodePorts \cup {d}
      BY <1>2, <2>4, PortsAfter, NotAbsent
    <3>2. Len(todo') = 1
      BY <2>4, Lists DEF GoesOn
    <3>3. disk'[Csr(d)].is = "request"
      BY <1>2, <2>4, FileNames DEF Request
    <3>4. NodePorts' = {d}
      BY <2>2, <3>1
    <3> QED
      BY <1>2, <3>2, <3>3, <3>4 DEF Answerable, Requested
  <2>5. CASE /\ todo = <<ZipOf(d, k)>> /\ Ends("certificates")
             /\ disk' = [disk EXCEPT ![RequestZip] = [is |-> "zip", folder |-> d, csr |-> Request(k)]]
    <3>1. NodePorts' = NodePorts
      BY <1>2, <2>5, PortsElsewhere
    <3>2. Len(todo) = 1
      BY <2>5, Lists
    <3>3. ~Making'
      BY <2>5 DEF Ends, Making
    <3>4. \A e \in Instance : disk'[Csr(e)] = disk[Csr(e)]
      BY <1>3, <2>5, Apart
    <3>5. disk'[Pending] = disk[Pending]
      BY <1>4, <2>5, Apart
    <3>6. Requested'
      BY <1>6, <3>1, <3>2, <3>3, <3>4, <3>5 DEF Requested, Early, Exists, NodePorts
    <3> QED
      BY <1>2, <3>6 DEF Answerable
  <2> QED
    BY <1>6, <2>3, <2>4, <2>5 DEF FirstWrite
<1>7. ASSUME then.done # "certificates", ~Making', folder \in NodePorts, NodePorts' = NodePorts \/ NodePorts' = NodePorts \cup {folder},
             \A d \in Instance : disk[Csr(d)].is = "request" => disk'[Csr(d)].is = "request",
             Exists(Pending)' => Exists(Pending) \/ NodePorts # {}
      PROVE  Answerable'
  BY <1>2, <1>7, AnswerKept DEF Making, NodePorts
<1>8. ASSUME NEW u, UuidWrite(u)
      PROVE  Answerable'
  <2>1. NodePorts' = NodePorts /\ ~Making' /\ then.done # "certificates" /\ folder \in NodePorts
    BY <1>1, <1>2, <1>8, PortsElsewhere DEF UuidWrite, Ends, Making, Ports, InUse
  <2>2. \A e \in Instance : disk'[Csr(e)] = disk[Csr(e)]
    BY <1>3, <1>8, Apart DEF UuidWrite
  <2>3. disk'[Pending] = disk[Pending]
    BY <1>4, <1>8, Apart DEF UuidWrite
  <2>4. Exists(Pending)' => Exists(Pending)
    BY <2>3 DEF Exists
  <2> QED
    BY <1>7, <2>1, <2>2, <2>4
<1>9. ASSUME NEW k \in 1 .. newest, RenewalWrite(k)
      PROVE  Answerable'
  <2>1. ~Making' /\ folder \in NodePorts /\ then.done # "certificates"
    BY <1>1, <1>9 DEF RenewalWrite, GoesOn, Ends, Making, Ports, InUse
  <2>2. NodePorts' = NodePorts \cup {folder} \/ NodePorts' = NodePorts
    BY <1>2, <1>9, PortsAfter, PortsElsewhere, PortsBoth, NotAbsent DEF RenewalWrite
  <2>3. \A e \in Instance : disk'[Csr(e)] = disk[Csr(e)] \/ disk'[Csr(e)] = Request(k)
    <3>1. \A e \in Instance : Csr(e) \in File /\ Csr(e) # Pending
      BY FileNames, Apart
    <3> QED
      BY <1>2, <1>9, <3>1 DEF RenewalWrite
  <2>4. Request(k).is = "request"
    BY DEF Request
  <2> QED
    BY <1>7, <2>1, <2>2, <2>3, <2>4
<1>10. ASSUME NEW k \in 1 .. newest, NEW a \in Ca, ActivationWrite(k, a)
       PROVE  Answerable'
  <2>1. ~Making' /\ folder \in NodePorts /\ then.done # "certificates"
    BY <1>1, <1>10 DEF ActivationWrite, GoesOn, Ends, Making, Ports, InUse
  <2>2. disk' = Promoted /\ KeyOf(Pending) = k => NodePorts' = NodePorts \cup {folder}
    <3>1. KeyOf(Pending) = k => disk[Pending] # Absent
      BY NotAbsent, CommissioningAssumption DEF Exists, Shaped, Typed, Counted
    <3> QED
      BY <1>2, <3>1, PortsBoth DEF Promoted
  <2>3. NodePorts' = NodePorts \cup {folder} \/ NodePorts' = NodePorts
    BY <1>2, <1>10, <2>2, PortsAfter, PortsElsewhere, NotAbsent DEF ActivationWrite
  <2>4. \A e \in Instance : disk'[Csr(e)] = disk[Csr(e)]
    <3>1. \A e \in Instance : Csr(e) \in File /\ Csr(e) \notin {Pending, Key(folder), Opr(folder), Iss(1)}
      BY FileNames, Apart
    <3> QED
      BY <1>2, <1>10, <3>1 DEF ActivationWrite, Promoted
  <2> QED
    BY <1>7, <2>1, <2>3, <2>4
<1> QED
  BY <1>1, <1>5, <1>6, <1>8, <1>9, <1>10 DEF Answerable

LEMMA AnswerableOthers ==
  ASSUME Shaped, Ports, Answerable,
         \/ SendRequest \/ DeleteRequest \/ ProtectKey \/ UNCHANGED vars
         \/ \E d \in Instance, k \in sent : \E zip \in Responses[k] : ImportCariResponse(d, zip)
         \/ ImportWrite \/ ImportEnds
  PROVE  Answerable'
PROOF
<1>1. Typed /\ disk = [f \in File |-> disk[f]]
  BY DEF Shaped, Typed, Disk
<1>2. UNCHANGED <<step, todo, then, outcome>>
  BY ImportMoves, ImportEndMoves, ImportStarts
     DEF Shaped, SendRequest, DeleteRequest, ProtectKey, vars, process, history
<1>3. ASSUME NodePorts' = NodePorts, \A d \in Instance : disk'[Csr(d)] = disk[Csr(d)], disk'[Pending] = disk[Pending]
      PROVE  Answerable'
  BY <1>2, <1>3, AnswerKept DEF NodePorts, Exists
<1>4. \A d, e \in Instance : Csr(d) \in File /\ Pending \in File /\ Csr(d) # RequestZip /\ Pending # RequestZip
        /\ Csr(d) \notin {Key(e), Opr(e), Iss(1), Iss(2)} /\ Pending \notin {Key(e), Opr(e), Iss(1), Iss(2)}
  BY FileNames, Apart
<1>5. Pending \in File /\ Pending \notin {Key(e) : e \in Instance} /\ Pending # RequestZip
      /\ Pending \notin {Opr(e) : e \in Instance} \cup {Iss(1), Iss(2)}
  BY FileNames, Apart
<1>6. CASE \/ SendRequest \/ UNCHANGED vars
           \/ \E d \in Instance, k \in sent : \E zip \in Responses[k] : ImportCariResponse(d, zip)
  <2>1. disk' = disk
    BY <1>6 DEF SendRequest, vars, ImportCariResponse
  <2> QED
    BY <1>3, <2>1 DEF NodePorts, Exists
<1>7. CASE DeleteRequest
  <2>1. NodePorts' = NodePorts
    BY <1>1, <1>7, PortsElsewhere DEF DeleteRequest
  <2> QED
    BY <1>1, <1>3, <1>4, <1>5, <1>7, <2>1 DEF DeleteRequest
<1>8. CASE ProtectKey
  <2>1. /\ NodePorts' = NodePorts
        /\ \A f \in File : f \notin {Key(d) : d \in Instance} => disk'[f] = disk[f]
    BY <1>8, ProtectPorts
  <2> QED
    BY <1>3, <1>4, <1>5, <2>1
<1>9. CASE ImportWrite \/ ImportEnds
  <2>1. /\ NodePorts' = NodePorts
        /\ \A f \in File : f \notin {Opr(d) : d \in Instance} \cup {Iss(1), Iss(2)} => disk'[f] = disk[f]
    BY <1>9, ImportPorts
  <2> QED
    BY <1>3, <1>4, <1>5, <2>1
<1> QED
  BY <1>6, <1>7, <1>8, <1>9

\* The start-up fails to make its request only on a device whose first start was
\* cut short, or whose first files could not be opened (cert_tool.cpp 440-446).
THEOREM FailsOnlyWhenCut == Spec => []FailsOnlyAfterACut
PROOF
<1>1. Init => Answerable
  <2> SUFFICES ASSUME Init PROVE Answerable
    OBVIOUS
  <2>1. NodePorts = {} /\ ~Exists(Pending) /\ ~Making
    BY FileNames DEF Init, NodePorts, Exists, Making
  <2> QED
    BY <2>1 DEF Init, Answerable, Requested, Early
<1>2. Shaped /\ Ports /\ Answerable /\ [Next]_vars => Answerable'
  BY AnswerableDevice, AnswerableWrite, AnswerableOthers DEF Next
<1>3. Answerable => FailsOnlyAfterACut
  BY DEF Answerable, FailsOnlyAfterACut
<1> QED
  BY <1>1, <1>2, <1>3, AlwaysPorts, PTL DEF Spec

-----------------------------------------------------------------------------
(* The issuers that are trusted *)

\* The files a certificate and its issuers are in.
TrustFiles == {Opr(d) : d \in Instance} \cup {Iss(1), Iss(2)}

\* Only an activation and an import write them.
LEMMA TrustKept ==
  ASSUME Shaped, [Next]_vars, ~ImportWrite, ~ImportEnds,
         ~ \E k \in 1 .. newest, a \in Ca : ActivationWrite(k, a) /\ Write
  PROVE  \A f \in TrustFiles : disk'[f] = disk[f]
PROOF
<1>1. Typed /\ (step # "off" => folder \in Instance) /\ disk = [f \in File |-> disk[f]] /\ TrustFiles \subseteq File
  BY FileNames DEF Shaped, Typed, Running, Disk, TrustFiles
<1>2. ASSUME NEW f \in {Pending, RequestZip, Uuid} \cup UNION {{Key(d), Csr(d)} : d \in Instance},
             NEW c, disk' = [disk EXCEPT ![f] = c]
      PROVE  \A g \in TrustFiles : disk'[g] = disk[g]
  <2>1. \A g \in TrustFiles : g # f
    BY Apart DEF TrustFiles
  <2> QED
    BY <1>1, <1>2, <2>1
<1>3. ASSUME NEW d \in Instance, NEW f \in {Key(d), Csr(d)}, NEW c, NEW e,
             \/ disk' = [disk EXCEPT ![f] = c, ![Pending] = e]
             \/ disk' = [disk EXCEPT ![Pending] = e, ![f] = c]
      PROVE  \A g \in TrustFiles : disk'[g] = disk[g]
  <2>1. \A g \in TrustFiles : g # f /\ g # Pending
    BY Apart DEF TrustFiles
  <2> QED
    BY <1>1, <1>3, <2>1
<1>4. ASSUME Write
      PROVE  \A g \in TrustFiles : disk'[g] = disk[g]
  <2>1. /\ step = "writing"
        /\ \/ \E d \in Instance, k \in 1 .. newest : FirstWrite(d, k)
           \/ \E u \in 1 .. MaxUuid : UuidWrite(u)
           \/ \E k \in 1 .. newest : RenewalWrite(k)
    BY <1>4, WriteMoves DEF Shaped
  <2>2. ASSUME NEW d \in Instance, NEW k, FirstWrite(d, k) PROVE \A g \in TrustFiles : disk'[g] = disk[g]
    BY <1>2, <2>2 DEF FirstWrite
  <2>3. ASSUME NEW u, UuidWrite(u) PROVE \A g \in TrustFiles : disk'[g] = disk[g]
    BY <1>2, <2>3 DEF UuidWrite
  <2>4. ASSUME NEW k, RenewalWrite(k) PROVE \A g \in TrustFiles : disk'[g] = disk[g]
    BY <1>1, <1>2, <1>3, <2>1, <2>4 DEF RenewalWrite
  <2> QED
    BY <2>1, <2>2, <2>3, <2>4
<1>5. ASSUME Stop
      PROVE  \A g \in TrustFiles : disk'[g] = disk[g]
  <2>1. \/ disk' = disk
        \/ \E d \in Instance : \/ disk' = [disk EXCEPT ![Key(d)] = Torn] \/ disk' = [disk EXCEPT ![Csr(d)] = Torn]
        \/ disk' = [disk EXCEPT ![RequestZip] = Torn] \/ disk' = [disk EXCEPT ![Uuid] = Torn]
    BY <1>5, StopMoves DEF Shaped
  <2> QED
    BY <1>2, <2>1
<1>6. ASSUME ReconcilePendingKey
      PROVE  \A g \in TrustFiles : disk'[g] = disk[g]
  <2>1. folder \in Instance /\ (disk' = disk \/ disk' = Promoted)
    BY <1>1, <1>6 DEF ReconcilePendingKey
  <2> QED
    BY <1>3, <2>1 DEF Promoted
<1>7. ASSUME DeleteRequest \/ ProtectKey
      PROVE  \A g \in TrustFiles : disk'[g] = disk[g]
  <2>1. \/ disk' = [disk EXCEPT ![RequestZip] = Absent]
        \/ \E d \in Instance : disk' = [disk EXCEPT ![Key(d)] = [disk[Key(d)] EXCEPT !.locked = TRUE]]
    <3>1. CASE DeleteRequest
      BY <3>1 DEF DeleteRequest
    <3>2. CASE ProtectKey
      BY <3>2 DEF ProtectKey
    <3> QED
      BY <1>7, <3>1, <3>2
  <2>2. \/ disk' = [disk EXCEPT ![RequestZip] = Absent]
        \/ \E f \in UNION {{Key(d), Csr(d)} : d \in Instance} : \E c : disk' = [disk EXCEPT ![f] = c]
    BY <2>1
  <2> QED
    BY <1>2, <2>2
<1>8. ASSUME \/ UNCHANGED vars \/ \E d \in Instance : Start(d)
             \/ EnsureNodeRequest \/ Certificates \/ LoadOrCreateDeviceUuid \/ GoOnline
             \/ GenerateKeyAndCsr \/ (\E k \in 1 .. MaxKey, a \in Ca : Activate(k, a))
             \/ WriteFails \/ SendRequest
             \/ \E d \in Instance, k \in sent : \E zip \in Responses[k] : ImportCariResponse(d, zip)
      PROVE  disk' = disk
  BY <1>8 DEF vars, Start, EnsureNodeRequest, Certificates, LoadOrCreateDeviceUuid, GoOnline, GenerateKeyAndCsr,
              Activate, WriteFails, SendRequest, ImportCariResponse
<1> QED
  BY <1>4, <1>5, <1>6, <1>7, <1>8 DEF Next

\* A renewal's writes are not an activation's.
LEMMA RenewalOnly ==
  ASSUME NEW k, todo \in RenewalPlan(k), NEW n, NEW a
  PROVE  ~ActivationWrite(n, a)
PROOF
<1>1. Head(todo).files \in {{Pending}, {Csr(folder)}, {Pending, Csr(folder)}}
  <2>1. /\ NewKey(k).files = {Pending} /\ NewCsr(k).files = {Csr(folder)}
        /\ Both(NewKey(k), NewCsr(k)).files = {Pending, Csr(folder)}
    BY DEF NewKey, NewCsr, Renamed, Both
  <2> QED
    BY <2>1, Lists DEF RenewalPlan
<1>2. ActivationWrite(n, a) => Head(todo).files \in {{Opr(folder)}, {Iss(1)}, {Key(folder), Pending}}
  <2>1. /\ NewOpr(n, a).files = {Opr(folder)} /\ NewIss(a).files = {Iss(1)} /\ Swap.files = {Key(folder), Pending}
    BY DEF NewOpr, NewIss, Swap, Renamed, Both
  <2> QED
    BY <2>1, Lists DEF ActivationWrite
<1>3. {{Pending}, {Csr(folder)}, {Pending, Csr(folder)}} \cap {{Opr(folder)}, {Iss(1)}, {Key(folder), Pending}} = {}
  BY Apart
<1> QED
  BY <1>1, <1>2, <1>3

\* What the device trusts after an import, and how far the import has come.
Trusts(set) ==
  /\ {disk[Iss(1)], disk[Iss(2)]} = {set.issuers[1], Last(set.issuers)}
  /\ \E d \in Instance : disk[Opr(d)] = set.opr

Trusted ==
  /\ import # NoImport =>
       /\ step = "off" /\ installed = <<>>
       /\ Len(import.writes) < 3 => \E d \in Instance : disk[Opr(d)] = import.set.opr
       /\ Len(import.writes) = 1 => disk[Iss(1)] = import.set.issuers[1]
  /\ installed # <<>> =>
       /\ Answer(installed[1]) /\ Trusts(installed[1])
       /\ step = "writing" /\ then.done = "up" => \E k \in 1 .. newest : todo \in RenewalPlan(k)

LEMMA AnswerTrusted ==
  ASSUME NEW set, Answer(set)
  PROVE  /\ {set.issuers[1], Last(set.issuers)} = ToSet(set.issuers)
         /\ Authority(set.opr.ca) \in {set.issuers[1], Last(set.issuers)}
PROOF
<1>1. PICK k \in 1 .. newest, a \in Ca :
        /\ set.opr = Cert(k, a)
        /\ \E i \in Authorities, j \in Authorities : i.ca = a /\ set.issuers \in {<<i>>, <<i, j>>}
  BY DEF Answer
<1>2. PICK i \in Authorities, j \in Authorities : i.ca = a /\ set.issuers \in {<<i>>, <<i, j>>}
  BY <1>1
<1>3. /\ <<i>>[1] = i /\ <<i, j>>[1] = i /\ Last(<<i>>) = i /\ Last(<<i, j>>) = j
      /\ ToSet(<<i>>) = {i} /\ ToSet(<<i, j>>) = {i, j}
  BY DEF Last, ToSet
<1>4. i = Authority(a) /\ set.opr.ca = a
  BY <1>1, <1>2 DEF Authorities, Authority, Cert
<1> QED
  BY <1>2, <1>3, <1>4

LEMMA TrustedImport ==
  ASSUME Shaped, Trusted,
         \/ "overlap" \notin Faults
            /\ \E d \in Instance, k \in sent : \E zip \in Responses[k] : ImportCariResponse(d, zip)
         \/ ImportWrite \/ ImportEnds
  PROVE  Trusted'
PROOF
<1>1. Typed /\ disk = [f \in File |-> disk[f]]
      /\ \A d \in Instance : Opr(d) \in File /\ Opr(d) \notin {Iss(1), Iss(2)}
      /\ Iss(1) \in File /\ Iss(2) \in File /\ Iss(1) # Iss(2)
  BY FileNames, Apart DEF Shaped, Typed, Disk
<1>2. ASSUME "overlap" \notin Faults, NEW d \in Instance, NEW k \in sent, NEW zip \in Responses[k], ImportCariResponse(d, zip)
      PROVE  Trusted'
  <2>1. step = "off" /\ step' = step /\ installed' = <<>>
    BY <1>1, <1>2, ImportStarts
  <2>2. Len(import'.writes) = 3
    BY <1>1, <1>2, ImportStarts, Lists
  <2> QED
    BY <2>1, <2>2 DEF Trusted
<1>3. ASSUME ImportWrite
      PROVE  Trusted'
  <2> DEFINE set == import.set
             one == InPlace(Iss(1), set.issuers[1])
             two == InPlace(Iss(2), Last(set.issuers))
  <2>1. /\ step' = "off" /\ newest' = newest /\ Answer(set) /\ installed = <<>>
        /\ Len(import.writes) < 3 => \E d \in Instance : disk[Opr(d)] = import.set.opr
        /\ Len(import.writes) = 1 => disk[Iss(1)] = import.set.issuers[1]
    BY <1>3, ImportMoves DEF Shaped, Trusted
  <2>2. PICK port \in Instance :
          \/ /\ disk' = [disk EXCEPT ![Opr(port)] = set.opr]
             /\ import' = [writes |-> <<one, two>>, set |-> set] /\ UNCHANGED installed
          \/ /\ import.writes = <<one, two>> /\ disk' = [disk EXCEPT ![Iss(1)] = set.issuers[1]]
             /\ import' = [writes |-> <<two>>, set |-> set] /\ UNCHANGED installed
          \/ /\ import.writes = <<two>> /\ disk' = [disk EXCEPT ![Iss(2)] = Last(set.issuers)]
             /\ import' = NoImport /\ installed' = <<set>>
    BY <1>3, ImportMoves DEF Shaped
  <2> HIDE DEF one, two
  <2>3. CASE /\ disk' = [disk EXCEPT ![Opr(port)] = set.opr]
             /\ import' = [writes |-> <<one, two>>, set |-> set] /\ UNCHANGED installed
    <3>1. disk'[Opr(port)] = set.opr /\ Len(import'.writes) = 2 /\ import'.set = set
      BY <1>1, <2>3, Lists
    <3> QED
      BY <2>1, <2>3, <3>1 DEF Trusted
  <2>4. CASE /\ import.writes = <<one, two>> /\ disk' = [disk EXCEPT ![Iss(1)] = set.issuers[1]]
             /\ import' = [writes |-> <<two>>, set |-> set] /\ UNCHANGED installed
    <3>1. Len(import.writes) = 2 /\ import'.set = set
      BY <2>4, Lists
    <3>2. PICK d \in Instance : disk[Opr(d)] = set.opr
      BY <2>1, <3>1
    <3>3. disk'[Opr(d)] = set.opr /\ disk'[Iss(1)] = set.issuers[1]
      BY <1>1, <2>4, <3>2
    <3> QED
      BY <2>1, <2>4, <3>1, <3>3 DEF Trusted
  <2>5. CASE /\ import.writes = <<two>> /\ disk' = [disk EXCEPT ![Iss(2)] = Last(set.issuers)]
             /\ import' = NoImport /\ installed' = <<set>>
    <3>1. Len(import.writes) = 1 /\ installed'[1] = set
      BY <2>5, Lists
    <3>2. PICK d \in Instance : disk[Opr(d)] = set.opr
      BY <2>1, <3>1
    <3>3. disk'[Opr(d)] = set.opr /\ disk'[Iss(1)] = set.issuers[1] /\ disk'[Iss(2)] = Last(set.issuers)
      BY <1>1, <2>1, <2>5, <3>1, <3>2
    <3> HIDE DEF set
    <3>4. Answer(installed[1])'
      <4>1. Answer(installed'[1])
        BY <2>1, <3>1
      <4> QED
        BY <2>1, <4>1 DEF Answer
    <3>5. Trusts(installed[1])'
      BY <3>1, <3>3 DEF Trusts
    <3> QED
      BY <2>1, <2>5, <3>4, <3>5 DEF Trusted
  <2> QED
    BY <2>2, <2>3, <2>4, <2>5
<1>4. ASSUME ImportEnds
      PROVE  Trusted'
  BY <1>4, ImportEndMoves DEF Shaped, Trusted
<1> QED
  BY <1>2, <1>3, <1>4

LEMMA TrustedWrite ==
  ASSUME Shaped, Trusted, Write
  PROVE  Trusted'
PROOF
<1>1. /\ step = "writing" /\ UNCHANGED <<folder, import, newest, installed>>
      /\ \/ \E d \in Instance, k \in 1 .. newest : FirstWrite(d, k)
         \/ \E u \in 1 .. MaxUuid : UuidWrite(u)
         \/ \E k \in 1 .. newest : RenewalWrite(k)
         \/ \E k \in 1 .. newest, a \in Ca : ActivationWrite(k, a)
  BY WriteMoves DEF Shaped
<1>2. import = NoImport
  BY <1>1 DEF Trusted
<1>3. CASE installed = <<>>
  BY <1>1, <1>2, <1>3 DEF Trusted
<1>4. CASE installed # <<>>
  <2>1. ~ \E k \in 1 .. newest, a \in Ca : ActivationWrite(k, a)
    <3>1. ASSUME NEW k \in 1 .. newest, NEW a \in Ca, ActivationWrite(k, a)
          PROVE  FALSE
      <4>1. then.done = "up"
        BY <3>1 DEF ActivationWrite
      <4>2. PICK n \in 1 .. newest : todo \in RenewalPlan(n)
        BY <1>1, <1>4, <4>1 DEF Trusted
      <4> QED
        BY <3>1, <4>2, RenewalOnly
    <3> QED
      BY <3>1
  <2>2. \A f \in TrustFiles : disk'[f] = disk[f]
    <3>1. [Next]_vars /\ ~ImportWrite /\ ~ImportEnds
      BY <1>2 DEF Next, ImportWrite, ImportEnds
    <3> QED
      BY <2>1, <3>1, TrustKept
  <2>3. Answer(installed[1])' /\ Trusts(installed[1])'
    BY <1>1, <1>4, <2>2 DEF Trusted, Trusts, Answer, TrustFiles
  <2>4. (step = "writing" /\ then.done = "up")' => \E k \in 1 .. newest : RenewalWrite(k)
    <3>1. ASSUME NEW d \in Instance, NEW k \in 1 .. newest, FirstWrite(d, k) PROVE ~(step = "writing" /\ then.done = "up")'
      BY <3>1 DEF FirstWrite, GoesOn, Ends
    <3>2. ASSUME NEW u, UuidWrite(u) PROVE ~(step = "writing" /\ then.done = "up")'
      BY <3>2 DEF UuidWrite, Ends
    <3> QED
      BY <1>1, <2>1, <3>1, <3>2
  <2>5. ASSUME NEW k \in 1 .. newest, RenewalWrite(k), step' = "writing"
        PROVE  (todo \in RenewalPlan(k))'
    <3>1. todo' = <<NewCsr(k)>>
      BY <2>5 DEF RenewalWrite, GoesOn, Ends
    <3> QED
      BY <1>1, <3>1 DEF RenewalPlan, NewCsr, NewKey
  <2> QED
    BY <1>1, <1>2, <1>4, <2>3, <2>4, <2>5 DEF Trusted
<1> QED
  BY <1>3, <1>4

LEMMA TrustedNext ==
  ASSUME "overlap" \notin Faults, Shaped, Trusted, [Next]_vars
  PROVE  Trusted'
PROOF
<1>1. ASSUME ~ImportWrite, ~ImportEnds, ~Write
      PROVE  \A f \in TrustFiles : disk'[f] = disk[f]
  BY <1>1, TrustKept
<1>2. ASSUME UNCHANGED <<import, installed>>, newest' \in {newest, newest + 1},
             \A f \in TrustFiles : disk'[f] = disk[f], import # NoImport => step' = step,
             installed # <<>> /\ (step = "writing" /\ then.done = "up")' => \E k \in 1 .. newest' : (todo \in RenewalPlan(k))'
      PROVE  Trusted'
  <2>1. Opr(1) = Opr(1) /\ \A d \in Instance : Opr(d) \in TrustFiles
    BY DEF TrustFiles
  <2>2. Iss(1) \in TrustFiles /\ Iss(2) \in TrustFiles
    BY DEF TrustFiles
  <2>3. newest \in Nat
    BY CommissioningAssumption DEF Shaped, Typed, Counted
  <2>4. installed # <<>> => Answer(installed[1])'
    <3>1. 1 .. newest \subseteq 1 .. newest'
      BY <1>2, <2>3
    <3> QED
      BY <1>2, <3>1 DEF Trusted, Answer
  <2>5. installed # <<>> => Trusts(installed[1])'
    BY <1>2, <2>1, <2>2 DEF Trusted, Trusts
  <2>6. import' # NoImport =>
          /\ step' = "off" /\ installed' = <<>>
          /\ Len(import'.writes) < 3 => \E d \in Instance : disk'[Opr(d)] = import'.set.opr
          /\ Len(import'.writes) = 1 => disk'[Iss(1)] = import'.set.issuers[1]
    BY <1>2, <2>1, <2>2 DEF Trusted
  <2> QED
    BY <1>2, <2>4, <2>5, <2>6 DEF Trusted
<1>3. ASSUME \/ UNCHANGED vars \/ SendRequest \/ DeleteRequest \/ ProtectKey
      PROVE  Trusted'
  <2>1. ~ImportWrite /\ ~ImportEnds /\ ~Write => \A f \in TrustFiles : disk'[f] = disk[f]
    BY <1>1
  <2>2. UNCHANGED <<import, installed, newest, step, then, todo, folder>>
    BY <1>3 DEF vars, SendRequest, DeleteRequest, ProtectKey, process, history
  <2>3. \A k : RenewalPlan(k)' = RenewalPlan(k)
    BY <2>2 DEF RenewalPlan, NewCsr, NewKey
  <2>4. CASE ImportWrite \/ ImportEnds
    BY <2>4, TrustedImport
  <2>5. CASE Write
    BY <2>5, TrustedWrite
  <2> QED
    BY <1>2, <2>1, <2>2, <2>3, <2>4, <2>5 DEF Trusted
<1>4. ASSUME \/ \E d \in Instance : Start(d)
             \/ ReconcilePendingKey \/ EnsureNodeRequest \/ Certificates
             \/ LoadOrCreateDeviceUuid \/ GoOnline \/ WriteFails \/ Stop
             \/ GenerateKeyAndCsr \/ (\E k \in 1 .. MaxKey, a \in Ca : Activate(k, a))
      PROVE  Trusted'
  <2>1. import = NoImport /\ import' = NoImport
    BY <1>4 DEF Start, ReconcilePendingKey, EnsureNodeRequest, Certificates, LoadOrCreateDeviceUuid, GoOnline,
                WriteFails, Stop, GenerateKeyAndCsr, Activate, Trusted
  <2>2. CASE Write
    BY <2>2, TrustedWrite
  <2>3. CASE ~Write
    <3>1. \A f \in TrustFiles : disk'[f] = disk[f]
      BY <1>1, <2>1, <2>3 DEF ImportWrite, ImportEnds
    <3>2. CASE \E k \in 1 .. MaxKey, a \in Ca : Activate(k, a)
      <4>1. installed' = <<>>
        BY <3>2 DEF Activate
      <4> QED
        BY <2>1, <4>1 DEF Trusted
    <3>3. CASE GenerateKeyAndCsr
      <4>1. (todo \in RenewalPlan(newest))' /\ newest' = newest + 1 /\ installed' = installed
        BY <3>3 DEF GenerateKeyAndCsr, Do, RenewalPlan, NewCsr, NewKey, history
      <4>2. newest' \in 1 .. newest'
        BY <4>1, CommissioningAssumption DEF Shaped, Typed, Counted
      <4> QED
        BY <1>2, <2>1, <3>1, <4>1, <4>2
    <3>4. CASE \/ ReconcilePendingKey \/ Certificates \/ GoOnline \/ WriteFails \/ Stop \/ \E d \in Instance : Start(d)
      <4>1. installed' = installed /\ newest' = newest
        BY <3>4 DEF ReconcilePendingKey, Certificates, GoOnline, WriteFails, Stop, Start, history
      <4>2. step' # "writing"
        <5>1. CASE WriteFails
          <6>1. then.failed # "writing"
            BY <5>1 DEF WriteFails, Shaped, Typed, Running
          <6> QED
            BY <5>1, <6>1 DEF WriteFails, PowerOff
        <5>2. CASE Stop
          BY <5>2 DEF Stop, PowerOff
        <5> QED
          BY <3>4, <5>1, <5>2 DEF ReconcilePendingKey, Certificates, GoOnline, Start, PowerOff
      <4> QED
        BY <1>2, <2>1, <3>1, <4>1, <4>2
    <3>5. CASE EnsureNodeRequest
      <4>1. installed' = installed /\ newest' \in {newest, newest + 1} /\ ~(step = "writing" /\ then.done = "up")'
        BY <3>5 DEF EnsureNodeRequest, Continue, Do
      <4> QED
        BY <1>2, <2>1, <3>1, <4>1
    <3>6. CASE LoadOrCreateDeviceUuid
      <4>1. installed' = installed /\ newest' = newest /\ ~(step = "writing" /\ then.done = "up")'
        BY <3>6 DEF LoadOrCreateDeviceUuid, Do, history
      <4> QED
        BY <1>2, <2>1, <3>1, <4>1
    <3> QED
      BY <1>4, <3>2, <3>3, <3>4, <3>5, <3>6
  <2> QED
    BY <2>2, <2>3
<1> QED
  BY <1>3, <1>4, TrustedImport, TrustedWrite DEF Next

\* Used only while the device is stopped, an import leaves the device trusting
\* exactly the issuers it was sent, in both slots, beside the certificate they
\* signed: no key, request, renewal or stop touches them (cert_tool.cpp 502-511).
THEOREM TrustAsSent ==
  ASSUME "overlap" \notin Faults
  PROVE  Spec => []TrustIsWhatTheCaSent
PROOF
<1>1. Init => Trusted
  BY DEF Init, Trusted
<1>2. Shaped /\ Trusted /\ [Next]_vars => Trusted'
  BY TrustedNext
<1>3. Trusted => TrustIsWhatTheCaSent
  <2> SUFFICES ASSUME Trusted, installed # <<>>
               PROVE  /\ {disk[Iss(1)], disk[Iss(2)]} = ToSet(installed[1].issuers)
                      /\ Authority(installed[1].opr.ca) \in {disk[Iss(1)], disk[Iss(2)]}
                      /\ \E d \in Instance : disk[Opr(d)] = installed[1].opr
    BY DEF TrustIsWhatTheCaSent
  <2> QED
    BY AnswerTrusted DEF Trusted, Trusts
<1> QED
  BY <1>1, <1>2, <1>3, AlwaysShaped, PTL DEF Spec

-----------------------------------------------------------------------------
(* A certificate and its key *)

\* A certificate is there only beside a request; the request is for the pending key
\* if there is one and for the key in use if not; the certificate is for one of them.
OnDisk ==
  /\ disk[Pending].is \in {"absent", "key"}
  /\ \A d \in Instance :
       /\ Exists(Opr(d)) => disk[Csr(d)].is = "request"
       /\ disk[Csr(d)].is = "request" => KeyOf(Csr(d)) = IF Exists(Pending) THEN KeyOf(Pending) ELSE KeyOf(Key(d))
       /\ disk[Opr(d)].is = "certificate" => KeyOf(Opr(d)) \in {KeyOf(Key(d)), KeyOf(Pending)}

\* The first key is written where there is no request, and the request is for it.
Fresh ==
  Early => /\ ~Exists(Pending) /\ \A d \in Instance : disk[Csr(d)].is # "request"
           /\ Len(todo) = 2 => KeyOf(Key(FirstPort)) = FirstKey

\* An import's certificate is for the request that is there.
ForKey ==
  \A d \in Instance : ImportsTo(d) => disk[Csr(d)].is = "request" /\ import.set.opr.key = KeyOf(Csr(d))

\* The running device has the key of its certificate in use, but between the
\* installation of a certificate for the pending key and the swap.
Calm     == disk[Opr(folder)].is = "certificate" /\ KeyOf(Opr(folder)) = KeyOf(Key(folder))
Changing == disk[Opr(folder)].is = "certificate" /\ KeyOf(Opr(folder)) = KeyOf(Pending)

Busy == step = "writing" /\ then.done = "up"

Serving ==
  /\ InUse /\ ~Busy => Calm
  /\ Busy =>
       \/ Calm /\ \E k \in 1 .. newest : todo = <<Both(NewKey(k), NewCsr(k))>>
       \/ Calm /\ \E a \in Ca : todo \in InstallPlan(KeyOf(Key(folder)), a)
       \/ Calm /\ \E a \in Ca : todo = <<NewOpr(KeyOf(Pending), a), NewIss(a), Swap>>
       \/ Changing /\ \E a \in Ca : todo \in {<<NewIss(a), Swap>>, <<Swap>>}

Keyed == OnDisk /\ Fresh /\ ForKey /\ Serving

\* What keeps OnDisk: the same files, a new request, a new certificate, a swap.
LEMMA OnDiskSame ==
  ASSUME OnDisk, disk'[Pending] = disk[Pending],
         \A d \in Instance : /\ disk'[Csr(d)] = disk[Csr(d)] /\ disk'[Opr(d)] = disk[Opr(d)]
                             /\ KeyOf(Key(d))' = KeyOf(Key(d))
  PROVE  OnDisk'
PROOF BY DEF OnDisk, Exists, KeyOf

LEMMA OnDiskCertificate ==
  ASSUME Typed, OnDisk, NEW p \in Instance, NEW c, disk' = [disk EXCEPT ![Opr(p)] = c],
         disk[Csr(p)].is = "request",
         c = Torn \/ (c.is = "certificate" /\ c.key \in {KeyOf(Key(p)), KeyOf(Pending)})
  PROVE  OnDisk'
PROOF
<1>1. disk = [f \in File |-> disk[f]] /\ Opr(p) \in File
  BY FileNames DEF Typed, Disk
<1>2. \A d \in Instance : Key(d) # Opr(p) /\ Csr(d) # Opr(p) /\ Key(d) \in File /\ Csr(d) \in File /\ Opr(d) \in File
                          /\ (Opr(d) = Opr(p) => d = p)
  BY Apart, FileNames
<1>3. Pending \in File /\ Pending # Opr(p)
  BY FileNames, Apart
<1>4. disk'[Opr(p)] = c /\ disk'[Pending] = disk[Pending]
  BY <1>1, <1>3
<1>5. \A d \in Instance : disk'[Key(d)] = disk[Key(d)] /\ disk'[Csr(d)] = disk[Csr(d)]
                          /\ (d # p => disk'[Opr(d)] = disk[Opr(d)])
  BY <1>1, <1>2
<1>6. KeyOf(Opr(p))' = IF c = Torn THEN 0 ELSE c.key
  BY <1>4 DEF KeyOf, Torn
<1>7. Torn.is # "certificate"
  BY DEF Torn
<1>8. \A d \in Instance : /\ KeyOf(Key(d))' = KeyOf(Key(d)) /\ KeyOf(Csr(d))' = KeyOf(Csr(d))
                          /\ (d # p => KeyOf(Opr(d))' = KeyOf(Opr(d)) /\ (Exists(Opr(d))' <=> Exists(Opr(d))))
  BY <1>5 DEF KeyOf, Exists
<1>9. KeyOf(Pending)' = KeyOf(Pending) /\ (Exists(Pending)' <=> Exists(Pending))
  BY <1>4 DEF KeyOf, Exists
<1> QED
  BY <1>4, <1>5, <1>6, <1>7, <1>8, <1>9 DEF OnDisk

LEMMA OnlyFolder ==
  ASSUME Ports, NEW p \in NodePorts, NEW d \in Instance, d # p
  PROVE  disk[Key(d)] = Absent /\ disk[Csr(d)] = Absent /\ disk[Opr(d)] = Absent
PROOF BY DEF Ports, NodePorts, Exists

LEMMA OnDiskRenewed ==
  ASSUME Typed, Ports, OnDisk, Calm, NEW p \in NodePorts, p = folder, NEW k \in 1 .. newest,
         disk' = [disk EXCEPT ![Pending] = KeyPair(k), ![Csr(p)] = Request(k)]
  PROVE  OnDisk' /\ (folder' = folder => Calm')
PROOF
<1>1. disk = [f \in File |-> disk[f]] /\ p \in Instance /\ Csr(p) \in File /\ Pending \in File
  BY FileNames DEF Typed, Disk, NodePorts
<1>2. \A d \in Instance : Key(d) \in File /\ Csr(d) \in File /\ Opr(d) \in File
         /\ Key(d) \notin {Pending, Csr(p)} /\ Opr(d) \notin {Pending, Csr(p)} /\ Csr(d) # Pending
         /\ (Csr(d) = Csr(p) => d = p)
  BY Apart, FileNames
<1>3. disk'[Pending] = KeyPair(k) /\ disk'[Csr(p)] = Request(k)
  BY <1>1, <1>2
<1>4. \A d \in Instance : disk'[Key(d)] = disk[Key(d)] /\ disk'[Opr(d)] = disk[Opr(d)]
                          /\ (d # p => disk'[Csr(d)] = disk[Csr(d)])
  BY <1>1, <1>2
<1>5. /\ disk'[Pending].is = "key" /\ disk'[Pending].key = k /\ disk'[Pending] # Absent
      /\ disk'[Csr(p)].is = "request" /\ disk'[Csr(p)].key = k
  BY <1>3, NotAbsent DEF KeyPair, Request
<1>6. \A d \in Instance : d # p => disk'[Csr(d)] = Absent /\ disk'[Opr(d)] = Absent
  BY <1>4, OnlyFolder
<1>7. Absent.is \notin {"request", "certificate"}
  BY DEF Absent
<1>8. ASSUME NEW d \in Instance, d # p
      PROVE  (/\ Exists(Opr(d)) => disk[Csr(d)].is = "request"
              /\ disk[Csr(d)].is = "request" => KeyOf(Csr(d)) = IF Exists(Pending) THEN KeyOf(Pending) ELSE KeyOf(Key(d))
              /\ disk[Opr(d)].is = "certificate" => KeyOf(Opr(d)) \in {KeyOf(Key(d)), KeyOf(Pending)})'
  BY <1>6, <1>7, <1>8 DEF Exists
<1>9. OnDisk'
  <2>1. KeyOf(Pending)' = k /\ KeyOf(Csr(p))' = k /\ Exists(Pending)'
    BY <1>5 DEF KeyOf, Exists
  <2>2. KeyOf(Opr(p))' = KeyOf(Opr(p)) /\ KeyOf(Key(p))' = KeyOf(Key(p))
    BY <1>1, <1>4
    DEF KeyOf
  <2> QED
    BY <1>1, <1>5, <1>8, <2>1, <2>2 DEF OnDisk, Calm
<1>10. folder' = folder => Calm'
  BY <1>1, <1>4 DEF Calm, KeyOf
<1> QED
  BY <1>9, <1>10

LEMMA OnDiskPromoted ==
  ASSUME Typed, Ports, OnDisk, NEW p \in NodePorts, p = folder, disk[Pending] # Absent, Changing, disk' = Promoted
  PROVE  OnDisk' /\ (folder' = folder => Calm')
PROOF
<1>1. disk = [f \in File |-> disk[f]] /\ p \in Instance /\ Key(p) \in File /\ Pending \in File
      /\ disk' = [disk EXCEPT ![Key(p)] = disk[Pending], ![Pending] = Absent]
  BY FileNames DEF Typed, Disk, NodePorts, Promoted
<1>2. \A d \in Instance : Key(d) \in File /\ Csr(d) \in File /\ Opr(d) \in File
         /\ Csr(d) \notin {Pending, Key(p)} /\ Opr(d) \notin {Pending, Key(p)} /\ Key(d) # Pending
         /\ (Key(d) = Key(p) => d = p)
  BY Apart, FileNames
<1>3. disk'[Pending] = Absent /\ disk'[Key(p)] = disk[Pending]
  BY <1>1, <1>2
<1>4. \A d \in Instance : disk'[Csr(d)] = disk[Csr(d)] /\ disk'[Opr(d)] = disk[Opr(d)]
                          /\ (d # p => disk'[Key(d)] = disk[Key(d)])
  BY <1>1, <1>2
<1>5. Absent.is \notin {"request", "certificate"} /\ Absent.is = "absent"
  BY DEF Absent
<1>6. KeyOf(Key(p))' = KeyOf(Pending) /\ KeyOf(Csr(p))' = KeyOf(Csr(p)) /\ KeyOf(Opr(p))' = KeyOf(Opr(p))
  BY <1>1, <1>3, <1>4 DEF KeyOf
<1>7. ASSUME NEW d \in Instance, d # p
      PROVE  (/\ Exists(Opr(d)) => disk[Csr(d)].is = "request"
              /\ disk[Csr(d)].is = "request" => KeyOf(Csr(d)) = IF Exists(Pending) THEN KeyOf(Pending) ELSE KeyOf(Key(d))
              /\ disk[Opr(d)].is = "certificate" => KeyOf(Opr(d)) \in {KeyOf(Key(d)), KeyOf(Pending)})'
  <2>1. disk'[Csr(d)] = Absent /\ disk'[Opr(d)] = Absent
    BY <1>4, <1>7, OnlyFolder
  <2> QED
    BY <1>5, <2>1 DEF Exists
<1>8. (/\ Exists(Opr(p)) => disk[Csr(p)].is = "request"
       /\ disk[Csr(p)].is = "request" => KeyOf(Csr(p)) = IF Exists(Pending) THEN KeyOf(Pending) ELSE KeyOf(Key(p))
       /\ disk[Opr(p)].is = "certificate" => KeyOf(Opr(p)) \in {KeyOf(Key(p)), KeyOf(Pending)})'
  <2>1. ~Exists(Pending)' /\ (Exists(Opr(p))' <=> Exists(Opr(p)))
    BY <1>1, <1>3, <1>4 DEF Exists
  <2> QED
    BY <1>1, <1>4, <1>6, <2>1 DEF OnDisk, Changing, Exists
<1>9. OnDisk'
  BY <1>3, <1>5, <1>7, <1>8 DEF OnDisk
<1>10. folder' = folder => Calm'
  BY <1>1, <1>4, <1>6 DEF Calm, Changing
<1> QED
  BY <1>9, <1>10

\* The first files: nothing is there but, perhaps, the key.
LEMMA NothingYet ==
  ASSUME OnDisk, Fresh, Early
  PROVE  /\ disk[Pending] = Absent
         /\ \A d \in Instance : disk[Csr(d)].is # "request" /\ disk[Opr(d)] = Absent
PROOF BY DEF OnDisk, Fresh, Exists

LEMMA OnDiskFirst ==
  ASSUME Typed, OnDisk, Fresh, Early, NEW p \in Instance, NEW c,
         \/ disk' = [disk EXCEPT ![Key(p)] = c]
         \/ disk' = [disk EXCEPT ![Csr(p)] = c] /\ (c = Torn \/ (c.is = "request" /\ c.key = KeyOf(Key(p))))
  PROVE  OnDisk'
PROOF
<1>1. disk = [f \in File |-> disk[f]] /\ Key(p) \in File /\ Csr(p) \in File /\ Pending \in File
  BY FileNames DEF Typed, Disk
<1>2. \A d \in Instance : Csr(d) \in File /\ Opr(d) \in File /\ Key(d) \in File
         /\ Opr(d) \notin {Key(p), Csr(p)} /\ Csr(d) # Key(p) /\ Key(d) # Csr(p) /\ (Csr(d) = Csr(p) => d = p)
  BY Apart, FileNames
<1>3. Pending \notin {Key(p), Csr(p)}
  BY Apart
<1>4. disk'[Pending] = Absent /\ Absent.is = "absent" /\ Torn.is = "torn"
  BY <1>1, <1>3, NothingYet DEF Absent, Torn
<1>5. \A d \in Instance : disk'[Opr(d)] = Absent
  BY <1>1, <1>2, NothingYet
<1>6. ASSUME NEW d \in Instance, disk'[Csr(d)].is = "request"
      PROVE  KeyOf(Csr(d))' = KeyOf(Key(d))'
  <2>1. ~(disk' = [disk EXCEPT ![Key(p)] = c])
    BY <1>1, <1>2, <1>6, NothingYet
  <2>2. disk' = [disk EXCEPT ![Csr(p)] = c] /\ d = p
    BY <1>1, <1>2, <1>6, <2>1, NothingYet
  <2>3. disk'[Csr(p)] = c /\ disk'[Key(p)] = disk[Key(p)]
    BY <1>1, <1>2, <2>2
  <2>4. c.is = "request" /\ c.key = KeyOf(Key(p))
    BY <1>4, <1>6, <2>1, <2>2, <2>3
  <2> QED
    BY <2>2, <2>3, <2>4 DEF KeyOf
<1> QED
  BY <1>4, <1>5, <1>6 DEF OnDisk, Exists

LEMMA HeadWritten ==
  ASSUME Write, NEW a, NEW b, NEW c
  PROVE  /\ UNCHANGED <<folder, newest, import>>
         /\ todo = <<a>> => disk' = Made(a) /\ todo' = <<>> /\ step' = then.done
         /\ todo = <<a, b>> => disk' = Made(a) /\ todo' = <<b>> /\ UNCHANGED <<step, then>>
         /\ todo = <<a, b, c>> => disk' = Made(a) /\ todo' = <<b, c>> /\ UNCHANGED <<step, then>>
PROOF
<1>1. UNCHANGED <<folder, newest, import>> /\ disk' = Made(Head(todo)) /\ todo' = Tail(todo)
      /\ (todo' = <<>> => step' = then.done) /\ (todo' # <<>> => UNCHANGED <<step, then>>)
  BY DEF Write
<1>2. CASE todo = <<a>>
  <2>1. Head(todo) = a /\ Tail(todo) = <<>>
    BY <1>2, Lists
  <2>2. <<a>> # <<a, b>> /\ <<a>> # <<a, b, c>>
    OBVIOUS
  <2> QED
    BY <1>1, <1>2, <2>1, <2>2
<1>3. CASE todo = <<a, b>>
  <2>1. Head(todo) = a /\ Tail(todo) = <<b>> /\ <<b>> # <<>>
    BY <1>3, Lists
  <2>2. <<a, b>> # <<a>> /\ <<a, b>> # <<a, b, c>>
    OBVIOUS
  <2> QED
    BY <1>1, <1>3, <2>1, <2>2
<1>4. CASE todo = <<a, b, c>>
  <2>1. Head(todo) = a /\ Tail(todo) = <<b, c>> /\ <<b, c>> # <<>>
    BY <1>4, Lists
  <2>2. <<a, b, c>> # <<a>> /\ <<a, b, c>> # <<a, b>>
    OBVIOUS
  <2> QED
    BY <1>1, <1>4, <2>1, <2>2
<1> QED
  BY <1>1, <1>2, <1>3, <1>4

LEMMA BusyWrite ==
  ASSUME Shaped, Ports, OnDisk, Serving, Busy, Write
  PROVE  OnDisk' /\ Serving'
PROOF
<1>1. Typed /\ disk = [f \in File |-> disk[f]] /\ step = "writing" /\ then.done = "up" /\ folder' = folder /\ newest' = newest
  BY HeadWritten DEF Shaped, Typed, Disk, Busy
<1>2. PICK p \in NodePorts : p = folder
  BY <1>1 DEF Ports, InUse
<1>3. p \in Instance /\ Opr(p) \in File /\ Key(p) \in File /\ Pending \in File /\ Iss(1) \in File
      /\ Key(p) \notin {Opr(p), Iss(1), Pending} /\ Pending \notin {Opr(p), Iss(1)} /\ Opr(p) # Iss(1)
  BY FileNames, Apart DEF NodePorts
<1>4. disk[Opr(p)].is = "certificate" /\ disk[Csr(p)].is = "request"
  <2>1. disk[Opr(p)].is = "certificate"
    BY <1>1, <1>2 DEF Serving, Busy, Calm, Changing
  <2> QED
    BY <1>3, <2>1, NotAbsent DEF OnDisk
<1>5. ASSUME step' = "up", folder' = folder, Calm'
      PROVE  Serving'
  BY <1>5 DEF Serving, Busy
<1>6. ASSUME NEW k \in 1 .. newest, todo = <<Both(NewKey(k), NewCsr(k))>>, Calm
      PROVE  OnDisk' /\ Serving'
  <2>1. disk' = Made(Both(NewKey(k), NewCsr(k))) /\ step' = "up"
    BY <1>1, <1>6, HeadWritten
  <2>2. disk' = [disk EXCEPT ![Pending] = KeyPair(k), ![Csr(p)] = Request(k)]
    <3>1. Pending # Csr(p)
      BY Apart
    <3> QED
      BY <1>1, <1>2, <2>1, <3>1, Effects DEF NewKey, NewCsr
  <2> QED
    BY <1>1, <1>2, <1>5, <1>6, <2>1, <2>2, OnDiskRenewed
<1>7. ASSUME NEW a \in Ca, disk' = Made(NewIss(a))
      PROVE  OnDisk' /\ (Calm => Calm') /\ (Changing => Changing') /\ disk'[Pending] = disk[Pending]
             /\ KeyOf(Key(p))' = KeyOf(Key(p))
  <2>1. disk' = [disk EXCEPT ![Iss(1)] = Authority(a)]
    BY <1>1, <1>7, Effects DEF NewIss
  <2>2. \A d \in Instance : Key(d) \in File /\ Csr(d) \in File /\ Opr(d) \in File
           /\ Key(d) # Iss(1) /\ Csr(d) # Iss(1) /\ Opr(d) # Iss(1)
    BY FileNames, Apart
  <2>3. disk'[Pending] = disk[Pending]
    BY <1>1, <1>3, <2>1
  <2>4. \A d \in Instance : disk'[Key(d)] = disk[Key(d)] /\ disk'[Csr(d)] = disk[Csr(d)] /\ disk'[Opr(d)] = disk[Opr(d)]
    BY <1>1, <2>1, <2>2
  <2>5. \A d \in Instance : KeyOf(Key(d))' = KeyOf(Key(d))
    BY <2>4 DEF KeyOf
  <2>6. OnDisk'
    BY <2>3, <2>4, <2>5, OnDiskSame
  <2>7. (Calm => Calm') /\ (Changing => Changing')
    BY <1>1, <1>2, <1>3, <2>3, <2>4 DEF Calm, Changing, KeyOf
  <2> QED
    BY <1>3, <2>3, <2>5, <2>6, <2>7
<1>8. ASSUME NEW a \in Ca, NEW k \in {KeyOf(Key(p)), KeyOf(Pending)}, disk' = Made(NewOpr(k, a))
      PROVE  OnDisk' /\ (k = KeyOf(Key(p)) => Calm') /\ (k = KeyOf(Pending) => Changing') /\ disk'[Pending] = disk[Pending]
             /\ KeyOf(Key(p))' = KeyOf(Key(p))
  <2>1. disk' = [disk EXCEPT ![Opr(p)] = Cert(k, a)]
    BY <1>1, <1>2, <1>8, Effects DEF NewOpr
  <2>2. Cert(k, a).is = "certificate" /\ Cert(k, a).key = k
    BY DEF Cert
  <2>3. OnDisk'
    BY <1>1, <1>3, <1>4, <2>1, <2>2, OnDiskCertificate
  <2>4. disk'[Opr(p)] = Cert(k, a) /\ disk'[Key(p)] = disk[Key(p)] /\ disk'[Pending] = disk[Pending]
    BY <1>1, <1>3, <2>1
  <2>5. (k = KeyOf(Key(p)) => Calm') /\ (k = KeyOf(Pending) => Changing')
    BY <1>1, <1>2, <2>2, <2>4 DEF Calm, Changing, KeyOf
  <2>6. KeyOf(Key(p))' = KeyOf(Key(p))
    BY <2>4 DEF KeyOf
  <2> QED
    BY <2>3, <2>4, <2>5, <2>6
<1>9. ASSUME NEW a \in Ca, todo \in InstallPlan(KeyOf(Key(p)), a), Calm
      PROVE  OnDisk' /\ Serving'
  <2>1. CASE todo = <<NewOpr(KeyOf(Key(p)), a), NewIss(a)>>
    <3>1. disk' = Made(NewOpr(KeyOf(Key(p)), a)) /\ todo' = <<NewIss(a)>> /\ UNCHANGED <<step, then>>
      BY <2>1, HeadWritten
    <3>2. OnDisk' /\ Calm'
      BY <1>8, <3>1
    <3>3. \A k : (todo \in InstallPlan(k, a))'
      BY <3>1 DEF InstallPlan, NewIss
    <3>4. Busy'
      BY <1>1, <3>1 DEF Busy
    <3>5. \E e \in Ca : (todo \in InstallPlan(KeyOf(Key(folder)), e))'
      BY <3>3
    <3> QED
      BY <3>2, <3>4, <3>5 DEF Serving
  <2>2. CASE todo = <<NewIss(a)>>
    <3>1. disk' = Made(NewIss(a)) /\ step' = "up"
      BY <1>1, <2>2, HeadWritten
    <3> QED
      BY <1>1, <1>5, <1>7, <1>9, <3>1
  <2> QED
    BY <1>9, <2>1, <2>2 DEF InstallPlan
<1>10. ASSUME NEW a \in Ca, todo = <<NewOpr(KeyOf(Pending), a), NewIss(a), Swap>>
       PROVE  OnDisk' /\ Serving'
  <2>1. disk' = Made(NewOpr(KeyOf(Pending), a)) /\ todo' = <<NewIss(a), Swap>> /\ UNCHANGED <<step, then>>
    BY <1>10, HeadWritten
  <2>2. OnDisk' /\ Changing' /\ disk'[Pending] = disk[Pending]
    BY <1>8, <2>1
  <2>3. NewIss(a)' = NewIss(a) /\ Swap' = Swap
    BY <1>1, <2>2 DEF NewIss, Swap
  <2>4. Busy' /\ (todo = <<NewIss(a), Swap>>)'
    BY <1>1, <2>1, <2>3 DEF Busy
  <2> QED
    BY <2>2, <2>4 DEF Serving
<1>11. ASSUME NEW a \in Ca, todo = <<NewIss(a), Swap>>, Changing
       PROVE  OnDisk' /\ Serving'
  <2>1. disk' = Made(NewIss(a)) /\ todo' = <<Swap>> /\ UNCHANGED <<step, then>>
    BY <1>11, HeadWritten
  <2>2. OnDisk' /\ Changing' /\ disk'[Pending] = disk[Pending]
    BY <1>7, <1>11, <2>1
  <2>3. Swap' = Swap
    BY <1>1, <2>2 DEF Swap
  <2>4. Busy' /\ (todo = <<Swap>>)'
    BY <1>1, <2>1, <2>3 DEF Busy
  <2> QED
    BY <2>2, <2>4 DEF Serving
<1>12. ASSUME todo = <<Swap>>, Changing
       PROVE  OnDisk' /\ Serving'
  <2>1. disk' = Made(Swap) /\ step' = "up"
    BY <1>1, <1>12, HeadWritten
  <2>2. disk' = Promoted
    BY <1>1, <1>2, <1>3, <2>1, Effects DEF Swap, Promoted
  <2>3. disk[Pending] # Absent
    <3>1. disk[Opr(p)] \in Certs(newest)
      BY <1>1, <1>3, <1>4, Held DEF Typed, Absent, Torn
    <3>2. KeyOf(Pending) # 0
      BY <1>2, <1>4, <1>12, <3>1, CommissioningAssumption DEF Changing, KeyOf, Certs, Cert, Typed, Counted
    <3> QED
      BY <3>2, NotAbsent DEF Exists
  <2> QED
    BY <1>1, <1>2, <1>5, <1>12, <2>1, <2>2, <2>3, OnDiskPromoted
<1> QED
  BY <1>1, <1>2, <1>6, <1>9, <1>10, <1>11, <1>12 DEF Serving, Busy

\* Before the first certificate: the files the device starts with.
LEMMA FirstWritten ==
  ASSUME Shaped, Ports, OnDisk, Fresh, Making, Write
  PROVE  OnDisk' /\ Fresh' /\ ~InUse'
PROOF
<1>1. Typed /\ disk = [f \in File |-> disk[f]] /\ step = "writing" /\ then.done = "certificates"
  BY DEF Shaped, Typed, Disk, Making
<1>2. PICK d \in Instance, k \in 1 .. newest : FirstWrite(d, k)
  <2>1. /\ \A u : ~UuidWrite(u)
        /\ \A k : ~RenewalWrite(k)
        /\ \A k, a : ~ActivationWrite(k, a)
    BY <1>1 DEF UuidWrite, RenewalWrite, ActivationWrite
  <2> QED
    BY <2>1, WriteMoves DEF Shaped
<1>3. FirstPort = d /\ FirstKey = k
  BY <1>2, FirstPlanOf DEF FirstWrite, FirstPlan
<1>4. ~InUse'
  BY <1>1, <1>2 DEF FirstWrite, GoesOn, Ends, InUse
<1>5. CASE /\ todo = <<KeyFile(d, k), CsrFile(d, k), ZipOf(d, k)>>
           /\ disk' = [disk EXCEPT ![Key(d)] = KeyPair(k)] /\ GoesOn(<<CsrFile(d, k), ZipOf(d, k)>>)
  <2>1. Early
    BY <1>5, Lists DEF Early, Making
  <2>2. OnDisk'
    BY <1>1, <2>1, <1>5, OnDiskFirst
  <2>3. /\ \A e \in Instance : Csr(e) \in File /\ Csr(e) # Key(d)
        /\ Key(d) \in File /\ Pending \in File /\ Pending # Key(d)
    BY FileNames, Apart
  <2>4. disk'[Key(d)] = KeyPair(k) /\ disk'[Pending] = disk[Pending] /\ \A e \in Instance : disk'[Csr(e)] = disk[Csr(e)]
    BY <1>1, <1>5, <2>3
  <2>5. FirstPort' = d /\ FirstKey' = k
    <3>1. todo' \in FirstPlan(d, k)
      BY <1>5 DEF GoesOn, FirstPlan
    <3>2. todo'[Len(todo')].data[RequestZip].folder = d /\ todo'[Len(todo')].data[RequestZip].csr.key = k
      BY <3>1, LastOfFirstPlan
    <3> QED
      BY <3>2 DEF FirstPort, FirstKey
  <2>6. KeyOf(Key(d))' = k
    BY <2>4 DEF KeyOf, KeyPair
  <2>7. ~Exists(Pending)' /\ \A e \in Instance : disk'[Csr(e)].is # "request"
    BY <2>1, <2>4 DEF Fresh, Exists
  <2>8. KeyOf(Key(FirstPort))' = FirstKey'
    BY <2>5, <2>6
  <2> QED
    BY <1>4, <2>2, <2>7, <2>8 DEF Fresh
<1>6. CASE /\ todo = <<CsrFile(d, k), ZipOf(d, k)>>
           /\ disk' = [disk EXCEPT ![Csr(d)] = Request(k)] /\ GoesOn(<<ZipOf(d, k)>>)
  <2>1. Early /\ Len(todo) = 2 /\ Len(todo') = 1
    BY <1>6, Lists DEF Early, Making, GoesOn
  <2>2. Request(k).is = "request" /\ Request(k).key = k /\ KeyOf(Key(d)) = k
    BY <1>3, <2>1 DEF Request, Fresh
  <2>3. OnDisk'
    BY <1>1, <2>1, <2>2, <1>6, OnDiskFirst
  <2> QED
    BY <1>4, <2>1, <2>3 DEF Fresh, Early
<1>7. CASE /\ todo = <<ZipOf(d, k)>> /\ Ends("certificates")
           /\ disk' = [disk EXCEPT ![RequestZip] = [is |-> "zip", folder |-> d, csr |-> Request(k)]]
  <2>1. /\ \A e \in Instance : {Key(e), Csr(e), Opr(e)} \subseteq File /\ RequestZip \notin {Key(e), Csr(e), Opr(e)}
        /\ Pending \in File /\ Pending # RequestZip
    BY FileNames, Apart
  <2>2. /\ \A e \in Instance : disk'[Key(e)] = disk[Key(e)] /\ disk'[Csr(e)] = disk[Csr(e)] /\ disk'[Opr(e)] = disk[Opr(e)]
        /\ disk'[Pending] = disk[Pending]
    BY <1>1, <1>7, <2>1
  <2>3. \A e \in Instance : KeyOf(Key(e))' = KeyOf(Key(e))
    BY <2>2 DEF KeyOf
  <2>4. OnDisk'
    BY <2>2, <2>3, OnDiskSame
  <2> QED
    BY <1>4, <1>7, <2>4 DEF Fresh, Early, Making, Ends
<1> QED
  BY <1>2, <1>5, <1>6, <1>7 DEF FirstWrite

LEMMA UuidWritten ==
  ASSUME Shaped, OnDisk, Serving, Write, step = "writing", then.done = "online"
  PROVE  OnDisk' /\ Fresh' /\ Serving'
PROOF
<1>1. Typed /\ disk = [f \in File |-> disk[f]] /\ folder \in Instance /\ folder' = folder
  BY HeadWritten DEF Shaped, Typed, Disk, Running
<1>2. PICK u : UuidWrite(u)
  <2>1. /\ \A d, k : ~FirstWrite(d, k)
        /\ \A k : ~RenewalWrite(k)
        /\ \A k, a : ~ActivationWrite(k, a)
    BY DEF FirstWrite, RenewalWrite, ActivationWrite
  <2> QED
    BY <2>1, WriteMoves DEF Shaped
<1>3. /\ \A e \in Instance : {Key(e), Csr(e), Opr(e)} \subseteq File /\ Uuid \notin {Key(e), Csr(e), Opr(e)}
      /\ Pending \in File /\ Pending # Uuid
  BY FileNames, Apart
<1>4. /\ \A e \in Instance : disk'[Key(e)] = disk[Key(e)] /\ disk'[Csr(e)] = disk[Csr(e)] /\ disk'[Opr(e)] = disk[Opr(e)]
      /\ disk'[Pending] = disk[Pending]
  BY <1>1, <1>2, <1>3 DEF UuidWrite
<1>5. \A e \in Instance : KeyOf(Key(e))' = KeyOf(Key(e))
  BY <1>4 DEF KeyOf
<1>6. OnDisk'
  BY <1>4, <1>5, OnDiskSame
<1>7. Calm
  BY DEF Serving, InUse, Busy
<1>8. Calm'
  BY <1>1, <1>4, <1>7 DEF Calm, KeyOf
<1>9. step' = "online"
  BY <1>2 DEF UuidWrite, Ends
<1> QED
  BY <1>6, <1>8, <1>9 DEF Fresh, Early, Making, Serving, Busy

\* A step of the device that leaves the files alone.
LEMMA KeyedSteps ==
  ASSUME Shaped, Ports, Keyed, "split" \notin Faults,
         \/ \E d \in Instance : Start(d)
         \/ EnsureNodeRequest \/ Certificates \/ LoadOrCreateDeviceUuid \/ GoOnline
         \/ GenerateKeyAndCsr \/ (\E k \in 1 .. MaxKey, a \in Ca : Activate(k, a)) \/ WriteFails
  PROVE  OnDisk' /\ Fresh' /\ Serving'
PROOF
<1>1. disk' = disk /\ OnDisk'
  <2>1. disk' = disk
    BY DEF Start, EnsureNodeRequest, Certificates, LoadOrCreateDeviceUuid, GoOnline, GenerateKeyAndCsr, Activate, WriteFails
  <2> QED
    BY <2>1, OnDiskSame DEF Keyed, KeyOf
<1>2. ASSUME ~Making', ~InUse'
      PROVE  Fresh' /\ Serving'
  BY <1>2 DEF Fresh, Early, Serving, Busy, InUse
<1>3. ASSUME NEW d \in Instance, Start(d)
      PROVE  Fresh' /\ Serving'
  BY <1>2, <1>3 DEF Start, Making, InUse
<1>4. ASSUME EnsureNodeRequest
      PROVE  Fresh' /\ Serving'
  <2>1. PICK d \in ResolveNodeCertPaths(instance) :
           \/ step' = "certificates"
           \/ NeedsKey(d) /\ Do(FirstFiles(d, newest'), "certificates", "certificates")
           \/ Do(<<ZipFile(d, disk[Csr(d)])>>, "certificates", "certificates")
    BY <1>4 DEF EnsureNodeRequest, Continue
  <2>2. d \in Instance /\ NodePorts \subseteq Instance /\ (d \notin NodePorts => NodePorts = {})
    <3>1. instance \in Instance
      BY <1>4 DEF EnsureNodeRequest, Shaped, Typed, Running
    <3> QED
      BY <2>1, <3>1, PortsKnown DEF ResolveNodeCertPaths, NodePorts
  <2>3. ~InUse'
    BY <2>1 DEF Do, InUse
  <2>4. Serving'
    BY <2>3 DEF Serving, Busy, InUse
  <2>5. CASE step' = "certificates"
    BY <2>4, <2>5 DEF Fresh, Early, Making
  <2>6. CASE Do(<<ZipFile(d, disk[Csr(d)])>>, "certificates", "certificates")
    <3>1. Len(todo') = 1
      BY <2>6, Lists DEF Do
    <3> QED
      BY <2>4, <3>1 DEF Fresh, Early
  <2>7. CASE NeedsKey(d) /\ Do(FirstFiles(d, newest'), "certificates", "certificates")
    <3>1. disk[Csr(d)] = Absent /\ disk[Key(d)] = Absent /\ disk[Pending] = Absent /\ Absent.is = "absent"
      BY <2>7 DEF NeedsKey, Exists, Absent
    <3>2. disk[Opr(d)] = Absent
      BY <2>2, <3>1 DEF Keyed, OnDisk, Exists
    <3>3. NodePorts = {}
      BY <2>2, <3>1, <3>2 DEF NodePorts, Exists
    <3>4. \A e \in Instance : disk[Csr(e)] = Absent
      BY <3>3 DEF NodePorts, Exists
    <3>5. Len(todo') = 3
      BY <2>7, Lists DEF Do, FirstFiles
    <3> QED
      BY <1>1, <2>4, <3>1, <3>4, <3>5 DEF Fresh, Exists
  <2> QED
    BY <2>1, <2>5, <2>6, <2>7
<1>5. ASSUME Certificates
      PROVE  Fresh' /\ Serving'
  <2>1. CASE Usable
    <3>1. step' = "identity" /\ folder' = folder /\ Calm
      BY <1>5, <2>1 DEF Certificates, Usable, Calm
    <3>2. Calm'
      BY <1>1, <3>1 DEF Calm, KeyOf
    <3> QED
      BY <3>1, <3>2 DEF Fresh, Early, Making, Serving, Busy
  <2>2. CASE ~Usable
    BY <1>2, <1>5, <2>2 DEF Certificates, PowerOff, Making, InUse
  <2> QED
    BY <2>1, <2>2
<1>6. ASSUME Calm, folder' = folder
      PROVE  Calm'
  BY <1>1, <1>6 DEF Calm, KeyOf
<1>7. ASSUME LoadOrCreateDeviceUuid \/ GoOnline
      PROVE  Fresh' /\ Serving'
  <2>1. /\ Calm /\ folder' = folder
        /\ ~Making' /\ ~Busy'
    BY <1>7 DEF LoadOrCreateDeviceUuid, GoOnline, Do, Making, Busy, Keyed, Serving, InUse
  <2> QED
    BY <1>6, <2>1 DEF Fresh, Early, Serving
<1>8. ASSUME GenerateKeyAndCsr
      PROVE  Fresh' /\ Serving'
  <2>1. Calm /\ folder' = folder /\ ~Making' /\ Busy'
    BY <1>8 DEF GenerateKeyAndCsr, Do, Making, Busy, Keyed, Serving, InUse
  <2>2. newest' \in 1 .. newest' /\ (todo = <<Both(NewKey(newest), NewCsr(newest))>>)'
    <3>1. newest' \in 1 .. newest'
      BY <1>8, CommissioningAssumption DEF GenerateKeyAndCsr, Shaped, Typed, Counted
    <3>2. (todo = <<Both(NewKey(newest), NewCsr(newest))>>)'
      BY <1>8, <2>1 DEF GenerateKeyAndCsr, Do, NewKey, NewCsr
    <3> QED
      BY <3>1, <3>2
  <2> QED
    BY <1>6, <2>1, <2>2 DEF Fresh, Early, Serving
<1>9. ASSUME NEW k \in 1 .. MaxKey, NEW a \in Ca, Activate(k, a)
      PROVE  Fresh' /\ Serving'
  <2>1. Calm /\ folder' = folder /\ ~Making' /\ Busy' /\ todo' = Activation(folder, k, a)
        /\ k \in {KeyOf(Key(folder)), KeyOf(Pending)}
    BY <1>9 DEF Activate, Do, Making, Busy, Keyed, Serving, InUse, Activation
  <2>2. KeyOf(Key(folder))' = KeyOf(Key(folder)) /\ KeyOf(Pending)' = KeyOf(Pending) /\ Swap' = Swap
        /\ NewOpr(k, a)' = NewOpr(k, a) /\ NewIss(a)' = NewIss(a)
    BY <1>1, <2>1 DEF KeyOf, Swap, NewOpr, NewIss
  <2>3. CASE k = KeyOf(Pending)
    <3>1. todo' = <<NewOpr(k, a), NewIss(a), Swap>>
      BY <2>1, <2>3, Activations DEF NewOpr, NewIss, Swap
    <3>2. (todo = <<NewOpr(KeyOf(Pending), a), NewIss(a), Swap>>)'
      BY <2>2, <2>3, <3>1 DEF NewOpr
    <3> QED
      BY <1>6, <2>1, <3>2 DEF Fresh, Early, Serving
  <2>4. CASE k # KeyOf(Pending)
    <3>1. todo' = <<NewOpr(k, a), NewIss(a)>> /\ k = KeyOf(Key(folder))
      BY <2>1, <2>4, Activations DEF NewOpr, NewIss
    <3>2. (todo \in InstallPlan(KeyOf(Key(folder)), a))'
      BY <2>2, <3>1 DEF InstallPlan, NewOpr
    <3> QED
      BY <1>6, <2>1, <3>2 DEF Fresh, Early, Serving
  <2> QED
    BY <2>3, <2>4
<1>10. ASSUME WriteFails
       PROVE  Fresh' /\ Serving'
  <2>1. ~Busy
    <3>1. ASSUME Busy PROVE ~Head(todo).torn
      <4>1. \A k, a : ~Both(NewKey(k), NewCsr(k)).torn /\ ~NewOpr(k, a).torn /\ ~NewIss(a).torn /\ ~Swap.torn
        BY DEF NewOpr, NewIss, Swap, Renamed, Both
      <4> QED
        BY <3>1, <4>1, Lists DEF Keyed, Serving, InstallPlan
    <3> QED
      BY <1>10, <3>1 DEF WriteFails
  <2>2. step' # "writing" /\ ~InUse'
    BY <1>10, <2>1 DEF WriteFails, PowerOff, Busy, InUse, Shaped, Planned
  <2> QED
    BY <1>2, <2>2 DEF Making
<1> QED
  BY <1>1, <1>3, <1>4, <1>5, <1>7, <1>8, <1>9, <1>10

\* A step of the device that changes the files, or ends it.
LEMMA KeyedMoves ==
  ASSUME Shaped, Ports, Keyed, ReconcilePendingKey \/ Write \/ Stop
  PROVE  OnDisk' /\ Fresh' /\ Serving'
PROOF
<1>1. Typed /\ disk = [f \in File |-> disk[f]] /\ (step # "off" => folder \in Instance)
  BY DEF Shaped, Typed, Disk, Running
<1>2. ASSUME ~Making', ~InUse'
      PROVE  Fresh' /\ Serving'
  BY <1>2 DEF Fresh, Early, Serving, Busy, InUse
<1>3. ASSUME disk' = disk
      PROVE  OnDisk'
  BY <1>3, OnDiskSame DEF Keyed, KeyOf
<1>4. ASSUME ReconcilePendingKey
      PROVE  OnDisk' /\ Fresh' /\ Serving'
  <2>1. Fresh' /\ Serving'
    BY <1>2, <1>4 DEF ReconcilePendingKey, Making, InUse
  <2>2. CASE UnfinishedSwap
    <3>1. Changing /\ disk[Pending] # Absent /\ folder \in Instance
      BY <1>1, <1>4, <2>2 DEF ReconcilePendingKey, UnfinishedSwap, Changing, Absent
    <3>2. folder \in NodePorts
      BY <3>1, NotAbsent DEF Changing, NodePorts
    <3> QED
      BY <1>1, <1>4, <2>1, <2>2, <3>1, <3>2, OnDiskPromoted DEF ReconcilePendingKey, Keyed
  <2>3. CASE ~UnfinishedSwap
    BY <1>3, <1>4, <2>1, <2>3 DEF ReconcilePendingKey
  <2> QED
    BY <2>2, <2>3
<1>5. ASSUME Write
      PROVE  OnDisk' /\ Fresh' /\ Serving'
  <2>1. step = "writing" /\ then.done \in {"certificates", "online", "up"}
    BY <1>5 DEF Write, Shaped, Planned
  <2>2. CASE then.done = "certificates"
    <3>1. OnDisk' /\ Fresh' /\ ~InUse'
      BY <1>5, <2>1, <2>2, FirstWritten DEF Keyed, Making
    <3> QED
      BY <3>1 DEF Serving, Busy, InUse
  <2>3. CASE then.done = "online"
    BY <1>5, <2>1, <2>3, UuidWritten DEF Keyed
  <2>4. CASE then.done = "up"
    <3>1. OnDisk' /\ Serving'
      BY <1>5, <2>1, <2>4, BusyWrite DEF Keyed, Busy
    <3>2. ~Making'
      BY <1>5, <2>1, <2>4 DEF Write, Making
    <3> QED
      BY <3>1, <3>2 DEF Fresh, Early
  <2> QED
    BY <2>1, <2>2, <2>3, <2>4
<1>6. ASSUME Stop
      PROVE  OnDisk' /\ Fresh' /\ Serving'
  <2>1. Fresh' /\ Serving'
    BY <1>2, <1>6 DEF Stop, PowerOff, Making, InUse
  <2>2. ASSUME NEW f \in {RequestZip, Uuid}, disk' = [disk EXCEPT ![f] = Torn]
        PROVE  OnDisk'
    <3>1. /\ \A e \in Instance : {Key(e), Csr(e), Opr(e)} \subseteq File /\ f \notin {Key(e), Csr(e), Opr(e)}
          /\ Pending \in File /\ Pending # f
      BY FileNames, Apart
    <3>2. /\ \A e \in Instance : disk'[Key(e)] = disk[Key(e)] /\ disk'[Csr(e)] = disk[Csr(e)] /\ disk'[Opr(e)] = disk[Opr(e)]
          /\ disk'[Pending] = disk[Pending]
      BY <1>1, <2>2, <3>1
    <3>3. \A e \in Instance : KeyOf(Key(e))' = KeyOf(Key(e))
      BY <3>2 DEF KeyOf
    <3> QED
      BY <3>2, <3>3, OnDiskSame DEF Keyed
  <2>3. ASSUME step = "writing", then.done = "certificates", NEW d \in Instance, NEW k,
               \/ todo = <<KeyFile(d, k), CsrFile(d, k), ZipOf(d, k)>> /\ disk' = [disk EXCEPT ![Key(d)] = Torn]
               \/ todo = <<CsrFile(d, k), ZipOf(d, k)>> /\ disk' = [disk EXCEPT ![Csr(d)] = Torn]
        PROVE  OnDisk'
    <3>1. Early
      BY <2>3, Lists DEF Early, Making
    <3> QED
      BY <1>1, <2>3, <3>1, OnDiskFirst DEF Keyed
  <2> QED
    BY <1>3, <1>6, <2>1, <2>2, <2>3, StopMoves DEF Shaped
<1> QED
  BY <1>4, <1>5, <1>6

LEMMA KeyedOthers ==
  ASSUME Shaped, Ports, Trusted, Keyed, "overlap" \notin Faults,
         \/ SendRequest \/ DeleteRequest \/ ProtectKey \/ UNCHANGED vars
         \/ \E d \in Instance, k \in sent : \E zip \in Responses[k] : ImportCariResponse(d, zip)
         \/ ImportWrite \/ ImportEnds
  PROVE  Keyed'
PROOF
<1>1. Typed /\ disk = [f \in File |-> disk[f]]
      /\ \A e \in Instance : Key(e) \in File /\ Csr(e) \in File /\ Opr(e) \in File
      /\ Pending \in File /\ RequestZip \in File /\ Iss(1) \in File /\ Iss(2) \in File
  BY FileNames DEF Shaped, Typed, Disk
<1>2. \A e \in Instance : /\ \A f \in {Pending, RequestZip, Iss(1), Iss(2)} : Key(e) # f /\ Csr(e) # f /\ Opr(e) # f
                          /\ Csr(e) \notin {Key(d) : d \in Instance} \cup {Opr(d) : d \in Instance}
                          /\ Opr(e) \notin {Key(d) : d \in Instance} /\ Key(e) \notin {Opr(d) : d \in Instance}
  BY Apart
<1>3. /\ Pending \notin {RequestZip, Iss(1), Iss(2)}
      /\ Pending \notin {Key(d) : d \in Instance} \cup {Opr(d) : d \in Instance}
  BY Apart
<1>4. UNCHANGED <<step, then, todo, folder, newest>>
  BY <1>1, ImportMoves, ImportEndMoves, ImportStarts
     DEF Shaped, SendRequest, DeleteRequest, ProtectKey, vars, process
<1>5. ASSUME step = "off"
      PROVE  Fresh' /\ Serving'
  BY <1>4, <1>5 DEF Fresh, Early, Making, Serving, Busy, InUse
<1>6. ASSUME UNCHANGED <<disk, import>>
      PROVE  Keyed'
  <2>1. OnDisk' /\ ForKey'
    BY <1>6, OnDiskSame DEF Keyed, KeyOf, ForKey, ImportsTo
  <2>2. Fresh'
    BY <1>4, <1>6 DEF Keyed, Fresh, Early, Making, Exists, KeyOf, FirstPort, FirstKey
  <2>3. Calm' = Calm /\ Changing' = Changing /\ Swap' = Swap /\ KeyOf(Key(folder))' = KeyOf(Key(folder))
        /\ KeyOf(Pending)' = KeyOf(Pending)
    BY <1>4, <1>6 DEF Calm, Changing, Swap, KeyOf
  <2>4. \A k, a : NewOpr(k, a)' = NewOpr(k, a) /\ NewIss(a)' = NewIss(a)
                  /\ NewKey(k)' = NewKey(k) /\ NewCsr(k)' = NewCsr(k)
    BY <1>4 DEF NewOpr, NewIss, NewKey, NewCsr
  <2>5. \A k, a : InstallPlan(k, a)' = InstallPlan(k, a)
    BY <2>4 DEF InstallPlan
  <2>6. Busy' = Busy /\ InUse' = InUse
    BY <1>4 DEF Busy, InUse
  <2>7. Serving'
    <3>1. CASE ~Busy
      BY <2>3, <2>6, <3>1 DEF Keyed, Serving
    <3>2. CASE Busy /\ Calm /\ \E k \in 1 .. newest : todo = <<Both(NewKey(k), NewCsr(k))>>
      BY <1>4, <2>3, <2>4, <2>6, <3>2 DEF Serving
    <3>3. CASE Busy /\ Calm /\ \E a \in Ca : todo \in InstallPlan(KeyOf(Key(folder)), a)
      BY <1>4, <2>3, <2>5, <2>6, <3>3 DEF Serving
    <3>4. CASE Busy /\ Calm /\ \E a \in Ca : todo = <<NewOpr(KeyOf(Pending), a), NewIss(a), Swap>>
      BY <1>4, <2>3, <2>4, <2>6, <3>4 DEF Serving
    <3>5. CASE Busy /\ Changing /\ \E a \in Ca : todo \in {<<NewIss(a), Swap>>, <<Swap>>}
      BY <1>4, <2>3, <2>4, <2>6, <3>5 DEF Serving
    <3> QED
      BY <3>1, <3>2, <3>3, <3>4, <3>5 DEF Keyed, Serving
  <2> QED
    BY <2>1, <2>2, <2>7 DEF Keyed
<1>7. CASE SendRequest \/ UNCHANGED vars
  BY <1>6, <1>7 DEF SendRequest, vars
<1>8. CASE DeleteRequest
  <2>1. /\ \A e \in Instance : disk'[Key(e)] = disk[Key(e)] /\ disk'[Csr(e)] = disk[Csr(e)] /\ disk'[Opr(e)] = disk[Opr(e)]
        /\ disk'[Pending] = disk[Pending] /\ import' = import /\ step = "off"
    <3>1. disk' = [disk EXCEPT ![RequestZip] = Absent] /\ import' = import /\ step = "off"
      BY <1>8 DEF DeleteRequest
    <3>2. \A e \in Instance : Key(e) # RequestZip /\ Csr(e) # RequestZip /\ Opr(e) # RequestZip
      BY <1>2
    <3> QED
      BY <1>1, <1>3, <3>1, <3>2
  <2>2. \A e \in Instance : KeyOf(Key(e))' = KeyOf(Key(e)) /\ KeyOf(Csr(e))' = KeyOf(Csr(e))
    BY <2>1 DEF KeyOf
  <2>3. OnDisk' /\ ForKey'
    BY <2>1, <2>2, OnDiskSame DEF Keyed, ForKey, ImportsTo
  <2> QED
    BY <1>5, <2>1, <2>3 DEF Keyed
<1>9. CASE ProtectKey
  <2>1. /\ \A e \in Instance : /\ KeyOf(Key(e))' = KeyOf(Key(e)) /\ disk'[Csr(e)] = disk[Csr(e)]
                               /\ disk'[Opr(e)] = disk[Opr(e)]
        /\ disk'[Pending] = disk[Pending] /\ import' = import /\ step = "off"
    BY <1>1, <1>2, <1>3, <1>9, ProtectPorts DEF ProtectKey
  <2>2. \A e \in Instance : KeyOf(Csr(e))' = KeyOf(Csr(e))
    BY <2>1 DEF KeyOf
  <2>3. OnDisk' /\ ForKey'
    BY <2>1, <2>2, OnDiskSame DEF Keyed, ForKey, ImportsTo
  <2> QED
    BY <1>5, <2>1, <2>3 DEF Keyed
<1>10. ASSUME NEW d \in Instance, NEW k \in sent, NEW zip \in Responses[k], ImportCariResponse(d, zip)
       PROVE  Keyed'
  <2>1. PICK port \in Instance :
          /\ disk[Csr(port)].is = "request" /\ import'.set.opr.key = KeyOf(Csr(port))
          /\ import'.writes = <<InPlace(Opr(port), import'.set.opr), InPlace(Iss(1), import'.set.issuers[1]),
                               InPlace(Iss(2), Last(import'.set.issuers))>>
    BY <1>1, <1>10, ImportStarts
  <2>2. Head(import'.writes) = InPlace(Opr(port), import'.set.opr)
    BY <2>1, Lists
  <2>3. \A e \in Instance : ImportsTo(e)' => e = port
    BY <2>2, Apart DEF ImportsTo, InPlace
  <2>4. disk' = disk /\ step = "off"
    BY <1>1, <1>10, ImportStarts
  <2>5. OnDisk'
    BY <2>4, OnDiskSame DEF Keyed, KeyOf
  <2>6. ForKey'
    BY <2>1, <2>3, <2>4 DEF ForKey, KeyOf
  <2> QED
    BY <1>5, <2>4, <2>5, <2>6 DEF Keyed
<1>11. CASE ImportWrite
  <2>1. step = "off"
    BY <1>11, ImportMoves DEF Shaped, Trusted
  <2>2. \A e \in Instance : ~ImportsTo(e)'
    BY <1>11, ImportPorts
  <2>3. Answer(import.set) /\ import # NoImport
    BY <1>11, ImportMoves DEF Shaped
  <2>4. PICK port \in Instance :
          \/ /\ import.writes = <<InPlace(Opr(port), import.set.opr), InPlace(Iss(1), import.set.issuers[1]),
                                 InPlace(Iss(2), Last(import.set.issuers))>>
             /\ disk' = [disk EXCEPT ![Opr(port)] = import.set.opr]
          \/ disk' = [disk EXCEPT ![Iss(1)] = import.set.issuers[1]]
          \/ disk' = [disk EXCEPT ![Iss(2)] = Last(import.set.issuers)]
    BY <1>11, ImportMoves DEF Shaped
  <2>5. ASSUME import.writes = <<InPlace(Opr(port), import.set.opr), InPlace(Iss(1), import.set.issuers[1]),
                                InPlace(Iss(2), Last(import.set.issuers))>>,
               disk' = [disk EXCEPT ![Opr(port)] = import.set.opr]
        PROVE  OnDisk'
    <3>1. ImportsTo(port)
      <4>1. Head(import.writes) = InPlace(Opr(port), import.set.opr)
        BY <2>5, Lists
      <4> QED
        BY <2>3, <4>1 DEF ImportsTo, InPlace
    <3>2. disk[Csr(port)].is = "request" /\ import.set.opr.key = KeyOf(Csr(port))
      BY <3>1 DEF Keyed, ForKey
    <3>3. import.set.opr.is = "certificate"
      BY <2>3 DEF Answer, Cert
    <3>4. KeyOf(Csr(port)) \in {KeyOf(Key(port)), KeyOf(Pending)}
      BY <3>2 DEF Keyed, OnDisk
    <3>5. PICK c : c.key \in {KeyOf(Key(port)), KeyOf(Pending)} /\ c.is = "certificate"
                   /\ disk' = [disk EXCEPT ![Opr(port)] = c]
      BY <2>5, <3>2, <3>3, <3>4
    <3> QED
      BY <1>1, <3>2, <3>5, OnDiskCertificate DEF Keyed
  <2>6. ASSUME NEW f \in {Iss(1), Iss(2)}, NEW c, disk' = [disk EXCEPT ![f] = c]
        PROVE  OnDisk'
    <3>1. /\ \A e \in Instance : disk'[Key(e)] = disk[Key(e)] /\ disk'[Csr(e)] = disk[Csr(e)] /\ disk'[Opr(e)] = disk[Opr(e)]
          /\ disk'[Pending] = disk[Pending]
      BY <1>1, <1>2, <1>3, <2>6
    <3> QED
      BY <3>1, OnDiskSame DEF Keyed, KeyOf
  <2>7. OnDisk'
    <3>1. CASE disk' = [disk EXCEPT ![Iss(1)] = import.set.issuers[1]]
      <4>1. PICK c : disk' = [disk EXCEPT ![Iss(1)] = c]
        BY <3>1
      <4> QED
        BY <2>6, <4>1
    <3>2. CASE disk' = [disk EXCEPT ![Iss(2)] = Last(import.set.issuers)]
      <4>1. PICK c : disk' = [disk EXCEPT ![Iss(2)] = c]
        BY <3>2
      <4> QED
        BY <2>6, <4>1
    <3> QED
      BY <2>4, <2>5, <3>1, <3>2
  <2> QED
    BY <1>5, <2>1, <2>2, <2>7 DEF Keyed, ForKey
<1>12. CASE ImportEnds
  <2>1. step = "off"
    BY <1>12, ImportEndMoves DEF Shaped, Trusted
  <2>2. \A e \in Instance : ~ImportsTo(e)'
    BY <1>12, ImportPorts
  <2>3. ASSUME NEW f \in {Iss(1), Iss(2)}, disk' = [disk EXCEPT ![f] = Torn]
        PROVE  OnDisk'
    <3>1. /\ \A e \in Instance : disk'[Key(e)] = disk[Key(e)] /\ disk'[Csr(e)] = disk[Csr(e)] /\ disk'[Opr(e)] = disk[Opr(e)]
          /\ disk'[Pending] = disk[Pending]
      BY <1>1, <1>2, <1>3, <2>3
    <3> QED
      BY <3>1, OnDiskSame DEF Keyed, KeyOf
  <2>4. ASSUME NEW port \in Instance, ImportsTo(port), disk' = [disk EXCEPT ![Opr(port)] = Torn]
        PROVE  OnDisk'
    BY <1>1, <2>4, OnDiskCertificate DEF Keyed, ForKey
  <2>5. disk' = disk => OnDisk'
    BY OnDiskSame DEF Keyed, KeyOf
  <2>6. OnDisk'
    BY <1>12, <2>3, <2>4, <2>5, ImportEndMoves DEF Shaped
  <2> QED
    BY <1>5, <2>1, <2>2, <2>6 DEF Keyed, ForKey
<1> QED
  BY <1>7, <1>8, <1>9, <1>10, <1>11, <1>12

\* The key of a certificate is never lost, in whatever order the device and
\* --import-cari write and stop, as long as the two run one after the other and
\* GENERATE_CSR_FILE is not cut between its renames (cert_tool.cpp 432); a cut
\* there does lose it, as TLC shows.
THEOREM KeyKept ==
  ASSUME "split" \notin Faults, "overlap" \notin Faults
  PROVE  Spec => []CertificateHasItsKey
PROOF
<1>1. Init => Trusted /\ Keyed
  <2> SUFFICES ASSUME Init PROVE Trusted /\ Keyed
    OBVIOUS
  <2>1. /\ disk[Pending] = Absent
        /\ \A d \in Instance : disk[Csr(d)] = Absent /\ disk[Opr(d)] = Absent
    BY FileNames DEF Init
  <2>2. OnDisk
    BY <2>1 DEF OnDisk, Exists, Absent
  <2> QED
    BY <2>2 DEF Init, Trusted, Keyed, Fresh, Early, Making, ForKey, ImportsTo, Serving, InUse, Busy
<1>2. Shaped /\ Ports /\ Trusted /\ Keyed /\ [Next]_vars => Trusted' /\ Keyed'
  <2> SUFFICES ASSUME Shaped, Ports, Trusted, Keyed, [Next]_vars PROVE Trusted' /\ Keyed'
    OBVIOUS
  <2>1. Trusted'
    BY TrustedNext
  <2>2. ASSUME \/ \E d \in Instance : Start(d)
               \/ ReconcilePendingKey \/ EnsureNodeRequest \/ Certificates
               \/ LoadOrCreateDeviceUuid \/ GoOnline \/ WriteFails \/ Stop \/ Write
               \/ GenerateKeyAndCsr \/ (\E k \in 1 .. MaxKey, a \in Ca : Activate(k, a))
        PROVE  Keyed'
    <3>1. import' = import /\ (import # NoImport => step = "off")
      BY <2>2 DEF Start, ReconcilePendingKey, EnsureNodeRequest, Certificates, LoadOrCreateDeviceUuid, GoOnline,
                  WriteFails, Stop, Write, GenerateKeyAndCsr, Activate, Trusted
    <3>2. import = NoImport
      BY <2>2, <3>1 DEF Start, ReconcilePendingKey, EnsureNodeRequest, Certificates, LoadOrCreateDeviceUuid, GoOnline,
                  WriteFails, Stop, Write, GenerateKeyAndCsr, Activate
    <3>3. ForKey'
      BY <3>1, <3>2 DEF ForKey, ImportsTo
    <3> QED
      BY <2>2, <3>3, KeyedSteps, KeyedMoves DEF Keyed
  <2> QED
    BY <2>1, <2>2, KeyedOthers DEF Next
<1>3. Keyed => CertificateHasItsKey
  BY DEF Keyed, OnDisk, CertificateHasItsKey
<1> QED
  BY <1>1, <1>2, <1>3, AlwaysPorts, PTL DEF Spec
-----------------------------------------------------------------------------
(* A request that is answered *)

\* A request archive keeps to the rules of a request.
LEMMA ArchiveValid ==
  ASSUME NEW d, NEW csr
  PROVE  Validate(ReadZip(NodeRequestZip(d, csr)), FALSE)
PROOF
<1> DEFINE tree == ReadZip(NodeRequestZip(d, csr))
           device == <<Cert1, <<"device", d>>>>
<1>1. tree.folders = {<<Cert1>>, device, PortFolder(d)} /\ DOMAIN tree.files = {CsrPath(d), <<Cert1, Notes>>}
  <2>1. /\ tree.files = [p \in {CsrPath(d), <<Cert1, Notes>>} |-> IF p = CsrPath(d) THEN csr ELSE [is |-> "notes"]]
        /\ tree.folders = {<<Cert1>>, <<Cert1, <<"device", d>>>>, PortFolder(d)}
    BY ArchiveTree
  <2> HIDE DEF tree
  <2> QED
    BY <2>1
<1> HIDE DEF tree
<1>2. /\ <<Cert1>>[1] = Cert1 /\ Len(<<Cert1>>) = 1
      /\ device[1] = Cert1 /\ Len(device) = 2 /\ device[2] = <<"device", d>>
      /\ PortFolder(d)[1] = Cert1 /\ Len(PortFolder(d)) = 3
      /\ PortFolder(d)[2] = <<"device", d>> /\ PortFolder(d)[3] = <<"port", 4>>
  BY DEF PortFolder
<1>3. <<"device", d>> # Issuer /\ <<"device", d>>[1] = "device" /\ <<"port", 4>>[1] = "port"
  BY DEF Issuer
<1>4. \A f \in tree.folders : FolderAllowed(f, FALSE)
  BY <1>1, <1>2, <1>3 DEF FolderAllowed
<1>5. FileAllowed(CsrPath(d), FALSE)
  <2>1. /\ Len(CsrPath(d)) = 4 /\ CsrPath(d)[1] = Cert1 /\ CsrPath(d)[2][1] = "device"
        /\ CsrPath(d)[3][1] = "port" /\ CsrPath(d)[4][1] = "csr"
    BY DEF CsrPath
  <2> QED
    BY <2>1 DEF FileAllowed
<1>6. FileAllowed(<<Cert1, Notes>>, FALSE)
  BY DEF FileAllowed, Notes
<1>7. SubSeq(PortFolder(d), 1, 2) = device
  BY Parents DEF PortFolder
<1>8. \A f \in tree.folders : Len(f) = 2 => f = device
  BY <1>1, <1>2
<1>9. device \in tree.folders /\ PortFolder(d) \in tree.folders
  BY <1>1
<1> HIDE DEF device
<1> QED
  BY <1>1, <1>2, <1>3, <1>4, <1>5, <1>6, <1>7, <1>8, <1>9 DEF Validate, tree

\* The answer to a request goes beside it.
LEMMA AnswerPlace ==
  ASSUME NEW d
  PROVE  OprPath(CsrPath(d)) = OwnPath(d) /\ OwnPath(d) = <<Cert1, <<"device", d>>, <<"port", 4>>, <<"opr", "node">>>>
PROOF
<1>1. ASSUME NEW a, NEW b, NEW c, NEW e
      PROVE  /\ <<a, b, c>> \o <<e>> = <<a, b, c, e>> /\ Append(<<a, b, c>>, e) = <<a, b, c, e>>
             /\ Front(<<a, b, c, e>>) = <<a, b, c>>
  BY Joined, Zenon
<1>2. OwnPath(d) = <<Cert1, <<"device", d>>, <<"port", 4>>, <<"opr", "node">>>>
  <2>1. OwnPath(d) = <<Cert1, <<"device", d>>, <<"port", 4>>>> \o <<<<"opr", "node">>>>
    BY DEF OwnPath, PortFolder
  <2> QED
    BY <1>1, <2>1, Zenon
<1>3. CsrPath(d)[4][2] = "node" /\ Front(CsrPath(d)) = <<Cert1, <<"device", d>>, <<"port", 4>>>>
  BY <1>1 DEF CsrPath
<1>4. OprPath(CsrPath(d)) = Append(Front(CsrPath(d)), <<"opr", CsrPath(d)[4][2]>>)
  BY DEF OprPath
<1> QED
  BY <1>1, <1>2, <1>3, <1>4

\* The smallest answer: one certificate at its place, and its issuer.
LEMMA AnswerTree ==
  ASSUME NEW d, NEW c, NEW i
  PROVE  LET zip  == Response(At(OwnPath(d), c), <<i>>)
             tree == ReadZip(zip)
         IN  /\ ZipReads(zip)
             /\ DOMAIN tree.files = {OwnPath(d), IssuerPath(1)} /\ OwnPath(d) # IssuerPath(1)
             /\ tree.files[OwnPath(d)] = c /\ tree.files[IssuerPath(1)] = i
PROOF
<1> DEFINE place == OwnPath(d)
           issuer == IssuerPath(1)
           files == [p \in DOMAIN At(place, c) \cup {IssuerPath(n) : n \in DOMAIN <<i>>} |->
                       IF p \in DOMAIN At(place, c) THEN At(place, c)[p] ELSE <<i>>[p[3][2]]]
           tree == [folders |-> UNION {FoldersTo(Front(p)) : p \in DOMAIN files}, files |-> files]
<1>1. place = <<Cert1, <<"device", d>>, <<"port", 4>>, <<"opr", "node">>>>
  BY AnswerPlace
<1>2. issuer = <<Cert1, Issuer, <<"iss", 1>>>>
  BY DEF IssuerPath
<1>3. place # issuer
  <2>1. Len(<<Cert1, <<"device", d>>, <<"port", 4>>, <<"opr", "node">>>>) = 4 /\ Len(<<Cert1, Issuer, <<"iss", 1>>>>) = 3
    OBVIOUS
  <2> QED
    BY <1>1, <1>2, <2>1
<1>4. issuer[3][2] = 1
  BY <1>2
<1> HIDE DEF place, issuer
<1>5. {IssuerPath(n) : n \in DOMAIN <<i>>} = {issuer}
  BY DEF issuer
<1>6. DOMAIN At(place, c) = {place} /\ At(place, c)[place] = c
  BY DEF At
<1>7. DOMAIN files = {place, issuer} /\ files[place] = c /\ files[issuer] = i
  BY <1>3, <1>4, <1>5, <1>6
<1>8. Response(At(place, c), <<i>>) = WriteZip(tree)
  BY DEF Response
<1>9. tree.files = files /\ files = [p \in DOMAIN files |-> files[p]]
  OBVIOUS
<1>10. Front(place) = PortFolder(d) /\ Front(issuer) = <<Cert1, Issuer>>
  <2>1. \A a, b, e, f : Front(<<a, b, e, f>>) = <<a, b, e>> /\ Front(<<a, b, e>>) = <<a, b>>
    BY Joined
  <2> QED
    BY <1>1, <1>2, <2>1 DEF PortFolder
<1>11. tree.folders = FoldersTo(PortFolder(d)) \cup FoldersTo(<<Cert1, Issuer>>)
  BY <1>7, <1>10
<1>12. tree.folders = {<<Cert1>>, <<Cert1, <<"device", d>>>>, PortFolder(d), <<Cert1, Issuer>>}
  <2>1. /\ FoldersTo(PortFolder(d)) = {<<Cert1>>, <<Cert1, <<"device", d>>>>, PortFolder(d)}
        /\ FoldersTo(<<Cert1, Issuer>>) = {<<Cert1>>, <<Cert1, Issuer>>}
    BY Parents DEF PortFolder
  <2> HIDE DEF tree
  <2> QED
    BY <1>11, <2>1, Zenon
<1>13. /\ IsSafeZipPath(place) /\ IsSafeZipPath(issuer)
       /\ \A f \in {<<Cert1>>, <<Cert1, <<"device", d>>>>, PortFolder(d), <<Cert1, Issuer>>} : IsSafeZipPath(f)
  BY <1>1, <1>2 DEF IsSafeZipPath, PortFolder, Cert1, Issuer
<1> HIDE DEF files, tree
<1>14. ReadZip(WriteZip(tree)).files = files /\ ZipReads(WriteZip(tree))
  BY <1>7, <1>9, <1>12, <1>13, ReadBack
<1> QED
  BY <1>3, <1>7, <1>8, <1>14 DEF place, issuer

\* The answer for a request that is there is read.
LEMMA AnswerReads ==
  ASSUME NEW d, NEW port, NEW k, NEW a \in Ca, disk[Csr(port)].is = "request", KeyOf(Csr(port)) = k
  PROVE  ReadCariResponse(port, Response(At(OwnPath(d), Cert(k, a)), <<Authority(a)>>)) # {}
PROOF
<1> DEFINE c == Cert(k, a)
           i == Authority(a)
           zip == Response(At(OwnPath(d), c), <<i>>)
           tree == ReadZip(zip)
           issuer == IssuerPath(1)
<1>1. /\ ZipReads(zip) /\ DOMAIN tree.files = {OwnPath(d), issuer} /\ OwnPath(d) # issuer
      /\ tree.files[OwnPath(d)] = c /\ tree.files[issuer] = i
  BY AnswerTree
<1>2. c.is = "certificate" /\ c.key = k /\ c.ca = a /\ ~c.expired /\ i.is = "authority" /\ i.ca = a
  BY DEF Cert, Authority
<1>3. Last(OwnPath(d))[1] = "opr" /\ OwnPath(d)[2] # Issuer
  <2>1. OwnPath(d) = <<Cert1, <<"device", d>>, <<"port", 4>>, <<"opr", "node">>>>
    BY AnswerPlace
  <2>2. Len(OwnPath(d)) = 4 /\ OwnPath(d)[4] = <<"opr", "node">> /\ OwnPath(d)[2] = <<"device", d>>
    BY <2>1
  <2> QED
    BY <2>2 DEF Last, Issuer
<1>4. Last(issuer)[1] = "iss" /\ Len(issuer) = 3 /\ issuer[1] = Cert1 /\ issuer[2] = Issuer
  <2>1. Len(issuer) = 3 /\ issuer[3] = <<"iss", 1>> /\ issuer[2] = Issuer /\ issuer[1] = Cert1
    BY DEF IssuerPath
  <2> QED
    BY <2>1 DEF Last
<1> HIDE DEF c, i, zip, tree, issuer
<1>5. OprFiles(tree) = {OwnPath(d)}
  BY <1>1, <1>3, <1>4 DEF OprFiles
<1>6. IssuerFiles(tree) = {issuer}
  BY <1>1, <1>3, <1>4 DEF IssuerFiles
<1>7. Matching(port, tree) = {OwnPath(d)}
  BY <1>1, <1>2, <1>5 DEF Matching
<1>8. <<i>> \in Issuers(tree, c)
  <2>1. LET pq == <<issuer, issuer>>
        IN  pq \in {issuer} \X {issuer} /\ {issuer} = {pq[1], pq[2]} /\ tree.files[pq[1]].ca = c.ca /\ pq[1] = pq[2]
            /\ tree.files[pq[1]] = i
    BY <1>1, <1>2
  <2>2. \A p \in {issuer} : tree.files[p].is = "authority"
    BY <1>1, <1>2
  <2> QED
    BY <1>6, <2>1, <2>2 DEF Issuers
<1>9. [opr |-> c, issuers |-> <<i>>] \in ReadCariResponse(port, zip)
  BY <1>1, <1>2, <1>7, <1>8 DEF ReadCariResponse, tree
<1> QED
  BY <1>9 DEF zip, c, i

\* The last write of a renewal is of its request.
LEMMA LastOfRenewal ==
  ASSUME NEW k, NEW q \in RenewalPlan(k)
  PROVE  q[Len(q)].data[Csr(folder)].key = k
PROOF
<1>1. /\ NewCsr(k).data[Csr(folder)] = Request(k)
      /\ Both(NewKey(k), NewCsr(k)).data[Csr(folder)] = Request(k)
  <2>1. Csr(folder) # Pending
    BY Apart
  <2> QED
    BY <2>1 DEF NewCsr, NewKey, Both, Renamed, At
<1>2. q[Len(q)] \in {NewCsr(k), Both(NewKey(k), NewCsr(k))}
  BY DEF RenewalPlan
<1> QED
  BY <1>1, <1>2 DEF Request

\* A renewal is no activation.
LEMMA PlansApart ==
  ASSUME NEW k, NEW q \in RenewalPlan(k), NEW n, NEW a
  PROVE  q \notin InstallPlan(n, a) \cup SwapPlan(n, a)
PROOF
<1>1. Head(q).files \in {{Pending}, {Csr(folder)}, {Pending, Csr(folder)}}
  <2>1. /\ NewKey(k).files = {Pending} /\ NewCsr(k).files = {Csr(folder)}
        /\ Both(NewKey(k), NewCsr(k)).files = {Pending, Csr(folder)}
    BY DEF NewKey, NewCsr, Renamed, Both
  <2> QED
    BY <2>1, Lists DEF RenewalPlan
<1>2. q \in InstallPlan(n, a) \cup SwapPlan(n, a) => Head(q).files \in {{Opr(folder)}, {Iss(1)}, {Key(folder), Pending}}
  <2>1. /\ NewOpr(n, a).files = {Opr(folder)} /\ NewIss(a).files = {Iss(1)} /\ Swap.files = {Key(folder), Pending}
    BY DEF NewOpr, NewIss, Swap, Renamed, Both
  <2> QED
    BY <2>1, Lists DEF InstallPlan, SwapPlan
<1>3. {{Pending}, {Csr(folder)}, {Pending, Csr(folder)}} \cap {{Opr(folder)}, {Iss(1)}, {Key(folder), Pending}} = {}
  BY Apart
<1> QED
  BY <1>1, <1>2, <1>3

\* A request archive is for a request on disk or an older one, it is made where there
\* is none and of the request that is there, and a renewal is for the newest key.
Asked ==
  /\ disk[RequestZip].is = "zip" =>
       \E p \in Instance : disk[Csr(p)].is = "request" /\ disk[RequestZip].csr.key <= KeyOf(Csr(p))
  /\ Making =>
       /\ ~Exists(RequestZip)
       /\ Len(todo) = 1 => disk[Csr(FirstPort)].is = "request" /\ KeyOf(Csr(FirstPort)) = FirstKey
  /\ Busy => \A k \in 1 .. newest : todo \in RenewalPlan(k) => k = newest

LEMMA AskedKept ==
  ASSUME Shaped, Asked, disk'[RequestZip] \in {disk[RequestZip], Absent, Torn},
         \A d \in Instance : disk'[Csr(d)] = disk[Csr(d)],
         \/ ~Making' /\ ~Busy'
         \/ UNCHANGED <<step, todo, then, folder, newest>> /\ disk'[RequestZip] = disk[RequestZip]
  PROVE  Asked'
PROOF
<1>1. \A d \in Instance : KeyOf(Csr(d))' = KeyOf(Csr(d))
  BY DEF KeyOf
<1>2. disk'[RequestZip].is = "zip" => disk'[RequestZip] = disk[RequestZip]
  BY DEF Absent, Torn
<1>3. (disk[RequestZip].is = "zip" =>
         \E p \in Instance : disk[Csr(p)].is = "request" /\ disk[RequestZip].csr.key <= KeyOf(Csr(p)))'
  <2> SUFFICES ASSUME disk'[RequestZip].is = "zip"
               PROVE  \E p \in Instance : disk'[Csr(p)].is = "request" /\ disk'[RequestZip].csr.key <= KeyOf(Csr(p))'
    OBVIOUS
  <2>1. PICK p \in Instance : disk[Csr(p)].is = "request" /\ disk[RequestZip].csr.key <= KeyOf(Csr(p))
    BY <1>2 DEF Asked
  <2> QED
    BY <1>1, <1>2, <2>1
<1>4. CASE ~Making' /\ ~Busy'
  BY <1>3, <1>4 DEF Asked
<1>5. CASE UNCHANGED <<step, todo, then, folder, newest>> /\ disk'[RequestZip] = disk[RequestZip]
  <2>1. Making => FirstPort \in Instance
    BY FirstPlanOf DEF Shaped, Planned, Making
  <2>2. Making' = Making /\ Busy' = Busy /\ FirstKey' = FirstKey /\ FirstPort' = FirstPort
    BY <1>5 DEF Making, Busy, FirstPort, FirstKey
  <2>3. Making' => ~Exists(RequestZip)'
    BY <1>5, <2>2 DEF Asked, Exists
  <2>4. (Making /\ Len(todo) = 1 => disk[Csr(FirstPort)].is = "request" /\ KeyOf(Csr(FirstPort)) = FirstKey)'
    <3> SUFFICES ASSUME Making, Len(todo) = 1, NEW d \in Instance, d = FirstPort
                 PROVE  disk'[Csr(d)].is = "request" /\ KeyOf(Csr(d))' = FirstKey
      BY <1>5, <2>1, <2>2 DEF KeyOf
    <3> QED
      BY <1>1 DEF Asked
  <2>5. \A k : RenewalPlan(k)' = RenewalPlan(k)
    BY <1>5 DEF RenewalPlan, NewKey, NewCsr
  <2>6. (Busy => \A k \in 1 .. newest : todo \in RenewalPlan(k) => k = newest)'
    BY <1>5, <2>2, <2>5 DEF Asked
  <2> QED
    BY <1>3, <2>3, <2>4, <2>6 DEF Asked
<1> QED
  BY <1>4, <1>5

LEMMA AskedDevice ==
  ASSUME Shaped, Asked,
         \/ \E d \in Instance : Start(d)
         \/ ReconcilePendingKey \/ EnsureNodeRequest \/ Certificates
         \/ LoadOrCreateDeviceUuid \/ GoOnline
         \/ GenerateKeyAndCsr \/ (\E k \in 1 .. MaxKey, a \in Ca : Activate(k, a))
         \/ WriteFails
  PROVE  Asked'
PROOF
<1>1. Typed /\ (step # "off" => instance \in Instance /\ folder \in Instance) /\ disk = [f \in File |-> disk[f]]
  BY DEF Shaped, Typed, Running, Disk
<1>2. ASSUME disk' = disk, ~Making', ~Busy'
      PROVE  Asked'
  BY <1>2, AskedKept
<1>3. CASE \/ \E d \in Instance : Start(d)
           \/ Certificates \/ LoadOrCreateDeviceUuid \/ GoOnline \/ WriteFails
  <2>1. disk' = disk
    BY <1>3 DEF Certificates, LoadOrCreateDeviceUuid, GoOnline, WriteFails, Start
  <2>2. step' = "writing" => then'.done = "online"
    <3>1. WriteFails => step' # "writing"
      BY <1>1 DEF WriteFails, PowerOff, Shaped, Planned
    <3> QED
      BY <1>3, <3>1 DEF Certificates, LoadOrCreateDeviceUuid, GoOnline, Start, PowerOff, Do
  <2> QED
    BY <1>2, <2>1, <2>2 DEF Making, Busy
<1>4. CASE ReconcilePendingKey
  <2>1. folder \in Instance /\ step' = "request"
    BY <1>1, <1>4 DEF ReconcilePendingKey
  <2>2. RequestZip \in File /\ RequestZip \notin {Key(folder), Pending}
        /\ \A d \in Instance : Csr(d) \in File /\ Csr(d) \notin {Key(folder), Pending}
    BY FileNames, Apart
  <2>3. disk'[RequestZip] = disk[RequestZip] /\ \A d \in Instance : disk'[Csr(d)] = disk[Csr(d)]
    BY <1>1, <1>4, <2>2 DEF ReconcilePendingKey, Promoted
  <2> QED
    BY <2>1, <2>3, AskedKept DEF Making, Busy
<1>5. CASE EnsureNodeRequest
  <2>1. disk' = disk /\ step = "request"
    BY <1>5 DEF EnsureNodeRequest
  <2>2. PICK d \in ResolveNodeCertPaths(instance) :
           \/ step' = "certificates"
           \/ ~Exists(RequestZip) /\ Do(FirstFiles(d, newest'), "certificates", "certificates")
           \/ /\ ~Exists(RequestZip) /\ disk[Csr(d)].is = "request"
              /\ Do(<<ZipFile(d, disk[Csr(d)])>>, "certificates", "certificates")
    BY <1>5 DEF EnsureNodeRequest, Continue
  <2>3. d \in Instance
    BY <1>1, <2>1, PortsKnown
  <2>4. (disk[RequestZip].is = "zip" =>
           \E p \in Instance : disk[Csr(p)].is = "request" /\ disk[RequestZip].csr.key <= KeyOf(Csr(p)))'
    BY <2>1 DEF Asked, KeyOf
  <2>5. ASSUME ~Exists(RequestZip), step' = "writing", then'.done = "certificates",
               Len(todo') = 1 => disk[Csr(FirstPort')].is = "request" /\ KeyOf(Csr(FirstPort')) = FirstKey'
        PROVE  Asked'
    <3>1. ~Exists(RequestZip)' /\ ~Busy'
      BY <2>1, <2>5 DEF Exists, Busy
    <3>2. (Len(todo) = 1 => disk[Csr(FirstPort)].is = "request" /\ KeyOf(Csr(FirstPort)) = FirstKey)'
      BY <2>1, <2>5 DEF KeyOf
    <3> QED
      BY <2>4, <3>1, <3>2 DEF Asked
  <2>6. CASE step' = "certificates"
    BY <1>2, <2>1, <2>6 DEF Making, Busy
  <2>7. CASE ~Exists(RequestZip) /\ Do(FirstFiles(d, newest'), "certificates", "certificates")
    <3>1. Len(todo') = 3
      BY <2>7, Lists DEF Do, FirstFiles
    <3> QED
      BY <2>5, <2>7, <3>1 DEF Do
  <2>8. CASE /\ ~Exists(RequestZip) /\ disk[Csr(d)].is = "request"
             /\ Do(<<ZipFile(d, disk[Csr(d)])>>, "certificates", "certificates")
    <3>1. PICK k : k = KeyOf(Csr(d))
      OBVIOUS
    <3>2. disk[Csr(d)] = Request(k)
      <4>1. newest \in Nat /\ Disk(newest)
        BY <1>1, CommissioningAssumption DEF Typed, Counted
      <4> QED
        BY <2>3, <2>8, <3>1, <4>1, HeldRequest
    <3>3. todo' \in FirstPlan(d, k)
      BY <2>8, <3>2 DEF Do, FirstPlan, ZipOf
    <3>4. FirstPort' = d /\ FirstKey' = k
      BY <3>3, LastOfFirstPlan DEF FirstPort, FirstKey
    <3> QED
      BY <2>5, <2>8, <3>1, <3>4 DEF Do
  <2> QED
    BY <2>2, <2>6, <2>7, <2>8
<1>6. ASSUME disk' = disk, folder' = folder, ~Making',
             \A k \in 1 .. newest' : todo' \in RenewalPlan(k) => k = newest'
      PROVE  Asked'
  <2>1. (disk[RequestZip].is = "zip" =>
           \E p \in Instance : disk[Csr(p)].is = "request" /\ disk[RequestZip].csr.key <= KeyOf(Csr(p)))'
    BY <1>6 DEF Asked, KeyOf
  <2>2. \A k : RenewalPlan(k)' = RenewalPlan(k)
    BY <1>6 DEF RenewalPlan, NewKey, NewCsr
  <2>3. (\A k \in 1 .. newest : todo \in RenewalPlan(k) => k = newest)'
    BY <1>6, <2>2
  <2> QED
    BY <1>6, <2>1, <2>3 DEF Asked
<1>7. CASE GenerateKeyAndCsr
  <2>1. PICK n : n = newest'
    OBVIOUS
  <2>2. todo' \in RenewalPlan(n) /\ disk' = disk /\ folder' = folder /\ ~Making'
    BY <1>7, <2>1 DEF GenerateKeyAndCsr, RenewalPlan, NewKey, NewCsr, Do, Making
  <2>3. \A k : todo' \in RenewalPlan(k) => k = n
    BY <2>2, LastOfRenewal
  <2> QED
    BY <1>6, <2>1, <2>2, <2>3
<1>8. ASSUME NEW k \in 1 .. MaxKey, NEW a \in Ca, Activate(k, a)
      PROVE  Asked'
  <2>1. todo' = Activation(folder, k, a) /\ disk' = disk /\ folder' = folder /\ ~Making'
    BY <1>8 DEF Activate, Activation, Do, Making
  <2>2. todo' \in InstallPlan(k, a) \cup SwapPlan(k, a)
    BY <2>1, Activations DEF InstallPlan, SwapPlan, NewOpr, NewIss, Swap
  <2> QED
    BY <1>6, <2>1, <2>2, PlansApart
<1> QED
  BY <1>3, <1>4, <1>5, <1>7, <1>8

LEMMA AskedStop ==
  ASSUME Shaped, Asked, Stop
  PROVE  Asked'
PROOF
<1>1. disk = [f \in File |-> disk[f]] /\ step' = "off"
  BY StopMoves DEF Shaped, Typed, Disk, PowerOff
<1>2. ~Making' /\ ~Busy'
  BY <1>1 DEF Making, Busy
<1>3. RequestZip \in File /\ \A d \in Instance : Csr(d) \in File
  BY FileNames
<1>4. CASE disk' = disk
  BY <1>2, <1>4, AskedKept
<1>5. ASSUME NEW f \in File, disk' = [disk EXCEPT ![f] = Torn], \A d \in Instance : f # Csr(d)
      PROVE  Asked'
  <2>1. disk'[RequestZip] \in {disk[RequestZip], Torn} /\ \A d \in Instance : disk'[Csr(d)] = disk[Csr(d)]
    BY <1>1, <1>3, <1>5
  <2> QED
    BY <1>2, <2>1, AskedKept
<1>6. ASSUME NEW d \in Instance, disk' = [disk EXCEPT ![Csr(d)] = Torn], Making
      PROVE  Asked'
  <2>1. disk[RequestZip] = Absent
    BY <1>6 DEF Asked, Exists
  <2>2. disk'[RequestZip] = Absent
    BY <1>1, <1>3, <1>6, <2>1, Apart
  <2> QED
    BY <1>2, <2>2 DEF Asked, Absent
<1>7. \A d \in Instance : Key(d) \in File /\ (\A e \in Instance : Key(d) # Csr(e)) /\ Csr(d) \notin {RequestZip, Uuid}
  BY FileNames, Apart
<1>8. \/ disk' = disk
      \/ Making /\ \E d \in Instance : disk' = [disk EXCEPT ![Key(d)] = Torn]
      \/ Making /\ \E d \in Instance : disk' = [disk EXCEPT ![Csr(d)] = Torn]
      \/ \E f \in {RequestZip, Uuid} : disk' = [disk EXCEPT ![f] = Torn]
  BY StopMoves DEF Shaped, Making
<1> QED
  BY <1>4, <1>5, <1>6, <1>7, <1>8, FileNames

LEMMA AskedWrite ==
  ASSUME Shaped, Asked, Write
  PROVE  Asked'
PROOF
<1>1. /\ step = "writing" /\ UNCHANGED <<folder, newest>>
      /\ \/ \E d \in Instance, k \in 1 .. newest : FirstWrite(d, k)
         \/ \E u \in 1 .. MaxUuid : UuidWrite(u)
         \/ \E k \in 1 .. newest : RenewalWrite(k)
         \/ \E k \in 1 .. newest, a \in Ca : ActivationWrite(k, a)
  BY WriteMoves DEF Shaped
<1>2. folder \in Instance /\ disk = [f \in File |-> disk[f]] /\ newest \in Nat /\ Disk(newest)
  BY <1>1, CommissioningAssumption DEF Shaped, Typed, Running, Disk, Counted
<1>3. RequestZip \in File /\ \A d \in Instance : Csr(d) \in File /\ Csr(d) # RequestZip
  BY FileNames, Apart
<1>4. \A k : RenewalPlan(k)' = RenewalPlan(k)
  BY <1>1 DEF RenewalPlan, NewKey, NewCsr
<1>5. ASSUME NEW d \in Instance, NEW k \in 1 .. newest, FirstWrite(d, k)
      PROVE  Asked'
  <2>1. todo \in FirstPlan(d, k) /\ Making
    BY <1>1, <1>5 DEF FirstWrite, FirstPlan, Making
  <2>2. FirstPort = d /\ FirstKey = k /\ disk[RequestZip] = Absent
    BY <2>1, FirstPlanOf DEF Asked, Exists
  <2>3. CASE /\ todo = <<KeyFile(d, k), CsrFile(d, k), ZipOf(d, k)>>
             /\ disk' = [disk EXCEPT ![Key(d)] = KeyPair(k)] /\ GoesOn(<<CsrFile(d, k), ZipOf(d, k)>>)
    <3>1. disk'[RequestZip] = Absent
      BY <1>2, <1>3, <2>2, <2>3, Apart
    <3>2. Len(todo') = 2 /\ ~Busy'
      BY <2>1, <2>3, Lists DEF GoesOn, Busy, Making
    <3> QED
      BY <3>1, <3>2 DEF Asked, Absent, Exists
  <2>4. CASE /\ todo = <<CsrFile(d, k), ZipOf(d, k)>>
             /\ disk' = [disk EXCEPT ![Csr(d)] = Request(k)] /\ GoesOn(<<ZipOf(d, k)>>)
    <3>1. disk'[RequestZip] = Absent /\ disk'[Csr(d)] = Request(k)
      BY <1>2, <1>3, <2>2, <2>4
    <3>2. ~Busy' /\ todo' \in FirstPlan(d, k)
      BY <2>1, <2>4 DEF GoesOn, Busy, Making, FirstPlan
    <3>3. FirstPort' = d /\ FirstKey' = k
      BY <3>2, LastOfFirstPlan DEF FirstPort, FirstKey
    <3>4. disk'[Csr(d)].is = "request" /\ KeyOf(Csr(d))' = k
      BY <3>1 DEF KeyOf, Request
    <3>5. disk'[Csr(FirstPort')].is = "request" /\ KeyOf(Csr(FirstPort))' = FirstKey'
      BY <3>3, <3>4 DEF KeyOf
    <3> QED
      BY <3>1, <3>2, <3>5 DEF Asked, Absent, Exists
  <2>5. CASE /\ todo = <<ZipOf(d, k)>> /\ Ends("certificates")
             /\ disk' = [disk EXCEPT ![RequestZip] = [is |-> "zip", folder |-> d, csr |-> Request(k)]]
    <3>1. Len(todo) = 1 /\ ~Making' /\ ~Busy'
      BY <2>5, Lists DEF Ends, Making, Busy
    <3>2. disk[Csr(d)].is = "request" /\ KeyOf(Csr(d)) = k
      BY <2>1, <2>2, <3>1 DEF Asked
    <3>3. disk'[Csr(d)] = disk[Csr(d)] /\ disk'[RequestZip].csr.key = k
      BY <1>2, <1>3, <2>5 DEF Request
    <3>4. disk'[Csr(d)].is = "request" /\ KeyOf(Csr(d))' = k /\ k <= k
      BY <3>2, <3>3 DEF KeyOf
    <3> QED
      BY <3>1, <3>3, <3>4 DEF Asked
  <2> QED
    BY <1>5, <2>3, <2>4, <2>5 DEF FirstWrite
<1>6. ASSUME NEW u, UuidWrite(u)
      PROVE  Asked'
  <2>1. ~Making' /\ ~Busy'
    BY <1>6 DEF UuidWrite, Ends, Making, Busy
  <2>2. \A d \in Instance : Csr(d) # Uuid
    BY Apart
  <2>3. disk'[RequestZip] = disk[RequestZip] /\ \A d \in Instance : disk'[Csr(d)] = disk[Csr(d)]
    BY <1>2, <1>3, <1>6, <2>2, Apart DEF UuidWrite
  <2> QED
    BY <2>1, <2>3, AskedKept
<1>7. ASSUME NEW k \in 1 .. newest, RenewalWrite(k)
      PROVE  Asked'
  <2>1. todo \in RenewalPlan(k) /\ Busy /\ ~Making'
    BY <1>1, <1>7 DEF RenewalWrite, RenewalPlan, Busy, Making, GoesOn, Ends
  <2>2. k = newest
    BY <2>1 DEF Asked
  <2>3. todo' # <<>> => todo' \in RenewalPlan(k)
    BY <1>7 DEF RenewalWrite, RenewalPlan, GoesOn, Ends
  <2>4. step' = "writing" => todo' # <<>>
    BY <1>7, Lists DEF RenewalWrite, GoesOn, Ends
  <2>5. (Busy => \A n \in 1 .. newest : todo \in RenewalPlan(n) => n = newest)'
    <3>1. todo' # <<>> => \A n : todo' \in RenewalPlan(n) => n = k
      BY <2>3, LastOfRenewal
    <3> QED
      BY <1>1, <1>4, <2>2, <2>4, <3>1 DEF Busy
  <2>6. disk'[RequestZip] = disk[RequestZip]
        /\ \A p \in Instance : disk'[Csr(p)] \in {disk[Csr(p)], Request(k)}
    <3>1. RequestZip \notin {Pending, Csr(folder)} /\ \A p \in Instance : Csr(p) # Pending
      BY Apart
    <3> QED
      BY <1>2, <1>3, <1>7, <3>1 DEF RenewalWrite
  <2>7. (disk[RequestZip].is = "zip" =>
           \E p \in Instance : disk[Csr(p)].is = "request" /\ disk[RequestZip].csr.key <= KeyOf(Csr(p)))'
    <3> SUFFICES ASSUME disk[RequestZip].is = "zip"
                 PROVE  \E p \in Instance : disk'[Csr(p)].is = "request" /\ disk'[RequestZip].csr.key <= KeyOf(Csr(p))'
      BY <2>6
    <3>1. PICK p \in Instance : disk[Csr(p)].is = "request" /\ disk[RequestZip].csr.key <= KeyOf(Csr(p))
      BY DEF Asked
    <3>2. disk[RequestZip].csr.key <= k
      <4>1. disk[RequestZip].csr \in Requests(newest)
        BY <1>2, ZipHeld
      <4>2. PICK n \in 1 .. newest : disk[RequestZip].csr = Request(n)
        BY <4>1 DEF Requests
      <4>3. disk[RequestZip].csr.key = n
        BY <4>2 DEF Request
      <4> QED
        BY <1>2, <2>2, <4>3
    <3>3. CASE disk'[Csr(p)] = disk[Csr(p)]
      BY <2>6, <3>1, <3>3 DEF KeyOf
    <3>4. CASE disk'[Csr(p)] = Request(k)
      <4>1. disk'[Csr(p)].is = "request" /\ KeyOf(Csr(p))' = k
        BY <3>4 DEF KeyOf, Request
      <4> QED
        BY <2>6, <3>2, <4>1
    <3> QED
      BY <2>6, <3>3, <3>4
  <2> QED
    BY <2>1, <2>5, <2>7 DEF Asked
<1>8. ASSUME NEW k \in 1 .. newest, NEW a \in Ca, ActivationWrite(k, a)
      PROVE  Asked'
  <2>1. todo' # <<>> => todo' \in InstallPlan(k, a) \cup SwapPlan(k, a)
    BY <1>8 DEF ActivationWrite, InstallPlan, SwapPlan, GoesOn, Ends
  <2>2. (step' = "writing" => todo' # <<>>) /\ ~Making'
    <3>1. then.done = "up" /\ \A i, j : <<i>> # <<>> /\ <<i, j>> # <<>>
      BY <1>8 DEF ActivationWrite
    <3>2. (\E i : GoesOn(<<i>>)) \/ (\E i, j : GoesOn(<<i, j>>)) \/ Ends("up")
      BY <1>8, Zenon DEF ActivationWrite
    <3> QED
      BY <3>1, <3>2 DEF GoesOn, Ends, Making
  <2>3. (Busy => \A n \in 1 .. newest : todo \in RenewalPlan(n) => n = newest)'
    <3>1. todo' # <<>> => \A n : todo' \notin RenewalPlan(n)
      BY <2>1, PlansApart
    <3> QED
      BY <1>4, <2>2, <3>1 DEF Busy
  <2>4. disk'[RequestZip] = disk[RequestZip] /\ \A p \in Instance : disk'[Csr(p)] = disk[Csr(p)]
    <3>1. /\ RequestZip \notin {Pending, Key(folder), Opr(folder), Iss(1)}
          /\ \A p \in Instance : Csr(p) \notin {Pending, Key(folder), Opr(folder), Iss(1)}
      BY Apart
    <3> QED
      BY <1>2, <1>3, <1>8, <3>1 DEF ActivationWrite, Promoted
  <2>5. (disk[RequestZip].is = "zip" =>
           \E p \in Instance : disk[Csr(p)].is = "request" /\ disk[RequestZip].csr.key <= KeyOf(Csr(p)))'
    BY <2>4 DEF Asked, KeyOf
  <2> QED
    BY <2>2, <2>3, <2>5 DEF Asked
<1> QED
  BY <1>1, <1>5, <1>6, <1>7, <1>8

LEMMA AskedOthers ==
  ASSUME Shaped, Ports, Asked,
         \/ SendRequest \/ DeleteRequest \/ ProtectKey \/ UNCHANGED vars
         \/ \E d \in Instance, k \in sent : \E zip \in Responses[k] : ImportCariResponse(d, zip)
         \/ ImportWrite \/ ImportEnds
  PROVE  Asked'
PROOF
<1>1. disk = [f \in File |-> disk[f]]
  BY DEF Shaped, Typed, Disk
<1>2. UNCHANGED <<step, todo, then, folder, newest>>
  BY ImportMoves, ImportEndMoves, ImportStarts
     DEF Shaped, SendRequest, DeleteRequest, ProtectKey, vars, process, history
<1>3. RequestZip \in File /\ \A d \in Instance : Csr(d) \in File /\ Csr(d) # RequestZip
  BY FileNames, Apart
<1>4. CASE \/ SendRequest \/ UNCHANGED vars
           \/ \E d \in Instance, k \in sent : \E zip \in Responses[k] : ImportCariResponse(d, zip)
  <2>1. disk' = disk
    BY <1>4 DEF SendRequest, vars, ImportCariResponse
  <2> QED
    BY <1>2, <2>1, AskedKept
<1>5. CASE DeleteRequest
  <2>1. disk'[RequestZip] = Absent /\ \A d \in Instance : disk'[Csr(d)] = disk[Csr(d)]
    BY <1>1, <1>3, <1>5 DEF DeleteRequest
  <2>2. ~Making' /\ ~Busy'
    BY <1>2, <1>5 DEF DeleteRequest, Making, Busy
  <2> QED
    BY <2>1, <2>2, AskedKept
<1>6. CASE ProtectKey
  <2>1. \A f \in File : f \notin {Key(d) : d \in Instance} => disk'[f] = disk[f]
    BY <1>6, ProtectPorts
  <2>2. RequestZip \notin {Key(d) : d \in Instance} /\ \A e \in Instance : Csr(e) \notin {Key(d) : d \in Instance}
    BY Apart
  <2> QED
    BY <1>2, <1>3, <2>1, <2>2, AskedKept
<1>7. CASE ImportWrite \/ ImportEnds
  <2>1. \A f \in File : f \notin {Opr(d) : d \in Instance} \cup {Iss(1), Iss(2)} => disk'[f] = disk[f]
    BY <1>7, ImportPorts
  <2>2. /\ RequestZip \notin {Opr(d) : d \in Instance} \cup {Iss(1), Iss(2)}
        /\ \A e \in Instance : Csr(e) \notin {Opr(d) : d \in Instance} \cup {Iss(1), Iss(2)}
    BY Apart
  <2> QED
    BY <1>2, <1>3, <2>1, <2>2, AskedKept
<1> QED
  BY <1>4, <1>5, <1>6, <1>7

\* The request archive on disk is legal and not newer than the request beside it, and
\* while they are for the same key the answer to it can be imported - under whatever
\* instance the device is started, whatever is cut short (cert_tool.cpp 423-430,
\* cert_layout.cpp 104).
THEOREM RequestAnswered == Spec => []RequestCanBeAnswered
PROOF
<1>1. Init => Asked
  <2> SUFFICES ASSUME Init PROVE Asked
    OBVIOUS
  <2>1. disk[RequestZip] = Absent /\ ~Making /\ ~Busy
    BY FileNames DEF Init, Making, Busy
  <2> QED
    BY <2>1 DEF Asked, Absent
<1>2. Shaped /\ Ports /\ Asked /\ [Next]_vars => Asked'
  BY AskedDevice, AskedStop, AskedWrite, AskedOthers DEF Next
<1>3. Shaped /\ Ports /\ Asked => RequestCanBeAnswered
  <2> SUFFICES ASSUME Shaped, Ports, Asked, disk[RequestZip].is = "zip"
               PROVE  LET tree == ReadZip(Archive)
                      IN  /\ ZipReads(Archive) /\ Validate(tree, FALSE)
                          /\ \A f \in CsrFiles(tree), d \in Instance : \A port \in ResolveNodeCertPaths(d) :
                               /\ tree.files[f].key <= KeyOf(Csr(port))
                               /\ tree.files[f].key = KeyOf(Csr(port)) =>
                                    \A a \in Ca : ReadCariResponse(port,
                                       Response(At(OprPath(f), Cert(tree.files[f].key, a)), <<Authority(a)>>)) # {}
    BY DEF RequestCanBeAnswered
  <2> DEFINE tree == ReadZip(Archive)
  <2>1. PICK d0, c0 : d0 = disk[RequestZip].folder /\ c0 = disk[RequestZip].csr
    OBVIOUS
  <2>2. Archive = NodeRequestZip(d0, c0)
    BY <2>1 DEF Archive
  <2>3. ZipReads(Archive) /\ Validate(tree, FALSE) /\ CsrFiles(tree) = {CsrPath(d0)} /\ tree.files[CsrPath(d0)] = c0
    BY <2>2, ArchiveTree, ArchiveValid, ArchiveCsrs
  <2> HIDE DEF tree
  <2>4. PICK p \in Instance : disk[Csr(p)].is = "request" /\ c0.key <= KeyOf(Csr(p))
    BY <2>1 DEF Asked
  <2>5. p \in NodePorts
    BY <2>4, NotAbsent DEF NodePorts, Exists
  <2>6. \A d \in Instance : \A port \in ResolveNodeCertPaths(d) : port = p
    BY <2>5, PortsKnown DEF Ports
  <2>7. \A a \in Ca : c0.key = KeyOf(Csr(p)) =>
          ReadCariResponse(p, Response(At(OprPath(CsrPath(d0)), Cert(c0.key, a)), <<Authority(a)>>)) # {}
    BY <2>4, AnswerPlace, AnswerReads
  <2> QED
    BY <2>3, <2>4, <2>6, <2>7 DEF tree
<1> QED
  BY <1>1, <1>2, <1>3, AlwaysPorts, PTL DEF Spec
=============================================================================
