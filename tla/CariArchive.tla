---------------------------- MODULE CariArchive -----------------------------
(***************************************************************************)
(* CARI archives (sc/cari.cpp): the zip in which a device's signing        *)
(* request goes to a Certificate Authority and comes back with             *)
(* certificates.  Paths are sequences of parts and a part is a tuple whose *)
(* head is its kind: <<"device", 12>> is device-12, <<"csr", "node">> is   *)
(* csr-node.pem.  Octets, sizes and compression are abstracted to whether  *)
(* ReadZip's check of them passes.                                         *)
(***************************************************************************)
EXTENDS Naturals, Sequences, SequencesExt, Functions

Cert1  == <<"cert1">>
Issuer == <<"issuer">>
Notes  == <<"request-notes">>

\* IsSafeZipPath: relative, and no empty, ".", ".." or unprintable part.
IsSafeZipPath(path) == path # <<>> /\ \A i \in DOMAIN path : path[i] # <<"unsafe">>

-----------------------------------------------------------------------------
(* Cari::Tree: files, and folders that may be empty *)

EmptyTree == [folders |-> {}, files |-> <<>>]

\* A folder comes with its parents, and a file with its folders.
FoldersTo(path) == {SubSeq(path, 1, n) : n \in 1 .. Len(path)}
AddFile(tree, path, data) ==
  [folders |-> tree.folders \cup FoldersTo(Front(path)),
   files   |-> [p \in DOMAIN tree.files \cup {path} |-> IF p = path THEN data ELSE tree.files[p]]]

Has(tree, path) == path \in DOMAIN tree.files

-----------------------------------------------------------------------------
(* The zip: its container, and its entries in any order *)

FolderEntry(path)     == [path |-> path, folder |-> TRUE, copy |-> 1, readable |-> TRUE,
                          data |-> [is |-> "nothing"]]
FileEntry(path, data) == [path |-> path, folder |-> FALSE, copy |-> 1, readable |-> TRUE,
                          data |-> data]

\* Every folder and every file.
WriteZip(tree) ==
  [sound   |-> TRUE,
   entries |-> {FolderEntry(f) : f \in tree.folders}
               \cup {FileEntry(p, tree.files[p]) : p \in DOMAIN tree.files}]

Files(zip)   == {e \in zip.entries : ~e.folder}
Folders(zip) == zip.entries \ Files(zip)

\* What ReadZip checks.  sound: size, signatures, one part, entry count, central
\* directory and the unpacked size are in order.  readable: not encrypted, stored or
\* deflated, headers and data in range, size and CRC right.
ZipReads(zip) ==
  /\ zip.sound
  /\ \A e \in zip.entries : IsSafeZipPath(e.path) /\ e.readable
  /\ \A e, f \in Files(zip) : e.path = f.path => e = f

ReadZip(zip) ==
  [folders |-> UNION ({FoldersTo(e.path) : e \in Folders(zip)}
                      \cup {FoldersTo(Front(e.path)) : e \in Files(zip)}),
   files   |-> [p \in {e.path : e \in Files(zip)} |->
                  (CHOOSE e \in Files(zip) : e.path = p).data]]

-----------------------------------------------------------------------------
(* The CARI rules *)

FolderAllowed(folder, response) ==
  /\ folder[1] = Cert1
  /\ \/ Len(folder) = 1
     \/ Len(folder) = 2 /\ (folder[2] = Issuer => response) /\ folder[2][1] \in {"issuer", "device"}
     \/ Len(folder) = 3 /\ folder[2][1] = "device" /\ folder[3][1] \in {"router", "port"}
     \/ /\ Len(folder) = 4 /\ folder[2][1] = "device" /\ folder[3][1] = "port"
        /\ folder[4][1] = "hub"

FileAllowed(file, response) ==
  /\ Len(file) > 1 /\ file[1] = Cert1
  /\ \/ /\ Len(file) = 2
        /\ \/ file[2][1] \in {"vendor-data", "request-notes"}
           \/ response /\ file[2][1] \in {"response-notes", "errors"}
     \/ Len(file) = 3 /\ file[2] = Issuer /\ response /\ file[3] \in {<<"iss", 1>>, <<"iss", 2>>}
     \/ /\ Len(file) = 4 /\ file[2][1] = "device" /\ file[3][1] = "port"
        /\ file[4][1] \in {"csr", "key"} \cup (IF response THEN {"opr"} ELSE {})

\* Sizes are taken to be within their limits.
Validate(tree, response) ==
  /\ \A folder \in tree.folders : FolderAllowed(folder, response)
  /\ \A file \in DOMAIN tree.files : FileAllowed(file, response)
  /\ LET devices == {f \in tree.folders : Len(f) = 2 /\ f[2][1] = "device"}
     IN  /\ devices # {}
         /\ \A d \in devices : \E f \in tree.folders :
               Len(f) = 3 /\ SubSeq(f, 1, 2) = d /\ f[3][1] = "port"

\* ListCsrs: the requests of a tree, and the place each answer goes to.
CsrFiles(tree) == {f \in DOMAIN tree.files :
                     Len(f) = 4 /\ f[1] = Cert1 /\ f[2][1] = "device"
                     /\ f[3][1] = "port" /\ f[4][1] = "csr"}
OprPath(csrFile) == Append(Front(csrFile), <<"opr", csrFile[4][2]>>)
=============================================================================
