-------------------------- MODULE DictionariesProofs --------------------------
(***************************************************************************)
(* Theorems about Dictionaries, for any names, uploads and number of       *)
(* requests: the types, that vendors stay unique, and that the server ends *)
(* up running on the directory as it is.                                   *)
(***************************************************************************)
EXTENDS Dictionaries, TLAPS

-----------------------------------------------------------------------------
(* Type correctness. *)

\* The texts a 3.x server reads: the only ones that are ever stored.
Readables == [vendors : SUBSET VendorIds, redefines : BOOLEAN, form : {"v3"}]
Stored == [FileNames -> Opt(Readables)]

(* A stored directory is a directory, and so is what pyrad can read of it. *)
LEMMA StoredType ==
    ASSUME NEW dir \in Stored
    PROVE  dir \in Directories /\ Readable(dir) \in Directories
<1>1. \A n \in FileNames : dir[n] \in Opt(Contents)
  BY DEF Stored, Opt, Readables, Contents
<1>. QED
  BY <1>1 DEF Stored, Directories, Readable, Opt

(* A file of the directory has a text. *)
LEMMA PresentType ==
    ASSUME TypeOK, NEW n \in Present(files)
    PROVE  n \in FileNames /\ files[n] \in Readables
BY DEF TypeOK, Present, Opt, Readables

(* _convert_v4_types leaves a text a 3.x server reads, or a broken one. *)
LEMMA ConvertedType ==
    ASSUME NEW u \in Contents
    PROVE  /\ Converted(u) \in Contents /\ Converted(u).vendors = u.vendors
           /\ Converted(u).form # "broken" => Converted(u) \in Readables
BY DEF Contents, Converted, Readables

LEMMA BuiltinType ==
    ASSUME TypeOK
    PROVE  Builtin \in SUBSET VendorIds
BY DictionaryAssumption DEF TypeOK, Builtin

(* A change of the directory, with the reload of the catalogue. *)
LEMMA ChangeType ==
    ASSUME TypeOK, NEW w \in Workers, NEW dir \in Stored, Change(w, dir),
           copies' \in SUBSET FileNames,
           vendorCache' = NULL \/ vendorCache' \in SUBSET VendorIds
    PROVE  TypeOK'
<1>1. /\ req' \in [Workers -> {"idle", "reload"}] /\ files' = dir
      /\ catalog' = Readable(dir)
      /\ UNCHANGED <<attrCache, phase, includes, loaded, reloadLost>>
  BY DEF Change, TypeOK, server
<1>2. catalog' \in Directories
  BY <1>1, StoredType
<1>. QED
  BY <1>1, <1>2 DEF TypeOK, Stored, Readables

LEMMA BackendType ==
    ASSUME TypeOK, NEW w \in Workers, Save(w) \/ Rename(w) \/ Delete(w)
    PROVE  TypeOK'
<1>1. files \in Stored /\ copies \in SUBSET FileNames
  BY DEF TypeOK, Stored, Readables
<1>2. CASE Save(w)
  <2>1. PICK n \in FileNames, u \in Uploads :
          /\ vendorCache' = IF Converted(u).vendors = {} THEN vendorCache ELSE Builtin
          /\ IF Collides(n, Converted(u)) \/ Converted(u).form = "broken"
             THEN UNCHANGED <<files, catalog, attrCache, req, server, copies, reloadLost>>
             ELSE /\ Change(w, [files EXCEPT ![n] = Converted(u)])
                  /\ copies' = copies \ {n}
    BY <1>2 DEF Save
  <2>2. vendorCache' = NULL \/ vendorCache' \in SUBSET VendorIds
    BY <2>1, BuiltinType DEF TypeOK
  <2>3. CASE Collides(n, Converted(u)) \/ Converted(u).form = "broken"
    BY <2>1, <2>2, <2>3 DEF TypeOK, server
  <2>4. CASE ~(Collides(n, Converted(u)) \/ Converted(u).form = "broken")
    <3>1. Converted(u) \in Readables
      BY <2>4, ConvertedType, DictionaryAssumption
    <3>2. [files EXCEPT ![n] = Converted(u)] \in Stored
      BY <1>1, <3>1 DEF Stored, Opt
    <3>. QED
      BY <1>1, <2>1, <2>2, <2>4, <3>2, ChangeType
  <2>. QED
    BY <2>3, <2>4
<1>3. CASE Rename(w)
  <2>1. PICK old \in Present(files), new \in FileNames \ Present(files) :
          /\ Change(w, Move(files, old, new))
          /\ copies' = MovedCopies(old, new)
          /\ UNCHANGED vendorCache
    BY <1>3 DEF Rename
  <2>2. Move(files, old, new) \in Stored /\ copies' \in SUBSET FileNames
    BY <1>1, <2>1 DEF Stored, Opt, Move, MovedCopies, Present
  <2>. QED
    BY <2>1, <2>2, ChangeType DEF TypeOK
<1>4. CASE Delete(w)
  <2>1. PICK n \in Present(files) :
          /\ Change(w, [files EXCEPT ![n] = NULL])
          /\ copies' = copies \ {n}
          /\ UNCHANGED vendorCache
    BY <1>4 DEF Delete
  <2>2. [files EXCEPT ![n] = NULL] \in Stored
    BY <1>1 DEF Stored, Opt
  <2>. QED
    BY <1>1, <2>1, <2>2, ChangeType DEF TypeOK
<1>. QED
  BY <1>2, <1>3, <1>4

(* docker-entrypoint.sh: the files it makes and the lines it writes. *)
LEMMA IncludeFiles ==
    ASSUME TypeOK, Include
    PROVE  /\ files' \in Stored /\ Missing \in SUBSET (FileNames \ Present(files))
           /\ Present(files)' = Present(files) \cup Missing
           /\ \A n \in Present(files) : files'[n] = files[n]
           /\ \A t \in Missing : \E n \in Present(files) : Sanitized[n] = t /\ files'[t] = files[n]
           /\ includes' = {Sanitized[n] : n \in Present(files)}
<1>1. PICK original \in [Missing -> Present(files)] :
        /\ \A t \in Missing : Sanitized[original[t]] = t
        /\ files' = [n \in FileNames |-> IF n \in Missing THEN files[original[n]] ELSE files[n]]
  BY DEF Include
<1>2. files \in Stored /\ Missing \in SUBSET (FileNames \ Present(files))
  BY DEF TypeOK, Stored, Readables, Missing
<1>3. \A t \in Missing : files[original[t]] # NULL /\ original[t] \in FileNames
  BY <1>1 DEF Present
<1>4. \A t \in Missing : files'[t] = files[original[t]]
  BY <1>1, <1>2
<1>5. \A n \in FileNames \ Missing : files'[n] = files[n]
  BY <1>1
<1>6. files' \in Stored
  BY <1>1, <1>2, <1>3 DEF Stored
<1>7. Present(files)' = Present(files) \cup Missing
  BY <1>2, <1>3, <1>4, <1>5 DEF Present
<1>8. \A n \in Present(files) : files'[n] = files[n]
  BY <1>2, <1>5 DEF Present
<1>9. \A t \in Missing : \E n \in Present(files) : Sanitized[n] = t /\ files'[t] = files[n]
  BY <1>1, <1>4
<1>10. includes' = {Sanitized[n] : n \in Present(files)}
  BY DEF Include
<1>. QED
  BY <1>2, <1>6, <1>7, <1>8, <1>9, <1>10

LEMMA ContainerType ==
    ASSUME TypeOK, Include \/ Read \/ DockerRestart \/ Stop
    PROVE  TypeOK'
<1>1. files \in Stored
  BY DEF TypeOK, Stored, Readables
<1>2. CASE Include
  <2>1. files' \in Stored
    BY <1>2, IncludeFiles
  <2>2. /\ copies' = copies \cup Missing /\ phase' = "reading" /\ reloadLost' = FALSE
        /\ includes' = {Sanitized[n] : n \in Present(files)}
        /\ UNCHANGED <<catalog, vendorCache, attrCache, req, loaded>>
    BY <1>2 DEF Include
  <2>3. copies' \in SUBSET FileNames /\ includes' \in SUBSET FileNames
    BY <2>2, DictionaryAssumption DEF TypeOK, Missing, Present
  <2>. QED
    BY <2>1, <2>2, <2>3 DEF TypeOK, Phases, Stored, Readables
<1>3. CASE Read
  <2>1. /\ phase' \in Phases /\ UNCHANGED <<backend, includes, copies, reloadLost>>
        /\ \/ loaded' = loaded
           \/ loaded' = [n \in FileNames |-> IF n \in includes THEN files[n] ELSE NULL]
    BY <1>3 DEF Read, Phases
  <2>2. loaded' \in Directories
    BY <1>1, <2>1, StoredType DEF TypeOK, Directories, Opt
  <2>. QED
    BY <2>1, <2>2 DEF TypeOK, backend
<1>4. CASE DockerRestart
  BY <1>4 DEF TypeOK, DockerRestart, backend, Phases
<1>5. CASE Stop
  BY <1>5 DEF TypeOK, Stop, backend, Phases, Nothing, Directories, Opt
<1>. QED
  BY <1>2, <1>3, <1>4, <1>5

LEMMA InitType == Init => TypeOK
<1>1. \A n \in FileNames : Shipped[n] \in Opt(Readables)
  BY DictionaryAssumption DEF Directories, Opt, Contents, Readables
<1>2. Shipped \in Stored
  BY <1>1, DictionaryAssumption DEF Stored, Directories
<1>. QED
  BY <1>2 DEF Init, TypeOK, Stored, Readables, Nothing, Directories, Opt, Phases

LEMMA StepType == TypeOK /\ [Next]_vars => TypeOK'
<1>. SUFFICES ASSUME TypeOK, [Next]_vars
              PROVE  TypeOK'
  OBVIOUS
<1>1. files \in Stored
  BY DEF TypeOK, Stored, Readables
<1>2. ASSUME NEW w \in Workers, Save(w) \/ Rename(w) \/ Delete(w)
      PROVE  TypeOK'
  BY <1>2, BackendType
<1>3. ASSUME NEW w \in Workers, Reload(w)
      PROVE  TypeOK'
  BY <1>3 DEF Reload, TypeOK, Phases, Nothing, Directories, Opt
<1>4. CASE Browse
  <2>1. catalog' = NULL \/ catalog' \in Directories
    BY <1>1, <1>4, StoredType DEF Browse, TypeOK
  <2>2. attrCache' = NULL \/ attrCache' \in BOOLEAN
    BY <1>4 DEF Browse, TypeOK
  <2>. QED
    BY <1>4, <2>1, <2>2 DEF Browse, TypeOK, server
<1>5. CASE Crash
  <2>1. reloadLost' \in BOOLEAN
    BY <1>5, Zenon DEF Crash, TypeOK
  <2>. QED
    BY <1>5, <2>1 DEF Crash, TypeOK, server
<1>6. CASE Include \/ Read \/ DockerRestart \/ Stop
  BY <1>6, ContainerType
<1>7. CASE UNCHANGED vars
  BY <1>7 DEF vars, TypeOK
<1>. QED
  BY <1>2, <1>3, <1>4, <1>5, <1>6, <1>7 DEF Next

(* The directory, the caches and the server keep their types; in particular
   no text a 4.x server alone can read is ever stored. *)
THEOREM DictionariesTypeCorrect == Spec => []TypeOK
BY InitType, StepType, PTL DEF Spec

-----------------------------------------------------------------------------
(* Vendors stay unique. *)

(* Whatever the container answered, the cache holds the fallback's vendors. *)
Cached == vendorCache # NULL => FallbackVendors \subseteq vendorCache

(* The observer counts as copies only files that are there. *)
CopiesPresent == copies \subseteq Present(files)

VendorInv == TypeOK /\ Cached /\ CopiesPresent /\ VendorsUnique

Clean(dir, m) == dir[m].vendors \cap FallbackVendors = {}
Apart(dir, m, n) == dir[m].vendors \cap dir[n].vendors = {}

LEMMA BuiltinCovers ==
    ASSUME Cached
    PROVE  FallbackVendors \subseteq Builtin
BY DictionaryAssumption DEF Cached, Builtin

(* validate_and_save and write_content: the text that is stored was compared
   with every other file and with the server's vendors. *)
LEMMA SaveUnique ==
    ASSUME VendorInv, NEW w \in Workers, Save(w)
    PROVE  Cached' /\ CopiesPresent' /\ VendorsUnique'
<1>1. PICK n \in FileNames, u \in Uploads :
        /\ vendorCache' = IF Converted(u).vendors = {} THEN vendorCache ELSE Builtin
        /\ IF Collides(n, Converted(u)) \/ Converted(u).form = "broken"
           THEN UNCHANGED <<files, catalog, attrCache, req, server, copies, reloadLost>>
           ELSE /\ Change(w, [files EXCEPT ![n] = Converted(u)])
                /\ copies' = copies \ {n}
  BY DEF Save
<1>2. FallbackVendors \subseteq Builtin
  BY BuiltinCovers DEF VendorInv
<1>3. Cached'
  BY <1>1, <1>2 DEF VendorInv, Cached
<1>4. CASE Collides(n, Converted(u)) \/ Converted(u).form = "broken"
  <2>1. files' = files /\ copies' = copies
    BY <1>1, <1>4
  <2>. QED
    BY <1>3, <2>1 DEF VendorInv, VendorsUnique, CopiesPresent, Present
<1>5. CASE ~(Collides(n, Converted(u)) \/ Converted(u).form = "broken")
  <2>. DEFINE c == Converted(u)
  <2>1. files' = [files EXCEPT ![n] = c] /\ copies' = copies \ {n}
    BY <1>1, <1>5 DEF Change
  <2>2. c.vendors \cap Builtin = {}
    BY <1>5 DEF Collides
  <2>3. \A m \in Present(files) \ {n} : c.vendors \cap files[m].vendors = {}
    BY <1>5 DEF Collides
  <2>. HIDE DEF c
  <2>4. files'[n] = c /\ \A m \in FileNames \ {n} : files'[m] = files[m]
    BY <2>1 DEF VendorInv, TypeOK
  <2>5. Present(files)' \subseteq Present(files) \cup {n}
    BY <2>4 DEF Present
  <2>6. CopiesPresent'
    BY <2>1, <2>4 DEF VendorInv, CopiesPresent, Present
  <2>7. \A m \in Present(files)' : Clean(files', m)
    BY <1>2, <2>2, <2>4, <2>5 DEF VendorInv, VendorsUnique, Clean, Present
  <2>8. ASSUME NEW m \in Present(files)' \ copies', NEW k \in (Present(files)' \ copies') \ {m}
        PROVE  Apart(files', m, k)
    <3>1. CASE m = n
      BY <2>3, <2>4, <2>5, <2>8, <3>1 DEF Apart, Present
    <3>2. CASE k = n
      BY <2>3, <2>4, <2>5, <2>8, <3>2 DEF Apart, Present
    <3>3. CASE m # n /\ k # n
      <4>1. /\ m \in Present(files) \ copies /\ k \in (Present(files) \ copies) \ {m}
            /\ files'[m] = files[m] /\ files'[k] = files[k]
        BY <2>1, <2>4, <2>5, <2>8, <3>3 DEF Present
      <4>. QED
        BY <4>1 DEF VendorInv, VendorsUnique, Apart
    <3>. QED
      BY <3>1, <3>2, <3>3
  <2>9. VendorsUnique'
    BY <2>7, <2>8 DEF VendorsUnique, Clean, Apart
  <2>. QED
    BY <1>3, <2>6, <2>9
<1>. QED
  BY <1>4, <1>5

(* A file that moves takes its vendors along. *)
LEMMA RenameUnique ==
    ASSUME VendorInv, NEW w \in Workers, Rename(w)
    PROVE  Cached' /\ CopiesPresent' /\ VendorsUnique'
<1>1. PICK old \in Present(files), new \in FileNames \ Present(files) :
        /\ files' = Move(files, old, new)
        /\ copies' = MovedCopies(old, new)
        /\ UNCHANGED vendorCache
  BY DEF Rename, Change
<1>2. files \in [FileNames -> Opt(Readables)] /\ old \in FileNames /\ old # new
      /\ files[old] # NULL
  BY DEF VendorInv, TypeOK, Present, Readables
<1>3. /\ files'[new] = files[old] /\ files'[old] = NULL
      /\ \A m \in FileNames \ {old, new} : files'[m] = files[m]
  BY <1>1, <1>2 DEF Move
<1>4. /\ Present(files)' = (Present(files) \ {old}) \cup {new}
      /\ \A m \in Present(files) \ {old} : files'[m] = files[m]
  BY <1>1, <1>2, <1>3 DEF Present
<1>5. /\ copies \subseteq Present(files) /\ new \notin copies
      /\ copies' = (copies \ {old}) \cup (IF old \in copies THEN {new} ELSE {})
  BY <1>1 DEF VendorInv, CopiesPresent, MovedCopies
<1>6. CopiesPresent'
  BY <1>4, <1>5 DEF CopiesPresent
<1>. DEFINE source(m) == IF m = new THEN old ELSE m
<1>7. ASSUME NEW m \in Present(files)'
      PROVE  source(m) \in Present(files) /\ files'[m] = files[source(m)]
  BY <1>1, <1>3, <1>4
<1>8. ASSUME NEW m \in Present(files)' \ copies'
      PROVE  source(m) \in Present(files) \ copies
  BY <1>4, <1>5, <1>7
<1>9. ASSUME NEW m \in Present(files)', NEW k \in Present(files)', m # k
      PROVE  source(m) # source(k)
  BY <1>2, <1>4, <1>9
<1>. HIDE DEF source
<1>10. \A m \in Present(files)' : Clean(files', m)
  BY <1>7 DEF VendorInv, VendorsUnique, Clean
<1>11. ASSUME NEW m \in Present(files)' \ copies', NEW k \in (Present(files)' \ copies') \ {m}
       PROVE  Apart(files', m, k)
  <2>1. source(m) \in Present(files) \ copies /\ source(k) \in Present(files) \ copies
        /\ source(m) # source(k)
    BY <1>8, <1>9
  <2>2. Apart(files, source(m), source(k))
    BY <2>1 DEF VendorInv, VendorsUnique, Apart
  <2>. QED
    BY <1>7, <2>2 DEF Apart
<1>12. VendorsUnique'
  BY <1>10, <1>11 DEF VendorsUnique, Clean, Apart
<1>. QED
  BY <1>1, <1>6, <1>12 DEF VendorInv, Cached

LEMMA DeleteUnique ==
    ASSUME VendorInv, NEW w \in Workers, Delete(w)
    PROVE  Cached' /\ CopiesPresent' /\ VendorsUnique'
<1>1. PICK n \in Present(files) :
        /\ files' = [files EXCEPT ![n] = NULL]
        /\ copies' = copies \ {n}
        /\ UNCHANGED vendorCache
  BY DEF Delete, Change
<1>2. /\ Present(files)' = Present(files) \ {n}
      /\ \A m \in Present(files) \ {n} : files'[m] = files[m]
  BY <1>1 DEF VendorInv, TypeOK, Present
<1>3. \A m \in Present(files)' \ copies' : m \in Present(files) \ copies /\ files'[m] = files[m]
  BY <1>1, <1>2
<1>4. ASSUME NEW m \in Present(files)' \ copies', NEW k \in (Present(files)' \ copies') \ {m}
      PROVE  files'[m].vendors \cap files'[k].vendors = {}
  BY <1>3, <1>4 DEF VendorInv, VendorsUnique
<1>5. \A m \in Present(files)' : files'[m].vendors \cap FallbackVendors = {}
  BY <1>2 DEF VendorInv, VendorsUnique
<1>6. VendorsUnique'
  BY <1>4, <1>5 DEF VendorsUnique
<1>. QED
  BY <1>1, <1>2, <1>6 DEF VendorInv, Cached, CopiesPresent

(* The entrypoint's copies declare what their originals declared. *)
LEMMA IncludeUnique ==
    ASSUME VendorInv, Include
    PROVE  Cached' /\ CopiesPresent' /\ VendorsUnique'
<1>1. /\ Present(files)' = Present(files) \cup Missing
      /\ \A n \in Present(files) : files'[n] = files[n]
      /\ \A t \in Missing : \E n \in Present(files) : Sanitized[n] = t /\ files'[t] = files[n]
  BY IncludeFiles DEF VendorInv
<1>2. copies' = copies \cup Missing /\ vendorCache' = vendorCache
  BY DEF Include
<1>3. \A m \in Present(files)' : \E n \in Present(files) : files'[m] = files[n]
  BY <1>1
<1>4. \A m \in Present(files)' \ copies' : m \in Present(files) \ copies /\ files'[m] = files[m]
  BY <1>1, <1>2
<1>5. \A m \in Present(files)' : files'[m].vendors \cap FallbackVendors = {}
  BY <1>3 DEF VendorInv, VendorsUnique
<1>6. ASSUME NEW m \in Present(files)' \ copies', NEW k \in (Present(files)' \ copies') \ {m}
      PROVE  files'[m].vendors \cap files'[k].vendors = {}
  BY <1>4, <1>6 DEF VendorInv, VendorsUnique
<1>7. VendorsUnique'
  BY <1>5, <1>6 DEF VendorsUnique
<1>. QED
  BY <1>1, <1>2, <1>7 DEF VendorInv, Cached, CopiesPresent

LEMMA StepUnique == VendorInv /\ [Next]_vars => VendorInv'
<1>. SUFFICES ASSUME VendorInv, [Next]_vars
              PROVE  VendorInv'
  OBVIOUS
<1>1. TypeOK'
  BY StepType DEF VendorInv
<1>2. ASSUME NEW w \in Workers, Save(w) \/ Rename(w) \/ Delete(w)
      PROVE  VendorInv'
  BY <1>1, <1>2, SaveUnique, RenameUnique, DeleteUnique DEF VendorInv
<1>3. CASE Include
  BY <1>1, <1>3, IncludeUnique DEF VendorInv
<1>4. CASE \/ \E w \in Workers : Reload(w)
           \/ Browse \/ Crash \/ Read \/ DockerRestart \/ Stop \/ UNCHANGED vars
  <2>1. files' = files /\ copies' = copies /\ (vendorCache' = vendorCache \/ vendorCache' = NULL)
    BY <1>4 DEF Reload, Browse, Crash, Read, DockerRestart, Stop, vars, backend
  <2>. QED
    BY <1>1, <2>1 DEF VendorInv, Cached, CopiesPresent, VendorsUnique, Present
<1>. QED
  BY <1>2, <1>3, <1>4 DEF Next

(* Each vendor is declared by one file and none by the server's own, the
   entrypoint's copies aside, in whatever order files are changed and whatever
   the container answered when it was asked. *)
THEOREM VendorsStayUnique == Spec => []VendorsUnique
<1>1. Init => VendorInv
  <2>. SUFFICES ASSUME Init
                PROVE  VendorInv
    OBVIOUS
  <2>1. TypeOK
    BY InitType
  <2>2. files = Shipped /\ copies = {} /\ vendorCache = NULL
    BY DEF Init
  <2>3. VendorsUnique
    BY <2>2, DictionaryAssumption DEF VendorsUnique, Present
  <2>. QED
    BY <2>1, <2>2, <2>3 DEF VendorInv, Cached, CopiesPresent
<1>2. VendorInv => VendorsUnique
  BY DEF VendorInv
<1>. QED
  BY <1>1, <1>2, StepUnique, PTL DEF Spec

-----------------------------------------------------------------------------
(* The server catches up with the directory. *)

(* With no restart due and none lost, nothing changed the directory since the
   entrypoint listed it. *)
Listed ==
    phase = "reading" /\ Quiet /\ ~reloadLost
      => includes = {Sanitized[n] : n \in Present(files)}

CatchUpInv == TypeOK /\ Listed /\ RadiusCatchesUp

(* What the entrypoint lists are all the sanitized names, its copies included. *)
LEMMA IncludeLists ==
    ASSUME TypeOK, Include
    PROVE  includes' = {Sanitized[n] : n \in Present(files)'}
<1>1. /\ Missing \in SUBSET FileNames
      /\ Present(files)' = Present(files) \cup Missing
      /\ includes' = {Sanitized[n] : n \in Present(files)}
  BY IncludeFiles
<1>2. ASSUME NEW t \in Missing
      PROVE  Sanitized[t] \in {Sanitized[n] : n \in Present(files)}
  <2>1. PICK n \in Present(files) : Sanitized[n] = t
    BY DEF Missing
  <2>2. Sanitized[t] = t
    BY <2>1, DictionaryAssumption DEF Present
  <2>. QED
    BY <2>1, <2>2
<1>. QED
  BY <1>1, <1>2

(* FreeRADIUS reads what was listed, or exits. *)
LEMMA ReadCatchesUp ==
    ASSUME CatchUpInv, Read
    PROVE  Listed' /\ RadiusCatchesUp'
<1>1. phase = "reading" /\ UNCHANGED <<files, req, reloadLost>> /\ phase' # "reading"
  BY DEF Read, backend
<1>2. Listed'
  BY <1>1 DEF Listed
<1>3. ASSUME phase' = "running", Quiet', ~reloadLost'
      PROVE  /\ loaded' = [n \in FileNames |-> IF Sanitized[n] = n THEN files'[n] ELSE NULL]
             /\ \A n \in Present(files)' : loaded'[Sanitized[n]] # NULL
  <2>1. /\ \A n \in includes : files[n] # NULL
        /\ loaded' = [n \in FileNames |-> IF n \in includes THEN files[n] ELSE NULL]
    BY <1>3 DEF Read
  <2>2. includes = {Sanitized[n] : n \in Present(files)}
    BY <1>1, <1>3 DEF CatchUpInv, Listed, Quiet
  <2>3. \A n \in FileNames : n \in includes <=> Sanitized[n] = n /\ files[n] # NULL
    BY <2>1, <2>2, DictionaryAssumption DEF Present
  <2>4. loaded' = [n \in FileNames |-> IF Sanitized[n] = n THEN files[n] ELSE NULL]
    BY <2>1, <2>3
  <2>5. ASSUME NEW n \in Present(files)
        PROVE  loaded'[Sanitized[n]] # NULL
    <3>1. Sanitized[n] \in includes /\ Sanitized[n] \in FileNames
      BY <2>2, DictionaryAssumption DEF Present
    <3>. QED
      BY <2>1, <3>1
  <2>. QED
    BY <1>1, <2>4, <2>5 DEF Present
<1>4. RadiusCatchesUp'
  BY <1>3 DEF RadiusCatchesUp
<1>. QED
  BY <1>2, <1>4

LEMMA StepCatchesUp == CatchUpInv /\ [Next]_vars => CatchUpInv'
<1>. SUFFICES ASSUME CatchUpInv, [Next]_vars
              PROVE  CatchUpInv'
  OBVIOUS
<1>1. TypeOK' /\ TypeOK
  BY StepType DEF CatchUpInv
<1>. SUFFICES Listed' /\ RadiusCatchesUp'
  BY <1>1 DEF CatchUpInv
<1>2. ASSUME UNCHANGED <<files, phase, includes, loaded>>,
             Quiet' /\ ~reloadLost' => Quiet /\ ~reloadLost
      PROVE  Listed' /\ RadiusCatchesUp'
  BY <1>2 DEF CatchUpInv, Listed, RadiusCatchesUp, Present
<1>3. ASSUME NEW w \in Workers, NEW dir, Change(w, dir)
      PROVE  Listed' /\ RadiusCatchesUp'
  <2>1. ~Quiet'
    BY <1>1, <1>3 DEF Change, TypeOK, Quiet
  <2>. QED
    BY <2>1 DEF Listed, RadiusCatchesUp
<1>4. ASSUME NEW w \in Workers, Save(w)
      PROVE  Listed' /\ RadiusCatchesUp'
  <2>1. PICK n \in FileNames, u \in Uploads :
          \/ UNCHANGED <<files, catalog, attrCache, req, server, copies, reloadLost>>
          \/ Change(w, [files EXCEPT ![n] = Converted(u)])
    BY <1>4 DEF Save
  <2>2. CASE UNCHANGED <<files, catalog, attrCache, req, server, copies, reloadLost>>
    BY <1>2, <2>2 DEF server, Quiet
  <2>. QED
    BY <1>3, <2>1, <2>2
<1>5. ASSUME NEW w \in Workers, Rename(w) \/ Delete(w)
      PROVE  Listed' /\ RadiusCatchesUp'
  BY <1>3, <1>5 DEF Rename, Delete
<1>6. ASSUME NEW w \in Workers, Reload(w)
      PROVE  Listed' /\ RadiusCatchesUp'
  BY <1>6 DEF Reload, Listed, RadiusCatchesUp
<1>7. CASE Browse
  BY <1>2, <1>7 DEF Browse, server, Quiet
<1>8. CASE Crash
  <2>1. UNCHANGED <<files, phase, includes, loaded>>
    BY <1>8 DEF Crash, server
  <2>2. ~reloadLost' => Quiet /\ ~reloadLost
    BY <1>8 DEF Crash
  <2>. QED
    BY <1>2, <2>1, <2>2
<1>9. CASE Include
  <2>1. phase' = "reading" /\ includes' = {Sanitized[n] : n \in Present(files)'}
    BY <1>1, <1>9, IncludeLists DEF Include
  <2>. QED
    BY <2>1 DEF Listed, RadiusCatchesUp
<1>10. CASE Read
  BY <1>10, ReadCatchesUp
<1>11. CASE DockerRestart \/ Stop
  BY <1>11 DEF DockerRestart, Stop, Listed, RadiusCatchesUp
<1>12. CASE UNCHANGED vars
  BY <1>2, <1>12 DEF vars, Quiet
<1>. QED
  BY <1>4, <1>5, <1>6, <1>7, <1>8, <1>9, <1>10, <1>11, <1>12 DEF Next

(* Once no restart is due and none was lost since it last started, a server
   that runs has read the directory as it is, however changes and starts
   overlapped. *)
THEOREM ServerCatchesUp == Spec => []RadiusCatchesUp
<1>1. Init => CatchUpInv
  BY InitType DEF Init, CatchUpInv, Listed, RadiusCatchesUp
<1>2. CatchUpInv => RadiusCatchesUp
  BY DEF CatchUpInv
<1>. QED
  BY <1>1, <1>2, StepCatchesUp, PTL DEF Spec
=============================================================================
