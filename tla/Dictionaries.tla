----------------------------- MODULE Dictionaries -----------------------------
(***************************************************************************)
(* Custom RADIUS dictionaries: the handlers of routers/dictionary.py on    *)
(* the directory they share with radius-server (services/                  *)
(* dictionary_loader.py), and what radius/docker-entrypoint.sh makes of    *)
(* that directory each time the container starts.                          *)
(*                                                                         *)
(* The services are synchronous, so a change of the directory with its     *)
(* checks and the reload of the catalogue is one step of the backend's     *)
(* event loop.  log_audit awaits, then the container is restarted: another *)
(* step.  container.restart returns before the entrypoint is done.         *)
(* Its wait for the database is taken to succeed.                          *)
(***************************************************************************)
EXTENDS Integers, FiniteSets

CONSTANTS
    NULL,
    FileNames,
    Sanitized,          \* basename "$f" | tr ' ' '_'
    Shipped,            \* the directory as it comes with the repository
    VendorIds,
    BuiltinVendors,     \* declared by a file of /usr/share/freeradius
    FallbackVendors,    \* _BUILTIN_VENDOR_IDS_FALLBACK, those really included
    Uploads,            \* bodies of POST /upload and PUT /content
    Workers             \* requests the backend can be serving at one time

Opt(S) == S \cup {NULL}

(* redefines: an ATTRIBUTE bears a name of the base dictionary.  form: what
   a 3.x server makes of the text; "v4" is read once its types are mapped. *)
Contents == [vendors : SUBSET VendorIds, redefines : BOOLEAN, form : {"v3", "v4", "broken"}]
Directories == [FileNames -> Opt(Contents)]

ASSUME DictionaryAssumption ==
    /\ Sanitized \in [FileNames -> FileNames]
    /\ \A n \in FileNames : Sanitized[Sanitized[n]] = Sanitized[n]
    /\ FallbackVendors \subseteq BuiltinVendors /\ BuiltinVendors \subseteq VendorIds
    /\ Uploads \subseteq Contents
    /\ Shipped \in Directories
    /\ \A n \in FileNames : Shipped[n] # NULL =>
          /\ Shipped[n].form = "v3"
          /\ Shipped[n].vendors \cap FallbackVendors = {}
          /\ \A m \in FileNames \ {n} :
                Shipped[m] # NULL => Shipped[m].vendors \cap Shipped[n].vendors = {}

VARIABLES
    files,          \* ./backend/dictionaries, /etc/raddb/custom_dictionaries
    catalog,        \* _dictionary: the files load() read, NULL before the first
    vendorCache,    \* _builtin_vendor_ids_cache
    attrCache,      \* _builtin_attr_cache: does it hold anything
    req,            \* workers that changed the directory and have to restart
    phase,          \* of the container
    includes,       \* $INCLUDE lines of /etc/raddb/dictionary
    loaded,         \* what the running server read
    copies,         \* observer: files the entrypoint made, under any name
    reloadLost      \* observer: a restart was due since the last start

vars == <<files, catalog, vendorCache, attrCache, req, phase, includes, loaded,
          copies, reloadLost>>
backend == <<files, catalog, vendorCache, attrCache, req>>
server == <<phase, includes, loaded>>

Phases == {"down", "starting", "reading", "running"}

\* Nothing a 4.x server alone can read is ever written.
TypeOK ==
    /\ files \in [FileNames -> Opt([vendors : SUBSET VendorIds, redefines : BOOLEAN,
                                    form : {"v3"}])]
    /\ catalog = NULL \/ catalog \in Directories
    /\ vendorCache = NULL \/ vendorCache \in SUBSET VendorIds
    /\ attrCache = NULL \/ attrCache \in BOOLEAN
    /\ req \in [Workers -> {"idle", "reload"}]
    /\ phase \in Phases
    /\ includes \in SUBSET FileNames
    /\ loaded \in Directories
    /\ copies \in SUBSET FileNames
    /\ reloadLost \in BOOLEAN

Nothing == [n \in FileNames |-> NULL]
Present(dir) == {n \in FileNames : dir[n] # NULL}
Quiet == \A w \in Workers : req[w] = "idle"

Init ==
    /\ files = Shipped
    /\ catalog = NULL /\ vendorCache = NULL /\ attrCache = NULL
    /\ req = [w \in Workers |-> "idle"]
    /\ phase = "starting" /\ includes = {} /\ loaded = Nothing
    /\ copies = {} /\ reloadLost = FALSE

-----------------------------------------------------------------------------
(* The backend.                                                            *)

(* load: files pyrad cannot read are skipped.                              *)
Readable(dir) ==
    [n \in FileNames |-> IF dir[n] # NULL /\ dir[n].form # "broken" THEN dir[n] ELSE NULL]

\* Mutant: 4.x types are kept.
KeptAsIs(c) == c

\* _convert_v4_types maps the types and strips the 4.x keywords.
Converted(c) == [c EXCEPT !.form = IF @ = "v4" THEN "v3" ELSE @]

(* _get_builtin_vendor_ids: the first answer stands until the process ends,
   the fallback for an unreachable container as well.                      *)
Builtin ==
    IF vendorCache # NULL THEN vendorCache
    ELSE IF phase # "down" THEN BuiltinVendors
    ELSE FallbackVendors

\* Mutant: only the built-in vendors are compared.
CollidesBuiltin(n, c) == c.vendors \cap Builtin # {}

\* _check_vendor_id_collision; the file to be overwritten is skipped.
Collides(n, c) ==
    \/ c.vendors \cap Builtin # {}
    \/ \E m \in Present(files) \ {n} : c.vendors \cap files[m].vendors # {}

(* The directory is dir from now on; load() runs in the same step.         *)
Change(w, dir) ==
    /\ req[w] = "idle"
    /\ req' = [req EXCEPT ![w] = "reload"]
    /\ files' = dir
    /\ catalog' = Readable(dir)
    /\ UNCHANGED <<attrCache, server, reloadLost>>

(* validate_and_save and write_content.  The vendor cache is filled as soon
   as a vendor is compared, whether or not the text is accepted.           *)
Save(w) ==
    \E n \in FileNames, u \in Uploads :
        LET c == Converted(u) IN
        /\ req[w] = "idle" /\ ~c.redefines
        /\ vendorCache' = IF c.vendors = {} THEN vendorCache ELSE Builtin
        /\ IF Collides(n, c) \/ c.form = "broken"
           THEN UNCHANGED <<files, catalog, attrCache, req, server, copies, reloadLost>>
           ELSE /\ Change(w, [files EXCEPT ![n] = c])
                /\ copies' = copies \ {n}

Move(dir, old, new) == [dir EXCEPT ![new] = dir[old], ![old] = NULL]
MovedCopies(old, new) == (copies \ {old}) \cup (IF old \in copies THEN {new} ELSE {})

\* Mutant: a rename does not restart the server.
RenameQuietly(w) ==
    \E old \in Present(files), new \in FileNames \ Present(files) :
        /\ files' = Move(files, old, new)
        /\ catalog' = Readable(files')
        /\ copies' = MovedCopies(old, new)
        /\ UNCHANGED <<req, vendorCache, attrCache, server, reloadLost>>

Rename(w) ==
    \E old \in Present(files), new \in FileNames \ Present(files) :
        /\ Change(w, Move(files, old, new))
        /\ copies' = MovedCopies(old, new)
        /\ UNCHANGED vendorCache

Delete(w) ==
    \E n \in Present(files) :
        /\ Change(w, [files EXCEPT ![n] = NULL])
        /\ copies' = copies \ {n}
        /\ UNCHANGED vendorCache

(* log_audit, then _reload_radius.  If the first raises the second does not
   happen; if the second raises nobody is told.                            *)
Reload(w) ==
    /\ req[w] = "reload"
    /\ req' = [req EXCEPT ![w] = "idle"]
    /\ \/ phase' = "starting" /\ loaded' = Nothing /\ UNCHANGED reloadLost
       \/ reloadLost' = TRUE /\ UNCHANGED <<phase, loaded>>
    /\ UNCHANGED <<files, catalog, vendorCache, attrCache, includes, copies>>

(* GET /attributes: loads what was not loaded yet, and asks the container
   for its own attributes once; no answer is remembered as none.           *)
Browse ==
    /\ catalog' = IF catalog = NULL THEN Readable(files) ELSE catalog
    /\ attrCache' = IF attrCache = NULL THEN phase # "down" ELSE attrCache
    /\ UNCHANGED <<files, vendorCache, req, server, copies, reloadLost>>

Crash ==
    /\ reloadLost' = (reloadLost \/ ~Quiet)
    /\ req' = [w \in Workers |-> "idle"]
    /\ catalog' = NULL /\ vendorCache' = NULL /\ attrCache' = NULL
    /\ UNCHANGED <<files, server, copies>>

-----------------------------------------------------------------------------
(* The container.                                                          *)

(* Files whose name has a space are copied once under the sanitized name.  *)
Missing == {t \in FileNames \ Present(files) : \E n \in Present(files) : Sanitized[n] = t}

\* Mutant: the lines of earlier starts are not deleted first.
IncludeKeepingOld ==
    /\ phase = "starting"
    /\ \E original \in [Missing -> Present(files)] :
        /\ \A t \in Missing : Sanitized[original[t]] = t
        /\ files' = [n \in FileNames |-> IF n \in Missing THEN files[original[n]] ELSE files[n]]
    /\ copies' = copies \cup Missing
    /\ includes' = includes \cup {Sanitized[n] : n \in Present(files)}
    /\ phase' = "reading" /\ reloadLost' = FALSE
    /\ UNCHANGED <<catalog, vendorCache, attrCache, req, loaded>>

(* docker-entrypoint.sh: the old lines go, each file gets one.             *)
Include ==
    /\ phase = "starting"
    /\ \E original \in [Missing -> Present(files)] :
        /\ \A t \in Missing : Sanitized[original[t]] = t
        /\ files' = [n \in FileNames |-> IF n \in Missing THEN files[original[n]] ELSE files[n]]
    /\ copies' = copies \cup Missing
    /\ includes' = {Sanitized[n] : n \in Present(files)}
    /\ phase' = "reading" /\ reloadLost' = FALSE
    /\ UNCHANGED <<catalog, vendorCache, attrCache, req, loaded>>

(* FreeRADIUS reads them and exits when one is gone or unreadable.         *)
Read ==
    /\ phase = "reading"
    /\ IF \A n \in includes : files[n] # NULL /\ files[n].form = "v3"
       THEN /\ phase' = "running"
            /\ loaded' = [n \in FileNames |-> IF n \in includes THEN files[n] ELSE NULL]
       ELSE phase' = "down" /\ UNCHANGED loaded
    /\ UNCHANGED <<backend, includes, copies, reloadLost>>

(* "restart: unless-stopped".                                              *)
DockerRestart ==
    /\ phase = "down"
    /\ phase' = "starting"
    /\ UNCHANGED <<backend, includes, loaded, copies, reloadLost>>

(* The server ends on its own, or nas.py restarts it (a start is left to
   finish).                                                                *)
Stop ==
    /\ phase = "running"
    /\ phase' = "down" /\ loaded' = Nothing
    /\ UNCHANGED <<backend, includes, copies, reloadLost>>

Next ==
    \/ \E w \in Workers : Save(w) \/ Rename(w) \/ Delete(w) \/ Reload(w)
    \/ Browse \/ Crash
    \/ Include \/ Read \/ DockerRestart \/ Stop

Spec == Init /\ [][Next]_vars

(* A container that was started runs, and docker restarts one that exited. *)
FairSpec == Spec /\ WF_vars(Include) /\ WF_vars(Read) /\ WF_vars(DockerRestart)

-----------------------------------------------------------------------------
(* _check_vendor_id_collision: "Each dictionary must use a unique vendor ID",
   and none of the server's own.  Uploads, edits and renames in any order, a
   cache filled while the container was away, and the entrypoint's own copies
   keep it so; a copy declares what its original declared. *)
VendorsUnique ==
    LET originals == Present(files) \ copies IN
    /\ \A m \in Present(files) : files[m].vendors \cap FallbackVendors = {}
    /\ \A m \in originals : \A n \in originals \ {m} :
            files[m].vendors \cap files[n].vendors = {}

(* _reload_radius: the restart makes "the changes take effect".  Once no
   restart is due and none was lost since the server last started, it runs on
   exactly the files without a space in their name, however starts and changes
   overlapped, and each file with one is represented among them. *)
RadiusCatchesUp ==
    phase = "running" /\ Quiet /\ ~reloadLost =>
        /\ loaded = [n \in FileNames |-> IF Sanitized[n] = n THEN files[n] ELSE NULL]
        /\ \A n \in Present(files) : loaded[Sanitized[n]] # NULL

(* docker-entrypoint.sh: "stale references are cleaned when dictionaries are
   deleted via UI".  The server comes back: a start that failed because a file
   went away between the listing and the reading is repeated with a fresh
   list, unless changes go on. *)
RadiusReturns == phase # "running" ~> phase = "running" \/ ~Quiet
=============================================================================
