------------------------------ MODULE PanelEditor ------------------------------
(***************************************************************************)
(* One page of the panel that edits a table: a list that is a cached copy  *)
(* of the table, a form over it, and the requests the page has under way.  *)
(* page says which one; the functions of PanelForms say what its form      *)
(* does.  The operator is a superadmin, so every button is there.          *)
(*                                                                         *)
(* The cache is React Query's: invalidateQueries drops a fetch under way   *)
(* and starts another, a refocused window fetches again, and the callbacks *)
(* of a mutation run whatever the page shows by then.  A request may be    *)
(* refused, or carried out and its answer lost.  Other operators write     *)
(* the table too.                                                          *)
(***************************************************************************)
EXTENDS PanelForms, FiniteSets, SequencesExt

CONSTANTS
    Pages,      \* the pages to look at
    Initial,    \* page -> rows the table may start with
    Seeds,      \* page -> rows that API clients and other operators write
    UserLimit,  \* rows GET /users returns at most
    MaxId,      \* bound: ids handed out
    MaxCalls    \* bound: requests of the page and writes of others

VARIABLES
    page,
    table,      \* the rows by id, NULL where one was deleted
    list,       \* what the list query holds of it
    fetch,      \* the list query under way, with the rows once read
    modal,      \* the form: its mode, the row a submit goes to, its fields;
                \* shown (whose row filled it) and start are observers
    calls,      \* requests whose answer the page has not handled
    sent,       \* counts towards MaxCalls
    untold      \* observer: a write the page was not told of since the last read

vars == <<page, table, list, fetch, modal, calls, sent, untold>>

Blank ==
    CASE page = "nas"         -> NasBlank
      [] page = "devices"     -> DeviceBlank
      [] page = "segments"    -> SegmentBlank
      [] page = "circuits"    -> CircuitBlank
      [] page = "admins"      -> AdminBlank
      [] page = "users"       -> WizardBlank
      [] page = "assignments" -> AssignmentBlank

\* The form as it was left matters to the last case only.
FormOf(row, left) ==
    CASE page = "nas"         -> NasForm(row)
      [] page = "devices"     -> DeviceForm(row)
      [] page = "segments"    -> SegmentForm(row)
      [] page = "circuits"    -> CircuitForm(row)
      [] page = "users"       -> UserForm(row)
      [] page = "assignments" -> AssignmentForm(row)
      [] page = "admins"      -> AdminForm(row, left)

Body(f) ==
    CASE page = "nas"         -> NasBody(f)
      [] page = "devices"     -> DeviceBody(f)
      [] page \in {"segments", "circuits"} -> f
      [] page = "admins"      -> AdminBody(f)
      [] page = "users"       -> UserBody(f)
      [] page = "assignments" -> AssignmentBody(f)

Inputs(f) ==
    LET editing == modal.mode = "edit" IN
    CASE page = "nas"         -> NasInputs(f)
      [] page = "devices"     -> DeviceInputs(f, editing)
      [] page = "segments"    -> SegmentInputs(f)
      [] page = "circuits"    -> CircuitInputs(f)
      [] page = "admins"      -> AdminInputs(f, editing)
      [] page = "users"       -> IF editing THEN UserInputs(f) ELSE WizardInputs(f)
      [] page = "assignments" -> AssignmentInputs(f, editing)

\* The inputs marked required, and the wizard's way to its second step.
Required(f) ==
    CASE page = "nas"         -> NasRequired(f)
      [] page = "devices"     -> f.mac # ""
      [] page = "segments"    -> f.name # "" /\ f.cidr # ""
      [] page = "circuits"    -> f.name # "" /\ f.circuit # ""
      [] page = "admins"      -> modal.mode = "create" => f.new.username # "" /\ f.new.password # ""
      [] page = "users"       ->
            modal.mode = "create" => f.username # "" /\ f.value # <<"text", "">>
      [] page = "assignments" -> AssignmentRequired(f)

\* Pages whose submit button is disabled while a save is pending.
OneSaveAtATime == {"nas", "segments", "circuits", "assignments"}
SavePending == \E c \in calls : c.kind \in {"create", "edit"}

-----------------------------------------------------------------------------
(* What the backend does with each request.  A column no form has starts   *)
(* as NULL.                                                                *)
NewRow ==
    CASE page = "nas" -> [name |-> <<>>, secret |-> "", cat |-> NULL, ports |-> NULL]
      [] page = "devices" -> DeviceBlank
      [] page = "segments" -> SegmentBlank
      [] page = "circuits" -> CircuitBlank
      [] page = "admins" -> AdminNew
      [] page = "users" -> UserBody(WizardBlank)
      [] page = "assignments" ->
            [c \in Target \cup {"group"} |-> IF c = "group" THEN "" ELSE NULL]

\* The columns whose text a validator rewrites; CircuitUpdate has none.
Rewritten(op) ==
    CASE page = "devices" -> {"mac", "name"}
      [] page = "segments" -> {"cidr"}
      [] page = "assignments" -> {"mac"}
      [] page = "circuits" /\ op = "POST" -> {"circuit"}
      [] OTHER -> {}

\* DeviceRegistryUpdate has no MAC: one that is sent is left out.
Known(op, body) == DOMAIN body \ (IF page = "devices" /\ op = "PUT" THEN {"mac"} ELSE {})

\* The payload the handler gets for a body.
Received(op, body) ==
    [c \in Known(op, body) |-> IF c \in Rewritten(op) THEN Canon(body[c]) ELSE body[c]]

\* No MAC, no CIDR, a circuit id of blanks: 422.  A blank name counts as none.
Malformed(op, body) ==
    \E c \in Rewritten(op) \cap Known(op, body) :
        c # "name" /\ body[c] # NULL /\ Canon(body[c]) = NULL

\* The row a PUT or a POST of a body makes.
Put(row, body) ==
    LET data == Received("PUT", body) IN
    CASE page \in {"nas", "admins", "assignments"} -> Merge(row, data)
      [] page \in {"devices", "segments", "circuits"} -> MergeGiven(row, data)
      [] page = "users" -> Stored(Merge(row, data))

Posted(body) ==
    LET data == Received("POST", body)
    IN  IF page = "users" THEN Stored(data) ELSE Merge(NewRow, data)

Live == {i \in DOMAIN table : table[i] # NULL}

Replaced(body) ==
    IF page = "assignments" THEN {i \in Live : Twin(table[i], Received("POST", body))} ELSE {}

Added(rows) == table \o SetToSeq(rows)

\* Bulk import of devices: rows found by MAC are overwritten.
Upserted(body) ==
    LET row == Received("BULK", body)
        old == {i \in Live : table[i].mac = row.mac}
    IN  IF old = {} THEN Append(table, row) ELSE [table EXCEPT ![CHOOSE i \in old : TRUE] = row]

\* approve_jit_access: one Expiration row for each user.
Approved(user) ==
    LET row == [table |-> "radcheck", username |-> user, attribute |-> "Expiration",
                value |-> <<"text", "soon">>]
        old == {i \in Live : table[i].username = user /\ table[i].attribute = "Expiration"}
    IN  IF old = {} THEN Append(table, row) ELSE [table EXCEPT ![CHOOSE i \in old : TRUE] = row]

\* The table after request r, and the tables r can be carried out in.
After(r) ==
    CASE r.op = "POST" ->
            IF Replaced(r.body) = {} THEN Append(table, Posted(r.body))
            ELSE [table EXCEPT ![CHOOSE i \in Replaced(r.body) : TRUE] = Posted(r.body)]
      [] r.op = "PUT" -> [table EXCEPT ![r.id] = Put(@, r.body)]
      [] r.op = "DELETE" -> [table EXCEPT ![r.id] = NULL]
      [] r.op = "BULK" -> IF page = "devices" THEN Upserted(r.body) ELSE Added(r.body)
      [] r.op = "JIT" -> Approved(r.body)

\* The columns no two rows may share, and a payload that would make them.
\* CIDRs may not overlap either: equal ones do, others are left to Refuse.
UniqueColumns ==
    CASE page = "devices" -> {"mac"}
      [] page = "segments" -> {"name", "cidr"}
      [] page = "circuits" -> {"name", "circuit"}
      [] page = "admins" -> {"username"}
      [] OTHER -> {}

Clashes(id, data) ==
    \E c \in UniqueColumns \cap DOMAIN data, i \in Live \ {id} : table[i][c] = data[c]

Acceptable(r) ==
    /\ r.op \in {"PUT", "DELETE"} => r.id \in Live
    /\ r.op \in {"POST", "PUT"} =>
           ~Malformed(r.op, r.body) /\ ~Clashes(r.id, Received(r.op, r.body))
    /\ r.op = "BULK" /\ page = "devices" => ~Malformed(r.op, r.body)
    /\ r.op = "PUT" /\ page = "assignments" => r.body.nas # ""

-----------------------------------------------------------------------------
Idle == [state |-> "idle", rows |-> <<>>]
Asked == [state |-> "asked", rows |-> <<>>]

\* GET /users has the first rows of radcheck.
Checks(rows) == {i \in DOMAIN rows : rows[i] # NULL /\ rows[i].table = "radcheck"}
Listed(rows) ==
    IF page = "users"
    THEN [i \in DOMAIN rows |->
             IF i \in Checks(rows) /\ Cardinality(Checks(rows) \cap 1 .. i) <= UserLimit
             THEN rows[i] ELSE NULL]
    ELSE rows

Closed(f) == [mode |-> "closed", id |-> 0, shown |-> 0, start |-> f, form |-> f]

Init ==
    /\ page \in Pages
    /\ \E r \in Initial[page] : table = <<r>>
    /\ list = Listed(table) /\ fetch = Idle
    /\ modal = Closed(Blank)
    /\ calls = {} /\ sent = 0 /\ untold = FALSE

-----------------------------------------------------------------------------
(* The "Add" buttons.  On the NAS and administrator pages they open the    *)
(* form as it was left.                                                    *)
OpenCreate ==
    LET f == IF page \in {"nas", "admins"} THEN modal.form ELSE Blank
    IN  /\ modal.mode = "closed" /\ sent < MaxCalls
        /\ modal' = [mode |-> "create", id |-> 0, start |-> f, form |-> f,
                     shown |-> IF f = Blank THEN 0 ELSE modal.shown]
        /\ UNCHANGED <<page, table, list, fetch, calls, sent, untold>>

(* The edit button of a row of the list.                                   *)
OpenEdit ==
    /\ modal.mode = "closed" /\ sent < MaxCalls
    /\ \E i \in DOMAIN list :
        LET f == FormOf(list[i], modal.form)
        IN  /\ list[i] # NULL
            /\ modal' = [mode |-> "edit", id |-> i, shown |-> i, start |-> f, form |-> f]
    /\ UNCHANGED <<page, table, list, fetch, calls, sent, untold>>

Input ==
    /\ modal.mode # "closed" /\ sent < MaxCalls
    /\ \E f \in Inputs(modal.form) : f # modal.form /\ modal' = [modal EXCEPT !.form = f]
    /\ UNCHANGED <<page, table, list, fetch, calls, sent, untold>>

\* Mutant: closeModal forgets the row but not what the form holds.
Untouched(m) == [m EXCEPT !.mode = "closed", !.id = 0]

\* closeModal; the administrator page only hides the form.
Emptied(m) == Closed(IF page = "admins" THEN m.form ELSE Blank)

Cancel ==
    /\ modal.mode # "closed"
    /\ modal' = Emptied(modal)
    /\ UNCHANGED <<page, table, list, fetch, calls, sent, untold>>

-----------------------------------------------------------------------------
Call(kind, m, reqs) ==
    /\ sent < MaxCalls
    /\ sent' = sent + 1
    /\ calls' = calls \cup
           {[n |-> sent, kind |-> kind, shown |-> m.shown, reqs |-> reqs, begun |-> FALSE,
             opened |-> IF kind = "edit" THEN Body(m.start) ELSE NULL]}
    /\ UNCHANGED <<page, table, list, fetch, modal, untold>>

Requests ==
    LET f == modal.form IN
    IF modal.mode = "edit" THEN <<[op |-> "PUT", id |-> modal.id, body |-> Body(f)]>>
    ELSE CASE page = "users" ->
                  [k \in DOMAIN WizardPosts(f) |->
                      [op |-> "POST", id |-> 0, body |-> WizardPosts(f)[k]]]
           [] page = "assignments" /\ f.mode = "ip" ->
                  <<[op |-> "BULK", id |-> 0, body |-> BulkAssignments(f)]>>
           [] page = "admins" -> <<[op |-> "POST", id |-> 0, body |-> f.new]>>
           [] OTHER -> <<[op |-> "POST", id |-> 0, body |-> Body(f)]>>

Submit ==
    /\ modal.mode # "closed"
    /\ Required(modal.form)
    /\ page \in OneSaveAtATime => ~SavePending
    /\ Call(modal.mode, modal, Requests)

\* The button of the first administrator is disabled.
Deletable(row) == row # NULL /\ (page = "admins" => row.username # "admin")

(* The delete button of a row, with its confirmation where it has one.     *)
DeleteRow ==
    /\ modal.mode = "closed"
    /\ \E i \in DOMAIN list :
        /\ Deletable(list[i])
        /\ Call("delete", Closed(Blank), <<[op |-> "DELETE", id |-> i, body |-> NULL]>>)

(* Bulk import of the device page, and the JIT form of the user page.      *)
Import ==
    /\ page = "devices" /\ modal.mode = "closed"
    /\ \E d \in BulkDevices :
        Call("bulk", Closed(Blank), <<[op |-> "BULK", id |-> 0, body |-> d]>>)

Approve ==
    /\ page = "users" /\ modal.mode = "closed"
    /\ \E i \in DOMAIN list :
        /\ list[i] # NULL
        /\ Call("jit", Closed(Blank), <<[op |-> "JIT", id |-> 0, body |-> list[i].username]>>)

-----------------------------------------------------------------------------
(* The backend carries out the next request of a call.  The wizard sends   *)
(* its second one when the first is answered.                              *)
Serve(c) ==
    LET r == Head(c.reqs)
        rest == Tail(c.reqs)
    IN  /\ c.reqs # <<>>
        /\ Acceptable(r) /\ Len(After(r)) <= MaxId
        /\ table' = After(r)
        /\ calls' = (calls \ {c}) \cup
               {[c EXCEPT !.reqs = rest, !.begun = TRUE]}
        /\ UNCHANGED <<page, list, fetch, modal, sent, untold>>

(* It refuses one, or the answer is lost.  onError shows a message; the     *)
(* form stays and so does the list.                                        *)
Refuse(c) ==
    /\ calls' = calls \ {c}
    /\ untold' = (untold \/ c.begun)
    /\ UNCHANGED <<page, table, list, fetch, modal, sent>>

\* A form of its own for each mode: success touches the one that was sent.
OwnForms == {"admins", "users"}

Spent(kind, f) ==
    CASE page = "admins" /\ kind = "create" -> [f EXCEPT !.new = AdminNew]
      [] page = "admins" /\ kind = "edit" -> [f EXCEPT !.reset = ""]
      [] OTHER -> Blank

AfterSuccess(kind) ==
    CASE kind \notin {"create", "edit"} -> modal
      [] kind \in {"create", "edit"} /\ (page \notin OwnForms \/ modal.mode = kind) ->
            Closed(Spent(kind, modal.form))
      [] OTHER -> IF page = "admins" THEN [modal EXCEPT !.form = Spent(kind, @)] ELSE modal

\* Mutant: a delete leaves the list query alone.
RefetchedUnlessDelete(kind) == IF kind = "delete" THEN fetch ELSE Asked

Refetched(kind) == Asked

(* onSuccess: the list is invalidated and whatever form is open closes.    *)
Succeed(c) ==
    /\ c.reqs = <<>>
    /\ calls' = calls \ {c}
    /\ fetch' = Refetched(c.kind)
    /\ modal' = AfterSuccess(c.kind)
    /\ UNCHANGED <<page, table, list, sent, untold>>

-----------------------------------------------------------------------------
(* The list query, started again when the window gets the focus back; one   *)
(* that would read what the list holds is left out.                        *)
Focus ==
    /\ fetch.state = "idle" /\ (calls # {} \/ untold)
    /\ fetch' = Asked
    /\ UNCHANGED <<page, table, list, modal, calls, sent, untold>>

Read ==
    /\ fetch.state = "asked"
    /\ fetch' = [state |-> "read", rows |-> Listed(table)]
    /\ untold' = FALSE
    /\ UNCHANGED <<page, table, list, modal, calls, sent>>

Arrive ==
    /\ fetch.state = "read"
    /\ list' = fetch.rows /\ fetch' = Idle
    /\ UNCHANGED <<page, table, modal, calls, sent, untold>>

(* Another operator or an API client.  A device keeps its MAC.              *)
Foreign ==
    /\ sent < MaxCalls /\ sent' = sent + 1
    /\ \E i \in Live, r \in Seeds[page] \cup {NULL} :
        /\ r # table[i] /\ (r # NULL => ~Clashes(i, r))
        /\ page = "devices" /\ r # NULL => r.mac = table[i].mac
        /\ table' = [table EXCEPT ![i] = r]
    /\ untold' = TRUE
    /\ UNCHANGED <<page, list, fetch, modal, calls>>

(* The category manager of the NAS page: deleting a category empties the   *)
(* column in every row and invalidates the categories alone.               *)
RemoveCategory ==
    /\ page = "nas" /\ modal.mode = "closed"
    /\ sent < MaxCalls /\ sent' = sent + 1
    /\ \E c \in {table[i].cat : i \in Live} \ {NULL} :
        table' = [i \in DOMAIN table |->
            IF i \in Live /\ table[i].cat = c THEN [table[i] EXCEPT !.cat = NULL]
            ELSE table[i]]
    /\ untold' = TRUE
    /\ UNCHANGED <<page, list, fetch, modal, calls>>

Next ==
    \/ OpenCreate \/ OpenEdit \/ Input \/ Cancel
    \/ Submit \/ DeleteRow \/ Import \/ Approve
    \/ \E c \in calls : Serve(c) \/ Refuse(c) \/ Succeed(c)
    \/ Focus \/ Read \/ Arrive
    \/ Foreign \/ RemoveCategory

Spec == Init /\ [][Next]_vars

-----------------------------------------------------------------------------
TypeOK ==
    /\ page \in Pages
    /\ Len(table) \in 1 .. MaxId /\ Len(list) \in 1 .. MaxId
    /\ fetch.state \in {"idle", "asked", "read"}
    /\ modal.mode \in {"closed", "create", "edit"} /\ modal.id \in 0 .. MaxId
    /\ sent \in 0 .. MaxCalls /\ Cardinality(calls) <= sent
    /\ \A c \in calls : c.n < sent /\ (c.begun \/ c.reqs # <<>>)
    /\ untold \in BOOLEAN

(* A submit goes to the row whose values filled the form, and a new row is
   made from an empty form: whatever late onSuccess closed a form, or
   Cancel, or the page that opens it as it was left (NAS.jsx:181). *)
TargetIsShown ==
    /\ modal.mode # "closed" => modal.id = modal.shown
    /\ \A c \in calls : c.kind = "edit" /\ c.reqs # <<>> => Head(c.reqs).id = c.shown

(* The list shows the table once nothing is under way, unless somebody else
   wrote it or a save of several requests failed half way: each onSuccess
   invalidates the list after its own write, and drops a fetch that may have
   read before it. *)
ListCatchesUp ==
    calls = {} /\ fetch.state = "idle" /\ ~untold => list = Listed(table)

Served(c) == \E d \in calls' : d.n = c.n /\ Len(d.reqs) < Len(c.reqs)

Same(x, y) == Text(x) = Text(y)

(* The columns of a policy that its edit form sends otherwise than the row
   has them: those of another mode (AssignmentsTab.jsx:235 sends the columns
   of one and the PUT assigns all; a row with the end of a range and no start
   opens as "segment", :205), and the end of a range that has only a start,
   which :254 fills in. *)
Reshaped(row) ==
    LET columns == Sent[ModeOf(row)]
    IN  {c \in Target \ columns : row[c] # NULL} \cup {c \in {"end"} \cap columns : Text(row[c]) = ""}

(* The columns a form cannot carry.  Besides those: an MD5-Password
   (Users.jsx shows the hash and users.py:89 hashes it again), a shortname
   that starts with OTHER- (NAS.jsx:128 drops the prefix). *)
Uncarried(row) ==
    CASE page = "assignments" -> Reshaped(row)
      [] page = "users" -> IF row.attribute = "MD5-Password" THEN {"value"} ELSE {}
      [] page = "nas" -> IF Len(row.name) > 1 /\ Head(row.name) = "OTHER" THEN {"name"} ELSE {}
      [] OTHER -> {}

(* What carrying out the edit c makes of each column of its row. *)
KeepsRest(c) ==
    LET r == Head(c.reqs)
        old == table[r.id]
        new == table'[r.id]
        now == Body(FormOf(old, AdminBlank))
    IN  \A col \in DOMAIN old \ (Uncarried(old) \cup Uncarried(new)) :
            \/ Same(old[col], new[col])
            \/ /\ col \in DOMAIN r.body
               /\ \/ col \notin DOMAIN c.opened
                  \/ r.body[col] # c.opened[col]
                  \/ c.opened[col] # now[col]

(* Saving an edit changes a column only if the user changed its input or
   somebody else changed the row since the list was read: the columns a form
   has no input for, and those left alone, stay as they were.  A policy with a
   CIR, an identifier or half a range keeps the others. *)
RestKept == \A c \in calls : c.kind = "edit" /\ Served(c) => KeepsRest(c)
EditKeepsRest == [][RestKept]_vars

(* Clearing a field of a device has no effect: DeviceRegistry.jsx:104 sends
   null, or the validator makes it of blanks, and device_registry.py:179
   leaves null columns alone. *)
Cleared(c) ==
    LET data == Received("PUT", Head(c.reqs).body)
    IN  page = "devices" /\ c.kind = "edit" /\ \E col \in {"name", "cat"} : data[col] = NULL

(* Two spellings of one stored text are as good as each other. *)
SameText(col, x, y) == x = y \/ (col \in Rewritten("POST") /\ Canon(x) = Canon(y))

(* Where the row is that carrying out c saved. *)
ShownIn(c, i) ==
    LET r == Head(c.reqs)
        again == Body(FormOf(table'[i], AdminBlank))
    IN  /\ c.kind = "edit" => i = c.shown
        /\ table'[i] # NULL
        /\ \A col \in DOMAIN again \ Uncarried(table'[i]) : SameText(col, again[col], r.body[col])

(* What was saved is what the form, opened again on the row, would send, but
   for the spelling of a MAC, a CIDR, a circuit id or the name of a device:
   nothing that was typed is lost on the way to the table and back. *)
ShownAgain ==
    \A c \in calls :
        Served(c) /\ Head(c.reqs).op \in {"POST", "PUT"} /\ ~Cleared(c) =>
            \E i \in DOMAIN table' : ShownIn(c, i)
SavedAsShown == [][ShownAgain]_vars
=============================================================================
