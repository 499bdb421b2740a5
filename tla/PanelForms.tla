------------------------------ MODULE PanelForms ------------------------------
(***************************************************************************)
(* The forms of the panel, as functions: for each page with a create/edit  *)
(* form, what the form starts from, how a row of the list fills it, what   *)
(* an input changes, what a submit sends, and what the backend makes of    *)
(* it.  PanelEditor is the state machine around them.                      *)
(*                                                                         *)
(* A column of free text is a member of Texts, "" included; columns that   *)
(* one page treats alike are one column here.  A text the backend rewrites *)
(* before it stores it (a MAC, a CIDR, a circuit id, the name of a device) *)
(* is a member of Spellings.  A shortname is the sequence of its parts     *)
(* between dashes.  NULL is the database's NULL and JavaScript's null: Put *)
(* says what the backend does with it.                                     *)
(***************************************************************************)
EXTENDS Integers, Sequences, FiniteSets

CONSTANTS
    NULL,
    Texts,      \* what a user may type, "" included
    Spellings,  \* what a user may type where the backend rewrites it
    Canonical,  \* spelling -> what is stored of it, "" if nothing is left
    Shortnames, \* shortnames a user may type
    Nases,      \* nasnames the forms offer
    MaxLeft     \* bound: target fields filled in when the mode is changed

\* "x ?? ''" and "x || ''"
Text(x) == IF x = NULL THEN "" ELSE x
\* "x || null"
Filled(x) == IF x = "" THEN NULL ELSE x

\* A MAC without separators and in lower case, a CIDR without host bits, a
\* name or circuit id without the blanks around it.
Canon(x) == IF x \in Spellings THEN Filled(Canonical[x]) ELSE x

\* The columns of the body over those of the row.
Merge(row, body) ==
    [c \in DOMAIN row |-> IF c \in DOMAIN body THEN body[c] ELSE row[c]]
\* Mutant: "if data.active" takes 0 for a column that was not sent.
MergeTruthy(row, body) ==
    [c \in DOMAIN row |->
        IF c \in DOMAIN body /\ body[c] # NULL /\ (c = "active" => body[c] # 0)
        THEN body[c] ELSE row[c]]

\* "if data.x is not None", model_dump(exclude_none=True)
MergeGiven(row, body) ==
    [c \in DOMAIN row |->
        IF c \in DOMAIN body /\ body[c] # NULL THEN body[c] ELSE row[c]]

Typed(f, c) == {[f EXCEPT ![c] = t] : t \in Texts}
\* An input the form does not submit empty; emptying it is left out.
Given == Texts \ {""}
TypedSome(f, c) == {[f EXCEPT ![c] = t] : t \in Given}
Spelled(f, c) == {[f EXCEPT ![c] = s] : s \in Spellings}

-----------------------------------------------------------------------------
(* pages/NAS.jsx.  secret stands for nasname and type too, ports for the   *)
(* columns the form has no input for.                                      *)
NamePrefixes == {"AP", "SM", "PTZ", "SW", "RTR", "FW", "WLC", "OTHER"}

NasBlank == [secret |-> "", cat |-> "", prefix |-> "AP", name |-> <<>>]

\* No input sets the prefix: it is shown nowhere and goes back as it came.
NasForm(row) ==
    LET known == Len(row.name) > 1 /\ Head(row.name) \in NamePrefixes
    IN  [secret |-> row.secret,
         cat    |-> Text(row.cat),
         prefix |-> IF known THEN Head(row.name) ELSE "OTHER",
         name   |-> IF known THEN Tail(row.name) ELSE row.name]

NasBody(f) ==
    [secret |-> f.secret,
     cat    |-> Filled(f.cat),
     name   |-> IF f.prefix = "OTHER" THEN f.name ELSE <<f.prefix>> \o f.name]

NasInputs(f) ==
    {[f EXCEPT !.name = n] : n \in Shortnames} \cup TypedSome(f, "secret") \cup Typed(f, "cat")

NasRequired(f) == f.name # <<>> /\ f.secret # ""

-----------------------------------------------------------------------------
(* pages/DeviceRegistry.jsx.  name stands for nas_ip too, cat for          *)
(* description.                                                            *)
DeviceBlank == [mac |-> "", name |-> "", cat |-> "", active |-> 1]

DeviceForm(row) ==
    [mac |-> row.mac, name |-> Text(row.name), cat |-> Text(row.cat), active |-> row.active]

DeviceBody(f) ==
    [mac |-> f.mac, name |-> Filled(f.name), cat |-> Filled(f.cat), active |-> f.active]

\* The MAC is fixed while editing.
DeviceInputs(f, editing) ==
    (IF editing THEN {} ELSE Spelled(f, "mac"))
    \cup Spelled(f, "name") \cup {[f EXCEPT !.name = ""]}
    \cup Typed(f, "cat") \cup {[f EXCEPT !.active = 1 - @]}

\* One line of the pasted list, its fields trimmed; a line that lacks one stops
\* the import.
Trimmed == {Canonical[s] : s \in Spellings} \ {""}
BulkDevices ==
    {[mac |-> m, name |-> n, cat |-> Filled(c), active |-> 1] :
        m \in Spellings, n \in Trimmed, c \in Texts}

-----------------------------------------------------------------------------
(* pages/NetworkSegments.jsx.                                              *)
SegmentBlank == [name |-> "", cidr |-> "", description |-> ""]
SegmentForm(row) ==
    [name |-> row.name, cidr |-> row.cidr, description |-> Text(row.description)]
SegmentInputs(f) ==
    TypedSome(f, "name") \cup Spelled(f, "cidr") \cup Typed(f, "description")

(* pages/CircuitPage.jsx.  carrier stands for description too, active for  *)
(* type.                                                                   *)
CircuitBlank == [name |-> "", circuit |-> "", carrier |-> "", active |-> 1]
CircuitForm(row) ==
    [name |-> row.name, circuit |-> row.circuit, carrier |-> Text(row.carrier),
     active |-> row.active]
CircuitInputs(f) ==
    TypedSome(f, "name") \cup Spelled(f, "circuit") \cup Typed(f, "carrier")
    \cup {[f EXCEPT !.active = a] : a \in {0, 1}}

-----------------------------------------------------------------------------
(* pages/AdminUsers.jsx: newUser, kept when the create form is cancelled,  *)
(* and editingUser with passwordReset.                                     *)
AdminNew == [username |-> "", password |-> "", active |-> 1]
AdminBlank == [new |-> AdminNew, active |-> 1, reset |-> ""]
AdminForm(row, f) == [f EXCEPT !.active = row.active, !.reset = ""]

\* Mutant: the password input is sent although it was left empty.
AdminBodyWithPassword(f) == [active |-> f.active, password |-> f.reset]

AdminBody(f) ==
    IF f.reset = "" THEN [active |-> f.active]
    ELSE [active |-> f.active, password |-> f.reset]
AdminInputs(f, editing) ==
    IF editing
    THEN Typed(f, "reset") \cup {[f EXCEPT !.active = a] : a \in {0, 1}}
    ELSE {[f EXCEPT !.new = n] :
              n \in TypedSome(f.new, "username") \cup TypedSome(f.new, "password")}

-----------------------------------------------------------------------------
(* pages/Users.jsx and the wizard that creates users.  A row is one of     *)
(* radcheck or of radreply; an MD5-Password is stored as the hash of what  *)
(* the form sent.                                                          *)
Attributes == {"Cleartext-Password", "MD5-Password"}

Hashed(v) == <<"md5", v>>
Stored(row) == IF row.attribute = "MD5-Password" THEN [row EXCEPT !.value = Hashed(@)] ELSE row

WizardBlank ==
    [table |-> "radcheck", username |-> "", attribute |-> "Cleartext-Password",
     value |-> <<"text", "">>, replies |-> <<>>]

\* The edit form is the row itself, every column an input.
UserForm(row) == Merge(WizardBlank, row)

UserInputs(f) ==
    TypedSome(f, "username")
    \cup {[f EXCEPT !.attribute = a] : a \in Attributes}
    \cup {[f EXCEPT !.value = <<"text", t>>] : t \in Given}

WizardInputs(f) ==
    UserInputs(f)
    \cup {[f EXCEPT !.replies = IF @ = <<>> THEN Append(@, t) ELSE <<>>] : t \in Given}

UserBody(f) == [table |-> f.table, username |-> f.username,
                attribute |-> f.attribute, value |-> f.value]

\* submitMutation: the password first, then each reply attribute.
WizardPosts(f) ==
    <<UserBody(f)>> \o
    [i \in DOMAIN f.replies |->
        [table |-> "radreply", username |-> f.username, attribute |-> "Reply",
         value |-> <<"text", f.replies[i]>>]]

-----------------------------------------------------------------------------
(* components/access-policies/AssignmentsTab.jsx, the policies of one      *)
(* selected user.  start and end are target_start_ip and target_end_ip,    *)
(* group stands for the other columns of the right half of the form; cir   *)
(* and ident (nas_identifier) have no place in it.                         *)
Target == {"seg", "start", "end", "cat", "mac", "nas", "cir", "ident"}

AssignmentBlank ==
    [mode |-> "segment", seg |-> NULL, start |-> "", end |-> "", cat |-> NULL, mac |-> "",
     nas |-> "", nases |-> {}, group |-> ""]

\* An end alone does not make a range.
ModeOf(row) ==
    CASE row.seg # NULL -> IF Text(row.start) # "" THEN "ip_range" ELSE "segment"
      [] row.seg = NULL /\ row.cat # NULL -> "category"
      [] row.seg = NULL /\ row.cat = NULL /\ row.mac # NULL ->
            IF row.nas # NULL THEN "mac_plus_ip" ELSE "mac"
      [] OTHER -> "ip"

AssignmentForm(row) ==
    [mode |-> ModeOf(row), seg |-> row.seg, start |-> Text(row.start), end |-> Text(row.end),
     cat |-> row.cat, mac |-> Text(row.mac), nas |-> Text(row.nas), nases |-> {},
     group |-> row.group]

\* The columns handleSubmit fills for each mode; the others stay undefined.
Sent == [segment |-> {"seg"}, ip_range |-> {"seg", "start", "end"}, category |-> {"cat"},
         mac |-> {"mac"}, mac_plus_ip |-> {"mac", "nas"}, ip |-> {"nas"}]

\* "single IP if end is empty"
LastOf(f) == IF f.end = "" THEN f.start ELSE f.end

AssignmentBody(f) ==
    [c \in Target \cup {"group"} |->
        IF c \notin Sent[f.mode] \cup {"group"} THEN NULL
        ELSE IF c = "end" THEN LastOf(f) ELSE f[c]]

\* One row for each NAS ticked.
BulkAssignments(f) == {[AssignmentBody(f) EXCEPT !.nas = n] : n \in f.nases}

\* A mode button clears the category, and the ticks unless it is "ip".
ModeInputs(f) ==
    {[f EXCEPT !.mode = m, !.cat = NULL, !.nases = {}] :
        m \in {"segment", "ip_range", "mac", "mac_plus_ip"}}
    \cup {[f EXCEPT !.mode = "ip", !.cat = NULL]}

\* "Switch to Category Target", below the mode buttons once unfolded.
LegacyInputs(f) == {[f EXCEPT !.mode = "category", !.nases = {}]}

\* Leaving the MAC input may respell it; that is typing another spelling.
TargetValues(f) ==
    LET S == TypedSome(f, "seg")
        M == Spelled(f, "mac")
    IN  CASE f.mode = "segment"     -> S
          [] f.mode = "ip_range"    -> S \cup TypedSome(f, "start") \cup Typed(f, "end")
          [] f.mode = "category"    -> TypedSome(f, "cat")
          [] f.mode = "mac"         -> M
          [] f.mode = "mac_plus_ip" -> M \cup {[f EXCEPT !.nas = n] : n \in Nases}
          [] f.mode = "ip"          -> {[f EXCEPT !.nases = s] : s \in SUBSET Nases}

FilledIn(f) ==
    Cardinality({c \in {"seg", "start", "end", "cat", "mac", "nas"} : f[c] \notin {NULL, ""}})

\* Editing, the target is shown and cannot be changed.
TargetInputs(f, editing) ==
    IF editing THEN {}
    ELSE TargetValues(f)
         \cup (IF FilledIn(f) <= MaxLeft THEN ModeInputs(f) \cup LegacyInputs(f) ELSE {})

AssignmentInputs(f, editing) == TypedSome(f, "group") \cup TargetInputs(f, editing)

\* The end of a range is optional.
AssignmentRequired(f) ==
    /\ f.group # ""
    /\ f.mode # "ip" => \A c \in Sent[f.mode] \ {"end"} : f[c] # NULL /\ f[c] # ""

\* build_segment_target_key: without a bound the segment itself is meant.
TargetOf(row) ==
    IF Text(row.start) = "" /\ Text(row.end) = "" THEN <<row.seg>>
    ELSE <<row.seg, row.start, row.end>>

\* find_existing_assignment: the row a POST from this form replaces.
Twin(row, body) ==
    IF body.mac # NULL THEN row.mac = body.mac /\ row.nas = body.nas
    ELSE IF body.cat # NULL THEN row.cat = body.cat /\ row.nas = NULL /\ row.seg = NULL
    ELSE TargetOf(row) = TargetOf(body)
=============================================================================
