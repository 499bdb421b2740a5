------------------------------ MODULE GroupsPage ------------------------------
(***************************************************************************)
(* The policy page of the panel (pages/Policies.jsx): RADIUS groups and    *)
(* their reply and check attributes, with the handlers of                  *)
(* routers/groups.py behind it.  A group is nothing but the name its rows  *)
(* bear.                                                                   *)
(*                                                                         *)
(* The page caches the rows of each group it showed, by name.              *)
(* invalidateQueries is handed an array, which React Query 5 takes for a   *)
(* filter that fits every query: those on the page are fetched again, the  *)
(* others when they are shown next.  The list of names may be behind: it   *)
(* offers any name.  value stands for an attribute with its value.         *)
(***************************************************************************)
EXTENDS Integers, Sequences, FiniteSets

CONSTANTS
    NULL,
    GroupNames,
    Values,     \* not ""
    MaxRows,    \* bound: rows of one table, ever
    MaxRequests \* bound: requests of the page

VARIABLES
    rows,       \* table -> its rows by id, NULL where one was deleted
    cache,      \* the rows the query of each group holds, NULL before the first
    query,      \* its state: idle, asked, or the answer under way
    selected,   \* selectedGroup
    rename,     \* groupFormData and whether its dialog is open
    attr,       \* attributeFormData, its dialog, and the table the row is of
    requests,   \* of the page, not answered yet
    made,       \* counts towards MaxRequests
    moved       \* observer: rows that were renamed, or saved as of another type

vars == <<rows, cache, query, selected, rename, attr, requests, made, moved>>

Types == {"reply", "check"}

Ids(t) == {i \in DOMAIN rows[t] : rows[t][i] # NULL}
Bearing(t, g) == {i \in Ids(t) : rows[t][i].group = g}

NoForm == [open |-> FALSE, type |-> "reply", group |-> NULL, value |-> "", id |-> 0, of |-> "reply"]
NoRename == [open |-> FALSE, old |-> NULL, new |-> NULL]
Waiting == [state |-> "idle", data |-> {}]
Asked == [state |-> "asked", data |-> {}]

Init ==
    /\ \E g \in GroupNames :
        rows = [t \in Types |->
            <<[group |-> IF t = "reply" THEN CHOOSE h \in GroupNames : TRUE ELSE g,
               value |-> CHOOSE v \in Values : TRUE]>>]
    /\ cache = [k \in GroupNames |-> NULL]
    /\ query = [k \in GroupNames |-> Waiting]
    /\ selected = NULL
    /\ rename = NoRename /\ attr = NoForm
    /\ requests = {} /\ made = 0 /\ moved = {}

-----------------------------------------------------------------------------
(* Queries.                                                                *)

\* Mutant: the key of the details query leaves the group out.
OneKey(g) == CHOOSE h \in GroupNames : TRUE

DetailKey(g) == g

Shown ==
    IF selected = NULL \/ cache[DetailKey(selected)] = NULL THEN {}
    ELSE cache[DetailKey(selected)]

\* The query of a group that comes on the page; one under way is joined.
Mounted(q, g) ==
    IF g # NULL /\ q[DetailKey(g)].state = "idle"
    THEN [q EXCEPT ![DetailKey(g)] = Asked] ELSE q

\* A first load under way is joined too, any other fetch is dropped.
Invalidated ==
    [k \in GroupNames |->
        IF selected # NULL /\ k = DetailKey(selected)
           /\ (query[k].state = "idle" \/ cache[k] # NULL)
        THEN Asked ELSE query[k]]

\* GET /groups/by-name.
Answered(k) ==
    UNION {{[type |-> t, id |-> i, value |-> rows[t][i].value] : i \in Bearing(t, k)} : t \in Types}

Read(k) ==
    /\ query[k].state = "asked"
    /\ query' = [query EXCEPT ![k] = [state |-> "read", data |-> Answered(k)]]
    /\ UNCHANGED <<rows, cache, selected, rename, attr, requests, made, moved>>

(* A group without rows is answered with 404: what was shown stays.        *)
Arrive(k) ==
    /\ query[k].state = "read"
    /\ query' = [query EXCEPT ![k] = Waiting]
    /\ cache' = IF query[k].data = {} THEN cache ELSE [cache EXCEPT ![k] = query[k].data]
    /\ UNCHANGED <<rows, selected, rename, attr, requests, made, moved>>

Quiet == UNCHANGED <<rows, cache, requests, made, moved>>
NoDialog == ~rename.open /\ ~attr.open

-----------------------------------------------------------------------------
(* The list on the left, and the dialog that renames a group of it.        *)
Select(g) ==
    /\ NoDialog /\ made < MaxRequests
    /\ g # selected
    /\ selected' = g /\ query' = Mounted(query, g)
    /\ UNCHANGED <<rename, attr>> /\ Quiet

OpenRename(g) ==
    /\ NoDialog /\ made < MaxRequests
    /\ rename' = [open |-> TRUE, old |-> g, new |-> g]
    /\ UNCHANGED <<query, selected, attr>> /\ Quiet

TypeName ==
    /\ rename.open /\ made < MaxRequests
    /\ \E g \in GroupNames : g # rename.new /\ rename' = [rename EXCEPT !.new = g]
    /\ UNCHANGED <<query, selected, attr>> /\ Quiet

\* Cancel of either dialog.  A rename under way will read what was typed.
Cancel ==
    /\ rename.open \/ attr.open
    /\ rename' = IF \E r \in requests : r.kind = "rename" THEN [rename EXCEPT !.open = FALSE]
                 ELSE NoRename
    /\ attr' = NoForm
    /\ UNCHANGED <<query, selected>> /\ Quiet

\* A request under its number, with no answer yet.
Numbered(r) ==
    [c \in DOMAIN r \cup {"n", "done"} |->
        CASE c = "n" -> made [] c = "done" -> FALSE [] OTHER -> r[c]]

Send(r) ==
    /\ made < MaxRequests /\ made' = made + 1
    /\ requests' = requests \cup {Numbered(r)}
    /\ UNCHANGED <<rows, cache, query, selected, rename, attr, moved>>

SaveRename ==
    rename.open /\ Send([kind |-> "rename", old |-> rename.old, new |-> rename.new])

(* The dialog "Nueva Política": a group begins as one Description.         *)
CreateGroup ==
    NoDialog /\ \E g \in GroupNames :
        Send([kind |-> "create", body |-> [group |-> g, value |-> CHOOSE v \in Values : TRUE]])

DeleteGroup == NoDialog /\ selected # NULL /\ Send([kind |-> "drop", group |-> selected])

-----------------------------------------------------------------------------
(* The rows of the selected group and the dialog that edits one.           *)
OpenAdd ==
    /\ NoDialog /\ selected # NULL /\ made < MaxRequests
    /\ attr' = [NoForm EXCEPT !.open = TRUE, !.group = selected]
    /\ UNCHANGED <<query, selected, rename>> /\ Quiet

OpenEdit ==
    /\ NoDialog /\ made < MaxRequests
    /\ \E a \in Shown :
        attr' = [open |-> TRUE, type |-> a.type, group |-> selected, value |-> a.value,
                 id |-> a.id, of |-> a.type]
    /\ UNCHANGED <<query, selected, rename>> /\ Quiet

(* The type stays selectable while a row is edited.                        *)
InputAttribute ==
    /\ attr.open /\ made < MaxRequests
    /\ \E t \in Types, v \in Values :
        attr' = [attr EXCEPT !.type = t, !.value = v] /\ attr' # attr
    /\ UNCHANGED <<query, selected, rename>> /\ Quiet

SaveAttribute ==
    /\ attr.open /\ attr.value # ""
    /\ Send([kind |-> IF attr.id = 0 THEN "add" ELSE "edit",
             type |-> attr.type, id |-> attr.id, of |-> attr.of,
             body |-> [group |-> attr.group, value |-> attr.value]])

DeleteAttribute ==
    NoDialog /\ \E a \in Shown : Send([kind |-> "delete", type |-> a.type, id |-> a.id])

-----------------------------------------------------------------------------
(* routers/groups.py.  A rename takes the rows of a group of the new name  *)
(* together with those of the old.                                         *)
Renamed(old, new) ==
    [t \in Types |-> [i \in DOMAIN rows[t] |->
        IF i \in Bearing(t, old) THEN [rows[t][i] EXCEPT !.group = new] ELSE rows[t][i]]]

Without(g) ==
    [t \in Types |-> [i \in DOMAIN rows[t] |-> IF i \in Bearing(t, g) THEN NULL ELSE rows[t][i]]]

Inserted(t, row) == [rows EXCEPT ![t] = Append(@, row)]

Effect(r) ==
    CASE r.kind = "rename" -> Renamed(r.old, r.new)
      [] r.kind = "drop"   -> Without(r.group)
      [] r.kind = "create" -> Inserted("reply", r.body)
      [] r.kind = "add"    -> Inserted(r.type, r.body)
      [] r.kind = "edit"   -> [rows EXCEPT ![r.type][r.id] = r.body]
      [] r.kind = "delete" -> [rows EXCEPT ![r.type][r.id] = NULL]

\* 404 for what is not there.
Found(r) ==
    /\ r.kind \in {"edit", "delete"} => r.id \in Ids(r.type)
    /\ r.kind = "rename" => \E t \in Types : Bearing(t, r.old) # {}
    /\ r.kind = "create" => Len(rows["reply"]) < MaxRows
    /\ r.kind = "add" => Len(rows[r.type]) < MaxRows

Moved(r) ==
    CASE r.kind = "rename" -> UNION {{<<t, i>> : i \in Bearing(t, r.old)} : t \in Types}
      [] r.kind = "edit" /\ r.type # r.of -> {<<r.type, r.id>>}
      [] OTHER -> {}

Serve(r) ==
    /\ ~r.done /\ Found(r)
    /\ rows' = Effect(r)
    /\ moved' = moved \cup Moved(r)
    /\ requests' = (requests \ {r}) \cup {[r EXCEPT !.done = TRUE]}
    /\ UNCHANGED <<cache, query, selected, rename, attr, made>>

\* Refused, or the answer is lost: a toast.
Fail(r) ==
    /\ requests' = requests \ {r}
    /\ UNCHANGED <<rows, cache, query, selected, rename, attr, made, moved>>

(* onSuccess.  The group selected after a rename is the one the dialog     *)
(* names by then.                                                          *)
Succeed(r) ==
    /\ r.done
    /\ requests' = requests \ {r}
    /\ selected' = CASE r.kind = "rename" -> rename.new
                     [] r.kind = "drop"   -> NULL
                     [] OTHER             -> selected
    /\ query' = Mounted(Invalidated, selected')
    /\ rename' = IF r.kind = "rename" THEN NoRename ELSE rename
    /\ attr' = IF r.kind \in {"add", "edit"} THEN NoForm ELSE attr
    /\ UNCHANGED <<rows, cache, made, moved>>

Next ==
    \/ \E g \in GroupNames : Read(g) \/ Arrive(g) \/ Select(g) \/ OpenRename(g)
    \/ TypeName \/ Cancel \/ SaveRename \/ CreateGroup \/ DeleteGroup
    \/ OpenAdd \/ OpenEdit \/ InputAttribute \/ SaveAttribute \/ DeleteAttribute
    \/ \E r \in requests : Serve(r) \/ Fail(r) \/ Succeed(r)

Spec == Init /\ [][Next]_vars

-----------------------------------------------------------------------------
TypeOK ==
    /\ DOMAIN rows = Types /\ \A t \in Types : Len(rows[t]) <= MaxRows
    /\ \A k \in GroupNames : query[k].state \in {"idle", "asked", "read"}
    /\ selected \in GroupNames \cup {NULL}
    /\ attr.type \in Types /\ (attr.open => attr.group \in GroupNames)
    /\ rename.open => rename.old \in GroupNames /\ rename.new \in GroupNames
    /\ made \in 0 .. MaxRequests /\ Cardinality(requests) <= made
    /\ \A p \in moved : p[1] \in Types /\ p[2] \in 1 .. MaxRows

\* r is an edit that this step carries out.
Edits(r) == r.kind = "edit" /\ ~r.done /\ [r EXCEPT !.done = TRUE] \in requests'

StaysInGroup ==
    \A r \in requests : Edits(r) =>
        \/ <<r.type, r.id>> \in moved'
        \/ rows'[r.type][r.id].group = rows[r.type][r.id].group

(* Saving an edited attribute leaves it in its group, although the request
   names whichever group is selected as the dialog opens: the rows shown are
   those of that group, also while those of a newly selected one load or
   after late answers.  Not: a row that a rename ever moved, and one of
   the other table that has the same id (Policies.jsx:614). *)
EditStaysInGroup == [][StaysInGroup]_vars
=============================================================================
