--------------------------- MODULE PanelEditorProofs ---------------------------
(***************************************************************************)
(* Theorems about the pages of the panel, for any tables, forms and        *)
(* numbers of requests.                                                    *)
(***************************************************************************)
EXTENDS MCPanel, FiniteSetTheorems, TLAPS

ModalFields == {"mode", "id", "shown", "start", "form"}
CallFields == {"n", "kind", "shown", "reqs", "begun", "opened"}

(* The form names one row in both its fields, and none when it is closed: the
   page that opens it as it was left finds nothing there but the inputs. *)
FormNamesOne ==
    /\ modal = [c \in ModalFields |-> modal[c]]
    /\ modal.id = modal.shown
    /\ modal.mode = "closed" => modal.shown = 0

(* A save that was begun but not carried out is a single request. *)
Aimed(c) ==
    /\ c = [f \in CallFields |-> c[f]]
    /\ c.kind = "edit" => c.reqs = <<>> \/ \E r : c.reqs = <<r>> /\ r.id = c.shown

IInv == FormNamesOne /\ \A c \in calls : Aimed(c)

-----------------------------------------------------------------------------
(* A closed form names no row. *)
LEMMA ClosedNamesNone ==
    ASSUME NEW f
    PROVE  /\ Closed(f) = [c \in ModalFields |-> Closed(f)[c]]
           /\ Closed(f).id = 0 /\ Closed(f).shown = 0 /\ Closed(f).mode = "closed"
BY DEF Closed, ModalFields

(* A request taken up for the form m goes to the row m names. *)
LEMMA CallAimed ==
    ASSUME NEW kind, NEW m, NEW reqs, Call(kind, m, reqs), \A c \in calls : Aimed(c),
           kind = "edit" => \E r : reqs = <<r>> /\ r.id = m.shown
    PROVE  \A c \in calls' : Aimed(c)
<1>. DEFINE new == [n |-> sent, kind |-> kind, shown |-> m.shown, reqs |-> reqs, begun |-> FALSE,
                    opened |-> IF kind = "edit" THEN Body(m.start) ELSE NULL]
<1>1. calls' = calls \cup {new}
  BY DEF Call
<1>2. new = [f \in CallFields |-> new[f]]
  BY DEF CallFields
<1>3. new.kind = kind /\ new.reqs = reqs /\ new.shown = m.shown
  OBVIOUS
<1>4. Aimed(new)
  BY <1>2, <1>3 DEF Aimed
<1>. QED
  BY <1>1, <1>4

(* A request carried out leaves none behind in a save. *)
LEMMA ServedAimed ==
    ASSUME NEW c, Aimed(c), c.reqs # <<>>
    PROVE  Aimed([c EXCEPT !.reqs = Tail(c.reqs), !.begun = TRUE])
<1>. DEFINE d == [c EXCEPT !.reqs = Tail(c.reqs), !.begun = TRUE]
<1>1. d = [f \in CallFields |-> d[f]]
  BY DEF Aimed, CallFields
<1>2. d.kind = c.kind /\ d.reqs = Tail(c.reqs)
  BY DEF Aimed, CallFields
<1>3. ASSUME NEW r, c.reqs = <<r>> PROVE d.reqs = <<>>
  BY <1>2, <1>3
<1>. QED
  BY <1>1, <1>2, <1>3 DEF Aimed

-----------------------------------------------------------------------------
(* A page starts with a closed form and no request. *)
LEMMA InitAimed == Init => IInv
BY ClosedNamesNone DEF Init, IInv, FormNamesOne

(* Every button, input, answer and late onSuccess keeps it so. *)
LEMMA StepAimed ==
    ASSUME IInv, [Next]_vars
    PROVE  IInv'
<1>1. CASE OpenCreate
  <2>1. PICK f, start, x : /\ modal' = [mode |-> "create", id |-> 0, start |-> start, form |-> f,
                                       shown |-> x]
                           /\ x \in {0, modal.shown} /\ modal.mode = "closed"
    BY <1>1 DEF OpenCreate
  <2>2. modal' = [c \in ModalFields |-> modal'[c]]
    BY <2>1 DEF ModalFields
  <2>3. modal'.id = 0 /\ modal'.shown = 0 /\ modal'.mode = "create"
    BY <2>1 DEF IInv, FormNamesOne
  <2>. QED
    BY <1>1, <2>2, <2>3 DEF OpenCreate, IInv, FormNamesOne
<1>2. CASE OpenEdit
  <2>1. PICK f, i : modal' = [mode |-> "edit", id |-> i, shown |-> i, start |-> f, form |-> f]
    BY <1>2 DEF OpenEdit
  <2>2. modal' = [c \in ModalFields |-> modal'[c]]
    BY <2>1 DEF ModalFields
  <2>3. modal'.id = modal'.shown /\ modal'.mode = "edit"
    BY <2>1
  <2>. QED
    BY <1>2, <2>2, <2>3 DEF OpenEdit, IInv, FormNamesOne
<1>3. CASE Input
  <2>1. PICK f : modal' = [modal EXCEPT !.form = f]
    BY <1>3 DEF Input
  <2>2. FormNamesOne'
    BY <2>1 DEF IInv, FormNamesOne, ModalFields
  <2>. QED
    BY <1>3, <2>2 DEF Input, IInv
<1>4. CASE Cancel
  <2>1. FormNamesOne'
    BY <1>4, ClosedNamesNone DEF Cancel, Emptied, FormNamesOne
  <2>. QED
    BY <1>4, <2>1 DEF Cancel, IInv
<1>5. CASE Submit
  <2>1. Call(modal.mode, modal, Requests) /\ modal.mode # "closed"
    BY <1>5 DEF Submit
  <2>2. ASSUME modal.mode = "edit"
        PROVE  \E r : Requests = <<r>> /\ r.id = modal.shown
    <3>1. Requests = <<[op |-> "PUT", id |-> modal.id, body |-> Body(modal.form)]>>
      BY <2>2 DEF Requests
    <3>2. modal.id = modal.shown
      BY DEF IInv, FormNamesOne
    <3>. QED
      BY <3>1, <3>2
  <2>3. \A c \in calls' : Aimed(c)
    BY <2>1, <2>2, CallAimed DEF IInv
  <2>4. modal' = modal
    BY <2>1 DEF Call
  <2>. QED
    BY <2>3, <2>4 DEF IInv, FormNamesOne
<1>6. CASE DeleteRow \/ Import \/ Approve
  <2>1. PICK kind, m, reqs : kind \in {"delete", "bulk", "jit"} /\ Call(kind, m, reqs)
    <3>1. CASE DeleteRow
      BY <3>1 DEF DeleteRow
    <3>2. CASE Import
      BY <3>2 DEF Import
    <3>3. CASE Approve
      BY <3>3 DEF Approve
    <3>. QED
      BY <1>6, <3>1, <3>2, <3>3
  <2>2. kind # "edit"
    BY <2>1
  <2>3. \A c \in calls' : Aimed(c)
    BY <2>1, <2>2, CallAimed DEF IInv
  <2>4. modal' = modal
    BY <2>1 DEF Call
  <2>. QED
    BY <2>3, <2>4 DEF IInv, FormNamesOne
<1>7. ASSUME NEW c \in calls, Serve(c) PROVE IInv'
  <2>1. /\ c.reqs # <<>> /\ modal' = modal
        /\ calls' = (calls \ {c}) \cup {[c EXCEPT !.reqs = Tail(c.reqs), !.begun = TRUE]}
    BY <1>7 DEF Serve
  <2>2. Aimed([c EXCEPT !.reqs = Tail(c.reqs), !.begun = TRUE])
    BY <2>1, ServedAimed DEF IInv
  <2>3. \A d \in calls \ {c} : Aimed(d)
    BY DEF IInv
  <2>4. \A d \in calls' : Aimed(d)
    BY <2>1, <2>2, <2>3, Zenon
  <2>5. FormNamesOne'
    BY <2>1 DEF IInv, FormNamesOne
  <2>. QED
    BY <2>4, <2>5 DEF IInv
<1>8. ASSUME NEW c \in calls, Refuse(c) PROVE IInv'
  BY <1>8 DEF Refuse, IInv, FormNamesOne
<1>9. ASSUME NEW c \in calls, Succeed(c) PROVE IInv'
  <2>1. calls' = calls \ {c} /\ modal' = AfterSuccess(c.kind)
    BY <1>9 DEF Succeed
  <2>2. \/ modal' = modal
        \/ \E f : modal' = Closed(f)
        \/ \E f : modal' = [modal EXCEPT !.form = f]
    BY <2>1 DEF AfterSuccess
  <2>3. ASSUME modal' = modal PROVE FormNamesOne'
    BY <2>3 DEF IInv, FormNamesOne
  <2>4. ASSUME NEW f, modal' = Closed(f) PROVE FormNamesOne'
    BY <2>4, ClosedNamesNone DEF FormNamesOne
  <2>5. ASSUME NEW f, modal' = [modal EXCEPT !.form = f] PROVE FormNamesOne'
    BY <2>5 DEF IInv, FormNamesOne, ModalFields
  <2>6. FormNamesOne'
    BY <2>2, <2>3, <2>4, <2>5 DEF IInv, FormNamesOne
  <2>. QED
    BY <2>1, <2>6 DEF IInv
<1>10. CASE Focus \/ Read \/ Arrive \/ Foreign \/ RemoveCategory \/ UNCHANGED vars
  <2>1. modal' = modal /\ calls' = calls
    BY <1>10 DEF Focus, Read, Arrive, Foreign, RemoveCategory, vars
  <2>. QED
    BY <2>1 DEF IInv, FormNamesOne
<1>. QED
  BY <1>1, <1>2, <1>3, <1>4, <1>5, <1>6, <1>7, <1>8, <1>9, <1>10 DEF Next

(* Whatever a form was cancelled, closed by a late onSuccess or opened again
   over, on any page and with any number of requests under way, a submit goes
   to the row whose values filled it. *)
THEOREM SaveGoesWhereShown == Spec => []TargetIsShown
<1>1. IInv => TargetIsShown
  <2>1. ASSUME IInv, NEW c \in calls, c.kind = "edit", c.reqs # <<>>
        PROVE  Head(c.reqs).id = c.shown
    BY <2>1 DEF IInv, Aimed
  <2>. QED
    BY <2>1 DEF IInv, FormNamesOne, TargetIsShown
<1>2. IInv /\ [Next]_vars => IInv'
  BY StepAimed
<1>. QED
  BY <1>1, <1>2, InitAimed, PTL DEF Spec

-----------------------------------------------------------------------------
(* The list.  It may be behind only while somebody is to tell it so: the
   answer to a request that was carried out, in part at least, or a fetch that
   is still to read. *)
ListTold ==
    \/ untold \/ fetch.state = "asked"
    \/ \E c \in calls : c.begun
    \/ fetch.state = "idle" /\ list = Listed(table)
    \/ fetch.state = "read" /\ fetch.rows = Listed(table)

ListInv == IInv /\ ListTold

(* What the list has to show depends on the page and the table alone. *)
LEMMA ListedKept ==
    ASSUME UNCHANGED <<page, table>>
    PROVE  Listed(table)' = Listed(table)
BY DEF Listed

LEMMA StepTold ==
    ASSUME ListInv, [Next]_vars
    PROVE  ListTold'
<1>1. CASE UNCHANGED <<page, table, list, fetch, untold>> /\ calls \subseteq calls'
  BY <1>1, ListedKept DEF ListInv, ListTold
<1>2. CASE OpenCreate \/ OpenEdit \/ Input \/ Cancel \/ UNCHANGED vars
  BY <1>1, <1>2 DEF OpenCreate, OpenEdit, Input, Cancel, vars
<1>3. CASE Submit \/ DeleteRow \/ Import \/ Approve
  <2>1. PICK kind, m, reqs : Call(kind, m, reqs)
    BY <1>3 DEF Submit, DeleteRow, Import, Approve
  <2>. QED
    BY <1>1, <2>1 DEF Call
<1>4. ASSUME NEW c \in calls, Serve(c) PROVE ListTold'
  <2>. DEFINE d == [c EXCEPT !.reqs = Tail(c.reqs), !.begun = TRUE]
  <2>1. d \in calls'
    BY <1>4 DEF Serve
  <2>2. d.begun
    BY DEF ListInv, IInv, Aimed, CallFields
  <2>. QED
    BY <2>1, <2>2 DEF ListTold
<1>5. ASSUME NEW c \in calls, Refuse(c) PROVE ListTold'
  <2>1. CASE c.begun
    BY <1>5, <2>1 DEF Refuse, ListTold
  <2>2. CASE ~c.begun
    <3>1. UNCHANGED <<page, table, list, fetch>> /\ (untold => untold')
      BY <1>5 DEF Refuse
    <3>2. \A e \in calls : e.begun => e \in calls'
      BY <1>5, <2>2 DEF Refuse
    <3>. QED
      BY <3>1, <3>2, ListedKept DEF ListInv, ListTold
  <2>. QED
    BY <2>1, <2>2
<1>6. CASE Focus \/ \E c \in calls : Succeed(c)
  <2>1. fetch'.state = "asked"
    BY <1>6 DEF Focus, Succeed, Refetched, Asked
  <2>. QED
    BY <2>1 DEF ListTold
<1>7. CASE Read
  <2>1. fetch'.state = "read" /\ fetch'.rows = Listed(table) /\ UNCHANGED <<page, table>>
    BY <1>7 DEF Read
  <2>. QED
    BY <2>1, ListedKept DEF ListTold
<1>8. CASE Arrive
  <2>1. /\ fetch.state = "read" /\ list' = fetch.rows /\ fetch'.state = "idle"
        /\ UNCHANGED <<page, table, calls, untold>>
    BY <1>8 DEF Arrive, Idle
  <2>. QED
    BY <2>1, ListedKept DEF ListInv, ListTold
<1>9. CASE Foreign \/ RemoveCategory
  BY <1>9 DEF Foreign, RemoveCategory, ListTold
<1>. QED
  BY <1>2, <1>3, <1>4, <1>5, <1>6, <1>7, <1>8, <1>9 DEF Next

(* THE LIST CATCHES UP.  Whatever order answers, refetches and the writes of
   others come in, for any number of requests under way: with none left and no
   fetch, the list is the table, but for a write the page was never told of. *)
THEOREM ListShowsTable == Spec => []ListCatchesUp
<1>1. Init => ListInv
  BY InitAimed DEF Init, ListInv, ListTold, Idle
<1>2. ListInv /\ [Next]_vars => ListInv'
  BY StepAimed, StepTold DEF ListInv
<1>3. ListInv => ListCatchesUp
  BY DEF ListInv, ListTold, ListCatchesUp
<1>. QED
  BY <1>1, <1>2, <1>3, PTL DEF Spec
-----------------------------------------------------------------------------
(* The editor of a dictionary. *)

Saves == [n : Nat, text : Contents, here : BOOLEAN, done : BOOLEAN]
Loads == [state : {"idle", "failed", "asked", "read"}, text : Contents \cup {NULL}]

EditorConstants ==
    NULL \notin Contents /\ "" \in Contents /\ Converted \in [Contents -> Contents]

EditorTyped ==
    /\ file \in Contents \cup {NULL} /\ data \in Contents \cup {NULL}
    /\ view \in {"list", "editor"} /\ load \in Loads
    /\ content \in Contents /\ dirty \in BOOLEAN
    /\ saves \in SUBSET Saves /\ written \in Nat
    /\ unread \in BOOLEAN /\ raced \in BOOLEAN

(* The editor, opened when nothing was under way, and not typed in since with
   a save under way. *)
Editing == view = "editor" /\ ~raced

(* A list that was come back to with nothing under way has nothing since. *)
ListQuiet == view = "list" /\ ~raced => ~Editor!UnderWay /\ saves = {}

(* What is being saved is what is shown, unless a fetch has replaced that. *)
SavesShown == Editing => content = data \/ \A s \in saves : s.text = content

(* A text that was written stays the file's. *)
DoneShown ==
    Editing /\ ~unread /\ content # data /\ (\E s \in saves : s.done) =>
        Converted[content] = file

(* A text without changes is the one fetched, or the one written. *)
CleanShown ==
    Editing /\ ~unread /\ ~dirty =>
        data = NULL \/ content = data \/ Converted[content] = file

(* A first fetch is joined by the saves that end under it, so it must bring
   what they wrote. *)
FirstLoad ==
    Editing /\ ~unread /\ data = NULL =>
        /\ Editor!UnderWay /\ saves # {} => Converted[content] = file
        /\ load.state = "read" => load.text = file

(* Whoever does not show the file is going to hear of it. *)
EditorTold ==
    Editing /\ ~unread =>
        \/ load.state \in {"asked", "failed"}
        \/ \E s \in saves : s.done
        \/ load.state = "read" /\ load.text = file
        \/ /\ load.state = "idle"
           /\ \/ dirty \/ content = file
              \/ data = file /\ Converted[content] = file

EditorInv == /\ EditorTyped /\ ListQuiet /\ SavesShown /\ DoneShown
             /\ CleanShown /\ FirstLoad /\ EditorTold

LEMMA EditorInit ==
    ASSUME EditorConstants, Editor!Init
    PROVE  EditorInv
BY DEF EditorConstants, Editor!Init, Editor!Rest, Editor!UnderWay, EditorInv, EditorTyped,
       Loads, Saves, ListQuiet, Editing, SavesShown, DoneShown, CleanShown, FirstLoad, EditorTold

(* Opening fetches afresh, and nothing else is under way if it did not race. *)
LEMMA OpenEditorStep ==
    ASSUME EditorConstants, EditorInv, Editor!OpenEditor
    PROVE  EditorInv'
<1>1. /\ view = "list" /\ view' = "editor"
      /\ load' = IF Editor!UnderWay THEN load ELSE Editor!Reload
      /\ content' = IF data = NULL THEN "" ELSE data
      /\ raced' = (raced /\ (Editor!UnderWay \/ saves # {}))
      /\ unread' = (unread /\ Editor!UnderWay)
      /\ UNCHANGED <<file, data, dirty, saves, written>>
  BY DEF Editor!OpenEditor
<1>2. EditorTyped'
  BY <1>1 DEF EditorInv, EditorTyped, EditorConstants, Loads, Editor!Reload
<1>3. ListQuiet'
  BY <1>1 DEF ListQuiet
<1>4. CASE raced'
  BY <1>2, <1>3, <1>4 DEF EditorInv, Editing, SavesShown, DoneShown, CleanShown, FirstLoad,
                          EditorTold
<1>5. CASE ~raced'
  <2>1. ~Editor!UnderWay /\ saves = {}
    BY <1>1, <1>5 DEF EditorInv, ListQuiet
  <2>2. load'.state = "asked" /\ saves' = {} /\ (data' = NULL \/ content' = data')
    BY <1>1, <2>1 DEF Editor!Reload
  <2>. QED
    BY <1>2, <1>3, <2>2 DEF EditorInv, SavesShown, DoneShown, CleanShown, FirstLoad, EditorTold
<1>. QED
  BY <1>2, <1>4, <1>5 DEF EditorInv, EditorTyped

(* Closing with something under way is a race, and leaves it where it is. *)
LEMMA CloseEditorStep ==
    ASSUME EditorConstants, EditorInv, Editor!CloseEditor
    PROVE  EditorInv'
<1>1. /\ view' = "list" /\ content' = "" /\ dirty' = FALSE
      /\ saves' = {[s EXCEPT !.here = FALSE] : s \in saves}
      /\ raced' = (raced \/ Editor!UnderWay \/ saves # {})
      /\ UNCHANGED <<file, data, load, written, unread>>
  BY DEF Editor!CloseEditor
<1>2. EditorTyped'
  <2>1. saves' \in SUBSET Saves
    BY <1>1 DEF EditorInv, EditorTyped, Saves
  <2>. QED
    BY <1>1, <2>1 DEF EditorInv, EditorTyped, EditorConstants
<1>3. ListQuiet'
  BY <1>1 DEF EditorInv, EditorTyped, ListQuiet, Editor!UnderWay
<1>. QED
  BY <1>1, <1>2, <1>3 DEF EditorInv, Editing, SavesShown, DoneShown, CleanShown, FirstLoad,
                          EditorTold

(* What is typed has changes, and races with a save. *)
LEMMA TypeTextStep ==
    ASSUME EditorConstants, EditorInv, Editor!TypeText
    PROVE  EditorInv'
<1>1. /\ view = "editor" /\ content' \in Contents /\ dirty' = TRUE
      /\ raced' = (raced \/ saves # {})
      /\ UNCHANGED <<file, view, data, load, saves, written, unread>>
  BY DEF Editor!TypeText, Editor!Visible
<1>2. EditorTyped' /\ ListQuiet'
  BY <1>1 DEF EditorInv, EditorTyped, ListQuiet
<1>3. Editing' => Editing /\ saves = {}
  BY <1>1 DEF Editing, EditorInv, EditorTyped
<1>. QED
  BY <1>1, <1>2, <1>3 DEF EditorInv, SavesShown, DoneShown, CleanShown, FirstLoad, EditorTold

(* A save takes the text shown, and never joins a first fetch. *)
LEMMA SaveTextStep ==
    ASSUME EditorConstants, EditorInv, Editor!SaveText
    PROVE  EditorInv'
<1>. DEFINE s == [n |-> written, text |-> content, here |-> TRUE, done |-> FALSE]
<1>1. /\ view = "editor" /\ (data # NULL \/ ~Editor!UnderWay)
      /\ saves' = saves \cup {s} /\ written' = written + 1
      /\ UNCHANGED <<file, view, data, load, content, dirty, unread, raced>>
  BY DEF Editor!SaveText, Editor!Visible
<1>2. s \in Saves /\ s.text = content /\ ~s.done
  BY DEF EditorInv, EditorTyped, Saves
<1>. HIDE DEF s
<1>3. EditorTyped' /\ ListQuiet'
  BY <1>1, <1>2 DEF EditorInv, EditorTyped, ListQuiet
<1>4. Editing' => Editing
  BY <1>1 DEF Editing
<1>5. SavesShown'
  BY <1>1, <1>2, <1>4 DEF EditorInv, SavesShown
<1>6. DoneShown' /\ CleanShown'
  BY <1>1, <1>2, <1>4 DEF EditorInv, DoneShown, CleanShown
<1>7. FirstLoad'
  BY <1>1, <1>4 DEF EditorInv, FirstLoad, Editor!UnderWay
<1>8. EditorTold'
  BY <1>1, <1>4 DEF EditorInv, EditorTold
<1>. QED
  BY <1>3, <1>5, <1>6, <1>7, <1>8 DEF EditorInv

(* The server writes the text shown, unless what is shown was fetched. *)
LEMMA WriteStep ==
    ASSUME EditorConstants, EditorInv, NEW s \in saves, Editor!Write(s)
    PROVE  EditorInv'
<1>. DEFINE d == [s EXCEPT !.done = TRUE]
<1>1. /\ file' = Converted[s.text] /\ saves' = (saves \ {s}) \cup {d}
      /\ UNCHANGED <<view, data, load, content, dirty, written, unread, raced>>
  BY DEF Editor!Write
<1>2. d \in Saves /\ d.text = s.text /\ d.done /\ s.text \in Contents
  BY DEF EditorInv, EditorTyped, Saves
<1>. HIDE DEF d
<1>3. EditorTyped'
  BY <1>1, <1>2 DEF EditorInv, EditorTyped, EditorConstants
<1>4. ListQuiet'
  BY <1>1 DEF EditorInv, ListQuiet
<1>5. (Editing' => Editing) /\ (Editing /\ content # data => file' = Converted[content])
  BY <1>1 DEF Editing, EditorInv, SavesShown
<1>6. SavesShown'
  BY <1>1, <1>2, <1>5 DEF EditorInv, SavesShown
<1>7. DoneShown' /\ CleanShown'
  BY <1>1, <1>5 DEF EditorInv, DoneShown, CleanShown
<1>8. FirstLoad'
  <2>1. data = NULL => content # data
    BY DEF EditorConstants, EditorInv, EditorTyped
  <2>2. Editor!UnderWay' = Editor!UnderWay /\ saves # {}
    BY <1>1 DEF Editor!UnderWay
  <2>3. load.state = "read" => Editor!UnderWay
    BY DEF Editor!UnderWay
  <2>. QED
    BY <1>1, <1>5, <2>1, <2>2, <2>3 DEF EditorInv, FirstLoad
<1>9. EditorTold'
  BY <1>1, <1>2 DEF EditorTold
<1>. QED
  BY <1>3, <1>4, <1>6, <1>7, <1>8, <1>9 DEF EditorInv

(* A save that failed after it was written is one the editor is not told of. *)
LEMMA FailSaveStep ==
    ASSUME EditorConstants, EditorInv, NEW s \in saves, Editor!FailSave(s)
    PROVE  EditorInv'
<1>1. /\ saves' = saves \ {s} /\ unread' = (unread \/ s.done)
      /\ UNCHANGED <<file, view, data, load, content, dirty, written, raced>>
  BY DEF Editor!FailSave
<1>2. s.done \in BOOLEAN
  BY DEF EditorInv, EditorTyped, Saves
<1>3. EditorTyped' /\ ListQuiet'
  BY <1>1, <1>2 DEF EditorInv, EditorTyped, ListQuiet
<1>4. /\ Editing' => Editing
      /\ ~unread' => ~unread /\ \A t \in saves : t.done => t \in saves'
      /\ Editor!UnderWay' = Editor!UnderWay
  BY <1>1 DEF Editing, Editor!UnderWay, EditorInv, EditorTyped
<1>5. SavesShown' /\ DoneShown' /\ CleanShown'
  BY <1>1, <1>4 DEF EditorInv, SavesShown, DoneShown, CleanShown
<1>6. FirstLoad'
  BY <1>1, <1>4 DEF EditorInv, FirstLoad
<1>7. EditorTold'
  BY <1>1, <1>4 DEF EditorInv, EditorTold
<1>. QED
  BY <1>3, <1>5, <1>6, <1>7 DEF EditorInv

(* A save that succeeded fetches, or joins a first fetch that brings the text
   it wrote. *)
LEMMA SavedStep ==
    ASSUME EditorConstants, EditorInv, NEW s \in saves, Editor!Saved(s)
    PROVE  EditorInv'
<1>1. /\ s.done /\ saves' = saves \ {s} /\ load' = Editor!Reloaded
      /\ dirty' = (dirty /\ ~s.here)
      /\ UNCHANGED <<file, view, data, content, written, unread, raced>>
  BY DEF Editor!Saved
<1>2. EditorTyped'
  BY <1>1 DEF EditorInv, EditorTyped, Editor!Reloaded, Editor!Reload, Loads
<1>3. ListQuiet'
  BY <1>1 DEF EditorInv, ListQuiet
<1>4. Editing' => Editing
  BY <1>1 DEF Editing
<1>5. Editing /\ ~unread /\ content # data => Converted[content] = file
  BY <1>1 DEF EditorInv, DoneShown
<1>6. data = NULL => content # data
  BY DEF EditorConstants, EditorInv, EditorTyped
<1>7. Editing => \/ load'.state = "asked"
                 \/ load' = load /\ Editor!UnderWay /\ data = NULL
  BY <1>1 DEF Editing, Editor!Reloaded, Editor!Reload
<1>8. SavesShown' /\ DoneShown' /\ CleanShown'
  BY <1>1, <1>4, <1>5 DEF EditorInv, SavesShown, DoneShown, CleanShown
<1>9. FirstLoad'
  BY <1>1, <1>4, <1>5, <1>6, <1>7 DEF EditorInv, FirstLoad
<1>10. EditorTold'
  BY <1>1, <1>4, <1>7 DEF EditorInv, FirstLoad, EditorTold, Editor!UnderWay
<1>. QED
  BY <1>2, <1>3, <1>8, <1>9, <1>10 DEF EditorInv

LEMMA ReadTextStep ==
    ASSUME EditorConstants, EditorInv, Editor!ReadText
    PROVE  EditorInv'
<1>1. /\ load.state = "asked" /\ load' = [state |-> "read", text |-> file]
      /\ UNCHANGED <<file, view, data, content, dirty, saves, written, unread, raced>>
  BY DEF Editor!ReadText
<1>2. Editor!UnderWay /\ load'.state = "read" /\ load'.text = file' /\ (Editing' => Editing)
  BY <1>1 DEF Editor!UnderWay, Editing
<1>3. EditorTyped'
  BY <1>1 DEF EditorInv, EditorTyped, Loads
<1>4. ListQuiet'
  BY <1>1, <1>2 DEF EditorInv, ListQuiet
<1>. QED
  BY <1>1, <1>2, <1>3, <1>4 DEF EditorInv, SavesShown, DoneShown, CleanShown, FirstLoad,
                                EditorTold

(* The text that arrives replaces the one shown, unless it is the one that
   was fetched before. *)
LEMMA ArriveTextStep ==
    ASSUME EditorConstants, EditorInv, Editor!ArriveText
    PROVE  EditorInv'
<1>. DEFINE fresh == load.text # NULL /\ load.text # data
<1>1. /\ load.state = "read"
      /\ load' = [Editor!Rest EXCEPT !.state = IF load.text = NULL THEN "failed" ELSE "idle"]
      /\ data' = IF fresh THEN load.text ELSE data
      /\ content' = IF fresh /\ view = "editor" THEN load.text ELSE content
      /\ dirty' = (dirty /\ ~fresh)
      /\ UNCHANGED <<file, view, saves, written, unread, raced>>
  BY DEF Editor!ArriveText
<1>2. /\ load' \in Loads /\ load'.state = IF load.text = NULL THEN "failed" ELSE "idle"
      /\ Editor!UnderWay /\ ~Editor!UnderWay'
  BY <1>1 DEF Loads, Editor!Rest, Editor!UnderWay
<1>3. load.text \in Contents \cup {NULL}
  BY DEF EditorInv, EditorTyped, Loads
<1>4. EditorTyped'
  BY <1>1, <1>2, <1>3 DEF EditorInv, EditorTyped
<1>5. ListQuiet'
  BY <1>1, <1>2 DEF EditorInv, ListQuiet
<1>6. Editing' => Editing /\ view = "editor"
  BY <1>1 DEF Editing
<1>7. CASE fresh
  <2>1. /\ Editing' => content' = data'
        /\ data' # NULL /\ data' = load.text /\ load'.state = "idle"
    BY <1>1, <1>2, <1>6, <1>7
  <2>2. SavesShown' /\ DoneShown' /\ CleanShown' /\ FirstLoad'
    BY <2>1 DEF SavesShown, DoneShown, CleanShown, FirstLoad
  <2>3. EditorTold'
    BY <1>1, <1>6, <2>1 DEF EditorInv, EditorTold
  <2>. QED
    BY <1>4, <1>5, <2>2, <2>3 DEF EditorInv
<1>8. CASE ~fresh
  <2>1. UNCHANGED <<data, content>> /\ dirty' = dirty
    BY <1>1, <1>8 DEF EditorInv, EditorTyped
  <2>2. SavesShown' /\ DoneShown' /\ CleanShown'
    BY <1>1, <1>6, <2>1 DEF EditorInv, SavesShown, DoneShown, CleanShown
  <2>3. FirstLoad'
    BY <1>2, <2>1 DEF FirstLoad, Editor!UnderWay
  <2>4. EditorTold'
    <3>1. CASE load.text = NULL
      BY <1>2, <3>1 DEF EditorTold
    <3>2. CASE load.text # NULL
      <4>1. load.text = data /\ load'.state = "idle"
        BY <1>2, <1>8, <3>2
      <4>. QED
        BY <1>1, <1>6, <2>1, <3>2, <4>1 DEF EditorInv, EditorTold, CleanShown
    <3>. QED
      BY <3>1, <3>2
  <2>. QED
    BY <1>4, <1>5, <2>2, <2>3, <2>4 DEF EditorInv
<1>. QED
  BY <1>7, <1>8

LEMMA WrittenElsewhereStep ==
    ASSUME EditorConstants, EditorInv, Editor!WrittenElsewhere
    PROVE  EditorInv'
<1>1. /\ file' \in Contents \cup {NULL} /\ written' = written + 1 /\ unread' = TRUE
      /\ UNCHANGED <<view, data, load, content, dirty, saves, raced>>
  BY DEF Editor!WrittenElsewhere, EditorConstants
<1>2. EditorTyped' /\ ListQuiet'
  BY <1>1 DEF EditorInv, EditorTyped, ListQuiet, Editor!UnderWay
<1>. QED
  BY <1>1, <1>2 DEF EditorInv, Editing, SavesShown, DoneShown, CleanShown, FirstLoad, EditorTold

(* Every step of the editor, its fetches, saves and the server. *)
LEMMA EditorStep ==
    ASSUME EditorConstants, EditorInv, [Editor!Next]_Editor!vars
    PROVE  EditorInv'
<1>1. CASE UNCHANGED Editor!vars
  BY <1>1 DEF Editor!vars, Editor!UnderWay, EditorInv, EditorTyped, ListQuiet, Editing,
              SavesShown, DoneShown, CleanShown, FirstLoad, EditorTold
<1>2. CASE Editor!Next
  BY <1>2, OpenEditorStep, CloseEditorStep, TypeTextStep, SaveTextStep, WriteStep,
     FailSaveStep, SavedStep, ReadTextStep, ArriveTextStep, WrittenElsewhereStep
  DEF Editor!Next
<1>. QED
  BY <1>1, <1>2

(* THE EDITOR SHOWS THE FILE.  After any saves, failed saves, refetches and
   reopenings in any order, with texts that come back converted: once nothing
   is under way and nothing unsaved, what is shown is what the server has, but
   for a write the editor was not told of, and for who typed during a save. *)
THEOREM EditorShowsWritten ==
    ASSUME EditorConstants
    PROVE  Editor!Spec => []EditorShowsFile
<1>1. Editor!Init => EditorInv
  BY EditorInit
<1>2. EditorInv /\ [Editor!Next]_Editor!vars => EditorInv'
  BY EditorStep
<1>3. EditorInv => EditorShowsFile
  BY DEF EditorInv, EditorTold, Editing, EditorShowsFile, Editor!EditorShowsFile
<1>. QED
  BY <1>1, <1>2, <1>3, PTL DEF Editor!Spec
-----------------------------------------------------------------------------
(* The policy page: an edited attribute stays in its group. *)

Cells == [group : GroupNames \cup {NULL}, value : Values \cup {""}] \cup {NULL}
FormFields == {"open", "type", "group", "value", "id", "of"}
NameFields == {"open", "old", "new"}

(* The row is there, and if no rename took it, then in group g or deleted. *)
Placed(t, i, g) ==
    /\ t \in Groups!Types /\ i \in DOMAIN rows[t]
    /\ <<t, i>> \in moved \/ rows[t][i] = NULL \/ rows[t][i].group = g

GroupsTyped ==
    /\ rows \in [Groups!Types -> Seq(Cells)]
    /\ cache = [k \in GroupNames |-> cache[k]]
    /\ query = [k \in GroupNames |-> query[k]]
    /\ selected \in GroupNames \cup {NULL}
    /\ rename = [c \in NameFields |-> rename[c]]
    /\ rename.open => rename.old \in GroupNames
    /\ rename.new \in GroupNames \cup {NULL}
    /\ attr = [c \in FormFields |-> attr[c]]
    /\ attr.open => attr.group \in GroupNames
    /\ attr.type \in Groups!Types /\ attr.value \in Values \cup {""}
    /\ made \in Nat

(* What the handlers read of a request. *)
Formed(r) ==
    /\ r = [c \in DOMAIN r |-> r[c]]
    /\ {"kind", "n", "done"} \subseteq DOMAIN r
    /\ r.kind \in {"rename", "drop", "create", "add", "edit", "delete"}
    /\ r.n \in Nat /\ r.n < made /\ r.done \in BOOLEAN
    /\ r.kind \in {"create", "add", "edit"} => "body" \in DOMAIN r /\ r.body \in Cells
    /\ r.kind \in {"add", "edit", "delete"} => "type" \in DOMAIN r /\ r.type \in Groups!Types
    /\ r.kind = "edit" => {"id", "of"} \subseteq DOMAIN r
    /\ r.kind = "rename" => "new" \in DOMAIN r /\ r.new \in GroupNames \cup {NULL}

(* A request goes out once. *)
Single == \A r, s \in requests : r.n = s.n => r = s

(* Rows are shown, edited and saved under the group they are in. *)
Entry(a, g) == Placed(a.type, a.id, g) /\ a.value \in Values \cup {""}
CachePlaced == \A k \in GroupNames : cache[k] # NULL => \A a \in cache[k] : Entry(a, k)
QueryPlaced == \A k \in GroupNames : \A a \in query[k].data : Entry(a, k)
AttrPlaced == attr.open /\ attr.id # 0 => Placed(attr.of, attr.id, attr.group)
EditPlaced(r) == r.kind = "edit" /\ ~r.done => Placed(r.of, r.id, r.body.group)

GroupsInv ==
    /\ GroupsTyped /\ Single
    /\ \A r \in requests : Formed(r) /\ EditPlaced(r)
    /\ CachePlaced /\ QueryPlaced /\ AttrPlaced

(* A function on the first n numbers is a sequence. *)
LEMMA SequenceMade ==
    ASSUME NEW S, NEW n \in Nat, NEW s, s = [i \in 1 .. n |-> s[i]], \A i \in 1 .. n : s[i] \in S
    PROVE  s \in Seq(S)
OBVIOUS

LEMMA CellMade ==
    ASSUME NEW g \in GroupNames, NEW v \in Values \cup {""}
    PROVE  [group |-> g, value |-> v] \in Cells
BY DEF Cells

LEMMA GroupsInit ==
    ASSUME Values # {}, Groups!Init
    PROVE  GroupsInv
<1>1. /\ requests = {} /\ made = 0 /\ attr = Groups!NoForm /\ rename = Groups!NoRename
      /\ selected = NULL
      /\ cache = [k \in GroupNames |-> NULL] /\ query = [k \in GroupNames |-> Groups!Waiting]
  BY DEF Groups!Init
<1>2. rows \in [Groups!Types -> Seq(Cells)]
  <2>1. PICK g \in GroupNames :
          rows = [t \in Groups!Types |->
                    <<[group |-> IF t = "reply" THEN CHOOSE h \in GroupNames : TRUE ELSE g,
                       value |-> CHOOSE v \in Values : TRUE]>>]
    BY DEF Groups!Init
  <2>2. (CHOOSE h \in GroupNames : TRUE) \in GroupNames /\ (CHOOSE v \in Values : TRUE) \in Values
    BY <2>1
  <2>3. \A h \in GroupNames, v \in Values : [group |-> h, value |-> v] \in Cells
    BY DEF Cells
  <2>4. \A x \in Cells : <<x>> \in Seq(Cells)
    OBVIOUS
  <2>. QED
    BY <2>1, <2>2, <2>3, <2>4
<1>3. GroupsTyped
  BY <1>1, <1>2 DEF GroupsTyped, Groups!NoForm, Groups!NoRename, FormFields, NameFields,
                   Groups!Types
<1>4. CachePlaced /\ QueryPlaced /\ AttrPlaced
  BY <1>1 DEF CachePlaced, QueryPlaced, AttrPlaced, Groups!NoForm, Groups!Waiting
<1>. QED
  BY <1>1, <1>3, <1>4 DEF GroupsInv, Single

(* What a handler may make of a row: it stays, is renamed, is deleted or is
   saved under the group it was in. *)
Changed(t, i) ==
    \/ rows'[t][i] = rows[t][i] \/ <<t, i>> \in moved' \/ rows'[t][i] = NULL
    \/ rows[t][i] # NULL /\ rows'[t][i].group = rows[t][i].group

LEMMA ServedRows ==
    ASSUME GroupsInv, NEW r \in requests, Groups!Serve(r)
    PROVE  /\ rows' \in [Groups!Types -> Seq(Cells)] /\ moved \subseteq moved'
           /\ \A t \in Groups!Types : \A i \in DOMAIN rows[t] :
                 i \in DOMAIN rows'[t] /\ Changed(t, i)
<1>1. /\ Formed(r) /\ EditPlaced(r) /\ rows \in [Groups!Types -> Seq(Cells)]
      /\ rows' = Groups!Effect(r) /\ moved' = moved \cup Groups!Moved(r)
      /\ Groups!Found(r) /\ ~r.done
  BY DEF GroupsInv, GroupsTyped, Groups!Serve
<1>2. \A t \in Groups!Types : Len(rows[t]) \in Nat /\ DOMAIN rows[t] = 1 .. Len(rows[t])
  BY <1>1
<1>3. moved \subseteq moved'
  BY <1>1
<1>4. CASE r.kind = "rename"
  <2>1. rows' = [t \in Groups!Types |-> [i \in DOMAIN rows[t] |->
                   IF i \in Groups!Bearing(t, r.old) THEN [rows[t][i] EXCEPT !.group = r.new]
                   ELSE rows[t][i]]]
    BY <1>1, <1>4 DEF Groups!Effect, Groups!Renamed
  <2>2. \A t \in Groups!Types : \A i \in Groups!Bearing(t, r.old) : <<t, i>> \in moved'
    BY <1>1, <1>4 DEF Groups!Moved
  <2>3. ASSUME NEW t \in Groups!Types
        PROVE  /\ rows'[t] \in Seq(Cells)
               /\ \A i \in DOMAIN rows[t] : i \in DOMAIN rows'[t] /\ Changed(t, i)
    <3>1. rows'[t] = [i \in 1 .. Len(rows[t]) |->
                   IF i \in Groups!Bearing(t, r.old) THEN [rows[t][i] EXCEPT !.group = r.new]
                   ELSE rows[t][i]]
      BY <1>2, <2>1
    <3>2. \A i \in 1 .. Len(rows[t]) :
             i \in Groups!Bearing(t, r.old) => [rows[t][i] EXCEPT !.group = r.new] \in Cells
      <4>1. ASSUME NEW i \in 1 .. Len(rows[t]), i \in Groups!Bearing(t, r.old)
            PROVE  [rows[t][i] EXCEPT !.group = r.new] \in Cells
        <5>1. rows[t][i] \in Cells /\ rows[t][i] # NULL /\ r.new \in GroupNames \cup {NULL}
          BY <1>1, <1>4, <4>1 DEF Groups!Bearing, Groups!Ids, Formed
        <5>. QED
          BY <5>1 DEF Cells
      <4>. QED
        BY <4>1
    <3>3. \A i \in 1 .. Len(rows[t]) : rows'[t][i] \in Cells
      BY <1>1, <3>1, <3>2
    <3>4. rows'[t] \in Seq(Cells)
      BY <1>2, <3>1, <3>3, SequenceMade
    <3>5. \A i \in DOMAIN rows[t] : i \in DOMAIN rows'[t] /\ Changed(t, i)
      BY <1>2, <2>2, <3>1 DEF Changed
    <3>. QED
      BY <3>4, <3>5
  <2>. QED
    BY <1>3, <2>1, <2>3
<1>5. CASE r.kind = "drop"
  <2>1. rows' = [t \in Groups!Types |-> [i \in DOMAIN rows[t] |->
                   IF i \in Groups!Bearing(t, r.group) THEN NULL ELSE rows[t][i]]]
    BY <1>1, <1>5 DEF Groups!Effect, Groups!Without
  <2>2. ASSUME NEW t \in Groups!Types
        PROVE  /\ rows'[t] \in Seq(Cells)
               /\ \A i \in DOMAIN rows[t] : i \in DOMAIN rows'[t] /\ Changed(t, i)
    <3>1. rows'[t] = [i \in 1 .. Len(rows[t]) |->
                   IF i \in Groups!Bearing(t, r.group) THEN NULL ELSE rows[t][i]]
      BY <1>2, <2>1
    <3>2. \A i \in 1 .. Len(rows[t]) : rows'[t][i] \in Cells
      <4>1. rows[t] \in Seq(Cells) /\ NULL \in Cells
        BY <1>1 DEF Cells
      <4>. QED
        BY <3>1, <4>1
    <3>3. rows'[t] \in Seq(Cells)
      BY <1>2, <3>1, <3>2, SequenceMade
    <3>4. \A i \in DOMAIN rows[t] : i \in DOMAIN rows'[t] /\ Changed(t, i)
      BY <1>2, <3>1 DEF Changed
    <3>. QED
      BY <3>3, <3>4
  <2>. QED
    BY <1>3, <2>1, <2>2
<1>6. CASE r.kind \in {"create", "add"}
  <2>1. PICK u \in Groups!Types : rows' = [rows EXCEPT ![u] = Append(rows[u], r.body)]
    <3>1. r.kind = "add" => r.type \in Groups!Types
      BY <1>1 DEF Formed
    <3>. QED
      BY <1>1, <1>6, <3>1 DEF Groups!Effect, Groups!Inserted, Groups!Types
  <2>2. r.body \in Cells
    BY <1>1, <1>6 DEF Formed
  <2>3. /\ Append(rows[u], r.body) \in Seq(Cells)
        /\ \A i \in DOMAIN rows[u] : /\ i \in DOMAIN Append(rows[u], r.body)
                                     /\ Append(rows[u], r.body)[i] = rows[u][i]
    BY <1>1, <1>2, <2>2
  <2>. QED
    BY <1>1, <1>3, <2>1, <2>3 DEF Changed
<1>7. CASE r.kind \in {"edit", "delete"}
  <2>. DEFINE row == IF r.kind = "edit" THEN r.body ELSE NULL
  <2>1. /\ r.type \in Groups!Types /\ r.id \in DOMAIN rows[r.type] /\ rows[r.type][r.id] # NULL
        /\ rows' = [rows EXCEPT ![r.type] = [rows[r.type] EXCEPT ![r.id] = row]]
        /\ row \in Cells
    BY <1>1, <1>7 DEF Formed, Groups!Found, Groups!Ids, Groups!Effect, Cells
  <2>2. \/ row = NULL \/ <<r.type, r.id>> \in moved' \/ row.group = rows[r.type][r.id].group
    <3>1. CASE r.kind = "edit" /\ r.type # r.of
      BY <1>1, <3>1 DEF Groups!Moved
    <3>2. CASE r.kind = "edit" /\ r.type = r.of
      BY <1>1, <1>3, <2>1, <3>2 DEF EditPlaced, Placed
    <3>3. CASE r.kind # "edit"
      BY <3>3
    <3>. QED
      BY <3>1, <3>2, <3>3
  <2>. HIDE DEF row
  <2>3. [rows[r.type] EXCEPT ![r.id] = row] \in Seq(Cells)
    BY <1>1, <2>1
  <2>4. \A t \in Groups!Types : \A i \in DOMAIN rows[t] :
           /\ i \in DOMAIN rows'[t]
           /\ rows'[t][i] = IF t = r.type /\ i = r.id THEN row ELSE rows[t][i]
    BY <1>1, <2>1
  <2>5. rows' \in [Groups!Types -> Seq(Cells)]
    BY <1>1, <2>1, <2>3
  <2>. QED
    BY <1>3, <2>1, <2>2, <2>4, <2>5 DEF Changed
<1>. QED
  BY <1>1, <1>4, <1>5, <1>6, <1>7 DEF Formed

(* A row that is where it is said to be stays there. *)
LEMMA PlacedServed ==
    ASSUME GroupsInv, NEW r \in requests, Groups!Serve(r), NEW t, NEW i, NEW g, Placed(t, i, g)
    PROVE  Placed(t, i, g)'
<1>1. moved \subseteq moved' /\ i \in DOMAIN rows'[t] /\ Changed(t, i) /\ t \in Groups!Types
  BY ServedRows DEF Placed
<1>. QED
  BY <1>1 DEF Placed, Changed

LEMMA PlacedUnchanged ==
    ASSUME UNCHANGED <<rows, moved>>
    PROVE  \A t, i, g : Placed(t, i, g)' = Placed(t, i, g)
BY DEF Placed

LEMMA EntryUnchanged ==
    ASSUME UNCHANGED <<rows, moved>>
    PROVE  \A a, g : Entry(a, g)' = Entry(a, g)
BY PlacedUnchanged DEF Entry

(* Showing a group and invalidating the queries only asks. *)
LEMMA MountedAsks ==
    ASSUME NEW q, q = [k \in GroupNames |-> q[k]], NEW g
    PROVE  /\ Groups!Mounted(q, g) = [k \in GroupNames |-> Groups!Mounted(q, g)[k]]
           /\ \A k \in GroupNames :
                 Groups!Mounted(q, g)[k] = q[k] \/ Groups!Mounted(q, g)[k].data = {}
BY DEF Groups!Mounted, Groups!DetailKey, Groups!Asked

LEMMA InvalidatedAsks ==
    ASSUME GroupsTyped
    PROVE  /\ Groups!Invalidated = [k \in GroupNames |-> Groups!Invalidated[k]]
           /\ \A k \in GroupNames :
                 Groups!Invalidated[k] = query[k] \/ Groups!Invalidated[k].data = {}
BY DEF Groups!Invalidated, Groups!DetailKey, Groups!Asked

(* What the page shows of a group is in it. *)
LEMMA ShownPlaced ==
    ASSUME GroupsInv, NEW a \in Groups!Shown
    PROVE  selected \in GroupNames /\ Entry(a, selected)
<1>1. selected # NULL /\ cache[selected] # NULL /\ a \in cache[selected]
  BY DEF Groups!Shown, Groups!DetailKey
<1>. QED
  BY <1>1 DEF GroupsInv, GroupsTyped, CachePlaced

(* A request that goes out is the only one of its number. *)
LEMMA SendKeeps ==
    ASSUME GroupsInv, NEW r, Groups!Send(r), r = [c \in DOMAIN r |-> r[c]],
           "kind" \in DOMAIN r, DOMAIN r \cap {"n", "done"} = {},
           r.kind \in {"rename", "drop", "create", "add", "edit", "delete"},
           r.kind = "rename" => "new" \in DOMAIN r /\ r.new \in GroupNames \cup {NULL},
           r.kind \in {"create", "add", "edit"} => "body" \in DOMAIN r /\ r.body \in Cells,
           r.kind \in {"add", "edit", "delete"} =>
               "type" \in DOMAIN r /\ r.type \in Groups!Types,
           r.kind = "edit" => {"id", "of"} \subseteq DOMAIN r /\ Placed(r.of, r.id, r.body.group)
    PROVE  GroupsInv'
<1>0. PICK q : q = Groups!Numbered(r)
  OBVIOUS
<1>1. /\ requests' = requests \cup {q} /\ made' = made + 1
      /\ UNCHANGED <<rows, cache, query, selected, rename, attr, moved>>
  BY <1>0 DEF Groups!Send
<1>2. made \in Nat
  BY DEF GroupsInv, GroupsTyped
<1>3. /\ q = [c \in DOMAIN q |-> q[c]] /\ DOMAIN q = DOMAIN r \cup {"n", "done"}
      /\ q.n = made /\ q.done = FALSE
      /\ \A c \in DOMAIN r : q[c] = r[c]
  <2>1. q = [c \in DOMAIN r \cup {"n", "done"} |->
               CASE c = "n" -> made [] c = "done" -> FALSE [] OTHER -> r[c]]
    BY <1>0 DEF Groups!Numbered
  <2>. QED
    BY <2>1
<1>4. Formed(q)'
  <2>1. q.kind = r.kind
    BY <1>3
  <2>2. q.kind = "rename" => q.new = r.new /\ "new" \in DOMAIN q
    BY <1>3, <2>1
  <2>3. q.kind \in {"create", "add", "edit"} => q.body = r.body /\ "body" \in DOMAIN q
    BY <1>3, <2>1
  <2>4. q.kind \in {"add", "edit", "delete"} => q.type = r.type /\ "type" \in DOMAIN q
    BY <1>3, <2>1
  <2>5. q.kind = "edit" => {"id", "of"} \subseteq DOMAIN q
    BY <1>3, <2>1
  <2>6. q.n \in Nat /\ q.n < made' /\ q.done \in BOOLEAN
    <3>1. made < made'
      BY <1>1, <1>2
    <3>. QED
      BY <1>2, <1>3, <3>1
  <2>7. {"kind", "n", "done"} \subseteq DOMAIN q
    BY <1>3
  <2>. QED
    BY <1>3, <2>1, <2>2, <2>3, <2>4, <2>5, <2>6, <2>7 DEF Formed
<1>5. EditPlaced(q)'
  <2>1. ASSUME q.kind = "edit"
        PROVE  q.of = r.of /\ q.id = r.id /\ q.body = r.body /\ r.kind = "edit"
    BY <1>3, <2>1
  <2>2. ASSUME q.kind = "edit"
        PROVE  Placed(q.of, q.id, q.body.group)'
    BY <1>1, <2>1, <2>2, PlacedUnchanged
  <2>. QED
    BY <2>2 DEF EditPlaced
<1>6. \A s \in requests : Formed(s)' /\ EditPlaced(s)'
  <2>1. ASSUME NEW s \in requests
        PROVE  Formed(s)' /\ EditPlaced(s)'
    <3>1. Formed(s) /\ EditPlaced(s)
      BY DEF GroupsInv
    <3>2. Formed(s)'
      BY <1>1, <1>2, <3>1 DEF Formed
    <3>3. EditPlaced(s)'
      BY <1>1, <3>1, PlacedUnchanged DEF EditPlaced
    <3>. QED
      BY <3>2, <3>3
  <2>. QED
    BY <2>1
<1>7. Single'
  <2>1. \A s \in requests : s.n < made /\ s.n \in Nat
    BY DEF GroupsInv, Formed
  <2>2. \A s \in requests : s.n # q.n
    BY <1>2, <1>3, <2>1
  <2>. QED
    BY <1>1, <2>2 DEF GroupsInv, Single
<1>8. GroupsTyped'
  <2>1. made' \in Nat
    BY <1>1, <1>2
  <2>. QED
    BY <1>1, <2>1 DEF GroupsInv, GroupsTyped
<1>9. CachePlaced' /\ QueryPlaced' /\ AttrPlaced'
  BY <1>1, PlacedUnchanged, EntryUnchanged DEF GroupsInv, CachePlaced, QueryPlaced, AttrPlaced
<1>. QED
  BY <1>1, <1>4, <1>5, <1>6, <1>7, <1>8, <1>9 DEF GroupsInv

(* Nothing happens to the rows and the requests. *)
LEMMA PageStep ==
    ASSUME GroupsInv, UNCHANGED <<rows, moved, made>>, requests' \subseteq requests,
           GroupsTyped', CachePlaced', QueryPlaced', AttrPlaced'
    PROVE  GroupsInv'
<1>1. ASSUME NEW s \in requests'
      PROVE  Formed(s)' /\ EditPlaced(s)'
  <2>1. Formed(s) /\ EditPlaced(s)
    BY <1>1 DEF GroupsInv
  <2>2. Formed(s)'
    BY <2>1 DEF Formed
  <2>3. EditPlaced(s)'
    BY <2>1, PlacedUnchanged DEF EditPlaced
  <2>. QED
    BY <2>2, <2>3
<1>2. Single'
  BY DEF GroupsInv, Single
<1>. QED
  BY <1>1, <1>2 DEF GroupsInv

(* What is shown and fetched may change, the rest of the page as it is. *)
LEMMA QueryTyped ==
    ASSUME GroupsTyped, UNCHANGED <<rows, rename, attr, made>>,
           cache' = [k \in GroupNames |-> cache'[k]], query' = [k \in GroupNames |-> query'[k]],
           selected' \in GroupNames \cup {NULL}
    PROVE  GroupsTyped'
BY DEF GroupsTyped

(* So may the dialogs. *)
LEMMA DialogTyped ==
    ASSUME GroupsTyped, UNCHANGED <<rows, cache, query, selected, made>>,
           rename' = [c \in NameFields |-> rename'[c]],
           rename'.open => rename'.old \in GroupNames,
           rename'.new \in GroupNames \cup {NULL},
           attr' = [c \in FormFields |-> attr'[c]],
           attr'.open => attr'.group \in GroupNames,
           attr'.type \in Groups!Types /\ attr'.value \in Values \cup {""}
    PROVE  GroupsTyped'
BY DEF GroupsTyped

(* The queries: what is read of a group, and what arrives, is in it. *)
LEMMA FetchSteps ==
    ASSUME GroupsInv, NEW k \in GroupNames, Groups!Read(k) \/ Groups!Arrive(k)
    PROVE  GroupsInv'
<1>. USE PlacedUnchanged, EntryUnchanged
<1>1. CASE Groups!Read(k)
  <2>1. /\ query' = [query EXCEPT ![k] = [state |-> "read", data |-> Groups!Answered(k)]]
        /\ UNCHANGED <<rows, cache, selected, rename, attr, requests, made, moved>>
    BY <1>1 DEF Groups!Read
  <2>2. \A a \in Groups!Answered(k) : Entry(a, k)
    <3>1. ASSUME NEW a \in Groups!Answered(k)
          PROVE  Entry(a, k)
      <4>1. PICK t \in Groups!Types : \E i \in Groups!Bearing(t, k) :
              a = [type |-> t, id |-> i, value |-> rows[t][i].value]
        BY DEF Groups!Answered
      <4>2. PICK i \in Groups!Bearing(t, k) :
              a = [type |-> t, id |-> i, value |-> rows[t][i].value]
        BY <4>1
      <4>0. rows[t] \in Seq(Cells) /\ i \in DOMAIN rows[t] /\ rows[t][i] # NULL
        BY <4>1, <4>2 DEF Groups!Bearing, Groups!Ids, GroupsInv, GroupsTyped
      <4>3. rows[t][i] \in Cells /\ rows[t][i] # NULL
        BY <4>0
      <4>4. rows[t][i].value \in Values \cup {""}
        BY <4>3 DEF Cells
      <4>. QED
        BY <4>1, <4>2, <4>4 DEF Groups!Bearing, Groups!Ids, Entry, Placed
    <3>. QED
      BY <3>1
  <2>3. CachePlaced' /\ AttrPlaced'
    BY <2>1 DEF GroupsInv, CachePlaced, AttrPlaced
  <2>5. /\ query' = [j \in GroupNames |-> query'[j]] /\ cache' = [j \in GroupNames |-> cache'[j]]
        /\ selected' \in GroupNames \cup {NULL}
    BY <2>1 DEF GroupsInv, GroupsTyped
  <2>6. GroupsTyped'
    BY <2>1, <2>5, QueryTyped DEF GroupsInv
  <2>4. QueryPlaced'
    BY <2>1, <2>2 DEF GroupsInv, GroupsTyped, QueryPlaced
  <2>. QED
    BY <2>1, <2>3, <2>4, <2>6, PageStep
<1>2. CASE Groups!Arrive(k)
  <2>1. /\ query' = [query EXCEPT ![k] = Groups!Waiting]
        /\ cache' = IF query[k].data = {} THEN cache ELSE [cache EXCEPT ![k] = query[k].data]
        /\ UNCHANGED <<rows, selected, rename, attr, requests, made, moved>>
    BY <1>2 DEF Groups!Arrive
  <2>2. AttrPlaced'
    BY <2>1 DEF GroupsInv, AttrPlaced
  <2>5. /\ query' = [j \in GroupNames |-> query'[j]] /\ cache' = [j \in GroupNames |-> cache'[j]]
        /\ selected' \in GroupNames \cup {NULL}
    BY <2>1 DEF GroupsInv, GroupsTyped
  <2>6. GroupsTyped'
    BY <2>1, <2>5, QueryTyped DEF GroupsInv
  <2>3. QueryPlaced'
    BY <2>1 DEF GroupsInv, GroupsTyped, QueryPlaced, Groups!Waiting
  <2>4. CachePlaced'
    BY <2>1 DEF GroupsInv, GroupsTyped, QueryPlaced, CachePlaced
  <2>. QED
    BY <2>1, <2>2, <2>3, <2>4, <2>6, PageStep
<1>. QED
  BY <1>1, <1>2

(* The dialogs: the one that edits a row takes its group from the selection,
   which is the group the row is shown under. *)
LEMMA DialogSteps ==
    ASSUME GroupsInv,
           \/ \E g \in GroupNames : Groups!Select(g) \/ Groups!OpenRename(g)
           \/ Groups!TypeName \/ Groups!Cancel \/ Groups!OpenAdd \/ Groups!OpenEdit
           \/ Groups!InputAttribute
    PROVE  GroupsInv'
<1>. USE PlacedUnchanged, EntryUnchanged
<1>1. UNCHANGED <<rows, cache, requests, made, moved>>
  BY DEF Groups!Select, Groups!OpenRename, Groups!TypeName, Groups!Cancel, Groups!OpenAdd,
         Groups!OpenEdit, Groups!InputAttribute, Groups!Quiet
<1>2. CachePlaced'
  BY <1>1 DEF GroupsInv, CachePlaced
<1>. SUFFICES GroupsTyped' /\ QueryPlaced' /\ AttrPlaced'
  BY <1>1, <1>2, PageStep
<1>3. ASSUME NEW g \in GroupNames, Groups!Select(g)
      PROVE  GroupsTyped' /\ QueryPlaced' /\ AttrPlaced'
  <2>1. selected' = g /\ query' = Groups!Mounted(query, g) /\ UNCHANGED <<rename, attr>>
    BY <1>3 DEF Groups!Select
  <2>5. query = [k \in GroupNames |-> query[k]] /\ cache = [k \in GroupNames |-> cache[k]]
    BY DEF GroupsInv, GroupsTyped
  <2>6. /\ Groups!Mounted(query, g) = [k \in GroupNames |-> Groups!Mounted(query, g)[k]]
        /\ \A k \in GroupNames : \/ Groups!Mounted(query, g)[k] = query[k]
                                 \/ Groups!Mounted(query, g)[k].data = {}
    BY <2>5, MountedAsks
  <2>2. /\ query' = [k \in GroupNames |-> query'[k]]
        /\ \A k \in GroupNames : query'[k] = query[k] \/ query'[k].data = {}
    BY <2>1, <2>6
  <2>3. GroupsTyped' /\ AttrPlaced'
    <3>1. GroupsTyped'
      BY <1>1, <2>1, <2>2, <2>5, QueryTyped DEF GroupsInv
    <3>2. AttrPlaced'
      BY <1>1, <2>1 DEF GroupsInv, AttrPlaced
    <3>. QED
      BY <3>1, <3>2
  <2>4. QueryPlaced'
    BY <1>1, <2>2 DEF GroupsInv, QueryPlaced
  <2>. QED
    BY <2>3, <2>4
<1>4. ASSUME UNCHANGED <<query, selected, attr>>,
             rename' = [c \in NameFields |-> rename'[c]],
             /\ rename'.open => rename'.old \in GroupNames
             /\ rename'.new \in GroupNames \cup {NULL}
      PROVE  GroupsTyped' /\ QueryPlaced' /\ AttrPlaced'
  <2>1. QueryPlaced' /\ AttrPlaced'
    BY <1>1, <1>4 DEF GroupsInv, QueryPlaced, AttrPlaced
  <2>2. GroupsTyped'
    <3>1. /\ attr' = [c \in FormFields |-> attr'[c]]
          /\ attr'.open => attr'.group \in GroupNames
          /\ attr'.type \in Groups!Types /\ attr'.value \in Values \cup {""}
      BY <1>4 DEF GroupsInv, GroupsTyped
    <3>. QED
      BY <1>1, <1>4, <3>1, DialogTyped DEF GroupsInv
  <2>. QED
    BY <2>1, <2>2
<1>5. ASSUME NEW g \in GroupNames, Groups!OpenRename(g)
      PROVE  GroupsTyped' /\ QueryPlaced' /\ AttrPlaced'
  <2>1. rename' = [open |-> TRUE, old |-> g, new |-> g] /\ UNCHANGED <<query, selected, attr>>
    BY <1>5 DEF Groups!OpenRename
  <2>2. /\ rename' = [c \in NameFields |-> rename'[c]]
        /\ rename'.old \in GroupNames /\ rename'.new \in GroupNames
    BY <2>1 DEF NameFields
  <2>. QED
    BY <1>4, <2>1, <2>2
<1>6. ASSUME UNCHANGED <<query, selected>>,
             rename' = [c \in NameFields |-> rename'[c]],
             /\ rename'.open => rename'.old \in GroupNames
             /\ rename'.new \in GroupNames \cup {NULL},
             attr' = [c \in FormFields |-> attr'[c]],
             attr'.open => attr'.group \in GroupNames,
             attr'.type \in Groups!Types /\ attr'.value \in Values \cup {""},
             AttrPlaced'
      PROVE  GroupsTyped' /\ QueryPlaced' /\ AttrPlaced'
  <2>1. QueryPlaced'
    BY <1>1, <1>6 DEF GroupsInv, QueryPlaced
  <2>2. GroupsTyped'
    BY <1>1, <1>6, DialogTyped DEF GroupsInv
  <2>. QED
    BY <1>6, <2>1, <2>2
<1>7. CASE Groups!OpenAdd
  <2>1. /\ attr' = [Groups!NoForm EXCEPT !.open = TRUE, !.group = selected]
        /\ selected \in GroupNames /\ UNCHANGED <<query, selected, rename>>
    BY <1>7 DEF Groups!OpenAdd, GroupsInv, GroupsTyped
  <2>2. /\ attr' = [c \in FormFields |-> attr'[c]] /\ attr'.group = selected /\ attr'.id = 0
        /\ attr'.type \in Groups!Types /\ attr'.value = ""
    BY <2>1 DEF Groups!NoForm, FormFields, Groups!Types
  <2>. QED
    BY <1>6, <2>1, <2>2 DEF AttrPlaced, GroupsInv, GroupsTyped
<1>8. CASE Groups!TypeName
  <2>1. /\ \E g \in GroupNames : rename' = [rename EXCEPT !.new = g]
        /\ UNCHANGED <<query, selected, attr>>
    BY <1>8 DEF Groups!TypeName
  <2>2. /\ rename' = [c \in NameFields |-> rename'[c]]
        /\ rename'.open => rename'.old \in GroupNames
        /\ rename'.new \in GroupNames
    BY <2>1 DEF GroupsInv, GroupsTyped, NameFields
  <2>. QED
    BY <1>4, <2>1, <2>2
<1>9. CASE Groups!Cancel
  <2>1. /\ rename' = [rename EXCEPT !.open = FALSE] \/ rename' = Groups!NoRename
        /\ attr' = Groups!NoForm /\ UNCHANGED <<query, selected>>
    BY <1>9 DEF Groups!Cancel
  <2>2. /\ rename' = [c \in NameFields |-> rename'[c]]
        /\ rename'.open = FALSE /\ rename'.new \in GroupNames \cup {NULL}
    <3>1. CASE rename' = [rename EXCEPT !.open = FALSE]
      BY <3>1 DEF GroupsInv, GroupsTyped, NameFields
    <3>2. CASE rename' = Groups!NoRename
      BY <3>2 DEF NameFields, Groups!NoRename
    <3>. QED
      BY <2>1, <3>1, <3>2
  <2>3. /\ attr' = [c \in FormFields |-> attr'[c]] /\ attr'.open = FALSE
        /\ attr'.type \in Groups!Types /\ attr'.value = ""
    BY <2>1 DEF Groups!NoForm, FormFields, Groups!Types
  <2>. QED
    BY <1>6, <2>1, <2>2, <2>3 DEF AttrPlaced
<1>10. CASE Groups!OpenEdit
  <2>1. PICK a \in Groups!Shown :
          attr' = [open |-> TRUE, type |-> a.type, group |-> selected, value |-> a.value,
                   id |-> a.id, of |-> a.type]
    BY <1>10 DEF Groups!OpenEdit
  <2>2. UNCHANGED <<query, selected, rename>>
    BY <1>10 DEF Groups!OpenEdit
  <2>3. selected \in GroupNames /\ Entry(a, selected)
    BY ShownPlaced
  <2>4. /\ attr' = [c \in FormFields |-> attr'[c]] /\ attr'.group = selected
        /\ attr'.type = a.type /\ attr'.value = a.value /\ attr'.id = a.id /\ attr'.of = a.type
    BY <2>1 DEF FormFields
  <2>5. a.type \in Groups!Types /\ a.value \in Values \cup {""} /\ Placed(a.type, a.id, selected)
    BY <2>3 DEF Entry, Placed
  <2>6. Placed(a.type, a.id, selected)'
    BY <1>1, <2>2, <2>5 DEF Placed
  <2>7. AttrPlaced'
    BY <1>1, <2>2, <2>4, <2>5 DEF AttrPlaced, Placed
  <2>. QED
    BY <1>6, <2>2, <2>3, <2>4, <2>5, <2>7 DEF GroupsInv, GroupsTyped
<1>11. CASE Groups!InputAttribute
  <2>1. PICK t \in Groups!Types, v \in Values : attr' = [attr EXCEPT !.type = t, !.value = v]
    BY <1>11 DEF Groups!InputAttribute
  <2>2. UNCHANGED <<query, selected, rename>>
    BY <1>11 DEF Groups!InputAttribute
  <2>3. /\ attr' = [c \in FormFields |-> attr'[c]] /\ attr'.type = t /\ attr'.value = v
        /\ UNCHANGED <<attr.open, attr.group, attr.id, attr.of>>
    BY <2>1 DEF GroupsInv, GroupsTyped, FormFields
  <2>4. AttrPlaced'
    BY <1>1, <2>3 DEF GroupsInv, AttrPlaced
  <2>. QED
    BY <1>6, <2>2, <2>3, <2>4 DEF GroupsInv, GroupsTyped
<1>. QED
  BY <1>3, <1>5, <1>7, <1>8, <1>9, <1>10, <1>11

(* What the page sends: a save under the group its dialog names. *)
LEMMA SendSteps ==
    ASSUME GroupsInv, Values # {},
           \/ Groups!SaveRename \/ Groups!CreateGroup \/ Groups!DeleteGroup
           \/ Groups!SaveAttribute \/ Groups!DeleteAttribute
    PROVE  GroupsInv'
<1>1. CASE Groups!SaveRename
  <2>1. PICK r : r = [kind |-> "rename", old |-> rename.old, new |-> rename.new]
    OBVIOUS
  <2>2. Groups!Send(r)
    BY <1>1, <2>1 DEF Groups!SaveRename
  <2>3. /\ r = [c \in DOMAIN r |-> r[c]] /\ DOMAIN r = {"kind", "old", "new"}
        /\ r.kind = "rename" /\ r.new = rename.new
    BY <2>1
  <2>4. r.new \in GroupNames \cup {NULL}
    BY <2>3 DEF GroupsInv, GroupsTyped
  <2>. QED
    BY <2>2, <2>3, <2>4, SendKeeps
<1>2. CASE Groups!CreateGroup
  <2>4. PICK g \in GroupNames :
          Groups!Send([kind |-> "create",
                       body |-> [group |-> g, value |-> CHOOSE v \in Values : TRUE]])
    BY <1>2 DEF Groups!CreateGroup
  <2>1. PICK r :
          /\ r = [kind |-> "create", body |-> [group |-> g, value |-> CHOOSE v \in Values : TRUE]]
          /\ Groups!Send(r)
    BY <2>4
  <2>2. /\ r = [c \in DOMAIN r |-> r[c]] /\ DOMAIN r = {"kind", "body"} /\ r.kind = "create"
        /\ r.body = [group |-> g, value |-> CHOOSE v \in Values : TRUE]
    BY <2>1
  <2>5. (CHOOSE v \in Values : TRUE) \in Values
    OBVIOUS
  <2>3. r.body \in Cells
    BY <2>2, <2>5, CellMade
  <2>. QED
    BY <2>1, <2>2, <2>3, SendKeeps
<1>3. CASE Groups!DeleteGroup
  <2>1. PICK r : r = [kind |-> "drop", group |-> selected]
    OBVIOUS
  <2>2. Groups!Send(r)
    BY <1>3, <2>1 DEF Groups!DeleteGroup
  <2>3. r = [c \in DOMAIN r |-> r[c]] /\ DOMAIN r = {"kind", "group"} /\ r.kind = "drop"
    BY <2>1
  <2>. QED
    BY <2>2, <2>3, SendKeeps
<1>4. CASE Groups!SaveAttribute
  <2>1. PICK r : r = [kind |-> IF attr.id = 0 THEN "add" ELSE "edit",
                      type |-> attr.type, id |-> attr.id, of |-> attr.of,
                      body |-> [group |-> attr.group, value |-> attr.value]]
    OBVIOUS
  <2>2. Groups!Send(r) /\ attr.open
    BY <1>4, <2>1 DEF Groups!SaveAttribute
  <2>3. /\ r = [c \in DOMAIN r |-> r[c]] /\ DOMAIN r = {"kind", "type", "id", "of", "body"}
        /\ r.kind = IF attr.id = 0 THEN "add" ELSE "edit"
        /\ r.type = attr.type /\ r.id = attr.id /\ r.of = attr.of
        /\ r.body = [group |-> attr.group, value |-> attr.value]
    BY <2>1
  <2>7. attr.group \in GroupNames /\ attr.value \in Values \cup {""} /\ attr.type \in Groups!Types
    BY <2>2 DEF GroupsInv, GroupsTyped
  <2>8. [group |-> attr.group, value |-> attr.value] \in Cells
    BY <2>7, CellMade
  <2>9. r.body \in Cells
    BY <2>3, <2>8
  <2>10. r.type \in Groups!Types
    BY <2>3, <2>7
  <2>11. r.body.group = attr.group
    BY <2>3
  <2>4. r.body \in Cells /\ r.body.group = attr.group /\ r.type \in Groups!Types
    BY <2>9, <2>10, <2>11
  <2>5. r.kind = "edit" => Placed(r.of, r.id, r.body.group)
    BY <2>2, <2>3, <2>4 DEF GroupsInv, AttrPlaced
  <2>6. r.kind \in {"add", "edit"}
    BY <2>3
  <2>. QED
    BY <2>2, <2>3, <2>4, <2>5, <2>6, SendKeeps
<1>5. CASE Groups!DeleteAttribute
  <2>4. PICK a \in Groups!Shown : Groups!Send([kind |-> "delete", type |-> a.type, id |-> a.id])
    BY <1>5 DEF Groups!DeleteAttribute
  <2>1. PICK r : r = [kind |-> "delete", type |-> a.type, id |-> a.id] /\ Groups!Send(r)
    BY <2>4
  <2>2. /\ r = [c \in DOMAIN r |-> r[c]] /\ DOMAIN r = {"kind", "type", "id"}
        /\ r.kind = "delete" /\ r.type = a.type
    BY <2>1
  <2>3. r.type \in Groups!Types
    BY <2>2, ShownPlaced DEF Entry, Placed
  <2>. QED
    BY <2>1, <2>2, <2>3, SendKeeps
<1>. QED
  BY <1>1, <1>2, <1>3, <1>4, <1>5

(* The answers, and what follows them. *)
LEMMA ServeStep ==
    ASSUME GroupsInv, NEW r \in requests, Groups!Serve(r)
    PROVE  GroupsInv'
<1>1. PICK d : d = [r EXCEPT !.done = TRUE]
  OBVIOUS
<1>2. /\ requests' = (requests \ {r}) \cup {d}
      /\ UNCHANGED <<cache, query, selected, rename, attr, made>>
  BY <1>1 DEF Groups!Serve
<1>3. /\ rows' \in [Groups!Types -> Seq(Cells)]
      /\ \A t, i, g : Placed(t, i, g) => Placed(t, i, g)'
      /\ \A a, g : Entry(a, g) => Entry(a, g)'
  BY ServedRows, PlacedServed DEF Entry
<1>4. Formed(r)
  BY DEF GroupsInv
<1>5. /\ d = [c \in DOMAIN d |-> d[c]] /\ DOMAIN d = DOMAIN r /\ d.done = TRUE
      /\ \A c \in DOMAIN r : c # "done" => d[c] = r[c]
  BY <1>1, <1>4 DEF Formed
<1>6. Formed(d)'
  <2>1. d.kind = r.kind /\ d.n = r.n
    BY <1>4, <1>5 DEF Formed
  <2>2. /\ "body" \in DOMAIN r => d.body = r.body
        /\ "type" \in DOMAIN r => d.type = r.type
        /\ "new" \in DOMAIN r => d.new = r.new
    BY <1>5
  <2>. QED
    BY <1>2, <1>4, <1>5, <2>1, <2>2 DEF Formed
<1>7. EditPlaced(d)'
  BY <1>5 DEF EditPlaced
<1>8. ASSUME NEW s \in requests
      PROVE  Formed(s)' /\ EditPlaced(s)'
  <2>1. Formed(s) /\ EditPlaced(s)
    BY DEF GroupsInv
  <2>2. Formed(s)'
    BY <1>2, <2>1 DEF Formed
  <2>3. EditPlaced(s)'
    BY <1>3, <2>1 DEF EditPlaced
  <2>. QED
    BY <2>2, <2>3
<1>9. Single'
  <2>1. d.n = r.n
    BY <1>4, <1>5 DEF Formed
  <2>. QED
    BY <1>2, <2>1 DEF GroupsInv, Single
<1>10. GroupsTyped'
  BY <1>2, <1>3 DEF GroupsInv, GroupsTyped
<1>11. CachePlaced'
  BY <1>2, <1>3 DEF GroupsInv, CachePlaced
<1>12. QueryPlaced'
  BY <1>2, <1>3 DEF GroupsInv, QueryPlaced
<1>13. AttrPlaced'
  BY <1>2, <1>3 DEF GroupsInv, AttrPlaced
<1>. QED
  BY <1>2, <1>6, <1>7, <1>8, <1>9, <1>10, <1>11, <1>12, <1>13 DEF GroupsInv

LEMMA AnswerSteps ==
    ASSUME GroupsInv, NEW r \in requests, Groups!Fail(r) \/ Groups!Succeed(r)
    PROVE  GroupsInv'
<1>1. requests' \subseteq requests /\ UNCHANGED <<rows, cache, made, moved>>
  BY DEF Groups!Fail, Groups!Succeed
<1>2. CachePlaced'
  BY <1>1, EntryUnchanged DEF GroupsInv, CachePlaced
<1>3. CASE Groups!Fail(r)
  <2>1. UNCHANGED <<query, selected, rename, attr>>
    BY <1>3 DEF Groups!Fail
  <2>2. GroupsTyped'
    BY <1>1, <2>1 DEF GroupsInv, GroupsTyped
  <2>3. QueryPlaced' /\ AttrPlaced'
    BY <1>1, <2>1, EntryUnchanged, PlacedUnchanged DEF GroupsInv, QueryPlaced, AttrPlaced
  <2>. QED
    BY <1>1, <1>2, <2>2, <2>3, PageStep
<1>4. CASE Groups!Succeed(r)
  <2>1. /\ selected' \in {rename.new, NULL, selected}
        /\ query' = Groups!Mounted(Groups!Invalidated, selected')
        /\ rename' = rename \/ rename' = Groups!NoRename
        /\ attr' = attr \/ attr' = Groups!NoForm
    BY <1>4 DEF Groups!Succeed
  <2>2. /\ query' = [k \in GroupNames |-> query'[k]]
        /\ \A k \in GroupNames : query'[k] = query[k] \/ query'[k].data = {}
    <3>1. PICK q, g : q = Groups!Invalidated /\ g = selected'
      OBVIOUS
    <3>2. /\ q = [k \in GroupNames |-> q[k]]
          /\ \A k \in GroupNames : q[k] = query[k] \/ q[k].data = {}
      BY <3>1, InvalidatedAsks DEF GroupsInv
    <3>3. /\ Groups!Mounted(q, g) = [k \in GroupNames |-> Groups!Mounted(q, g)[k]]
          /\ \A k \in GroupNames : \/ Groups!Mounted(q, g)[k] = q[k]
                                   \/ Groups!Mounted(q, g)[k].data = {}
      BY <3>2, MountedAsks
    <3>4. query' = Groups!Mounted(q, g)
      BY <2>1, <3>1
    <3>. QED
      BY <3>2, <3>3, <3>4
  <2>3. QueryPlaced'
    BY <1>1, <2>2, EntryUnchanged DEF GroupsInv, QueryPlaced
  <2>4. AttrPlaced'
    <3>1. CASE attr' = attr
      BY <1>1, <3>1, PlacedUnchanged DEF GroupsInv, AttrPlaced
    <3>2. CASE attr' = Groups!NoForm
      BY <3>2 DEF AttrPlaced, Groups!NoForm
    <3>. QED
      BY <2>1, <3>1, <3>2
  <2>5. /\ rename' = [c \in NameFields |-> rename'[c]]
        /\ rename'.open => rename'.old \in GroupNames
        /\ rename'.new \in GroupNames \cup {NULL}
    <3>1. CASE rename' = rename
      BY <3>1 DEF GroupsInv, GroupsTyped
    <3>2. CASE rename' = Groups!NoRename
      BY <3>2 DEF NameFields, Groups!NoRename
    <3>. QED
      BY <2>1, <3>1, <3>2
  <2>6. /\ attr' = [c \in FormFields |-> attr'[c]]
        /\ attr'.open => attr'.group \in GroupNames
        /\ attr'.type \in Groups!Types /\ attr'.value \in Values \cup {""}
    <3>1. CASE attr' = attr
      BY <3>1 DEF GroupsInv, GroupsTyped
    <3>2. CASE attr' = Groups!NoForm
      BY <3>2 DEF FormFields, Groups!NoForm, Groups!Types
    <3>. QED
      BY <2>1, <3>1, <3>2
  <2>7. selected' \in GroupNames \cup {NULL}
    BY <2>1 DEF GroupsInv, GroupsTyped
  <2>8. GroupsTyped'
    BY <1>1, <2>2, <2>5, <2>6, <2>7 DEF GroupsInv, GroupsTyped
  <2>. QED
    BY <1>1, <1>2, <2>3, <2>4, <2>8, PageStep
<1>. QED
  BY <1>3, <1>4

LEMMA GroupsStep ==
    ASSUME Values # {}, GroupsInv, [Groups!Next]_Groups!vars
    PROVE  GroupsInv'
<1>1. CASE UNCHANGED Groups!vars
  <2>1. UNCHANGED <<rows, cache, query, selected, rename, attr, requests, made, moved>>
    BY <1>1 DEF Groups!vars
  <2>2. GroupsTyped'
    BY <2>1 DEF GroupsInv, GroupsTyped
  <2>3. CachePlaced' /\ QueryPlaced' /\ AttrPlaced'
    BY <2>1, EntryUnchanged, PlacedUnchanged DEF GroupsInv, CachePlaced, QueryPlaced, AttrPlaced
  <2>. QED
    BY <2>1, <2>2, <2>3, PageStep
<1>2. CASE Groups!Next
  BY <1>2, FetchSteps, DialogSteps, SendSteps, ServeStep, AnswerSteps DEF Groups!Next
<1>. QED
  BY <1>1, <1>2

(* The step that carries out an edit is the handler's. *)
LEMMA EditServed ==
    ASSUME GroupsInv, Groups!Next, NEW r \in requests, Groups!Edits(r)
    PROVE  Groups!Serve(r)
<1>1. PICK d : d = [r EXCEPT !.done = TRUE]
  OBVIOUS
<1>2. d \in requests' /\ ~r.done /\ d.n = r.n /\ d.done = TRUE
  BY <1>1 DEF Groups!Edits, GroupsInv, Formed
<1>3. d \notin requests
  <2>1. \A s \in requests : s.n = r.n => s = r
    BY DEF GroupsInv, Single
  <2>. QED
    BY <1>2, <2>1
<1>4. CASE \E q : Groups!Send(q)
  <2>1. PICK q : requests' = requests \cup {q} /\ q.n = made
    <3>1. PICK q : Groups!Send(q)
      BY <1>4
    <3>2. Groups!Numbered(q).n = made
      BY DEF Groups!Numbered
    <3>. QED
      BY <3>1, <3>2 DEF Groups!Send
  <2>2. r.n < made /\ made \in Nat /\ r.n \in Nat
    BY DEF GroupsInv, Formed, GroupsTyped
  <2>. QED
    BY <1>2, <1>3, <2>1, <2>2
<1>5. CASE requests' \subseteq requests
  BY <1>2, <1>3, <1>5
<1>6. CASE \E s \in requests : Groups!Serve(s)
  <2>1. PICK s \in requests : Groups!Serve(s)
    BY <1>6
  <2>2. d = [s EXCEPT !.done = TRUE]
    BY <1>2, <1>3, <2>1 DEF Groups!Serve
  <2>3. d.n = s.n
    BY <2>2 DEF GroupsInv, Formed
  <2>. QED
    BY <1>2, <2>1, <2>3 DEF GroupsInv, Single
<1>. QED
  BY <1>4, <1>5, <1>6
  DEF Groups!Next, Groups!Read, Groups!Arrive, Groups!Select, Groups!OpenRename,
      Groups!TypeName, Groups!Cancel, Groups!SaveRename, Groups!CreateGroup,
      Groups!DeleteGroup, Groups!OpenAdd, Groups!OpenEdit, Groups!InputAttribute,
      Groups!SaveAttribute, Groups!DeleteAttribute, Groups!Quiet, Groups!Fail, Groups!Succeed

LEMMA EditsKeepGroup ==
    ASSUME GroupsInv, Groups!Next
    PROVE  Groups!StaysInGroup
<1>. SUFFICES ASSUME NEW r \in requests, Groups!Edits(r)
              PROVE  \/ <<r.type, r.id>> \in moved'
                     \/ rows'[r.type][r.id].group = rows[r.type][r.id].group
  BY DEF Groups!StaysInGroup
<1>1. Groups!Serve(r) /\ r.kind = "edit" /\ ~r.done
  BY EditServed DEF Groups!Edits
<1>2. Formed(r) /\ EditPlaced(r)
  BY DEF GroupsInv
<1>3. CASE r.type # r.of
  BY <1>1, <1>3 DEF Groups!Serve, Groups!Moved
<1>4. CASE r.type = r.of
  <2>1. /\ rows' = [rows EXCEPT ![r.type] = [rows[r.type] EXCEPT ![r.id] = r.body]]
        /\ r.type \in Groups!Types /\ r.id \in DOMAIN rows[r.type] /\ rows[r.type][r.id] # NULL
        /\ moved \subseteq moved'
    BY <1>1, <1>2 DEF Groups!Serve, Groups!Effect, Groups!Found, Groups!Ids, Formed
  <2>2. rows'[r.type][r.id] = r.body
    BY <2>1 DEF GroupsInv, GroupsTyped
  <2>. QED
    BY <1>1, <1>2, <1>4, <2>1, <2>2 DEF EditPlaced, Placed
<1>. QED
  BY <1>3, <1>4

(* AN EDITED ATTRIBUTE STAYS IN ITS GROUP.  With any number of groups, rows and
   requests, in any order of late answers and selections, a handler that carries
   out an edit leaves the row in the group it is in, unless a rename took it
   along or it was saved as of the other table. *)
THEOREM AttributesStayInGroup ==
    ASSUME Values # {}
    PROVE  Groups!Spec => EditStaysInGroup
<1>1. Groups!Init => GroupsInv
  BY GroupsInit
<1>2. GroupsInv /\ [Groups!Next]_Groups!vars => GroupsInv'
  BY GroupsStep
<1>3. GroupsInv /\ [Groups!Next]_Groups!vars => [Groups!StaysInGroup]_Groups!vars
  BY EditsKeepGroup
<1>. QED
  BY <1>1, <1>2, <1>3, PTL DEF Groups!Spec, EditStaysInGroup, Groups!EditStaysInGroup

-----------------------------------------------------------------------------
(* What rows, forms and the bodies of requests look like on each page. *)

PageNames == {"nas", "devices", "segments", "circuits", "admins", "users", "assignments"}

Columns(p) ==
    CASE p = "nas"         -> {"name", "secret", "cat", "ports"}
      [] p = "devices"     -> {"mac", "name", "cat", "active"}
      [] p = "segments"    -> {"name", "cidr", "description"}
      [] p = "circuits"    -> {"name", "circuit", "carrier", "active"}
      [] p = "admins"      -> {"username", "password", "active"}
      [] p = "users"       -> {"table", "username", "attribute", "value"}
      [] p = "assignments" -> Target \cup {"group"}

Modes == {"segment", "ip_range", "category", "mac", "mac_plus_ip", "ip"}

(* A sequence, whatever its elements. *)
Word(s) == s \in Seq({s[i] : i \in DOMAIN s})

RowFits(p, row) ==
    /\ row = [c \in Columns(p) |-> row[c]]
    /\ p = "nas" => Word(row.name)
    /\ p = "devices" => row.mac # NULL /\ Canon(row.mac) = row.mac /\ Canon(row.name) = row.name
    /\ p = "segments" => row.name # NULL /\ row.cidr # NULL /\ Canon(row.cidr) = row.cidr
    /\ p = "circuits" => row.name # NULL /\ row.circuit # NULL
    /\ p \in {"devices", "circuits"} => row.active \in {0, 1}
    /\ p = "assignments" => Canon(row.mac) = row.mac

Fields(p) ==
    CASE p = "nas"         -> {"secret", "cat", "prefix", "name"}
      [] p = "admins"      -> {"new", "active", "reset"}
      [] p = "users"       -> Columns("users") \cup {"replies"}
      [] p = "assignments" -> {"mode", "seg", "start", "end", "cat", "mac", "nas", "nases", "group"}
      [] OTHER             -> Columns(p)

FormFits(f) ==
    /\ f = [c \in Fields(page) |-> f[c]]
    /\ page = "nas" => Word(f.name)
    /\ page = "devices" => f.mac # NULL
    /\ page = "segments" => f.name # NULL /\ f.cidr # NULL /\ f.description # NULL
    /\ page = "circuits" => f.name # NULL /\ f.circuit # NULL /\ f.carrier # NULL
    /\ page \in {"devices", "circuits"} => f.active \in {0, 1}
    /\ page = "admins" => f.new = [c \in Columns("admins") |-> f.new[c]]
    /\ page = "users" => f.replies \in Seq(Texts)
    /\ page = "assignments" => f.nases \in SUBSET Nases /\ f.mode \in Modes /\ f.nas # NULL

(* The body of a PUT. *)
BodyFits(b) ==
    /\ page \notin {"nas", "admins"} => b = [c \in Columns(page) |-> b[c]]
    /\ page = "nas" => /\ b = [c \in {"secret", "cat", "name"} |-> b[c]]
                       /\ Word(b.name) /\ b.cat # ""
    /\ page = "devices" => b.mac # NULL /\ b.name # "" /\ b.cat # ""
    /\ page = "segments" => b.name # NULL /\ b.cidr # NULL /\ b.description # NULL
    /\ page = "circuits" => b.name # NULL /\ b.circuit # NULL /\ b.carrier # NULL
    /\ page \in {"devices", "circuits"} => b.active \in {0, 1}
    /\ page = "admins" => \/ b = [c \in {"active"} |-> b[c]]
                          \/ b = [c \in {"active", "password"} |-> b[c]]

(* The body of a POST. *)
PostFits(b) ==
    IF page = "admins" THEN b = [c \in Columns("admins") |-> b[c]] ELSE BodyFits(b)

(* A policy for something. *)
Targeted(b) == \E c \in {"seg", "cat", "mac", "nas"} : b[c] # NULL

(* The database's NULL is no record. *)
NullIsNoRow == \A row : row = [c \in DOMAIN row |-> row[c]] => row # NULL

(* What the pages are asked to be: NULL is not one of the values it stands
   beside, an empty input is a text, a shortname is a sequence, the NAS clients
   are finitely many, a text the backend has rewritten it does not rewrite
   again, and the rows that are there at first or that others write have the
   columns of the page's table, rewritten where the backend does. *)
FormConstants ==
    /\ Pages \subseteq PageNames
    /\ NULL \notin Texts /\ NULL \notin {0, 1} /\ NullIsNoRow
    /\ "" \in Texts /\ (\A s \in Shortnames : Word(s))
    /\ IsFiniteSet(Nases) /\ NULL \notin Nases
    /\ NULL \notin Spellings /\ \A s \in Spellings : Canon(Canon(s)) = Canon(s)
    /\ \A p \in Pages : \A row \in Initial[p] \cup Seeds[p] : RowFits(p, row)

-----------------------------------------------------------------------------
LEMMA WordMade ==
    ASSUME NEW S, NEW s \in Seq(S)
    PROVE  Word(s)
<1>1. s = [i \in 1 .. Len(s) |-> s[i]] /\ Len(s) \in Nat /\ DOMAIN s = 1 .. Len(s)
  OBVIOUS
<1>2. \A i \in 1 .. Len(s) : s[i] \in {s[k] : k \in DOMAIN s}
  BY <1>1
<1>. QED
  BY <1>1, <1>2, SequenceMade DEF Word

LEMMA TailWord ==
    ASSUME NEW s, Word(s), Len(s) > 1
    PROVE  Word(Tail(s)) /\ <<Head(s)>> \o Tail(s) = s
<1>. DEFINE S == {s[i] : i \in DOMAIN s}
<1>1. s \in Seq(S)
  BY DEF Word
<1>. HIDE DEF S
<1>2. Tail(s) \in Seq(S) /\ <<Head(s)>> \o Tail(s) = s
  BY <1>1
<1>. QED
  BY <1>2, WordMade

LEMMA LongerWord ==
    ASSUME NEW s, Word(s), NEW x
    PROVE  Word(<<x>> \o s) /\ Word(Append(s, x))
<1>. DEFINE S == {s[i] : i \in DOMAIN s} \cup {x}
<1>1. s \in Seq(S)
  <2>1. s \in Seq({s[i] : i \in DOMAIN s})
    BY DEF Word
  <2>. QED
    BY <2>1
<1>2. x \in S
  OBVIOUS
<1>. HIDE DEF S
<1>3. <<x>> \o s \in Seq(S) /\ Append(s, x) \in Seq(S)
  BY <1>1, <1>2
<1>. QED
  BY <1>3, WordMade

LEMMA NullApart ==
    ASSUME FormConstants
    PROVE  NULL # "" /\ NULL # 0 /\ NULL # 1 /\ \A t \in Texts : t # NULL
BY DEF FormConstants

LEMMA TextGiven ==
    ASSUME FormConstants
    PROVE  \A x : Text(x) # NULL /\ (x # NULL => Text(x) = x)
BY NullApart DEF Text

(* What the backend makes of a text. *)
LEMMA CanonMade ==
    ASSUME FormConstants
    PROVE  /\ Canon(NULL) = NULL
           /\ \A x : Canon(Canon(x)) = Canon(x)
           /\ \A x : x # "" => Canon(x) # ""
<1>1. Canon(NULL) = NULL
  BY DEF FormConstants, Canon
<1>2. ASSUME NEW x PROVE Canon(Canon(x)) = Canon(x)
  <2>1. CASE x \in Spellings
    BY <2>1 DEF FormConstants
  <2>2. CASE x \notin Spellings
    BY <2>2 DEF Canon
  <2>. QED
    BY <2>1, <2>2
<1>3. ASSUME NEW x, x # "" PROVE Canon(x) # ""
  BY <1>3, NullApart DEF Canon, Filled
<1>. QED
  BY <1>1, <1>2, <1>3

(* The payload has the columns of the body, some of them rewritten. *)
LEMMA PayloadHas ==
    ASSUME NEW op, NEW b
    PROVE  /\ DOMAIN Received(op, b) = Known(op, b)
           /\ \A c \in Known(op, b) :
                  Received(op, b)[c] = IF c \in Rewritten(op) THEN Canon(b[c]) ELSE b[c]
BY DEF Received

(* A page starts from a form of its kind. *)
LEMMA BlankFits ==
    ASSUME FormConstants, page \in PageNames
    PROVE  FormFits(Blank)
<1>1. CASE page = "nas"
  <2>1. Word(<<>>)
    BY DEF Word
  <2>. QED
    BY <1>1, <2>1 DEF FormFits, Fields, Blank, NasBlank
<1>2. CASE page = "devices"
  BY <1>2, NullApart DEF FormFits, Fields, Columns, Blank, DeviceBlank
<1>3. CASE page = "segments"
  BY <1>3, NullApart DEF FormFits, Fields, Columns, Blank, SegmentBlank
<1>4. CASE page = "circuits"
  BY <1>4, NullApart DEF FormFits, Fields, Columns, Blank, CircuitBlank
<1>5. CASE page = "admins"
  BY <1>5, NullApart DEF FormFits, Fields, Columns, Blank, AdminBlank, AdminNew
<1>6. CASE page = "users"
  <2>1. <<>> \in Seq(Texts)
    OBVIOUS
  <2>. QED
    BY <1>6, <2>1 DEF FormFits, Fields, Columns, Blank, WizardBlank
<1>7. CASE page = "assignments"
  BY <1>7, NullApart DEF FormFits, Fields, Columns, Blank, AssignmentBlank, Modes
<1>. QED
  BY <1>1, <1>2, <1>3, <1>4, <1>5, <1>6, <1>7 DEF PageNames

(* And so does the form of a row. *)
LEMMA FormOfFits ==
    ASSUME FormConstants, page \in PageNames, NEW row, RowFits(page, row),
           NEW left, FormFits(left)
    PROVE  FormFits(FormOf(row, left)) /\ (page = "admins" => FormOf(row, left).reset = "")
<1>a. \A x : Text(x) # NULL
  BY TextGiven
<1>1. CASE page = "nas"
  <2>1. Word(row.name)
    BY <1>1 DEF RowFits
  <2>2. Len(row.name) > 1 => Word(Tail(row.name))
    BY <2>1, TailWord
  <2>. QED
    BY <1>1, <2>1, <2>2 DEF FormFits, Fields, FormOf, NasForm
<1>2. CASE page = "devices"
  BY <1>2 DEF RowFits, FormFits, Fields, Columns, FormOf, DeviceForm
<1>3. CASE page = "segments"
  BY <1>3, <1>a DEF RowFits, FormFits, Fields, Columns, FormOf, SegmentForm
<1>4. CASE page = "circuits"
  BY <1>4, <1>a DEF RowFits, FormFits, Fields, Columns, FormOf, CircuitForm
<1>5. CASE page = "admins"
  <2>1. FormOf(row, left) = [left EXCEPT !.active = row.active, !.reset = ""]
    BY <1>5 DEF FormOf, AdminForm
  <2>2. left = [c \in {"new", "active", "reset"} |-> left[c]]
    BY <1>5 DEF FormFits, Fields
  <2>3. FormOf(row, left).new = left.new /\ FormOf(row, left).reset = ""
    BY <2>1, <2>2
  <2>4. FormOf(row, left) = [c \in {"new", "active", "reset"} |-> FormOf(row, left)[c]]
    BY <2>1, <2>2
  <2>. QED
    BY <1>5, <2>3, <2>4 DEF FormFits, Fields
<1>6. CASE page = "users"
  <2>1. FormOf(row, left) = Merge(WizardBlank, row)
    BY <1>6 DEF FormOf, UserForm
  <2>2. DOMAIN row = Columns("users")
    BY <1>6 DEF RowFits
  <2>3. DOMAIN WizardBlank = Fields("users")
    BY DEF WizardBlank, Fields, Columns
  <2>4. Merge(WizardBlank, row) = [c \in Fields("users") |-> Merge(WizardBlank, row)[c]]
    BY <2>3 DEF Merge
  <2>5. "replies" \notin Columns("users")
    BY DEF Columns
  <2>7. <<>> \in Seq(Texts)
    OBVIOUS
  <2>6. Merge(WizardBlank, row).replies = <<>>
    BY <2>2, <2>3, <2>5 DEF Merge, WizardBlank, Fields
  <2>. QED
    BY <1>6, <2>1, <2>4, <2>6, <2>7 DEF FormFits
<1>7. CASE page = "assignments"
  <2>1. ModeOf(row) \in Modes
    BY DEF ModeOf, Modes
  <2>. QED
    BY <1>7, <1>a, <2>1 DEF FormFits, Fields, FormOf, AssignmentForm
<1>. QED
  BY <1>1, <1>2, <1>3, <1>4, <1>5, <1>6, <1>7 DEF PageNames

(* An input changes one field of the form, and leaves it a form. *)
LEMMA FieldFits ==
    ASSUME NEW f, FormFits(f), NEW c \in Fields(page), NEW x,
           c = "name" => page \notin {"nas", "segments", "circuits"} \/ (page = "nas" /\ Word(x))
                            \/ (page # "nas" /\ x # NULL),
           c \in {"mac", "cidr", "circuit", "description", "carrier"} =>
               page \notin {"devices", "segments", "circuits"} \/ x # NULL,
           c = "nas" => x # NULL,
           c = "active" => page \notin {"devices", "circuits"} \/ x \in {0, 1},
           c = "new" => x = [k \in Columns("admins") |-> x[k]],
           c = "replies" => x \in Seq(Texts),
           c = "nases" => x \in SUBSET Nases,
           c = "mode" => x \in Modes
    PROVE  FormFits([f EXCEPT ![c] = x])
<1>. DEFINE g == [f EXCEPT ![c] = x]
<1>1. /\ g = [k \in Fields(page) |-> g[k]] /\ g[c] = x
      /\ \A k \in Fields(page) \ {c} : g[k] = f[k]
  BY DEF FormFits
<1>. HIDE DEF g
<1>2. CASE page = "nas"
  BY <1>1, <1>2 DEF FormFits, Fields
<1>3. CASE page = "devices"
  BY <1>1, <1>3 DEF FormFits, Fields, Columns
<1>4. CASE page = "segments"
  BY <1>1, <1>4 DEF FormFits, Fields, Columns
<1>5. CASE page = "circuits"
  BY <1>1, <1>5 DEF FormFits, Fields, Columns
<1>6. CASE page = "admins"
  BY <1>1, <1>6 DEF FormFits, Fields
<1>7. CASE page = "users"
  BY <1>1, <1>7 DEF FormFits, Fields
<1>8. CASE page = "assignments"
  BY <1>1, <1>8 DEF FormFits, Fields
<1>9. CASE page \notin PageNames
  BY <1>1, <1>9 DEF FormFits, PageNames
<1>. QED
  BY <1>2, <1>3, <1>4, <1>5, <1>6, <1>7, <1>8, <1>9 DEF g, PageNames

LEMMA InputFits ==
    ASSUME FormConstants, page \in PageNames, FormFits(modal.form), NEW g \in Inputs(modal.form)
    PROVE  FormFits(g)
<1>. DEFINE f == modal.form
<1>a. f = [c \in Fields(page) |-> f[c]] /\ FormFits(f)
  BY DEF FormFits
<1>b. \A t \in Texts \cup Spellings \cup Nases : t # NULL
  BY NullApart DEF FormConstants
<1>. HIDE DEF f
<1>1. CASE page = "nas"
  <2>1. CASE \E n \in Shortnames : g = [f EXCEPT !.name = n]
    <3>1. PICK n \in Shortnames : g = [f EXCEPT !.name = n]
      BY <2>1
    <3>2. Word(n) /\ "name" \in Fields(page)
      BY <1>1 DEF FormConstants, Fields
    <3>. QED
      BY <1>1, <1>a, <3>1, <3>2, FieldFits
  <2>2. CASE \E c \in {"secret", "cat"}, t \in Texts : g = [f EXCEPT ![c] = t]
    <3>1. PICK c \in {"secret", "cat"}, t \in Texts : g = [f EXCEPT ![c] = t]
      BY <2>2
    <3>2. c \in Fields(page)
      BY <1>1 DEF Fields
    <3>. QED
      BY <1>a, <3>1, <3>2, FieldFits
  <2>. QED
    BY <1>1, <2>1, <2>2 DEF Inputs, NasInputs, Typed, TypedSome, Given, f
<1>2. CASE page \in {"devices", "segments", "circuits"}
  <2>. DEFINE Inputted == {"mac", "name", "cat", "cidr", "circuit", "description", "carrier"}
  <2>1. CASE \E c \in Inputted \cap Fields(page), t \in Texts \cup Spellings : g = [f EXCEPT ![c] = t]
    <3>1. PICK c \in Inputted \cap Fields(page), t \in Texts \cup Spellings : g = [f EXCEPT ![c] = t]
      BY <2>1
    <3>. QED
      BY <1>2, <1>a, <1>b, <3>1, FieldFits
  <2>2. CASE "active" \in Fields(page) /\ \E a \in {0, 1} : g = [f EXCEPT !.active = a]
    <3>1. PICK a \in {0, 1} : g = [f EXCEPT !["active"] = a]
      BY <2>2
    <3>. QED
      BY <1>2, <1>a, <2>2, <3>1, FieldFits
  <2>3. CASE page = "devices"
    <3>1. f.active \in {0, 1}
      BY <1>a, <2>3 DEF FormFits
    <3>2. 1 - f.active \in {0, 1}
      BY <3>1
    <3>3. g \in DeviceInputs(f, modal.mode = "edit")
      BY <2>3 DEF Inputs, f
    <3>4. "" \in Texts
      BY DEF FormConstants
    <3>. QED
      BY <2>1, <2>2, <2>3, <3>2, <3>3, <3>4 DEF DeviceInputs, Typed, Spelled, Fields, Columns
  <2>4. CASE page = "segments"
    BY <2>1, <2>4 DEF Inputs, SegmentInputs, Typed, TypedSome, Spelled, Given, Fields, Columns, f
  <2>5. CASE page = "circuits"
    BY <2>1, <2>2, <2>5
    DEF Inputs, CircuitInputs, Typed, TypedSome, Spelled, Given, Fields, Columns, f
  <2>. QED
    BY <1>2, <2>3, <2>4, <2>5
<1>5. CASE page = "admins"
  <2>. DEFINE E == modal.mode = "edit"
  <2>1. g \in AdminInputs(f, E)
    BY <1>5 DEF Inputs, f
  <2>2. CASE \E c \in {"reset", "active"} : \E x : g = [f EXCEPT ![c] = x]
    <3>1. PICK c \in {"reset", "active"} : \E x : g = [f EXCEPT ![c] = x]
      BY <2>2
    <3>2. PICK x : g = [f EXCEPT ![c] = x]
      BY <3>1
    <3>3. c \in Fields(page)
      BY <1>5 DEF Fields
    <3>. QED
      BY <1>5, <1>a, <3>2, <3>3, FieldFits
  <2>3. CASE \E c \in {"username", "password"}, t \in Texts :
                g = [f EXCEPT !.new = [f.new EXCEPT ![c] = t]]
    <3>1. PICK c \in {"username", "password"}, t \in Texts :
              g = [f EXCEPT !.new = [f.new EXCEPT ![c] = t]]
      BY <2>3
    <3>2. f.new = [k \in Columns("admins") |-> f.new[k]]
      BY <1>5, <1>a DEF FormFits
    <3>. DEFINE x == [f.new EXCEPT ![c] = t]
    <3>3. x = [k \in Columns("admins") |-> x[k]]
      BY <3>2
    <3>4. g = [f EXCEPT !["new"] = x] /\ "new" \in Fields(page)
      BY <1>5, <3>1 DEF Fields
    <3>. HIDE DEF x
    <3>. QED
      BY <1>5, <1>a, <3>3, <3>4, FieldFits
  <2>4. CASE E
    BY <2>1, <2>2, <2>4 DEF AdminInputs, Typed
  <2>5. CASE ~E
    BY <2>1, <2>3, <2>5 DEF AdminInputs, TypedSome, Given
  <2>. QED
    BY <2>4, <2>5
<1>6. CASE page = "users"
  <2>1. ASSUME NEW c \in {"username", "attribute", "value"}, NEW x, g = [f EXCEPT ![c] = x]
        PROVE  FormFits(g)
    <3>1. c \in Fields(page)
      BY <1>6 DEF Fields, Columns
    <3>. QED
      BY <1>6, <1>a, <2>1, <3>1, FieldFits
  <2>2. ASSUME g \in UserInputs(f) PROVE FormFits(g)
    BY <2>1, <2>2 DEF UserInputs, TypedSome, Given
  <2>3. ASSUME NEW t \in Texts,
               g = [f EXCEPT !.replies = IF f.replies = <<>> THEN Append(f.replies, t) ELSE <<>>]
        PROVE  FormFits(g)
    <3>1. f.replies \in Seq(Texts)
      BY <1>6, <1>a DEF FormFits
    <3>. DEFINE x == IF f.replies = <<>> THEN Append(f.replies, t) ELSE <<>>
    <3>2. x \in Seq(Texts)
      BY <3>1
    <3>4. g = [f EXCEPT !["replies"] = x]
      BY <2>3
    <3>. HIDE DEF x
    <3>3. "replies" \in Fields(page)
      BY <1>6 DEF Fields
    <3>. QED
      BY <1>6, <1>a, <3>2, <3>3, <3>4, FieldFits
  <2>4. CASE g \in UserInputs(f)
    BY <2>2, <2>4
  <2>5. CASE g \in WizardInputs(f)
    BY <2>2, <2>3, <2>5 DEF WizardInputs, Given
  <2>. QED
    BY <1>6, <2>4, <2>5 DEF Inputs, f
<1>7. CASE page = "assignments"
  <2>1. g \in AssignmentInputs(f, modal.mode = "edit")
    BY <1>7 DEF Inputs, f
  <2>2. Fields(page) = {"mode", "seg", "start", "end", "cat", "mac", "nas", "nases", "group"}
    BY <1>7 DEF Fields
  <2>3. ASSUME NEW c \in {"group", "seg", "start", "end", "cat", "mac", "nas"}, NEW x,
               g = [f EXCEPT ![c] = x], c = "nas" => x # NULL
        PROVE  FormFits(g)
    BY <1>7, <1>a, <2>2, <2>3, FieldFits
  <2>4. ASSUME NEW x \in SUBSET Nases, g = [f EXCEPT !.nases = x]
        PROVE  FormFits(g)
    BY <1>7, <1>a, <2>2, <2>4, FieldFits
  <2>5. CASE g \in TypedSome(f, "group")
    BY <2>3, <2>5 DEF TypedSome, Given
  <2>6. CASE g \in TargetValues(f)
    <3>1. f.mode \in Modes
      BY <1>7, <1>a DEF FormFits
    <3>2. CASE \E x \in SUBSET Nases : g = [f EXCEPT !.nases = x]
      BY <2>4, <3>2
    <3>3. CASE \E c \in {"seg", "start", "end", "cat", "mac"} : \E x : g = [f EXCEPT ![c] = x]
      BY <2>3, <3>3
    <3>4. CASE \E n \in Nases : g = [f EXCEPT !.nas = n]
      BY <1>b, <2>3, <3>4
    <3>. QED
      BY <2>6, <3>1, <3>2, <3>3, <3>4 DEF TargetValues, Typed, TypedSome, Spelled, Given, Modes
  <2>7. CASE g \in ModeInputs(f) \cup LegacyInputs(f)
    <3>1. /\ g = [k \in Fields(page) |-> g[k]]
          /\ (g.nases = {} \/ g.nases = f.nases) /\ g.mode \in Modes /\ g.nas = f.nas
      BY <1>a, <2>2, <2>7 DEF ModeInputs, LegacyInputs, Modes
    <3>2. f.nases \in SUBSET Nases /\ f.nas # NULL
      BY <1>7, <1>a DEF FormFits
    <3>. QED
      BY <1>7, <3>1, <3>2 DEF FormFits
  <2>. QED
    BY <2>1, <2>5, <2>6, <2>7 DEF AssignmentInputs, TargetInputs
<1>. QED
  BY <1>1, <1>2, <1>5, <1>6, <1>7 DEF PageNames

-----------------------------------------------------------------------------
(* What a submit sends. *)
LEMMA BodyMade ==
    ASSUME FormConstants, page \in PageNames, NEW f, FormFits(f)
    PROVE  BodyFits(Body(f))
<1>a. NULL # "" /\ \A x : Filled(x) # ""
  BY NullApart DEF Filled
<1>1. CASE page = "nas"
  <2>1. Word(IF f.prefix = "OTHER" THEN f.name ELSE <<f.prefix>> \o f.name)
    BY <1>1, LongerWord DEF FormFits
  <2>. QED
    BY <1>1, <1>a, <2>1 DEF BodyFits, Body, NasBody
<1>2. CASE page = "devices"
  BY <1>2, <1>a DEF FormFits, BodyFits, Columns, Body, DeviceBody
<1>3. CASE page \in {"segments", "circuits"}
  BY <1>3 DEF FormFits, BodyFits, Fields, Body
<1>4. CASE page = "admins"
  BY <1>4 DEF BodyFits, Body, AdminBody
<1>5. CASE page = "users"
  BY <1>5 DEF BodyFits, Columns, Body, UserBody
<1>6. CASE page = "assignments"
  BY <1>6 DEF BodyFits, Columns, Body, AssignmentBody
<1>. QED
  BY <1>1, <1>2, <1>3, <1>4, <1>5, <1>6 DEF PageNames

(* A policy that may be submitted is one for something. *)
LEMMA SubmitTargeted ==
    ASSUME FormConstants, page = "assignments", NEW f, FormFits(f), AssignmentRequired(f)
    PROVE  Targeted(Body(f))
<1>1. Body(f) = AssignmentBody(f) /\ f.mode \in Modes /\ f.nas # NULL
  BY DEF Body, FormFits
<1>2. \A c \in {"seg", "cat", "mac", "nas"} :
          c \in Sent[f.mode] => AssignmentBody(f)[c] = f[c]
  BY DEF AssignmentBody, Target
<1>3. PICK c \in {"seg", "cat", "mac", "nas"} : c \in Sent[f.mode] /\ f[c] # NULL
  <2>1. CASE f.mode = "ip"
    BY <1>1, <2>1 DEF Sent
  <2>2. CASE f.mode # "ip"
    <3>1. \A c \in Sent[f.mode] \ {"end"} : f[c] # NULL
      BY <2>2 DEF AssignmentRequired
    <3>2. \E c \in {"seg", "cat", "mac", "nas"} : c \in Sent[f.mode]
      BY <1>1 DEF Modes, Sent
    <3>. QED
      BY <3>1, <3>2
  <2>. QED
    BY <2>1, <2>2
<1>. QED
  BY <1>1, <1>2, <1>3 DEF Targeted

(* The columns of a payload are those of the body, but for the MAC of a device,
   which an edit does not have. *)
LEMMA PayloadColumns ==
    ASSUME page \in PageNames, NEW b
    PROVE  /\ \A op : page # "devices" => Known(op, b) = DOMAIN b
           /\ \A op : op # "PUT" => Known(op, b) = DOMAIN b
           /\ page = "devices" => Known("PUT", b) = DOMAIN b \ {"mac"}
           /\ page \notin {"devices", "segments", "circuits", "assignments"} =>
                  \A op : Rewritten(op) = {}
           /\ page = "devices" => \A op : Rewritten(op) = {"mac", "name"}
           /\ page = "segments" => \A op : Rewritten(op) = {"cidr"}
           /\ page = "assignments" => \A op : Rewritten(op) = {"mac"}
           /\ page = "circuits" => Rewritten("POST") = {"circuit"} /\ Rewritten("PUT") = {}
BY DEF PageNames, Known, Rewritten

(* What the backend makes of it is a row again. *)
LEMMA RowPut ==
    ASSUME FormConstants, page \in PageNames, NEW row, RowFits(page, row), NEW b, BodyFits(b)
    PROVE  RowFits(page, Put(row, b))
<1>. DEFINE got == Received("PUT", b)
<1>a. /\ DOMAIN got = Known("PUT", b)
      /\ \A c \in Known("PUT", b) :
             got[c] = IF c \in Rewritten("PUT") THEN Canon(b[c]) ELSE b[c]
  BY PayloadHas
<1>b. DOMAIN row = Columns(page)
  BY DEF RowFits
<1>c. \A x : Canon(Canon(x)) = Canon(x)
  BY CanonMade
<1>. HIDE DEF got
<1>1. CASE page \in {"nas", "admins", "assignments"}
  <2>1. Put(row, b) = Merge(row, got)
    BY <1>1 DEF Put, got
  <2>2. Merge(row, got) = [c \in Columns(page) |-> Merge(row, got)[c]]
    BY <1>b DEF Merge
  <2>3. DOMAIN got = DOMAIN b
    BY <1>1, <1>a, PayloadColumns
  <2>4. page = "nas" => Merge(row, got).name = b.name /\ Word(b.name)
    <3>. SUFFICES ASSUME page = "nas" PROVE Merge(row, got).name = b.name /\ Word(b.name)
      OBVIOUS
    <3>1. "name" \in DOMAIN b /\ "name" \in DOMAIN row /\ Word(b.name)
      BY <1>b DEF BodyFits, Columns
    <3>2. got.name = b.name
      BY <1>a, <2>3, <3>1, PayloadColumns
    <3>. QED
      BY <2>3, <3>1, <3>2 DEF Merge
  <2>5. page = "assignments" => Canon(Merge(row, got).mac) = Merge(row, got).mac
    <3>. SUFFICES ASSUME page = "assignments"
                  PROVE  Canon(Merge(row, got).mac) = Merge(row, got).mac
      OBVIOUS
    <3>1. "mac" \in DOMAIN b /\ "mac" \in DOMAIN row
      BY <1>b DEF BodyFits, Columns, Target
    <3>2. got.mac = Canon(b.mac)
      BY <1>a, <2>3, <3>1, PayloadColumns
    <3>3. Merge(row, got).mac = got.mac
      BY <2>3, <3>1 DEF Merge
    <3>. QED
      BY <1>c, <3>2, <3>3
  <2>. QED
    BY <1>1, <2>1, <2>2, <2>4, <2>5 DEF RowFits
<1>2. CASE page \in {"devices", "segments", "circuits"}
  <2>. DEFINE m == MergeGiven(row, got)
  <2>1. Put(row, b) = m /\ DOMAIN b = Columns(page)
    BY <1>2 DEF Put, got, BodyFits
  <2>2. m = [c \in Columns(page) |-> m[c]]
    BY <1>b DEF MergeGiven
  <2>3. \A c \in Columns(page) :
            m[c] = IF c \in DOMAIN got /\ got[c] # NULL THEN got[c] ELSE row[c]
    BY <1>b DEF MergeGiven
  <2>. HIDE DEF m
  <2>4. CASE page = "devices"
    <3>1. DOMAIN got = {"name", "cat", "active"}
      BY <1>a, <2>1, <2>4, PayloadColumns DEF Columns
    <3>2. got.name = Canon(b.name) /\ got.active = b.active
      BY <1>a, <3>1, <2>4, PayloadColumns
    <3>3. m.mac = row.mac /\ m.name \in {Canon(b.name), row.name}
          /\ m.active \in {b.active, row.active}
      BY <2>3, <2>4, <3>1, <3>2 DEF Columns
    <3>4. b.active \in {0, 1}
      BY <2>4 DEF BodyFits
    <3>. QED
      BY <1>c, <2>1, <2>2, <2>4, <3>3, <3>4 DEF RowFits
  <2>5. CASE page = "segments"
    <3>1. DOMAIN got = {"name", "cidr", "description"}
      BY <1>a, <2>1, <2>5, PayloadColumns DEF Columns
    <3>2. got.name = b.name /\ got.cidr = Canon(b.cidr)
      BY <1>a, <3>1, <2>5, PayloadColumns
    <3>3. m.name # NULL /\ m.cidr \in {Canon(b.cidr), row.cidr} /\ m.cidr # NULL
      BY <2>3, <2>5, <3>1, <3>2 DEF Columns, RowFits
    <3>. QED
      BY <1>c, <2>1, <2>2, <2>5, <3>3 DEF RowFits
  <2>6. CASE page = "circuits"
    <3>1. DOMAIN got = {"name", "circuit", "carrier", "active"}
      BY <1>a, <2>1, <2>6, PayloadColumns DEF Columns
    <3>2. got.active = b.active
      BY <1>a, <3>1, <2>6, PayloadColumns
    <3>3. m.name # NULL /\ m.circuit # NULL /\ m.active \in {b.active, row.active}
      BY <2>3, <2>6, <3>1, <3>2 DEF Columns, RowFits
    <3>4. b.active \in {0, 1}
      BY <2>6 DEF BodyFits
    <3>. QED
      BY <2>1, <2>2, <2>6, <3>3, <3>4 DEF RowFits
  <2>. QED
    BY <1>2, <2>4, <2>5, <2>6
<1>3. CASE page = "users"
  <2>. DEFINE m == Merge(row, got)
  <2>1. Put(row, b) = Stored(m)
    BY <1>3 DEF Put, got
  <2>2. m = [c \in Columns(page) |-> m[c]]
    BY <1>b DEF Merge
  <2>. HIDE DEF m
  <2>3. Stored(m) = [c \in Columns(page) |-> Stored(m)[c]]
    BY <2>2 DEF Stored
  <2>. QED
    BY <1>3, <2>1, <2>3 DEF RowFits
<1>. QED
  BY <1>1, <1>2, <1>3 DEF PageNames

(* The row of a POST is its payload, the hash of a password apart. *)
LEMMA RowPosted ==
    ASSUME FormConstants, page \in PageNames, NEW b, PostFits(b), ~Malformed("POST", b)
    PROVE  /\ RowFits(page, Posted(b))
           /\ page # "users" => \A c \in DOMAIN b : Posted(b)[c] = Received("POST", b)[c]
<1>. DEFINE got == Received("POST", b)
<1>a. /\ DOMAIN got = DOMAIN b
      /\ \A c \in DOMAIN b :
             got[c] = IF c \in Rewritten("POST") THEN Canon(b[c]) ELSE b[c]
  BY PayloadHas, PayloadColumns
<1>b. \A c \in DOMAIN b \cap Rewritten("POST") :
          c # "name" /\ b[c] # NULL => got[c] # NULL
  BY <1>a, PayloadColumns DEF Malformed
<1>c. \A x : Canon(Canon(x)) = Canon(x)
  BY CanonMade
<1>1. CASE page = "users"
  <2>1. Posted(b) = Stored(got) /\ b = [c \in Columns(page) |-> b[c]]
    BY <1>1 DEF Posted, PostFits, BodyFits
  <2>2. got = [c \in Columns(page) |-> got[c]]
    BY <1>1, <2>1, PayloadColumns DEF Received
  <2>. HIDE DEF got
  <2>3. Stored(got) = [c \in Columns(page) |-> Stored(got)[c]]
    BY <2>2 DEF Stored
  <2>. QED
    BY <1>1, <2>1, <2>3 DEF RowFits
<1>2. CASE page # "users"
  <2>. DEFINE m == Merge(NewRow, got)
  <2>1. Posted(b) = m
    BY <1>2 DEF Posted
  <2>. HIDE DEF got
  <2>2. DOMAIN NewRow = Columns(page)
    BY <1>2 DEF NewRow, Columns, PageNames, DeviceBlank, SegmentBlank, CircuitBlank, AdminNew
  <2>3. m = [c \in Columns(page) |-> m[c]]
    BY <2>2 DEF Merge
  <2>4. DOMAIN b = IF page = "nas" THEN {"secret", "cat", "name"} ELSE Columns(page)
    BY <1>2 DEF PostFits, BodyFits, PageNames
  <2>5. DOMAIN b \subseteq Columns(page)
    BY <2>4 DEF Columns
  <2>6. \A c \in DOMAIN b : m[c] = got[c]
    BY <1>a, <2>2, <2>5 DEF Merge
  <2>. HIDE DEF m
  <2>. SUFFICES RowFits(page, m)
    BY <2>1, <2>6 DEF got
  <2>7. CASE page = "nas"
    <3>1. m.name = b.name /\ Word(b.name)
      BY <1>a, <2>4, <2>6, <2>7, PayloadColumns DEF PostFits, BodyFits
    <3>. QED
      BY <2>3, <2>7, <3>1 DEF RowFits
  <2>8. CASE page = "devices"
    <3>1. m.mac = Canon(b.mac) /\ m.name = Canon(b.name) /\ m.active = b.active
      BY <1>a, <2>4, <2>6, <2>8, PayloadColumns DEF Columns
    <3>2. b.mac # NULL /\ b.active \in {0, 1}
      BY <2>8 DEF PostFits, BodyFits
    <3>3. m.mac # NULL
      BY <1>b, <2>4, <2>6, <2>8, <3>2, PayloadColumns DEF Columns
    <3>. QED
      BY <1>c, <2>3, <2>8, <3>1, <3>2, <3>3 DEF RowFits
  <2>9. CASE page = "segments"
    <3>1. m.name = b.name /\ m.cidr = Canon(b.cidr)
      BY <1>a, <2>4, <2>6, <2>9, PayloadColumns DEF Columns
    <3>2. b.name # NULL /\ b.cidr # NULL
      BY <2>9 DEF PostFits, BodyFits
    <3>3. m.cidr # NULL
      BY <1>b, <2>4, <2>6, <2>9, <3>2, PayloadColumns DEF Columns
    <3>. QED
      BY <1>c, <2>3, <2>9, <3>1, <3>2, <3>3 DEF RowFits
  <2>10. CASE page = "circuits"
    <3>1. m.name = b.name /\ m.active = b.active
      BY <1>a, <2>4, <2>6, <2>10, PayloadColumns DEF Columns
    <3>2. b.name # NULL /\ b.circuit # NULL /\ b.active \in {0, 1}
      BY <2>10 DEF PostFits, BodyFits
    <3>3. m.circuit # NULL
      BY <1>b, <2>4, <2>6, <2>10, <3>2, PayloadColumns DEF Columns
    <3>. QED
      BY <2>3, <2>10, <3>1, <3>2, <3>3 DEF RowFits
  <2>11. CASE page = "assignments"
    <3>1. m.mac = Canon(b.mac)
      BY <1>a, <2>4, <2>6, <2>11, PayloadColumns DEF Columns, Target
    <3>. QED
      BY <1>c, <2>3, <2>11, <3>1 DEF RowFits
  <2>12. CASE page = "admins"
    BY <2>3, <2>12 DEF RowFits
  <2>. QED
    BY <1>2, <2>7, <2>8, <2>9, <2>10, <2>11, <2>12 DEF PageNames
<1>. QED
  BY <1>1, <1>2

(* What is not one of its columns' inputs, or was left as the row has it, an
   edit leaves alone. *)
LEMMA EditKeepsColumn ==
    ASSUME FormConstants, page \in PageNames, NEW old, RowFits(page, old),
           NEW b, BodyFits(b),
           NEW col \in DOMAIN old, col \notin Uncarried(old), col \notin Uncarried(Put(old, b)),
           page = "admins" => col = "active",
           col \in DOMAIN b => b[col] = Body(FormOf(old, AdminBlank))[col]
    PROVE  Same(old[col], Put(old, b)[col])
<1>. DEFINE got == Received("PUT", b)
<1>a. DOMAIN old = Columns(page)
  BY DEF RowFits
<1>b. NULL # "" /\ \A x : Text(Text(x)) = Text(x) /\ Text(Filled(Text(x))) = Text(x)
  BY NullApart DEF Text, Filled
<1>c. /\ DOMAIN got = Known("PUT", b)
      /\ \A c \in Known("PUT", b) :
             got[c] = IF c \in Rewritten("PUT") THEN Canon(b[c]) ELSE b[c]
  BY PayloadHas
<1>d. Canon(NULL) = NULL
  BY CanonMade
<1>. HIDE DEF got
<1>1. CASE page = "nas"
  <2>1. Put(old, b)[col] = IF col \in DOMAIN b THEN b[col] ELSE old[col]
    <3>1. Known("PUT", b) = DOMAIN b /\ Rewritten("PUT") = {}
      BY <1>1, PayloadColumns
    <3>. QED
      BY <1>1, <1>c, <3>1 DEF Put, Merge, got
  <2>2. CASE col \notin DOMAIN b
    BY <2>1, <2>2 DEF Same
  <2>3. CASE col \in DOMAIN b
    <3>1. b[col] = NasBody(NasForm(old))[col] /\ col \in {"secret", "cat", "name"}
      BY <1>1, <2>3 DEF Body, FormOf, BodyFits
    <3>2. CASE col = "secret"
      BY <2>1, <2>3, <3>1, <3>2 DEF NasBody, NasForm, Same
    <3>3. CASE col = "cat"
      <4>1. NasBody(NasForm(old)).cat = Filled(Text(old.cat))
        BY DEF NasBody, NasForm
      <4>2. Put(old, b).cat = Filled(Text(old.cat))
        BY <2>1, <2>3, <3>1, <3>3, <4>1
      <4>. QED
        BY <1>b, <3>3, <4>2 DEF Same
    <3>4. CASE col = "name"
      <4>1. Word(old.name) /\ (Len(old.name) > 1 => Head(old.name) # "OTHER")
        BY <1>1, <3>4 DEF RowFits, Uncarried
      <4>2. Len(old.name) > 1 => <<Head(old.name)>> \o Tail(old.name) = old.name
        BY <4>1, TailWord
      <4>3. NasBody(NasForm(old)).name = old.name
        BY <4>1, <4>2 DEF NasBody, NasForm
      <4>. QED
        BY <2>1, <2>3, <3>1, <3>4, <4>3 DEF Same
    <3>. QED
      BY <3>1, <3>2, <3>3, <3>4
  <2>. QED
    BY <2>2, <2>3
<1>2. CASE page \in {"devices", "segments", "circuits"}
  <2>1. /\ Put(old, b)[col] = IF col \in DOMAIN got /\ got[col] # NULL THEN got[col] ELSE old[col]
        /\ col \in DOMAIN b /\ col \in Columns(page)
    BY <1>2, <1>a DEF Put, MergeGiven, BodyFits, got
  <2>2. CASE col \notin DOMAIN got
    BY <2>1, <2>2 DEF Same
  <2>3. CASE col \in DOMAIN got /\ page = "devices"
    <3>1. b[col] \in {old[col], Filled(Text(old[col]))} /\ (col = "name" => b[col] = Filled(Text(old[col])))
      BY <1>a, <2>1, <2>3 DEF Body, DeviceBody, FormOf, DeviceForm, Columns
    <3>2. col # "mac"
      BY <1>c, <2>3, PayloadColumns
    <3>3. CASE col = "name"
      <4>1. got.name = Canon(b.name) /\ b.name = Filled(Text(old.name)) /\ Canon(old.name) = old.name
        BY <1>c, <2>3, <3>1, <3>3, PayloadColumns DEF RowFits
      <4>2. CASE Text(old.name) = ""
        BY <1>d, <2>1, <2>3, <3>3, <4>1, <4>2 DEF Same, Filled
      <4>3. CASE Text(old.name) # ""
        <5>1. b.name = old.name
          BY <4>1, <4>3 DEF Filled, Text
        <5>. QED
          BY <2>1, <2>3, <3>3, <4>1, <5>1 DEF Same
      <4>. QED
        BY <4>2, <4>3
    <3>4. CASE col # "name"
      <4>1. got[col] = b[col]
        BY <1>c, <2>3, <3>2, <3>4, PayloadColumns
      <4>. QED
        BY <1>b, <2>1, <3>1, <4>1 DEF Same
    <3>. QED
      BY <3>3, <3>4
  <2>4. CASE page \in {"segments", "circuits"}
    <3>1. b[col] \in {old[col], Text(old[col])} /\ (col = "cidr" => b[col] = old[col])
      BY <1>a, <2>1, <2>4 DEF Body, FormOf, SegmentForm, CircuitForm, Columns
    <3>2. DOMAIN got = DOMAIN b
      BY <1>c, <2>4, PayloadColumns
    <3>3. got[col] = b[col]
      <4>1. CASE page = "circuits"
        BY <1>c, <2>1, <3>2, <4>1, PayloadColumns
      <4>2. CASE page = "segments" /\ col = "cidr"
        <5>1. Canon(old.cidr) = old.cidr
          BY <4>2 DEF RowFits
        <5>. QED
          BY <1>c, <2>1, <3>1, <3>2, <4>2, <5>1
      <4>3. CASE page = "segments" /\ col # "cidr"
        BY <1>c, <2>1, <3>2, <4>3, PayloadColumns
      <4>. QED
        BY <2>4, <4>1, <4>2, <4>3
    <3>. QED
      BY <1>b, <2>1, <3>1, <3>3 DEF Same
  <2>. QED
    BY <1>2, <2>2, <2>3, <2>4
<1>4. CASE page = "admins"
  <2>1. Put(old, b)[col] = IF col \in DOMAIN b THEN b[col] ELSE old[col]
    <3>1. Known("PUT", b) = DOMAIN b /\ Rewritten("PUT") = {}
      BY <1>4, PayloadColumns
    <3>. QED
      BY <1>4, <1>c, <3>1 DEF Put, Merge, got
  <2>2. Body(FormOf(old, AdminBlank))["active"] = old["active"]
    BY <1>4 DEF Body, AdminBody, FormOf, AdminForm, AdminBlank
  <2>. QED
    BY <1>4, <2>1, <2>2 DEF Same
<1>5. CASE page = "users"
  <2>. DEFINE m == Merge(old, got)
  <2>0. Known("PUT", b) = Columns("users") /\ Rewritten("PUT") = {}
    BY <1>5, PayloadColumns DEF BodyFits
  <2>1. /\ m = [c \in Columns("users") |-> m[c]]
        /\ \A c \in Columns("users") : m[c] = b[c]
    BY <1>5, <1>a, <1>c, <2>0 DEF Merge
  <2>2. Put(old, b) = Stored(m)
    BY <1>5 DEF Put, got
  <2>. HIDE DEF m
  <2>3. Stored(m).attribute = m.attribute
    BY <2>1 DEF Stored, Columns
  <2>4. m.attribute # "MD5-Password" \/ col # "value"
    BY <1>5, <2>2, <2>3 DEF Uncarried
  <2>5. Put(old, b)[col] = b[col] /\ col \in DOMAIN b
    <3>1. col \in Columns("users") /\ col \in DOMAIN b
      BY <1>5, <1>a DEF BodyFits
    <3>2. Stored(m)[col] = m[col]
      BY <2>1, <2>4, <3>1 DEF Stored
    <3>. QED
      BY <2>1, <2>2, <3>1, <3>2
  <2>6. Body(FormOf(old, AdminBlank))[col] = old[col]
    BY <1>5, <1>a DEF Body, FormOf, UserBody, UserForm, Merge, WizardBlank, Columns
  <2>. QED
    BY <2>5, <2>6 DEF Same
<1>6. CASE page = "assignments"
  <2>0. Known("PUT", b) = DOMAIN b /\ Rewritten("PUT") = {"mac"}
    BY <1>6, PayloadColumns
  <2>1. /\ Put(old, b)[col] = IF col = "mac" THEN Canon(b[col]) ELSE b[col]
        /\ col \in DOMAIN b /\ col \in Target \cup {"group"}
    BY <1>6, <1>a, <1>c, <2>0 DEF Put, Merge, BodyFits, Columns, got
  <2>2. b[col] = AssignmentBody(AssignmentForm(old))[col]
    BY <1>6, <2>1 DEF Body, FormOf
  <2>a. col \notin Reshaped(old) /\ Canon(old.mac) = old.mac
    BY <1>6 DEF Uncarried, RowFits
  <2>3. CASE col \in Sent[ModeOf(old)] \cup {"group"}
    <3>1. col = "end" => Text(old.end) # ""
      BY <2>3, <2>a DEF Reshaped
    <3>2. b[col] = AssignmentForm(old)[col]
      <4>1. CASE col = "end"
        <5>1. AssignmentForm(old).end = Text(old.end)
          BY DEF AssignmentForm
        <5>2. b.end = LastOf(AssignmentForm(old))
          BY <2>1, <2>2, <2>3, <4>1 DEF AssignmentBody, AssignmentForm
        <5>. QED
          BY <3>1, <4>1, <5>1, <5>2 DEF LastOf
      <4>2. CASE col # "end"
        BY <2>1, <2>2, <2>3, <4>2 DEF AssignmentBody, AssignmentForm
      <4>. QED
        BY <4>1, <4>2
    <3>3. b[col] \in {old[col], Text(old[col])}
      <4>1. col \in {"seg", "start", "end", "cat", "mac", "nas", "group"}
        BY <2>1, <2>3 DEF Target, Sent, ModeOf
      <4>2. AssignmentForm(old)[col] \in {old[col], Text(old[col])}
        BY <4>1 DEF AssignmentForm
      <4>. QED
        BY <3>2, <4>2
    <3>4. CASE col = "mac"
      <4>1. old.mac # NULL
        BY <2>3, <3>4 DEF Sent, ModeOf
      <4>2. b[col] = old[col]
        BY <3>3, <3>4, <4>1 DEF Text
      <4>. QED
        BY <2>1, <2>a, <3>4, <4>2 DEF Same
    <3>5. CASE col # "mac"
      BY <1>b, <2>1, <3>3, <3>5 DEF Same
    <3>. QED
      BY <3>4, <3>5
  <2>4. CASE col \notin Sent[ModeOf(old)] \cup {"group"}
    <3>1. b[col] = NULL
      BY <2>1, <2>2, <2>4 DEF AssignmentBody, AssignmentForm
    <3>2. old[col] = NULL
      BY <2>1, <2>4, <2>a DEF Reshaped
    <3>. QED
      BY <1>d, <2>1, <3>1, <3>2 DEF Same
  <2>. QED
    BY <2>3, <2>4
<1>. QED
  BY <1>1, <1>2, <1>4, <1>5, <1>6 DEF PageNames

(* The row has what was sent, as far as a form can carry it and but for its
   spelling. *)
HasSent(row, b) ==
    \A c \in DOMAIN b \ Uncarried(row) :
        row[c] = b[c] \/ (c \in Rewritten("POST") /\ row[c] = Canon(b[c]))

(* A form opened on a row that has what was sent would send the same. *)
LEMMA FormShowsRow ==
    ASSUME FormConstants, page \in PageNames, NEW row, RowFits(page, row),
           page = "assignments" => Targeted(row),
           NEW b, page # "admins" => BodyFits(b), page = "admins" => "active" \in DOMAIN b,
           HasSent(row, b)
    PROVE  \A col \in DOMAIN Body(FormOf(row, AdminBlank)) \ Uncarried(row) :
               SameText(col, Body(FormOf(row, AdminBlank))[col], b[col])
<1>. DEFINE again == Body(FormOf(row, AdminBlank))
<1>a. NULL # "" /\ (\A x : x # NULL => Text(x) = x)
      /\ \A x : x # "" => Filled(Text(x)) = x
  BY NullApart DEF Text, Filled
<1>b. Canon(NULL) = NULL /\ (\A x : Canon(Canon(x)) = Canon(x)) /\ \A x : x # "" => Canon(x) # ""
  BY CanonMade
<1>c. SUFFICES ASSUME page # "admins"
               PROVE  \A col \in DOMAIN again \ Uncarried(row) :
                          col \in DOMAIN b /\ again[col] = row[col]
  <2>1. CASE page = "admins"
    <3>1. again = [active |-> row.active] /\ Rewritten("POST") = {} /\ Uncarried(row) = {}
      BY <2>1, PayloadColumns DEF Body, AdminBody, FormOf, AdminForm, AdminBlank, Uncarried
    <3>2. row.active = b.active
      BY <2>1, <3>1 DEF HasSent
    <3>. QED
      BY <3>1, <3>2 DEF SameText
  <2>2. CASE page # "admins"
    <3>. HIDE DEF again
    <3>1. \A col \in DOMAIN again \ Uncarried(row) : col \in DOMAIN b /\ again[col] = row[col]
      BY <1>c, <2>2
    <3>2. \A col \in DOMAIN again \ Uncarried(row) : SameText(col, again[col], b[col])
      BY <1>b, <3>1 DEF HasSent, SameText
    <3>. QED
      BY <3>2 DEF again
  <2>. QED
    BY <2>1, <2>2
<1>d. BodyFits(b)
  BY <1>c
<1>1. CASE page = "nas"
  <2>1. DOMAIN b = {"secret", "cat", "name"} /\ b.cat # "" /\ Uncarried(row) \subseteq {"name"}
    BY <1>1, <1>d DEF BodyFits, Uncarried
  <2>2. row.cat = b.cat
    BY <1>1, <2>1, PayloadColumns DEF HasSent
  <2>3. again = NasBody(NasForm(row))
    BY <1>1 DEF Body, FormOf
  <2>4. again.cat = row.cat
    <3>1. again.cat = Filled(Text(row.cat))
      BY <2>3 DEF NasBody, NasForm
    <3>. QED
      BY <1>a, <2>1, <2>2, <3>1
  <2>5. "name" \notin Uncarried(row) => again.name = row.name
    <3>. SUFFICES ASSUME "name" \notin Uncarried(row) PROVE again.name = row.name
      OBVIOUS
    <3>1. Len(row.name) > 1 => Head(row.name) # "OTHER"
      BY <1>1 DEF Uncarried
    <3>2. Len(row.name) > 1 => <<Head(row.name)>> \o Tail(row.name) = row.name
      BY <1>1, TailWord DEF RowFits
    <3>3. NasBody(NasForm(row)).name = row.name
      BY <3>1, <3>2 DEF NasBody, NasForm
    <3>. QED
      BY <2>3, <3>3
  <2>6. again.secret = row.secret /\ DOMAIN again = {"secret", "cat", "name"}
    BY <2>3 DEF NasBody, NasForm
  <2>. HIDE DEF again
  <2>. QED
    BY <2>1, <2>4, <2>5, <2>6
<1>2. CASE page = "devices"
  <2>1. /\ DOMAIN b = {"mac", "name", "cat", "active"} /\ Uncarried(row) = {}
        /\ b.name # "" /\ b.cat # ""
    BY <1>2, <1>d DEF BodyFits, Columns, Uncarried
  <2>a. Rewritten("POST") = {"mac", "name"}
    BY <1>2, PayloadColumns
  <2>2. row.name \in {b.name, Canon(b.name)} /\ row.cat = b.cat
    <3>1. "name" \in DOMAIN b \ Uncarried(row) /\ "cat" \in DOMAIN b \ Uncarried(row)
      BY <2>1
    <3>2. row["name"] = b["name"] \/ row["name"] = Canon(b["name"])
      BY <3>1 DEF HasSent
    <3>3. row["cat"] = b["cat"]
      BY <2>a, <3>1 DEF HasSent
    <3>. QED
      BY <3>2, <3>3
  <2>3. again = [mac |-> row.mac, name |-> Filled(Text(row.name)), cat |-> Filled(Text(row.cat)),
                 active |-> row.active]
    BY <1>2 DEF Body, DeviceBody, FormOf, DeviceForm
  <2>4. Filled(Text(row.name)) = row.name /\ Filled(Text(row.cat)) = row.cat
    BY <1>a, <1>b, <2>1, <2>2
  <2>5. /\ DOMAIN again = {"mac", "name", "cat", "active"}
        /\ again.mac = row.mac /\ again.name = row.name /\ again.cat = row.cat
        /\ again.active = row.active
    BY <2>3, <2>4
  <2>. HIDE DEF again
  <2>. QED
    BY <2>1, <2>5
<1>3. CASE page = "segments"
  <2>1. /\ DOMAIN b = {"name", "cidr", "description"} /\ b.description # NULL
        /\ Uncarried(row) = {}
    BY <1>3, <1>d DEF BodyFits, Columns, Uncarried
  <2>2. row.description = b.description
    BY <1>3, <2>1, PayloadColumns DEF HasSent
  <2>3. Text(row.description) = row.description
    BY <1>a, <2>1, <2>2
  <2>. QED
    BY <1>3, <2>1, <2>3 DEF Body, FormOf, SegmentForm
<1>4. CASE page = "circuits"
  <2>1. /\ DOMAIN b = {"name", "circuit", "carrier", "active"} /\ b.carrier # NULL
        /\ Uncarried(row) = {}
    BY <1>4, <1>d DEF BodyFits, Columns, Uncarried
  <2>2. row.carrier = b.carrier
    BY <1>4, <2>1, PayloadColumns DEF HasSent
  <2>3. Text(row.carrier) = row.carrier
    BY <1>a, <2>1, <2>2
  <2>. QED
    BY <1>4, <2>1, <2>3 DEF Body, FormOf, CircuitForm
<1>6. CASE page = "users"
  <2>1. DOMAIN b = Columns("users") /\ DOMAIN row = Columns("users")
    BY <1>6, <1>d DEF BodyFits, RowFits
  <2>2. /\ DOMAIN again = Columns("users")
        /\ \A c \in Columns("users") : again[c] = row[c]
    BY <1>6, <2>1 DEF Body, FormOf, UserBody, UserForm, Merge, WizardBlank, Columns
  <2>. HIDE DEF again
  <2>. QED
    BY <2>1, <2>2
<1>7. CASE page = "assignments"
  <2>1. DOMAIN b = Target \cup {"group"} /\ Uncarried(row) = Reshaped(row)
    BY <1>7, <1>d DEF BodyFits, Columns, Uncarried
  <2>2. again = AssignmentBody(AssignmentForm(row))
    BY <1>7 DEF Body, FormOf
  <2>3. DOMAIN again = Target \cup {"group"}
    BY <2>2 DEF AssignmentBody
  <2>4. ASSUME NEW c \in Target \cup {"group"}, c \notin Reshaped(row) PROVE again[c] = row[c]
    <3>1. CASE c \in Sent[ModeOf(row)] /\ c = "end"
      <4>1. Text(row.end) # ""
        BY <2>4, <3>1 DEF Reshaped
      <4>2. again.end = LastOf(AssignmentForm(row)) /\ AssignmentForm(row).end = Text(row.end)
        BY <2>2, <3>1 DEF AssignmentBody, AssignmentForm, Target
      <4>. QED
        BY <3>1, <4>1, <4>2 DEF LastOf, Text
    <3>2. CASE c \in Sent[ModeOf(row)] /\ c # "end"
      <4>1. row[c] # NULL
        <5>1. Targeted(row)
          BY <1>7
        <5>. QED
          BY <1>a, <3>2, <5>1 DEF ModeOf, Sent, Targeted, Text
      <4>2. again[c] \in {row[c], Text(row[c])}
        BY <2>2, <2>4, <3>2 DEF AssignmentBody, AssignmentForm, Target, Sent, ModeOf
      <4>. QED
        BY <1>a, <4>1, <4>2
    <3>3. CASE c \notin Sent[ModeOf(row)] /\ c # "group"
      <4>1. row[c] = NULL
        BY <2>4, <3>3 DEF Reshaped
      <4>2. again[c] = NULL
        BY <2>2, <2>4, <3>3 DEF AssignmentBody, AssignmentForm
      <4>. QED
        BY <4>1, <4>2
    <3>4. CASE c = "group"
      BY <2>2, <3>4 DEF AssignmentBody, AssignmentForm
    <3>. QED
      BY <3>1, <3>2, <3>3, <3>4
  <2>. HIDE DEF again
  <2>. QED
    BY <2>1, <2>3, <2>4
<1>. QED
  BY <1>c, <1>1, <1>2, <1>3, <1>4, <1>6, <1>7 DEF PageNames

(* After a save without fields that have no effect, the row has what was sent. *)
LEMMA PutHas ==
    ASSUME FormConstants, page \in PageNames, NEW row, RowFits(page, row), NEW b, BodyFits(b),
           ~Malformed("PUT", b), page = "assignments" => Targeted(b),
           page = "devices" => /\ row.mac = b.mac
                               /\ Received("PUT", b).name # NULL /\ Received("PUT", b).cat # NULL
    PROVE  HasSent(Put(row, b), b) /\ (page = "assignments" => Targeted(Put(row, b)))
<1>. DEFINE got == Received("PUT", b)
<1>a. /\ DOMAIN got = Known("PUT", b)
      /\ \A c \in Known("PUT", b) :
             got[c] = IF c \in Rewritten("PUT") THEN Canon(b[c]) ELSE b[c]
  BY PayloadHas
<1>b. \A c \in Known("PUT", b) \cap Rewritten("PUT") :
          c # "name" /\ b[c] # NULL => got[c] # NULL
  BY <1>a DEF Malformed
<1>c. DOMAIN row = Columns(page) /\ Rewritten("PUT") \subseteq Rewritten("POST")
  BY PayloadColumns DEF RowFits, Rewritten
<1>1. CASE page \in {"nas", "admins", "assignments"}
  <2>. HIDE DEF got
  <2>1. Put(row, b) = Merge(row, got) /\ DOMAIN got = DOMAIN b
    BY <1>1, <1>a, PayloadColumns DEF Put, got
  <2>2. DOMAIN b \subseteq Columns(page)
    BY <1>1 DEF BodyFits, Columns
  <2>3. \A c \in DOMAIN b : Put(row, b)[c] = got[c]
    BY <1>c, <2>1, <2>2 DEF Merge
  <2>4. HasSent(Put(row, b), b)
    BY <1>a, <1>c, <2>1, <2>3 DEF HasSent
  <2>5. page = "assignments" => Targeted(Put(row, b))
    <3>. SUFFICES ASSUME page = "assignments" PROVE Targeted(Put(row, b))
      OBVIOUS
    <3>1. PICK c \in {"seg", "cat", "mac", "nas"} : b[c] # NULL
      BY DEF Targeted
    <3>2. c \in DOMAIN b /\ Rewritten("PUT") = {"mac"}
      BY PayloadColumns DEF BodyFits, Columns, Target
    <3>3. got[c] # NULL
      BY <1>a, <1>b, <2>1, <3>1, <3>2
    <3>. QED
      BY <2>3, <3>2, <3>3 DEF Targeted
  <2>. QED
    BY <2>4, <2>5
<1>2. CASE page \in {"devices", "segments", "circuits"}
  <2>1. Put(row, b) = MergeGiven(row, got) /\ DOMAIN b = Columns(page)
    BY <1>2 DEF Put, BodyFits
  <2>2. \A c \in DOMAIN got : got[c] # NULL
    <3>1. CASE page = "devices"
      <4>1. DOMAIN got = {"name", "cat", "active"}
        BY <1>a, <2>1, <3>1, PayloadColumns DEF Columns
      <4>2. got.active = b.active /\ b.active \in {0, 1}
        BY <1>a, <3>1, <4>1, PayloadColumns DEF BodyFits
      <4>. QED
        BY <3>1, <4>1, <4>2, NullApart
    <3>2. CASE page \in {"segments", "circuits"}
      <4>1. \A c \in DOMAIN b : b[c] # NULL
        BY <2>1, <3>2, NullApart DEF BodyFits, Columns
      <4>2. DOMAIN got = DOMAIN b /\ "name" \notin Rewritten("PUT")
        BY <1>a, <3>2, PayloadColumns
      <4>. HIDE DEF got
      <4>. QED
        BY <1>a, <1>b, <4>1, <4>2
    <3>. QED
      BY <1>2, <3>1, <3>2
  <2>. HIDE DEF got
  <2>3. \A c \in DOMAIN got : Put(row, b)[c] = got[c]
    BY <1>a, <1>c, <2>1, <2>2 DEF MergeGiven, Known
  <2>4. \A c \in DOMAIN b \ DOMAIN got : Put(row, b)[c] = b[c]
    <3>1. DOMAIN b \ DOMAIN got \subseteq IF page = "devices" THEN {"mac"} ELSE {}
      BY <1>2, <1>a, PayloadColumns
    <3>2. \A c \in Columns(page) \ DOMAIN got : Put(row, b)[c] = row[c]
      BY <1>c, <2>1 DEF MergeGiven
    <3>. QED
      BY <2>1, <3>1, <3>2
  <2>. QED
    BY <1>2, <1>a, <1>c, <2>3, <2>4 DEF HasSent
<1>3. CASE page = "users"
  <2>. HIDE DEF got
  <2>. DEFINE m == Merge(row, got)
  <2>1. DOMAIN row = Columns("users") /\ DOMAIN b = Columns("users")
        /\ Known("PUT", b) = DOMAIN b /\ Rewritten("PUT") = {}
    BY <1>3, PayloadColumns DEF RowFits, BodyFits
  <2>2. m = [c \in Columns("users") |-> m[c]] /\ \A c \in Columns("users") : m[c] = b[c]
    BY <1>a, <2>1 DEF Merge
  <2>3. Put(row, b) = Stored(m)
    BY <1>3 DEF Put, got
  <2>. HIDE DEF m
  <2>4. Stored(m).attribute = m.attribute
    BY <2>2 DEF Stored, Columns
  <2>5. \A c \in Columns("users") \ Uncarried(Stored(m)) : Stored(m)[c] = m[c]
    BY <1>3, <2>2, <2>4 DEF Stored, Uncarried
  <2>. QED
    BY <1>3, <2>1, <2>2, <2>3, <2>5 DEF HasSent
<1>. QED
  BY <1>1, <1>2, <1>3 DEF PageNames

LEMMA PostHas ==
    ASSUME FormConstants, page \in PageNames, NEW b, PostFits(b), ~Malformed("POST", b),
           page = "assignments" => Targeted(b)
    PROVE  HasSent(Posted(b), b) /\ (page = "assignments" => Targeted(Posted(b)))
<1>. DEFINE got == Received("POST", b)
<1>a. /\ DOMAIN got = DOMAIN b
      /\ \A c \in DOMAIN b :
             got[c] = IF c \in Rewritten("POST") THEN Canon(b[c]) ELSE b[c]
  BY PayloadHas, PayloadColumns
<1>b. page # "users" => \A c \in DOMAIN b : Posted(b)[c] = got[c]
  BY RowPosted
<1>. HIDE DEF got
<1>1. CASE page = "users"
  <2>1. Posted(b) = Stored(got) /\ DOMAIN b = Columns("users") /\ Rewritten("POST") = {}
    BY <1>1, PayloadColumns DEF Posted, PostFits, BodyFits, got
  <2>2. got = [c \in Columns("users") |-> got[c]] /\ \A c \in Columns("users") : got[c] = b[c]
    <3>1. got = [c \in DOMAIN b |-> got[c]]
      BY <1>1, PayloadColumns DEF Received, got
    <3>. QED
      BY <1>a, <2>1, <3>1
  <2>3. Stored(got).attribute = got.attribute
    BY <2>2 DEF Stored, Columns
  <2>4. \A c \in Columns("users") \ Uncarried(Stored(got)) : Stored(got)[c] = got[c]
    BY <1>1, <2>2, <2>3 DEF Stored, Uncarried
  <2>. QED
    BY <1>1, <2>1, <2>2, <2>4 DEF HasSent
<1>2. CASE page = "assignments"
  <2>1. PICK c \in {"seg", "cat", "mac", "nas"} : b[c] # NULL
    BY <1>2 DEF Targeted
  <2>2. c \in DOMAIN b
    BY <1>2 DEF PostFits, BodyFits, Columns, Target
  <2>3. got[c] # NULL
    BY <1>2, <1>a, <2>1, <2>2, PayloadColumns DEF Malformed
  <2>. QED
    BY <1>2, <1>a, <1>b, <2>2, <2>3 DEF HasSent, Targeted
<1>. QED
  BY <1>1, <1>2, <1>a, <1>b DEF HasSent

-----------------------------------------------------------------------------
(* Tables stay sequences of rows, whatever is asked of the backend. *)

Rows(s) == \A i \in DOMAIN s : s[i] = NULL \/ RowFits(page, s[i])

RequestFits(kind, r) ==
    /\ r.op \in {"POST", "PUT", "DELETE", "BULK", "JIT"}
    /\ r.op = "PUT" <=> kind = "edit"
    /\ r.op = "PUT" => BodyFits(r.body)
    /\ r.op = "POST" => PostFits(r.body)
    /\ r.op \in {"POST", "PUT"} /\ page = "assignments" => Targeted(r.body)
    /\ r.op = "JIT" => page = "users"
    /\ r.op = "BULK" =>
        \/ page = "devices" /\ BodyFits(r.body)
        \/ /\ page = "assignments" /\ IsFiniteSet(r.body)
           /\ \A b \in r.body : RowFits(page, b)

CallFits(c) ==
    /\ c.n \in Nat /\ c.n < sent
    /\ Word(c.reqs)
    /\ \A k \in DOMAIN c.reqs : RequestFits(c.kind, c.reqs[k])
    /\ c.kind = "edit" /\ page = "admins" => DOMAIN c.opened = {"active"}

(* The form of an administrator's row sends no password. *)
PasswordLess(f) == DOMAIN Body(f) = {"active"}

FormsInv ==
    /\ page \in Pages
    /\ Word(table) /\ Rows(table) /\ Rows(list) /\ Rows(fetch.rows)
    /\ FormFits(modal.form)
    /\ page = "admins" /\ modal.mode = "edit" => PasswordLess(modal.start)
    /\ sent \in Nat
    /\ \A c \in calls : CallFits(c)
    /\ \A c, d \in calls : c.n = d.n => c = d

LEMMA PutWord ==
    ASSUME NEW s, Word(s), NEW i \in DOMAIN s, NEW x
    PROVE  /\ Word([s EXCEPT ![i] = x])
           /\ DOMAIN [s EXCEPT ![i] = x] = DOMAIN s
           /\ [s EXCEPT ![i] = x][i] = x
           /\ \A k \in DOMAIN s \ {i} : [s EXCEPT ![i] = x][k] = s[k]
<1>. DEFINE S == {s[k] : k \in DOMAIN s} \cup {x}
<1>1. s \in Seq(S)
  <2>1. s \in Seq({s[k] : k \in DOMAIN s})
    BY DEF Word
  <2>. QED
    BY <2>1
<1>2. x \in S
  OBVIOUS
<1>. HIDE DEF S
<1>3. [s EXCEPT ![i] = x] \in Seq(S)
  BY <1>1, <1>2
<1>. QED
  BY <1>1, <1>3, WordMade

LEMMA RowsPut ==
    ASSUME NEW s, Word(s), Rows(s), NEW i \in DOMAIN s, NEW x, x = NULL \/ RowFits(page, x)
    PROVE  Word([s EXCEPT ![i] = x]) /\ Rows([s EXCEPT ![i] = x])
BY PutWord DEF Rows

LEMMA RowsAppended ==
    ASSUME NEW s, Word(s), Rows(s), NEW x, RowFits(page, x)
    PROVE  /\ Word(Append(s, x)) /\ Rows(Append(s, x))
           /\ \E i \in DOMAIN Append(s, x) : Append(s, x)[i] = x
<1>1. s \in Seq({s[k] : k \in DOMAIN s})
  BY DEF Word
<1>2. /\ DOMAIN Append(s, x) = 1 .. Len(s) + 1 /\ DOMAIN s = 1 .. Len(s) /\ Len(s) \in Nat
      /\ Append(s, x)[Len(s) + 1] = x /\ \A k \in 1 .. Len(s) : Append(s, x)[k] = s[k]
  BY <1>1
<1>3. Rows(Append(s, x))
  BY <1>2 DEF Rows
<1>4. Word(Append(s, x))
  BY LongerWord
<1>5. Len(s) + 1 \in DOMAIN Append(s, x)
  BY <1>2
<1>. QED
  BY <1>2, <1>3, <1>4, <1>5

LEMMA RowsAdded ==
    ASSUME NEW s, Word(s), Rows(s), NEW R, IsFiniteSet(R), \A x \in R : RowFits(page, x)
    PROVE  Word(s \o SetToSeq(R)) /\ Rows(s \o SetToSeq(R))
<1>. DEFINE n == Cardinality(R)
<1>1. n \in Nat /\ ExistsBijection(1 .. n, R)
  BY FS_CardinalityType
<1>2. \E f \in [1 .. n -> R] : IsInjective(f)
  BY <1>1 DEF ExistsBijection, Bijection, Injection, IsInjective
<1>3. SetToSeq(R) \in [1 .. n -> R]
  BY <1>2 DEF SetToSeq
<1>. DEFINE q == SetToSeq(R)
         S == {s[k] : k \in DOMAIN s} \cup R
<1>. HIDE DEF q, n
<1>4. q \in Seq(R)
  BY <1>1, <1>3 DEF q
<1>5. s \in Seq({s[k] : k \in DOMAIN s})
  BY DEF Word
<1>6. \A x \in S : x = NULL \/ RowFits(page, x)
  BY DEF Rows
<1>7. s \in Seq(S) /\ q \in Seq(S)
  BY <1>4, <1>5
<1>. HIDE DEF S
<1>8. s \o q \in Seq(S)
  BY <1>7
<1>9. \A k \in DOMAIN (s \o q) : (s \o q)[k] \in S
  BY <1>8
<1>10. Word(s \o q)
  BY <1>8, WordMade
<1>. QED
  BY <1>6, <1>9, <1>10 DEF Rows, q

(* A line of the pasted list makes a row. *)
LEMMA RowImported ==
    ASSUME FormConstants, page = "devices", NEW b, BodyFits(b), ~Malformed("BULK", b)
    PROVE  RowFits(page, Received("BULK", b))
<1>. DEFINE got == Received("BULK", b)
<1>1. DOMAIN b = Columns("devices") /\ page \in PageNames
  BY DEF BodyFits, PageNames
<1>2. /\ DOMAIN got = DOMAIN b
      /\ \A c \in DOMAIN b : got[c] = IF c \in {"mac", "name"} THEN Canon(b[c]) ELSE b[c]
  BY <1>1, PayloadHas, PayloadColumns
<1>3. got = [c \in Columns("devices") |-> got[c]]
  BY <1>1, <1>2, PayloadColumns DEF Received
<1>4. got.mac = Canon(b.mac) /\ got.name = Canon(b.name) /\ got.active = b.active
  BY <1>1, <1>2 DEF Columns
<1>5. Canon(b.mac) # NULL
  <2>1. Rewritten("BULK") = {"mac", "name"} /\ Known("BULK", b) = DOMAIN b
    BY <1>1, PayloadColumns
  <2>2. "mac" \in DOMAIN b /\ b.mac # NULL
    BY <1>1 DEF Columns, BodyFits
  <2>. QED
    BY <2>1, <2>2 DEF Malformed
<1>6. \A x : Canon(Canon(x)) = Canon(x)
  BY CanonMade
<1>7. b.active \in {0, 1}
  BY DEF BodyFits
<1>. HIDE DEF got
<1>. QED
  BY <1>3, <1>4, <1>5, <1>6, <1>7 DEF RowFits, got

(* The table a request leaves, and where it put its row. *)
LEMMA AfterFits ==
    ASSUME FormConstants, FormsInv, NEW kind, NEW r, RequestFits(kind, r), Acceptable(r)
    PROVE  /\ Word(After(r)) /\ Rows(After(r))
           /\ r.op = "PUT" =>
                  /\ r.id \in DOMAIN table /\ RowFits(page, table[r.id])
                  /\ DOMAIN After(r) = DOMAIN table
                  /\ After(r)[r.id] = Put(table[r.id], r.body)
           /\ r.op = "POST" => \E i \in DOMAIN After(r) : After(r)[i] = Posted(r.body)
<1>a. page \in PageNames
  BY DEF FormsInv, FormConstants
<1>b. Word(table) /\ Rows(table)
  BY DEF FormsInv
<1>c. \A i \in Live : i \in DOMAIN table /\ RowFits(page, table[i])
  BY <1>b DEF Live, Rows
<1>1. CASE r.op = "POST"
  <2>. DEFINE x == Posted(r.body)
  <2>1. RowFits(page, x)
    BY <1>1, <1>a, RowPosted DEF RequestFits, Acceptable
  <2>2. CASE Replaced(r.body) = {}
    <3>1. After(r) = Append(table, x)
      BY <1>1, <2>2 DEF After
    <3>. QED
      BY <1>1, <1>b, <2>1, <3>1, RowsAppended
  <2>3. CASE Replaced(r.body) # {}
    <3>1. PICK i \in Replaced(r.body) : After(r) = [table EXCEPT ![i] = x]
      BY <1>1, <2>3 DEF After
    <3>2. i \in DOMAIN table
      BY <1>c DEF Replaced
    <3>. HIDE DEF x
    <3>3. Word([table EXCEPT ![i] = x]) /\ Rows([table EXCEPT ![i] = x])
      BY <1>b, <2>1, <3>2, RowsPut
    <3>4. Word(After(r)) /\ Rows(After(r))
      BY <3>1, <3>3
    <3>5. i \in DOMAIN After(r) /\ After(r)[i] = x
      BY <1>b, <3>1, <3>2, PutWord
    <3>. QED
      BY <1>1, <3>4, <3>5 DEF x
  <2>. QED
    BY <2>2, <2>3
<1>2. CASE r.op = "PUT"
  <2>. DEFINE x == Put(table[r.id], r.body)
  <2>1. r.id \in DOMAIN table /\ RowFits(page, table[r.id])
    BY <1>2, <1>c DEF Acceptable
  <2>2. RowFits(page, x)
    BY <1>2, <1>a, <2>1, RowPut DEF RequestFits
  <2>3. After(r) = [table EXCEPT ![r.id] = x]
    BY <1>2 DEF After
  <2>. HIDE DEF x
  <2>. DEFINE k == r.id
  <2>6. Word([table EXCEPT ![k] = x]) /\ Rows([table EXCEPT ![k] = x])
    BY <1>b, <2>1, <2>2, RowsPut
  <2>4. Word(After(r)) /\ Rows(After(r))
    BY <2>3, <2>6
  <2>5. DOMAIN After(r) = DOMAIN table /\ After(r)[r.id] = x
    BY <1>b, <2>1, <2>3, PutWord
  <2>. QED
    BY <1>2, <2>1, <2>4, <2>5 DEF x
<1>3. CASE r.op = "DELETE"
  <2>1. r.id \in DOMAIN table /\ After(r) = [table EXCEPT ![r.id] = NULL]
    BY <1>3, <1>c DEF Acceptable, After
  <2>. DEFINE k == r.id
  <2>2. Word([table EXCEPT ![k] = NULL]) /\ Rows([table EXCEPT ![k] = NULL])
    BY <1>b, <2>1, RowsPut
  <2>. QED
    BY <1>3, <2>1, <2>2
<1>4. CASE r.op = "BULK" /\ page = "devices"
  <2>. DEFINE x == Received("BULK", r.body)
  <2>1. RowFits(page, x)
    BY <1>4, RowImported DEF RequestFits, Acceptable
  <2>2. After(r) = Upserted(r.body)
    BY <1>4 DEF After
  <2>. HIDE DEF x
  <2>3. CASE After(r) = Append(table, x)
    BY <1>4, <1>b, <2>1, <2>3, RowsAppended
  <2>4. CASE \E i \in Live : After(r) = [table EXCEPT ![i] = x]
    <3>1. PICK i \in Live : After(r) = [table EXCEPT ![i] = x]
      BY <2>4
    <3>2. Word([table EXCEPT ![i] = x]) /\ Rows([table EXCEPT ![i] = x])
      BY <1>b, <1>c, <2>1, RowsPut
    <3>. QED
      BY <1>4, <3>1, <3>2
  <2>. QED
    BY <2>2, <2>3, <2>4 DEF Upserted, x
<1>5. CASE r.op = "BULK" /\ page # "devices"
  <2>1. After(r) = table \o SetToSeq(r.body)
    BY <1>5 DEF After, Added
  <2>2. IsFiniteSet(r.body) /\ \A b \in r.body : RowFits(page, b)
    BY <1>5 DEF RequestFits
  <2>. QED
    BY <1>5, <1>b, <2>1, <2>2, RowsAdded
<1>6. CASE r.op = "JIT"
  <2>. DEFINE x == [table |-> "radcheck", username |-> r.body, attribute |-> "Expiration",
                    value |-> <<"text", "soon">>]
  <2>1. RowFits(page, x)
    BY <1>6 DEF RequestFits, RowFits, Columns
  <2>2. After(r) = Approved(r.body)
    BY <1>6 DEF After
  <2>. HIDE DEF x
  <2>3. CASE After(r) = Append(table, x)
    BY <1>6, <1>b, <2>1, <2>3, RowsAppended
  <2>4. CASE \E i \in Live : After(r) = [table EXCEPT ![i] = x]
    <3>1. PICK i \in Live : After(r) = [table EXCEPT ![i] = x]
      BY <2>4
    <3>2. Word([table EXCEPT ![i] = x]) /\ Rows([table EXCEPT ![i] = x])
      BY <1>b, <1>c, <2>1, RowsPut
    <3>. QED
      BY <1>6, <3>1, <3>2
  <2>. QED
    BY <2>2, <2>3, <2>4 DEF Approved, x
<1>. QED
  BY <1>1, <1>2, <1>3, <1>4, <1>5, <1>6 DEF RequestFits

(* One row for each NAS ticked: finitely many, all of them rows. *)
LEMMA BulkFits ==
    ASSUME FormConstants, page = "assignments", NEW f, FormFits(f), f.mode = "ip"
    PROVE  /\ IsFiniteSet(BulkAssignments(f))
           /\ \A b \in BulkAssignments(f) : RowFits(page, b)
<1>. DEFINE B == BulkAssignments(f)
         g == [n \in f.nases |-> [AssignmentBody(f) EXCEPT !.nas = n]]
<1>1. B = {g[n] : n \in f.nases}
  BY DEF BulkAssignments
<1>2. IsFiniteSet(f.nases)
  BY FS_Subset DEF FormFits, FormConstants
<1>3. \A b \in B : RowFits(page, b)
  <2>1. AssignmentBody(f).mac = NULL
    BY DEF AssignmentBody, Sent, Target
  <2>2. Canon(NULL) = NULL
    BY CanonMade
  <2>. QED
    BY <2>1, <2>2 DEF BulkAssignments, AssignmentBody, RowFits, Columns, Target
<1>. HIDE DEF B
<1>4. g \in Surjection(f.nases, B)
  BY <1>1 DEF Surjection
<1>. HIDE DEF g
<1>5. IsFiniteSet(B)
  BY <1>2, <1>4, FS_Surjection
<1>. QED
  BY <1>3, <1>5 DEF B

(* The wizard's posts are rows of its two tables. *)
LEMMA WizardFits ==
    ASSUME FormConstants, page = "users", NEW f, FormFits(f)
    PROVE  /\ Word(WizardPosts(f))
           /\ \A k \in DOMAIN WizardPosts(f) : PostFits(WizardPosts(f)[k])
<1>. DEFINE q == [i \in DOMAIN f.replies |->
                    [table |-> "radreply", username |-> f.username, attribute |-> "Reply",
                     value |-> <<"text", f.replies[i]>>]]
         S == {UserBody(f)} \cup {q[i] : i \in DOMAIN f.replies}
<1>1. f.replies \in Seq(Texts)
  BY DEF FormFits
<1>2. DOMAIN f.replies = 1 .. Len(f.replies) /\ Len(f.replies) \in Nat
  BY <1>1
<1>3. \A b \in S : PostFits(b)
  BY DEF PostFits, BodyFits, Columns, UserBody
<1>4. WizardPosts(f) = <<UserBody(f)>> \o q
  BY DEF WizardPosts
<1>5. UserBody(f) \in S /\ (\A i \in 1 .. Len(f.replies) : q[i] \in S)
      /\ q = [i \in 1 .. Len(f.replies) |-> q[i]]
  BY <1>2
<1>. HIDE DEF q, S
<1>6. q \in Seq(S)
  BY <1>2, <1>5, SequenceMade
<1>7. WizardPosts(f) \in Seq(S)
  BY <1>4, <1>5, <1>6
<1>8. \A k \in DOMAIN WizardPosts(f) : WizardPosts(f)[k] \in S
  BY <1>7
<1>. QED
  BY <1>3, <1>7, <1>8, WordMade

(* A single request, and a sequence of them. *)
LEMMA OneRequest ==
    ASSUME NEW kind, NEW r, RequestFits(kind, r)
    PROVE  Word(<<r>>) /\ \A k \in DOMAIN <<r>> : RequestFits(kind, <<r>>[k])
BY DEF Word

LEMMA RequestsFit ==
    ASSUME FormConstants, FormsInv, Required(modal.form)
    PROVE  /\ Word(Requests)
           /\ \A k \in DOMAIN Requests : RequestFits(modal.mode, Requests[k])
<1>. DEFINE f == modal.form
<1>a. page \in PageNames /\ FormFits(f)
  BY DEF FormsInv, FormConstants
<1>b. page = "assignments" => Targeted(Body(f))
  BY <1>a, SubmitTargeted DEF Required
<1>. HIDE DEF f
<1>1. CASE modal.mode = "edit"
  <2>. DEFINE r == [op |-> "PUT", id |-> modal.id, body |-> Body(f)]
  <2>1. Requests = <<r>>
    BY <1>1 DEF Requests, f
  <2>2. BodyFits(Body(f))
    BY <1>a, BodyMade
  <2>3. RequestFits(modal.mode, r)
    BY <1>1, <1>b, <2>2 DEF RequestFits
  <2>. HIDE DEF r
  <2>. QED
    BY <2>1, <2>3, OneRequest
<1>2. CASE modal.mode # "edit" /\ page = "users"
  <2>. DEFINE w == WizardPosts(f)
         S == {[op |-> "POST", id |-> 0, body |-> w[k]] : k \in DOMAIN w}
  <2>1. Requests = [k \in DOMAIN w |-> [op |-> "POST", id |-> 0, body |-> w[k]]]
    BY <1>2 DEF Requests, f
  <2>2. Word(w) /\ \A k \in DOMAIN w : PostFits(w[k])
    BY <1>2, <1>a, WizardFits
  <2>. HIDE DEF w
  <2>3. DOMAIN w = 1 .. Len(w) /\ Len(w) \in Nat
    BY <2>2 DEF Word
  <2>4. Requests = [k \in 1 .. Len(w) |-> Requests[k]] /\ \A k \in 1 .. Len(w) : Requests[k] \in S
    BY <2>1, <2>3
  <2>5. \A r \in S : RequestFits(modal.mode, r)
    BY <1>2, <2>2 DEF RequestFits
  <2>6. DOMAIN Requests = 1 .. Len(w)
    BY <2>4
  <2>. HIDE DEF S
  <2>7. Requests \in Seq(S)
    BY <2>3, <2>4, SequenceMade
  <2>8. Word(Requests)
    BY <2>7, WordMade
  <2>. QED
    BY <2>4, <2>5, <2>6, <2>8
<1>3. CASE modal.mode # "edit" /\ page = "assignments" /\ f.mode = "ip"
  <2>. DEFINE r == [op |-> "BULK", id |-> 0, body |-> BulkAssignments(f)]
  <2>1. Requests = <<r>>
    BY <1>3 DEF Requests, f
  <2>2. RequestFits(modal.mode, r)
    BY <1>3, <1>a, BulkFits DEF RequestFits
  <2>. HIDE DEF r
  <2>. QED
    BY <2>1, <2>2, OneRequest
<1>4. CASE modal.mode # "edit" /\ page = "admins"
  <2>. DEFINE r == [op |-> "POST", id |-> 0, body |-> f.new]
  <2>1. Requests = <<r>>
    BY <1>4 DEF Requests, f
  <2>2. PostFits(f.new)
    BY <1>4, <1>a DEF PostFits, FormFits
  <2>3. RequestFits(modal.mode, r)
    BY <1>4, <2>2 DEF RequestFits
  <2>. HIDE DEF r
  <2>. QED
    BY <2>1, <2>3, OneRequest
<1>5. CASE modal.mode # "edit" /\ page \notin {"users", "admins"}
           /\ ~(page = "assignments" /\ f.mode = "ip")
  <2>. DEFINE r == [op |-> "POST", id |-> 0, body |-> Body(f)]
  <2>1. Requests = <<r>>
    BY <1>5 DEF Requests, f
  <2>2. PostFits(Body(f))
    BY <1>5, <1>a, BodyMade DEF PostFits
  <2>3. RequestFits(modal.mode, r)
    BY <1>5, <1>b, <2>2 DEF RequestFits
  <2>. HIDE DEF r
  <2>. QED
    BY <2>1, <2>3, OneRequest
<1>. QED
  BY <1>1, <1>2, <1>3, <1>4, <1>5

(* What a request is depends on the page alone. *)
LEMMA RequestKept ==
    ASSUME page' = page, NEW kind, NEW r, RequestFits(kind, r)
    PROVE  RequestFits(kind, r)'
<1>1. ASSUME NEW b, BodyFits(b) PROVE BodyFits(b)'
  BY <1>1 DEF BodyFits
<1>2. ASSUME NEW b, PostFits(b) PROVE PostFits(b)'
  BY <1>1, <1>2 DEF PostFits
<1>. QED
  BY <1>1, <1>2 DEF RequestFits

LEMMA CallKept ==
    ASSUME page' = page, NEW c, CallFits(c), sent \in Nat, sent' \in Nat, sent' >= sent
    PROVE  CallFits(c)'
<1>1. \A k \in DOMAIN c.reqs : RequestFits(c.kind, c.reqs[k])'
  <2>1. \A k \in DOMAIN c.reqs : RequestFits(c.kind, c.reqs[k])
    BY DEF CallFits
  <2>. QED
    BY <2>1, RequestKept
<1>2. c.n \in Nat /\ c.n < sent'
  BY DEF CallFits
<1>. QED
  BY <1>1, <1>2 DEF CallFits

(* A call that takes up requests that fit leaves everything else alone. *)
LEMMA CallKeeps ==
    ASSUME FormsInv, NEW kind, NEW m, NEW reqs, Call(kind, m, reqs), Word(reqs),
           \A k \in DOMAIN reqs : RequestFits(kind, reqs[k]),
           kind = "edit" /\ page = "admins" => PasswordLess(m.start)
    PROVE  FormsInv'
<1>0. PICK new : new = [n |-> sent, kind |-> kind, shown |-> m.shown, reqs |-> reqs,
                        begun |-> FALSE,
                        opened |-> IF kind = "edit" THEN Body(m.start) ELSE NULL]
  OBVIOUS
<1>1. /\ calls' = calls \cup {new} /\ sent' = sent + 1
      /\ UNCHANGED <<page, table, list, fetch, modal>>
  BY <1>0 DEF Call
<1>2. /\ new.n = sent /\ new.kind = kind /\ new.reqs = reqs
      /\ new.opened = IF kind = "edit" THEN Body(m.start) ELSE NULL
  BY <1>0
<1>3. kind = "edit" /\ page = "admins" => DOMAIN new.opened = {"active"}
  BY <1>2 DEF PasswordLess
<1>4. sent \in Nat /\ sent' \in Nat
  <2>1. sent \in Nat
    BY DEF FormsInv
  <2>. QED
    BY <1>1, <2>1
<1>5. ASSUME NEW c \in calls PROVE CallFits(c)' /\ c.n # sent
  <2>1. CallFits(c)
    BY DEF FormsInv
  <2>. QED
    <3>1. c.n \in Nat /\ c.n < sent
      BY <2>1 DEF CallFits
    <3>2. page' = page /\ sent' >= sent /\ c.n # sent
      BY <1>1, <1>4, <3>1
    <3>3. CallFits(c)'
      BY <1>4, <2>1, <3>2, CallKept
    <3>. QED
      BY <3>2, <3>3
<1>6. CallFits(new)'
  <2>1. \A k \in DOMAIN reqs : RequestFits(kind, reqs[k])'
    BY <1>1, RequestKept
  <2>2. new.n \in Nat /\ new.n < sent + 1
    BY <1>1, <1>2, <1>4
  <2>. QED
    BY <1>1, <1>2, <1>3, <2>1, <2>2 DEF CallFits
<1>7. (\A c \in calls : CallFits(c))'
  BY <1>1, <1>5, <1>6
<1>8. (\A c, d \in calls : c.n = d.n => c = d)'
  BY <1>1, <1>2, <1>5 DEF FormsInv
<1>9. PasswordLess(modal.start)' <=> PasswordLess(modal.start)
  BY <1>1 DEF PasswordLess, Body
<1>. QED
  BY <1>1, <1>4, <1>7, <1>8, <1>9 DEF FormsInv, Rows, FormFits, Fields

-----------------------------------------------------------------------------
(* One step of the page. *)

(* What a step does to the rest of the state when it leaves calls as they are. *)
LEMMA CallsKept ==
    ASSUME FormsInv, UNCHANGED <<page, sent>>, calls' \subseteq calls
    PROVE  /\ \A c \in calls' : CallFits(c)'
           /\ \A c, d \in calls' : c.n = d.n => c = d
<1>1. sent \in Nat /\ sent' \in Nat /\ sent' >= sent
  BY DEF FormsInv
<1>2. \A c \in calls' : CallFits(c)
  BY DEF FormsInv
<1>. QED
  BY <1>1, <1>2, CallKept DEF FormsInv

(* What the list query reads of rows is rows. *)
LEMMA ListedRows ==
    ASSUME NEW s, Rows(s)
    PROVE  Rows(Listed(s))
BY DEF Rows, Listed

(* The form after a step of its own. *)
LEMMA ModalStep ==
    ASSUME FormsInv, UNCHANGED <<page, table, list, fetch, sent>>, calls' \subseteq calls,
           FormFits(modal'.form),
           page = "admins" /\ modal'.mode = "edit" => PasswordLess(modal'.start)
    PROVE  FormsInv'
<1>1. FormFits(modal.form)'
  BY DEF FormFits, Fields
<1>2. PasswordLess(modal'.start) => PasswordLess(modal.start)'
  BY DEF PasswordLess, Body
<1>. QED
  BY <1>1, <1>2, CallsKept DEF FormsInv, Rows

(* The table or the list after a step that leaves the form alone. *)
LEMMA RowsStep ==
    ASSUME FormsInv, UNCHANGED <<page, modal>>, calls' \subseteq calls,
           sent' \in {sent, sent + 1},
           Word(table'), Rows(table'), Rows(list'), Rows(fetch'.rows)
    PROVE  FormsInv'
<1>1. FormFits(modal.form)'
  BY DEF FormsInv, FormFits, Fields
<1>2. PasswordLess(modal.start) => PasswordLess(modal.start)'
  BY DEF PasswordLess, Body
<1>3. sent \in Nat
  BY DEF FormsInv
<1>4. sent' \in Nat /\ sent' >= sent
  BY <1>3
<1>5. \A c \in calls' : CallFits(c)
  BY DEF FormsInv
<1>6. \A c \in calls' : CallFits(c)'
  BY <1>3, <1>4, <1>5, CallKept
<1>. QED
  BY <1>1, <1>2, <1>4, <1>6 DEF FormsInv, Rows

(* Closing, and a success, leave a form. *)
LEMMA SpentFits ==
    ASSUME FormConstants, FormsInv, NEW kind
    PROVE  FormFits(Spent(kind, modal.form))
<1>a. page \in PageNames /\ FormFits(modal.form)
  BY DEF FormsInv, FormConstants
<1>1. CASE page = "admins" /\ kind = "create"
  <2>. DEFINE x == AdminNew
  <2>1. Spent(kind, modal.form) = [modal.form EXCEPT !["new"] = x]
    BY <1>1 DEF Spent
  <2>2. x = [k \in Columns("admins") |-> x[k]]
    BY DEF AdminNew, Columns
  <2>3. "new" \in Fields(page)
    BY <1>1 DEF Fields
  <2>. HIDE DEF x
  <2>4. FormFits([modal.form EXCEPT !["new"] = x])
    BY <1>1, <1>a, <2>2, <2>3, FieldFits
  <2>. QED
    BY <2>1, <2>4
<1>2. CASE page = "admins" /\ kind = "edit"
  <2>1. Spent(kind, modal.form) = [modal.form EXCEPT !["reset"] = ""]
    BY <1>2 DEF Spent
  <2>2. "reset" \in Fields(page)
    BY <1>2 DEF Fields
  <2>3. FormFits([modal.form EXCEPT !["reset"] = ""])
    BY <1>2, <1>a, <2>2, FieldFits
  <2>. QED
    BY <2>1, <2>3
<1>3. CASE ~(page = "admins" /\ kind \in {"create", "edit"})
  BY <1>3, <1>a, BlankFits DEF Spent
<1>. QED
  BY <1>1, <1>2, <1>3

LEMMA FormSteps ==
    ASSUME FormConstants, IInv, FormsInv, OpenCreate \/ OpenEdit \/ Input \/ Cancel
    PROVE  FormsInv'
<1>a. page \in PageNames /\ FormFits(modal.form) /\ FormFits(Blank)
  BY BlankFits DEF FormsInv, FormConstants
<1>1. CASE OpenCreate
  <2>1. modal'.form \in {modal.form, Blank} /\ modal'.mode = "create"
    BY <1>1 DEF OpenCreate
  <2>2. UNCHANGED <<page, table, list, fetch, sent, calls>>
    BY <1>1 DEF OpenCreate
  <2>. QED
    BY <1>a, <2>1, <2>2, ModalStep
<1>2. CASE OpenEdit
  <2>1. PICK i \in DOMAIN list :
            /\ list[i] # NULL
            /\ modal' = [mode |-> "edit", id |-> i, shown |-> i,
                         start |-> FormOf(list[i], modal.form),
                         form |-> FormOf(list[i], modal.form)]
    BY <1>2 DEF OpenEdit
  <2>2. RowFits(page, list[i])
    BY <2>1 DEF FormsInv, Rows
  <2>. DEFINE g == FormOf(list[i], modal.form)
  <2>3. FormFits(g) /\ (page = "admins" => g.reset = "")
    BY <1>a, <2>2, FormOfFits
  <2>4. modal'.form = g /\ modal'.start = g
    BY <2>1
  <2>. HIDE DEF g
  <2>5. page = "admins" => PasswordLess(g)
    <3>. SUFFICES ASSUME page = "admins" PROVE PasswordLess(g)
      OBVIOUS
    <3>1. Body(g) = [active |-> g.active]
      BY <2>3 DEF Body, AdminBody
    <3>. QED
      BY <3>1 DEF PasswordLess
  <2>6. UNCHANGED <<page, table, list, fetch, sent, calls>>
    BY <1>2 DEF OpenEdit
  <2>. QED
    BY <2>3, <2>4, <2>5, <2>6, ModalStep
<1>3. CASE Input
  <2>1. PICK g \in Inputs(modal.form) : modal' = [modal EXCEPT !.form = g]
    BY <1>3 DEF Input
  <2>2. FormFits(g)
    BY <1>a, InputFits
  <2>3. modal'.form = g /\ modal'.start = modal.start /\ modal'.mode = modal.mode
    BY <2>1 DEF IInv, FormNamesOne, ModalFields
  <2>4. UNCHANGED <<page, table, list, fetch, sent, calls>>
    BY <1>3 DEF Input
  <2>5. page = "admins" /\ modal'.mode = "edit" => PasswordLess(modal'.start)
    BY <2>3 DEF FormsInv
  <2>. QED
    BY <2>2, <2>3, <2>4, <2>5, ModalStep
<1>4. CASE Cancel
  <2>1. modal'.form \in {modal.form, Blank} /\ modal'.mode = "closed"
    BY <1>4 DEF Cancel, Emptied, Closed
  <2>2. UNCHANGED <<page, table, list, fetch, sent, calls>>
    BY <1>4 DEF Cancel
  <2>. QED
    BY <1>a, <2>1, <2>2, ModalStep
<1>. QED
  BY <1>1, <1>2, <1>3, <1>4

LEMMA CallSteps ==
    ASSUME FormConstants, FormsInv, Submit \/ DeleteRow \/ Import \/ Approve
    PROVE  FormsInv'
<1>1. CASE Submit
  <2>1. Call(modal.mode, modal, Requests) /\ Required(modal.form)
    BY <1>1 DEF Submit
  <2>2. modal.mode = "edit" /\ page = "admins" => PasswordLess(modal.start)
    BY DEF FormsInv
  <2>. QED
    BY <2>1, <2>2, RequestsFit, CallKeeps
<1>2. CASE DeleteRow \/ Import \/ Approve
  <2>1. PICK kind, m, r : /\ Call(kind, m, <<r>>) /\ kind # "edit" /\ RequestFits(kind, r)
    <3>1. CASE DeleteRow
      <4>1. PICK i : Call("delete", Closed(Blank), <<[op |-> "DELETE", id |-> i, body |-> NULL]>>)
        BY <3>1 DEF DeleteRow
      <4>2. RequestFits("delete", [op |-> "DELETE", id |-> i, body |-> NULL])
        BY DEF RequestFits
      <4>. QED
        BY <4>1, <4>2
    <3>2. CASE Import
      <4>1. PICK d \in BulkDevices :
                Call("bulk", Closed(Blank), <<[op |-> "BULK", id |-> 0, body |-> d]>>)
        BY <3>2 DEF Import
      <4>2. page = "devices" /\ BodyFits(d)
        <5>1. PICK m0 \in Spellings, n0 \in Trimmed, c0 \in Texts :
                  d = [mac |-> m0, name |-> n0, cat |-> Filled(c0), active |-> 1]
          BY DEF BulkDevices
        <5>a. \A n \in Trimmed : n # ""
          BY DEF Trimmed
        <5>2. m0 # NULL /\ n0 # "" /\ Filled(c0) # ""
          BY <5>a, NullApart DEF FormConstants, Filled
        <5>3. /\ d.mac = m0 /\ d.name = n0 /\ d.cat = Filled(c0) /\ d.active = 1
              /\ d = [c \in {"mac", "name", "cat", "active"} |-> d[c]]
          BY <5>1
        <5>4. page = "devices"
          BY <3>2 DEF Import
        <5>. QED
          BY <5>2, <5>3, <5>4 DEF BodyFits, Columns
      <4>3. RequestFits("bulk", [op |-> "BULK", id |-> 0, body |-> d])
        BY <4>2 DEF RequestFits
      <4>. QED
        BY <4>1, <4>3
    <3>3. CASE Approve
      <4>1. PICK i : Call("jit", Closed(Blank),
                          <<[op |-> "JIT", id |-> 0, body |-> list[i].username]>>)
        BY <3>3 DEF Approve
      <4>2. page = "users"
        BY <3>3 DEF Approve
      <4>3. RequestFits("jit", [op |-> "JIT", id |-> 0, body |-> list[i].username])
        BY <4>2 DEF RequestFits
      <4>. QED
        BY <4>1, <4>3
    <3>. QED
      BY <1>2, <3>1, <3>2, <3>3
  <2>. DEFINE q == <<r>>
  <2>2. Word(q) /\ \A k \in DOMAIN q : RequestFits(kind, q[k])
    BY <2>1, OneRequest
  <2>. HIDE DEF q
  <2>3. Call(kind, m, q) /\ kind # "edit"
    BY <2>1 DEF q
  <2>. QED
    BY <2>2, <2>3, CallKeeps
<1>. QED
  BY <1>1, <1>2

(* The backend carries out the next request of a call. *)
LEMMA ServeFits ==
    ASSUME FormConstants, IInv, FormsInv, NEW c \in calls, Serve(c)
    PROVE  FormsInv'
<1>. DEFINE r == Head(c.reqs)
            d == [c EXCEPT !.reqs = Tail(c.reqs), !.begun = TRUE]
<1>1. /\ c.reqs # <<>> /\ Acceptable(r) /\ table' = After(r)
      /\ calls' = (calls \ {c}) \cup {d}
      /\ UNCHANGED <<page, list, fetch, modal, sent>>
  BY DEF Serve
<1>2. CallFits(c) /\ Aimed(c)
  BY DEF FormsInv, IInv
<1>3. c.reqs \in Seq({c.reqs[k] : k \in DOMAIN c.reqs})
  BY <1>2 DEF CallFits, Word
<1>4. /\ r = c.reqs[1] /\ 1 \in DOMAIN c.reqs
      /\ Tail(c.reqs) \in Seq({c.reqs[k] : k \in DOMAIN c.reqs})
      /\ \A k \in DOMAIN Tail(c.reqs) : k + 1 \in DOMAIN c.reqs /\ Tail(c.reqs)[k] = c.reqs[k + 1]
  BY <1>1, <1>3
<1>5. RequestFits(c.kind, r)
  BY <1>2, <1>4 DEF CallFits
<1>6. /\ d.n = c.n /\ d.kind = c.kind /\ d.reqs = Tail(c.reqs) /\ d.opened = c.opened
  BY <1>2 DEF Aimed, CallFields
<1>. HIDE DEF r, d
<1>7. Word(table') /\ Rows(table')
  BY <1>1, <1>5, AfterFits
<1>8. CallFits(d)
  <2>1. Word(d.reqs)
    BY <1>4, <1>6, WordMade
  <2>2. \A k \in DOMAIN d.reqs : RequestFits(d.kind, d.reqs[k])
    BY <1>2, <1>4, <1>6 DEF CallFits
  <2>. QED
    BY <1>2, <1>6, <2>1, <2>2 DEF CallFits
<1>9. \A e \in calls' : CallFits(e)'
  <2>1. sent \in Nat /\ sent' \in Nat /\ sent' >= sent
    BY <1>1 DEF FormsInv
  <2>2. \A e \in calls' : CallFits(e)
    BY <1>1, <1>8 DEF FormsInv
  <2>. QED
    BY <1>1, <2>1, <2>2, CallKept
<1>10. \A e, f \in calls' : e.n = f.n => e = f
  BY <1>1, <1>6 DEF FormsInv
<1>11. FormFits(modal.form)'
  BY <1>1 DEF FormsInv, FormFits, Fields
<1>12. PasswordLess(modal.start) => PasswordLess(modal.start)'
  BY <1>1 DEF PasswordLess, Body
<1>. QED
  BY <1>1, <1>7, <1>9, <1>10, <1>11, <1>12 DEF FormsInv, Rows

(* Its answer, whichever it is. *)
LEMMA AnswerFits ==
    ASSUME FormConstants, IInv, FormsInv, NEW c \in calls, Refuse(c) \/ Succeed(c)
    PROVE  FormsInv'
<1>1. CASE Refuse(c)
  <2>1. UNCHANGED <<page, table, list, fetch, modal, sent>> /\ calls' \subseteq calls
    BY <1>1 DEF Refuse
  <2>2. FormFits(modal'.form)
    BY <2>1 DEF FormsInv
  <2>3. page = "admins" /\ modal'.mode = "edit" => PasswordLess(modal'.start)
    BY <2>1 DEF FormsInv
  <2>. QED
    BY <2>1, <2>2, <2>3, ModalStep
<1>2. CASE Succeed(c)
  <2>1. /\ UNCHANGED <<page, table, list, sent>> /\ calls' = calls \ {c}
        /\ fetch'.rows = <<>> /\ modal' = AfterSuccess(c.kind)
    BY <1>2 DEF Succeed, Refetched, Asked
  <2>. DEFINE g == Spent(c.kind, modal.form)
  <2>2. FormFits(g) /\ FormFits(modal.form)
    BY SpentFits DEF FormsInv
  <2>3. \/ modal' = modal \/ modal' = Closed(g)
        \/ modal' = [modal EXCEPT !.form = g]
    BY <2>1 DEF AfterSuccess
  <2>. HIDE DEF g
  <2>4. /\ modal'.form \in {g, modal.form}
        /\ modal'.mode = "closed" \/ (modal'.mode = modal.mode /\ modal'.start = modal.start)
    BY <2>3 DEF IInv, FormNamesOne, ModalFields, Closed
  <2>5. FormFits(modal.form)'
    BY <2>1, <2>2, <2>4 DEF FormFits, Fields
  <2>6. page = "admins" /\ modal'.mode = "edit" => PasswordLess(modal.start)'
    BY <2>1, <2>4 DEF FormsInv, PasswordLess, Body
  <2>. QED
    BY <2>1, <2>5, <2>6, CallsKept DEF FormsInv, Rows
<1>. QED
  BY <1>1, <1>2

(* Fetches, and the writes of others. *)
LEMMA OtherFits ==
    ASSUME FormConstants, FormsInv, Focus \/ Read \/ Arrive \/ Foreign \/ RemoveCategory
    PROVE  FormsInv'
<1>a. Word(table) /\ Rows(table) /\ Rows(list) /\ Rows(fetch.rows) /\ page \in Pages
  BY DEF FormsInv
<1>b. Rows(<<>>)
  BY DEF Rows
<1>1. CASE Focus
  <2>1. UNCHANGED <<page, table, list, modal, calls, sent>> /\ fetch'.rows = <<>>
    BY <1>1 DEF Focus, Asked
  <2>. QED
    BY <1>a, <1>b, <2>1, RowsStep
<1>2. CASE Read
  <2>1. UNCHANGED <<page, table, list, modal, calls, sent>> /\ fetch'.rows = Listed(table)
    BY <1>2 DEF Read
  <2>. QED
    BY <1>a, <2>1, RowsStep, ListedRows
<1>3. CASE Arrive
  <2>1. UNCHANGED <<page, table, modal, calls, sent>> /\ list' = fetch.rows /\ fetch'.rows = <<>>
    BY <1>3 DEF Arrive, Idle
  <2>. QED
    BY <1>a, <1>b, <2>1, RowsStep
<1>4. CASE Foreign
  <2>1. PICK i \in Live, x \in Seeds[page] \cup {NULL} : table' = [table EXCEPT ![i] = x]
    BY <1>4 DEF Foreign
  <2>2. UNCHANGED <<page, list, fetch, modal, calls>> /\ sent' = sent + 1
    BY <1>4 DEF Foreign
  <2>3. i \in DOMAIN table
    BY DEF Live
  <2>4. x = NULL \/ RowFits(page, x)
    BY <1>a DEF FormConstants
  <2>5. Word([table EXCEPT ![i] = x]) /\ Rows([table EXCEPT ![i] = x])
    BY <1>a, <2>3, <2>4, RowsPut
  <2>. QED
    BY <1>a, <2>1, <2>2, <2>5, RowsStep
<1>5. CASE RemoveCategory
  <2>1. PICK x : table' = [i \in DOMAIN table |->
                             IF i \in Live /\ table[i].cat = x
                             THEN [table[i] EXCEPT !.cat = NULL] ELSE table[i]]
    BY <1>5 DEF RemoveCategory
  <2>2. UNCHANGED <<page, list, fetch, modal, calls>> /\ sent' = sent + 1 /\ page = "nas"
    BY <1>5 DEF RemoveCategory
  <2>3. DOMAIN table = 1 .. Len(table) /\ Len(table) \in Nat
    BY <1>a DEF Word
  <2>4. Word(table')
    <3>. DEFINE S == {table'[i] : i \in 1 .. Len(table)}
    <3>1. table' = [i \in 1 .. Len(table) |-> table'[i]]
          /\ \A i \in 1 .. Len(table) : table'[i] \in S
      BY <2>1, <2>3
    <3>. HIDE DEF S
    <3>2. table' \in Seq(S)
      BY <2>3, <3>1, SequenceMade
    <3>. QED
      BY <3>2, WordMade
  <2>5. Rows(table')
    <3>. SUFFICES ASSUME NEW i \in DOMAIN table, table'[i] # NULL PROVE RowFits(page, table'[i])
      BY <2>1 DEF Rows
    <3>1. table'[i] = IF i \in Live /\ table[i].cat = x THEN [table[i] EXCEPT !.cat = NULL]
                      ELSE table[i]
      BY <2>1
    <3>2. table[i] = NULL \/ RowFits(page, table[i])
      BY <1>a DEF Rows
    <3>3. CASE i \in Live /\ table[i].cat = x
      <4>1. RowFits(page, table[i])
        BY <3>2, <3>3 DEF Live
      <4>. DEFINE y == [table[i] EXCEPT !.cat = NULL]
      <4>2. y = [c \in Columns("nas") |-> y[c]] /\ y.name = table[i].name
        BY <2>2, <4>1 DEF RowFits, Columns
      <4>3. table'[i] = y
        BY <3>1, <3>3
      <4>. HIDE DEF y
      <4>. QED
        BY <2>2, <4>1, <4>2, <4>3 DEF RowFits
    <3>4. CASE ~(i \in Live /\ table[i].cat = x)
      BY <3>1, <3>2, <3>4
    <3>. QED
      BY <3>3, <3>4
  <2>. QED
    BY <1>a, <2>2, <2>4, <2>5, RowsStep
<1>. QED
  BY <1>1, <1>2, <1>3, <1>4, <1>5

LEMMA InitFits ==
    ASSUME FormConstants, Init
    PROVE  FormsInv
<1>1. PICK r \in Initial[page] : table = <<r>>
  BY DEF Init
<1>2. page \in PageNames /\ RowFits(page, r)
  BY DEF Init, FormConstants
<1>3. Word(table) /\ Rows(table)
  BY <1>1, <1>2 DEF Word, Rows
<1>4. Rows(list) /\ Rows(fetch.rows)
  BY <1>3, ListedRows DEF Init, Idle, Rows
<1>5. FormFits(modal.form) /\ modal.mode = "closed"
  BY <1>2, BlankFits DEF Init, Closed
<1>. QED
  BY <1>3, <1>4, <1>5 DEF Init, FormsInv

LEMMA StepFits ==
    ASSUME FormConstants, IInv, FormsInv, [Next]_vars
    PROVE  FormsInv'
<1>1. CASE UNCHANGED vars
  <2>1. UNCHANGED <<page, table, list, fetch, modal, calls, sent>>
    BY <1>1 DEF vars
  <2>2. FormFits(modal'.form)
    BY <2>1 DEF FormsInv
  <2>3. page = "admins" /\ modal'.mode = "edit" => PasswordLess(modal'.start)
    BY <2>1 DEF FormsInv
  <2>. QED
    BY <2>1, <2>2, <2>3, ModalStep
<1>. QED
  BY <1>1, FormSteps, CallSteps, ServeFits, AnswerFits, OtherFits DEF Next

-----------------------------------------------------------------------------
(* The MAC of a device, which its edit form shows and a PUT does not have. *)

(* Row i was a device with MAC m, and is unless it was deleted. *)
Names(i, m) == i \in DOMAIN table /\ (table[i] = NULL \/ table[i].mac = m)

MacsInv ==
    page = "devices" =>
        /\ \A i \in DOMAIN list : list[i] # NULL => Names(i, list[i].mac)
        /\ \A i \in DOMAIN fetch.rows : fetch.rows[i] # NULL => Names(i, fetch.rows[i].mac)
        /\ modal.mode = "edit" => Names(modal.id, modal.form.mac)
        /\ \A c \in calls : c.kind = "edit" /\ c.reqs # <<>> =>
               Names(Head(c.reqs).id, Head(c.reqs).body.mac)

LEMMA InitMacs ==
    ASSUME FormConstants, Init
    PROVE  MacsInv
<1>. SUFFICES ASSUME page = "devices" PROVE MacsInv
  BY DEF MacsInv
<1>1. list = table /\ fetch.rows = <<>> /\ modal.mode = "closed" /\ calls = {}
  BY DEF Init, Listed, Idle, Closed
<1>. QED
  BY <1>1 DEF MacsInv, Names

(* No request changes the MAC of a device. *)
LEMMA AfterNames ==
    ASSUME FormConstants, FormsInv, page = "devices", NEW kind, NEW r, RequestFits(kind, r),
           Acceptable(r), NEW i, NEW m, Names(i, m)
    PROVE  i \in DOMAIN After(r) /\ (After(r)[i] = NULL \/ After(r)[i].mac = m)
<1>a. Word(table) /\ Rows(table) /\ page \in PageNames
  BY DEF FormsInv, PageNames
<1>1. ASSUME NEW x, After(r) = Append(table, x)
      PROVE  i \in DOMAIN After(r) /\ (After(r)[i] = NULL \/ After(r)[i].mac = m)
  <2>1. table \in Seq({table[k] : k \in DOMAIN table})
    BY <1>a DEF Word
  <2>2. /\ DOMAIN Append(table, x) = 1 .. Len(table) + 1 /\ DOMAIN table = 1 .. Len(table)
        /\ Len(table) \in Nat /\ \A k \in 1 .. Len(table) : Append(table, x)[k] = table[k]
    BY <2>1
  <2>3. i \in 1 .. Len(table)
    BY <2>2 DEF Names
  <2>. QED
    BY <1>1, <2>2, <2>3 DEF Names
<1>2. ASSUME NEW k \in DOMAIN table, NEW x, After(r) = [table EXCEPT ![k] = x],
             x = NULL \/ (table[k] # NULL /\ x.mac = table[k].mac)
      PROVE  i \in DOMAIN After(r) /\ (After(r)[i] = NULL \/ After(r)[i].mac = m)
  BY <1>2 DEF Names
<1>3. CASE r.op = "POST"
  <2>1. Replaced(r.body) = {}
    BY DEF Replaced
  <2>. QED
    BY <1>1, <1>3, <2>1 DEF After
<1>4. CASE r.op = "PUT"
  <2>. DEFINE k == r.id
            x == Put(table[r.id], r.body)
  <2>1. k \in DOMAIN table /\ table[k] # NULL /\ After(r) = [table EXCEPT ![k] = x]
    BY <1>4 DEF Acceptable, Live, After
  <2>2. RowFits(page, table[k])
    BY <1>a, <2>1 DEF Rows
  <2>3. "mac" \in DOMAIN table[k]
    BY <2>2 DEF RowFits, Columns
  <2>4. "mac" \notin DOMAIN Received("PUT", r.body)
    BY <1>a, PayloadHas, PayloadColumns
  <2>5. x.mac = table[k].mac
    BY <2>3, <2>4 DEF Put, MergeGiven
  <2>. HIDE DEF x, k
  <2>. QED
    BY <1>2, <2>1, <2>5
<1>5. CASE r.op = "DELETE"
  <2>1. r.id \in DOMAIN table /\ After(r) = [table EXCEPT ![r.id] = NULL]
    BY <1>5 DEF Acceptable, Live, After
  <2>. QED
    BY <1>2, <2>1
<1>6. CASE r.op = "BULK"
  <2>. DEFINE x == Received("BULK", r.body)
            O == {k \in Live : table[k].mac = x.mac}
  <2>1. After(r) = Upserted(r.body)
    BY <1>6 DEF After
  <2>. HIDE DEF x
  <2>2. After(r) = IF O = {} THEN Append(table, x)
                   ELSE [table EXCEPT ![CHOOSE k \in O : TRUE] = x]
    BY <2>1 DEF Upserted, x
  <2>3. CASE O = {}
    BY <1>1, <2>2, <2>3
  <2>4. CASE O # {}
    <3>1. PICK k \in O : After(r) = [table EXCEPT ![k] = x]
      BY <2>2, <2>4
    <3>2. k \in DOMAIN table /\ table[k] # NULL /\ x.mac = table[k].mac
      BY <3>1 DEF Live
    <3>. QED
      BY <1>2, <3>1, <3>2
  <2>. QED
    BY <2>3, <2>4
<1>. QED
  BY <1>3, <1>4, <1>5, <1>6 DEF RequestFits

(* The rows of the list, of the fetch under way, of the form and of the
   requests are told apart by it. *)
LEMMA StepMacs ==
    ASSUME FormConstants, IInv, FormsInv, MacsInv, [Next]_vars
    PROVE  MacsInv'
<1>a. page' = page
  BY DEF Next, vars, OpenCreate, OpenEdit, Input, Cancel, Submit, DeleteRow, Import, Approve,
         Call, Serve, Refuse, Succeed, Focus, Read, Arrive, Foreign, RemoveCategory
<1>. SUFFICES ASSUME page = "devices" PROVE MacsInv'
  BY <1>a DEF MacsInv
<1>b. ASSUME table' = table, NEW i, NEW m, Names(i, m) PROVE Names(i, m)'
  BY <1>b DEF Names
<1>c. ASSUME \A i, m : Names(i, m) => Names(i, m)',
             UNCHANGED <<list, fetch>>,
             modal'.mode = "edit" => modal' = modal,
             \A c \in calls' : c.kind = "edit" /\ c.reqs # <<>> => c \in calls
      PROVE  MacsInv'
  BY <1>a, <1>c DEF MacsInv
<1>1. CASE OpenCreate \/ Cancel
  <2>1. UNCHANGED <<table, list, fetch, calls>> /\ modal'.mode # "edit"
    BY <1>1 DEF OpenCreate, Cancel, Emptied, Closed
  <2>. QED
    BY <1>b, <1>c, <2>1
<1>2. CASE OpenEdit
  <2>1. PICK i \in DOMAIN list :
            /\ list[i] # NULL
            /\ modal' = [mode |-> "edit", id |-> i, shown |-> i,
                         start |-> FormOf(list[i], modal.form),
                         form |-> FormOf(list[i], modal.form)]
    BY <1>2 DEF OpenEdit
  <2>2. UNCHANGED <<table, list, fetch, calls>>
    BY <1>2 DEF OpenEdit
  <2>3. FormOf(list[i], modal.form).mac = list[i].mac
    BY DEF FormOf, DeviceForm
  <2>4. modal'.id = i /\ modal'.form.mac = list[i].mac
    BY <2>1, <2>3
  <2>5. Names(modal'.id, modal'.form.mac)
    BY <2>1, <2>4 DEF MacsInv
  <2>. QED
    BY <1>a, <1>b, <2>2, <2>5 DEF MacsInv
<1>3. CASE Input
  <2>1. PICK g \in Inputs(modal.form) : modal' = [modal EXCEPT !.form = g]
    BY <1>3 DEF Input
  <2>2. UNCHANGED <<table, list, fetch, calls>>
    BY <1>3 DEF Input
  <2>3. modal'.mode = modal.mode /\ modal'.id = modal.id /\ modal'.form = g
    BY <2>1 DEF IInv, FormNamesOne, ModalFields
  <2>4. ASSUME modal.mode = "edit" PROVE g.mac = modal.form.mac
    <3>1. g \in DeviceInputs(modal.form, TRUE)
      BY <2>1, <2>4 DEF Inputs
    <3>. DEFINE f == modal.form
    <3>2. f = [c \in {"mac", "name", "cat", "active"} |-> f[c]]
      BY DEF FormsInv, FormFits, Fields, Columns
    <3>3. \E c \in {"name", "cat", "active"} : \E x : g = [f EXCEPT ![c] = x]
      BY <3>1 DEF DeviceInputs, Typed, Spelled
    <3>. HIDE DEF f
    <3>4. g.mac = f.mac
      BY <3>2, <3>3
    <3>. QED
      BY <3>4 DEF f
  <2>. QED
    BY <1>a, <1>b, <2>2, <2>3, <2>4 DEF MacsInv
<1>4. CASE Submit
  <2>1. Call(modal.mode, modal, Requests)
    BY <1>4 DEF Submit
  <2>2. UNCHANGED <<table, list, fetch, modal>>
    BY <2>1 DEF Call
  <2>3. PICK new : /\ calls' = calls \cup {new} /\ new.kind = modal.mode /\ new.reqs = Requests
    <3>1. PICK new : new = [n |-> sent, kind |-> modal.mode, shown |-> modal.shown,
                            reqs |-> Requests, begun |-> FALSE,
                            opened |-> IF modal.mode = "edit" THEN Body(modal.start) ELSE NULL]
      OBVIOUS
    <3>2. calls' = calls \cup {new}
      BY <2>1, <3>1 DEF Call
    <3>3. new.kind = modal.mode /\ new.reqs = Requests
      BY <3>1
    <3>. QED
      BY <3>2, <3>3, Zenon
  <2>4. ASSUME modal.mode = "edit" PROVE Names(Head(Requests).id, Head(Requests).body.mac)
    <3>1. Requests = <<[op |-> "PUT", id |-> modal.id, body |-> Body(modal.form)]>>
      BY <2>4 DEF Requests
    <3>2. Head(Requests).id = modal.id /\ Head(Requests).body = Body(modal.form)
      BY <3>1
    <3>3. Body(modal.form).mac = modal.form.mac
      BY DEF Body, DeviceBody
    <3>. QED
      BY <2>4, <3>2, <3>3 DEF MacsInv
  <2>. QED
    BY <1>a, <1>b, <2>2, <2>3, <2>4 DEF MacsInv
<1>5. CASE DeleteRow \/ Import \/ Approve
  <2>1. PICK kind, m, reqs : Call(kind, m, reqs) /\ kind # "edit"
    <3>1. CASE DeleteRow
      BY <3>1 DEF DeleteRow
    <3>2. CASE Import
      BY <3>2 DEF Import
    <3>3. CASE Approve
      BY <3>3 DEF Approve
    <3>. QED
      BY <1>5, <3>1, <3>2, <3>3
  <2>2. UNCHANGED <<table, list, fetch, modal>>
    BY <2>1 DEF Call
  <2>3. \A c \in calls' : c.kind = "edit" => c \in calls
    <3>1. PICK new : new = [n |-> sent, kind |-> kind, shown |-> m.shown, reqs |-> reqs,
                            begun |-> FALSE,
                            opened |-> IF kind = "edit" THEN Body(m.start) ELSE NULL]
      OBVIOUS
    <3>2. calls' = calls \cup {new} /\ new.kind = kind
      BY <2>1, <3>1 DEF Call
    <3>. QED
      BY <2>1, <3>2
  <2>. QED
    BY <1>b, <1>c, <2>2, <2>3
<1>6. ASSUME NEW c \in calls, Serve(c) PROVE MacsInv'
  <2>. DEFINE r == Head(c.reqs)
            d == [c EXCEPT !.reqs = Tail(c.reqs), !.begun = TRUE]
  <2>1. /\ c.reqs # <<>> /\ Acceptable(r) /\ table' = After(r)
        /\ calls' = (calls \ {c}) \cup {d}
        /\ UNCHANGED <<page, list, fetch, modal>>
    BY <1>6 DEF Serve
  <2>2. CallFits(c) /\ Aimed(c)
    BY DEF FormsInv, IInv
  <2>3. RequestFits(c.kind, r)
    <3>1. c.reqs \in Seq({c.reqs[k] : k \in DOMAIN c.reqs})
      BY <2>2 DEF CallFits, Word
    <3>2. 1 \in DOMAIN c.reqs /\ r = c.reqs[1]
      BY <2>1, <3>1
    <3>. QED
      BY <2>2, <3>2 DEF CallFits
  <2>4. d.kind = "edit" => d.reqs = <<>>
    <3>1. d.kind = c.kind /\ d.reqs = Tail(c.reqs)
      BY <2>2 DEF Aimed, CallFields
    <3>2. ASSUME c.kind = "edit" PROVE Tail(c.reqs) = <<>>
      <4>1. PICK x : c.reqs = <<x>>
        BY <2>1, <2>2, <3>2 DEF Aimed
      <4>. QED
        BY <4>1
    <3>. QED
      BY <3>1, <3>2
  <2>. HIDE DEF r, d
  <2>5. \A i, m : Names(i, m) => Names(i, m)'
    <3>1. ASSUME NEW i, NEW m, Names(i, m)
          PROVE  i \in DOMAIN After(r) /\ (After(r)[i] = NULL \/ After(r)[i].mac = m)
      BY <2>1, <2>3, <3>1, AfterNames
    <3>. QED
      BY <2>1, <3>1 DEF Names
  <2>. QED
    BY <1>c, <2>1, <2>4, <2>5
<1>7. ASSUME NEW c \in calls, Refuse(c) PROVE MacsInv'
  <2>1. UNCHANGED <<table, list, fetch, modal>> /\ calls' = calls \ {c}
    BY <1>7 DEF Refuse
  <2>. QED
    BY <1>b, <1>c, <2>1
<1>8. ASSUME NEW c \in calls, Succeed(c) PROVE MacsInv'
  <2>1. /\ UNCHANGED <<table, list>> /\ calls' = calls \ {c}
        /\ fetch'.rows = <<>> /\ modal' = AfterSuccess(c.kind)
    BY <1>8 DEF Succeed, Refetched, Asked
  <2>2. modal'.mode = "edit" => modal' = modal
    BY <2>1 DEF AfterSuccess, OwnForms, Closed
  <2>. QED
    BY <1>a, <1>b, <2>1, <2>2 DEF MacsInv
<1>9. CASE Focus
  <2>1. UNCHANGED <<table, list, modal, calls>> /\ fetch'.rows = <<>>
    BY <1>9 DEF Focus, Asked
  <2>. QED
    BY <1>a, <1>b, <2>1 DEF MacsInv
<1>10. CASE Read
  <2>1. UNCHANGED <<table, list, modal, calls>> /\ fetch'.rows = table
    BY <1>10 DEF Read, Listed
  <2>2. \A i \in DOMAIN table : Names(i, table[i].mac)
    BY DEF Names
  <2>. QED
    BY <1>a, <1>b, <2>1, <2>2 DEF MacsInv
<1>11. CASE Arrive
  <2>1. UNCHANGED <<table, modal, calls>> /\ list' = fetch.rows /\ fetch'.rows = <<>>
    BY <1>11 DEF Arrive, Idle
  <2>. QED
    BY <1>a, <1>b, <2>1 DEF MacsInv
<1>12. CASE Foreign
  <2>1. PICK k \in Live, x \in Seeds[page] \cup {NULL} :
            table' = [table EXCEPT ![k] = x] /\ (x # NULL => x.mac = table[k].mac)
    BY <1>12 DEF Foreign
  <2>2. UNCHANGED <<list, fetch, modal, calls>>
    BY <1>12 DEF Foreign
  <2>3. \A i, m : Names(i, m) => Names(i, m)'
    <3>1. k \in DOMAIN table /\ table[k] # NULL
      BY DEF Live
    <3>. QED
      BY <2>1, <3>1 DEF Names
  <2>. QED
    BY <1>c, <2>2, <2>3
<1>13. CASE RemoveCategory
  BY <1>13 DEF RemoveCategory
<1>14. CASE UNCHANGED vars
  BY <1>b, <1>c, <1>14 DEF vars
<1>. QED
  BY <1>1, <1>2, <1>3, <1>4, <1>5, <1>6, <1>7, <1>8, <1>9, <1>10, <1>11, <1>12, <1>13, <1>14
     DEF Next

-----------------------------------------------------------------------------
(* A call that has fewer requests left than before was served. *)
LEMMA ServedCall ==
    ASSUME IInv, FormsInv, [Next]_vars, NEW c \in calls, Served(c)
    PROVE  Serve(c)
<1>1. PICK d \in calls' : d.n = c.n /\ Len(d.reqs) < Len(c.reqs)
  BY DEF Served
<1>2. \A e \in calls : e.n = d.n => e = c
  BY <1>1 DEF FormsInv
<1>3. d \notin calls
  <2>1. Len(c.reqs) \in Nat
    BY DEF FormsInv, CallFits, Word
  <2>2. d # c
    BY <1>1, <2>1
  <2>. QED
    BY <1>2, <2>2
<1>4. CASE calls' \subseteq calls
  BY <1>3, <1>4
<1>5. CASE \E kind, m, reqs : Call(kind, m, reqs)
  <2>1. PICK new : calls' = calls \cup {new} /\ new.n = sent
    <3>1. PICK kind, m, reqs : Call(kind, m, reqs)
      BY <1>5
    <3>2. PICK new : new = [n |-> sent, kind |-> kind, shown |-> m.shown, reqs |-> reqs,
                            begun |-> FALSE,
                            opened |-> IF kind = "edit" THEN Body(m.start) ELSE NULL]
      OBVIOUS
    <3>3. calls' = calls \cup {new}
      BY <3>1, <3>2 DEF Call
    <3>4. new.n = sent
      BY <3>2
    <3>. QED
      BY <3>3, <3>4, Zenon
  <2>2. c.n \in Nat /\ sent \in Nat /\ c.n < sent
    BY DEF FormsInv, CallFits
  <2>. QED
    BY <1>1, <1>3, <2>1, <2>2
<1>6. ASSUME NEW e \in calls, Serve(e) PROVE Serve(c)
  <2>1. d = [e EXCEPT !.reqs = Tail(e.reqs), !.begun = TRUE]
    BY <1>3, <1>6 DEF Serve
  <2>2. d.n = e.n
    BY <2>1 DEF IInv, Aimed, CallFields
  <2>. QED
    BY <1>2, <1>6, <2>2
<1>. QED
  BY <1>4, <1>5, <1>6
  DEF Next, vars, OpenCreate, OpenEdit, Input, Cancel, Submit, DeleteRow, Import, Approve,
      Refuse, Succeed, Focus, Read, Arrive, Foreign, RemoveCategory

LEMMA StepKeepsRest ==
    ASSUME FormConstants, IInv, FormsInv, [Next]_vars
    PROVE  RestKept
<1>. SUFFICES ASSUME NEW c \in calls, c.kind = "edit", Served(c) PROVE KeepsRest(c)
  BY DEF RestKept
<1>. DEFINE r == Head(c.reqs)
            old == table[r.id]
            now == Body(FormOf(old, AdminBlank))
<1>a. page \in PageNames
  BY DEF FormsInv, FormConstants
<1>1. c.reqs # <<>> /\ Acceptable(r) /\ table' = After(r)
  BY ServedCall DEF Serve
<1>2. CallFits(c) /\ RequestFits("edit", r)
  <2>1. CallFits(c) /\ Aimed(c)
    BY DEF FormsInv, IInv
  <2>2. 1 \in DOMAIN c.reqs /\ r = c.reqs[1]
    BY <1>1, <2>1 DEF Aimed
  <2>. QED
    BY <2>1, <2>2 DEF CallFits
<1>3. r.op = "PUT" /\ BodyFits(r.body)
  BY <1>2 DEF RequestFits
<1>. HIDE DEF r
<1>4. RowFits(page, old) /\ table'[r.id] = Put(old, r.body)
  BY <1>1, <1>2, <1>3, AfterFits
<1>. DEFINE b == r.body
<1>5. SUFFICES ASSUME NEW col \in DOMAIN old,
                      col \notin Uncarried(old), col \notin Uncarried(Put(old, b)),
                      ~(/\ col \in DOMAIN b
                        /\ \/ col \notin DOMAIN c.opened
                           \/ b[col] # c.opened[col]
                           \/ c.opened[col] # now[col])
               PROVE  Same(old[col], Put(old, b)[col])
  BY <1>4 DEF KeepsRest, r
<1>6. BodyFits(b)
  BY <1>3
<1>. HIDE DEF b, now, old
<1>7. CASE page = "admins" /\ col # "active"
  <2>1. DOMAIN c.opened = {"active"}
    BY <1>2, <1>7 DEF CallFits
  <2>2. col \notin DOMAIN b
    BY <1>5, <1>7, <2>1
  <2>3. Put(old, b)[col] = old[col]
    BY <1>7, <1>a, <2>2, PayloadColumns, PayloadHas DEF Put, Merge
  <2>. QED
    BY <2>3 DEF Same
<1>8. CASE ~(page = "admins" /\ col # "active")
  <2>1. col \in DOMAIN b => b[col] = Body(FormOf(old, AdminBlank))[col]
    BY <1>5 DEF now
  <2>2. page = "admins" => col = "active"
    BY <1>8
  <2>. QED
    BY <1>a, <1>4, <1>5, <1>6, <2>1, <2>2, EditKeepsColumn
<1>. QED
  BY <1>7, <1>8

LEMMA StepShowsAgain ==
    ASSUME FormConstants, IInv, FormsInv, MacsInv, [Next]_vars
    PROVE  ShownAgain
<1>. SUFFICES ASSUME NEW c \in calls, Served(c), Head(c.reqs).op \in {"POST", "PUT"}, ~Cleared(c)
              PROVE  \E i \in DOMAIN table' : ShownIn(c, i)
  BY DEF ShownAgain
<1>. DEFINE r == Head(c.reqs)
            b == r.body
<1>a. page \in PageNames
  BY DEF FormsInv, FormConstants
<1>b. \A row : RowFits(page, row) => row # NULL
  <2>. SUFFICES ASSUME NEW row, RowFits(page, row) PROVE row # NULL
    OBVIOUS
  <2>1. row = [k \in DOMAIN row |-> row[k]]
    BY DEF RowFits
  <2>. QED
    BY <2>1 DEF FormConstants, NullIsNoRow
<1>1. c.reqs # <<>> /\ Acceptable(r) /\ table' = After(r)
  BY ServedCall DEF Serve
<1>2. RequestFits(c.kind, r) /\ (c.kind = "edit" => r.id = c.shown)
  <2>1. CallFits(c) /\ Aimed(c)
    BY DEF FormsInv, IInv
  <2>2. 1 \in DOMAIN c.reqs /\ r = c.reqs[1]
    <3>1. c.reqs \in Seq({c.reqs[k] : k \in DOMAIN c.reqs})
      BY <2>1 DEF CallFits, Word
    <3>. QED
      BY <1>1, <3>1
  <2>3. ASSUME c.kind = "edit" PROVE r.id = c.shown
    <3>1. PICK x : c.reqs = <<x>> /\ x.id = c.shown
      BY <1>1, <2>1, <2>3 DEF Aimed
    <3>. QED
      BY <3>1
  <2>. QED
    BY <2>1, <2>2, <2>3 DEF CallFits
<1>3. r.op \in {"POST", "PUT"} /\ (r.op = "PUT" <=> c.kind = "edit")
  BY <1>2 DEF RequestFits
<1>c. page = "assignments" => Targeted(b)
  BY <1>2 DEF RequestFits
<1>4. \E i \in DOMAIN table' :
          /\ c.kind = "edit" => i = c.shown
          /\ RowFits(page, table'[i])
          /\ HasSent(table'[i], b)
          /\ page = "assignments" => Targeted(table'[i])
  <2>1. CASE r.op = "PUT"
    <3>. DEFINE old == table[r.id]
    <3>1. /\ r.id \in DOMAIN table' /\ RowFits(page, old) /\ table'[r.id] = Put(old, b)
          /\ BodyFits(b)
      BY <1>1, <1>2, <2>1, AfterFits DEF RequestFits
    <3>2. page = "devices" => Received("PUT", b).name # NULL /\ Received("PUT", b).cat # NULL
      BY <1>3, <2>1 DEF Cleared
    <3>3. page = "devices" => old.mac = b.mac
      <4>. SUFFICES ASSUME page = "devices" PROVE old.mac = b.mac
        OBVIOUS
      <4>1. Names(r.id, b.mac)
        BY <1>1, <1>3, <2>1 DEF MacsInv
      <4>. QED
        BY <1>b, <3>1, <4>1 DEF Names
    <3>4. ~Malformed("PUT", b)
      BY <1>1, <2>1 DEF Acceptable
    <3>. HIDE DEF old, b
    <3>5. RowFits(page, Put(old, b))
      BY <1>a, <3>1, RowPut
    <3>6. HasSent(Put(old, b), b) /\ (page = "assignments" => Targeted(Put(old, b)))
      BY <1>a, <1>c, <3>1, <3>2, <3>3, <3>4, PutHas
    <3>. QED
      BY <1>2, <1>3, <2>1, <3>1, <3>5, <3>6
  <2>2. CASE r.op = "POST"
    <3>1. PICK i \in DOMAIN table' : table'[i] = Posted(b)
      BY <1>1, <1>2, <2>2, AfterFits
    <3>2. PostFits(b) /\ ~Malformed("POST", b)
      BY <1>1, <1>2, <2>2 DEF RequestFits, Acceptable
    <3>. HIDE DEF b
    <3>3. RowFits(page, Posted(b)) /\ HasSent(Posted(b), b)
          /\ (page = "assignments" => Targeted(Posted(b)))
      BY <1>a, <1>c, <3>2, RowPosted, PostHas
    <3>. QED
      BY <1>3, <2>2, <3>1, <3>3
  <2>. QED
    BY <1>3, <2>1, <2>2
<1>5. page # "admins" => BodyFits(b)
  BY <1>2, <1>3 DEF RequestFits, PostFits
<1>6. page = "admins" => "active" \in DOMAIN b
  BY <1>2, <1>3 DEF RequestFits, PostFits, BodyFits, Columns
<1>. HIDE DEF b
<1>7. PICK i \in DOMAIN table' :
          /\ c.kind = "edit" => i = c.shown
          /\ RowFits(page, table'[i])
          /\ HasSent(table'[i], b)
          /\ page = "assignments" => Targeted(table'[i])
  BY <1>4
<1>. DEFINE new == table'[i]
<1>8. ASSUME NEW col \in DOMAIN Body(FormOf(new, AdminBlank)) \ Uncarried(new)
      PROVE  SameText(col, Body(FormOf(new, AdminBlank))[col], b[col])
  <2>1. RowFits(page, new) /\ HasSent(new, b) /\ (page = "assignments" => Targeted(new))
    BY <1>7
  <2>. HIDE DEF new
  <2>. QED
    BY <1>a, <1>5, <1>6, <1>8, <2>1, FormShowsRow
<1>9. new # NULL
  BY <1>b, <1>7
<1>. QED
  BY <1>7, <1>8, <1>9 DEF ShownIn, b

(* AN EDIT KEEPS THE REST.  On every page, for any rows, texts and number of
   requests under way: a PUT the backend carries out, however late, makes a
   column different only if its input was changed, or the row is not what it
   was when the form was filled. *)
THEOREM EditsKeepTheRest ==
    ASSUME FormConstants
    PROVE  Spec => EditKeepsRest
<1>1. Init => IInv /\ FormsInv
  BY InitAimed, InitFits
<1>2. IInv /\ FormsInv /\ [Next]_vars => (IInv /\ FormsInv)'
  BY StepAimed, StepFits
<1>3. IInv /\ FormsInv /\ [Next]_vars => [RestKept]_vars
  BY StepKeepsRest
<1>. QED
  BY <1>1, <1>2, <1>3, PTL DEF Spec, EditKeepsRest

(* A SAVE IS SHOWN.  Whatever create or edit is carried out, the form opened
   again on its row would send what it sent, and an edit is found in the row
   it was made for. *)
THEOREM SavesAreShown ==
    ASSUME FormConstants
    PROVE  Spec => SavedAsShown
<1>1. Init => IInv /\ FormsInv /\ MacsInv
  BY InitAimed, InitFits, InitMacs
<1>2. IInv /\ FormsInv /\ MacsInv /\ [Next]_vars => (IInv /\ FormsInv /\ MacsInv)'
  BY StepAimed, StepFits, StepMacs
<1>3. IInv /\ FormsInv /\ MacsInv /\ [Next]_vars => [ShownAgain]_vars
  BY StepShowsAgain
<1>. QED
  BY <1>1, <1>2, <1>3, PTL DEF Spec, SavedAsShown

-----------------------------------------------------------------------------
(* Types, and the numbers every count of the three kinds of page stays within:
   each table begins with a row. *)
PanelBounds ==
    /\ MaxId \in Nat \ {0} /\ MaxCalls \in Nat /\ MaxRows \in Nat \ {0} /\ MaxRequests \in Nat
    /\ MaxSaves \in Nat

(* The page: rows keep their numbers, a call is taken off when it is answered. *)
PageTyped ==
    /\ Len(table) \in 1 .. MaxId
    /\ Word(list) /\ Len(list) \in 1 .. MaxId
    /\ fetch.state = "read" => Word(fetch.rows) /\ Len(fetch.rows) \in 1 .. MaxId
    /\ fetch.state \in {"idle", "asked", "read"}
    /\ modal.mode \in {"closed", "create", "edit"} /\ modal.id \in 0 .. MaxId
    /\ sent \in 0 .. MaxCalls
    /\ IsFiniteSet(calls) /\ Cardinality(calls) <= sent
    /\ \A c \in calls : c.begun \/ c.reqs # <<>>
    /\ untold \in BOOLEAN

(* A sequence of rows and what GET lists of it have the same length. *)
LEMMA ListedWord ==
    ASSUME NEW s, Word(s)
    PROVE  Word(Listed(s)) /\ Len(Listed(s)) = Len(s)
<1>1. DOMAIN s = 1 .. Len(s) /\ Len(s) \in Nat
  BY DEF Word
<1>. DEFINE q == Listed(s)
            S == {q[i] : i \in 1 .. Len(s)}
<1>2. q = s \/ q = [i \in 1 .. Len(s) |-> q[i]]
  BY <1>1 DEF Listed
<1>3. \A i \in 1 .. Len(s) : q[i] \in S
  OBVIOUS
<1>. HIDE DEF q, S
<1>4. CASE q = [i \in 1 .. Len(s) |-> q[i]]
  <2>1. q \in Seq(S)
    BY <1>1, <1>3, <1>4, SequenceMade
  <2>2. Word(q)
    BY <2>1, WordMade
  <2>3. DOMAIN q = 1 .. Len(s) /\ DOMAIN q = 1 .. Len(q) /\ Len(q) \in Nat
    BY <1>4, <2>1
  <2>4. Len(q) = Len(s)
    BY <1>1, <2>3
  <2>. QED
    BY <2>2, <2>4 DEF q
<1>. QED
  BY <1>2, <1>4 DEF q

(* No request takes a row's number away. *)
LEMMA AfterGrows ==
    ASSUME FormConstants, FormsInv, NEW kind, NEW r, RequestFits(kind, r), Acceptable(r)
    PROVE  DOMAIN table \subseteq DOMAIN After(r)
<1>1. ASSUME NEW x PROVE DOMAIN table \subseteq DOMAIN Append(table, x)
  <2>1. table \in Seq({table[k] : k \in DOMAIN table})
    BY DEF FormsInv, Word
  <2>2. /\ DOMAIN Append(table, x) = 1 .. Len(table) + 1 /\ DOMAIN table = 1 .. Len(table)
        /\ Len(table) \in Nat
    BY <2>1
  <2>. QED
    BY <2>2
<1>2. ASSUME NEW i, NEW x PROVE DOMAIN [table EXCEPT ![i] = x] = DOMAIN table
  OBVIOUS
<1>3. CASE r.op = "POST"
  BY <1>1, <1>2, <1>3 DEF After
<1>4. CASE r.op \in {"PUT", "DELETE"}
  BY <1>2, <1>4 DEF After
<1>5. CASE r.op = "BULK" /\ page = "devices"
  BY <1>1, <1>2, <1>5 DEF After, Upserted
<1>6. CASE r.op = "BULK" /\ page # "devices"
  <2>1. After(r) = table \o SetToSeq(r.body)
    BY <1>6 DEF After, Added
  <2>2. IsFiniteSet(r.body)
    BY <1>6 DEF RequestFits
  <2>3. Cardinality(r.body) \in Nat /\ SetToSeq(r.body) \in [1 .. Cardinality(r.body) -> r.body]
    <3>. DEFINE n == Cardinality(r.body)
    <3>1. n \in Nat /\ ExistsBijection(1 .. n, r.body)
      BY <2>2, FS_CardinalityType
    <3>2. \E f \in [1 .. n -> r.body] : IsInjective(f)
      BY <3>1 DEF ExistsBijection, Bijection, Injection, IsInjective
    <3>. QED
      BY <3>1, <3>2 DEF SetToSeq
  <2>4. table \in Seq({table[k] : k \in DOMAIN table})
    BY DEF FormsInv, Word
  <2>. DEFINE q == SetToSeq(r.body)
  <2>. HIDE DEF q
  <2>5. q \in Seq(r.body)
    BY <2>3 DEF q
  <2>6. /\ DOMAIN (table \o q) = 1 .. (Len(table) + Len(q)) /\ DOMAIN table = 1 .. Len(table)
        /\ Len(table) \in Nat /\ Len(q) \in Nat
    BY <2>4, <2>5
  <2>7. DOMAIN table \subseteq DOMAIN (table \o q)
    BY <2>6
  <2>. QED
    BY <2>1, <2>7 DEF q
<1>7. CASE r.op = "JIT"
  BY <1>1, <1>2, <1>7 DEF After, Approved
<1>. QED
  BY <1>3, <1>4, <1>5, <1>6, <1>7 DEF RequestFits

(* A submit sends something. *)
LEMMA SomeRequest ==
    ASSUME FormConstants, FormsInv
    PROVE  Requests # <<>>
<1>1. CASE modal.mode # "edit" /\ page = "users"
  <2>. DEFINE w == WizardPosts(modal.form)
  <2>1. Requests = [k \in DOMAIN w |-> [op |-> "POST", id |-> 0, body |-> w[k]]]
    BY <1>1 DEF Requests
  <2>. DEFINE q == [i \in DOMAIN modal.form.replies |->
                      [table |-> "radreply", username |-> modal.form.username,
                       attribute |-> "Reply", value |-> <<"text", modal.form.replies[i]>>]]
              b == UserBody(modal.form)
  <2>2. w = <<b>> \o q
    BY DEF WizardPosts
  <2>3. modal.form.replies \in Seq(Texts)
    BY <1>1 DEF FormsInv, FormFits
  <2>4. DOMAIN q = 1 .. Len(modal.form.replies) /\ Len(modal.form.replies) \in Nat
    BY <2>3
  <2>. HIDE DEF q, b
  <2>5. Len(q) = Len(modal.form.replies)
    BY <2>4
  <2>6. 1 \in DOMAIN w
    BY <2>2, <2>4, <2>5
  <2>. HIDE DEF w
  <2>. QED
    BY <2>1, <2>6
<1>2. CASE ~(modal.mode # "edit" /\ page = "users")
  BY <1>2 DEF Requests
<1>. QED
  BY <1>1, <1>2

(* One more call, or none more. *)
LEMMA CountedCalls ==
    ASSUME PageTyped, NEW new
    PROVE  /\ IsFiniteSet(calls \cup {new}) /\ Cardinality(calls \cup {new}) <= sent + 1
           /\ \A c \in calls :
                  /\ IsFiniteSet(calls \ {c}) /\ Cardinality(calls \ {c}) <= sent - 1
                  /\ IsFiniteSet((calls \ {c}) \cup {new})
                  /\ Cardinality((calls \ {c}) \cup {new}) <= sent
<1>1. IsFiniteSet(calls) /\ Cardinality(calls) \in Nat /\ sent \in Nat /\ Cardinality(calls) <= sent
  BY FS_CardinalityType DEF PageTyped
<1>2. IsFiniteSet(calls \cup {new}) /\ Cardinality(calls \cup {new}) <= sent + 1
  <2>. DEFINE D == calls \cup {new}
  <2>1. IsFiniteSet(D) /\ Cardinality(D) \in {Cardinality(calls), Cardinality(calls) + 1}
    BY <1>1, FS_AddElement
  <2>. HIDE DEF D
  <2>. QED
    BY <1>1, <2>1 DEF D
<1>3. ASSUME NEW c \in calls
      PROVE  /\ IsFiniteSet(calls \ {c}) /\ Cardinality(calls \ {c}) <= sent - 1
             /\ IsFiniteSet((calls \ {c}) \cup {new})
             /\ Cardinality((calls \ {c}) \cup {new}) <= sent
  <2>. DEFINE D == calls \ {c}
  <2>1. IsFiniteSet(D) /\ Cardinality(D) = Cardinality(calls) - 1
    BY <1>1, FS_RemoveElement
  <2>. HIDE DEF D
  <2>2. /\ IsFiniteSet(D \cup {new})
        /\ Cardinality(D \cup {new}) \in {Cardinality(D), Cardinality(D) + 1}
    BY <2>1, FS_AddElement
  <2>. QED
    BY <1>1, <2>1, <2>2 DEF D
<1>. QED
  BY <1>2, <1>3

LEMMA InitTyped ==
    ASSUME PanelBounds, FormConstants, Init
    PROVE  PageTyped
<1>1. PICK r : table = <<r>>
  BY DEF Init
<1>2. Word(table) /\ Len(table) = 1
  BY <1>1 DEF Word
<1>3. Word(list) /\ Len(list) = 1
  BY <1>2, ListedWord DEF Init
<1>4. IsFiniteSet(calls) /\ Cardinality(calls) = 0
  BY FS_EmptySet DEF Init
<1>5. /\ fetch.state = "idle" /\ modal.mode = "closed" /\ modal.id = 0
      /\ calls = {} /\ sent = 0 /\ untold = FALSE
  BY DEF Init, Idle, Closed
<1>6. 1 \in 1 .. MaxId /\ 0 \in 0 .. MaxId /\ 0 \in 0 .. MaxCalls
  BY DEF PanelBounds
<1>. QED
  <2>1. Len(table) \in 1 .. MaxId /\ Word(list) /\ Len(list) \in 1 .. MaxId
    BY <1>2, <1>3, <1>6
  <2>2. IsFiniteSet(calls) /\ Cardinality(calls) <= sent
    BY <1>4, <1>5
  <2>3. \A c \in calls : c.begun \/ c.reqs # <<>>
    BY <1>5
  <2>4. fetch.state # "read" /\ fetch.state \in {"idle", "asked", "read"}
    BY <1>5
  <2>5. /\ modal.mode \in {"closed", "create", "edit"} /\ modal.id \in 0 .. MaxId
        /\ sent \in 0 .. MaxCalls /\ untold \in BOOLEAN
    BY <1>5, <1>6
  <2>. QED
    BY <2>1, <2>2, <2>3, <2>4, <2>5 DEF PageTyped

(* A row of the list has a number within the bound. *)
LEMMA StepTyped ==
    ASSUME PanelBounds, FormConstants, IInv, FormsInv, PageTyped, [Next]_vars
    PROVE  PageTyped'
<1>a. MaxId \in Nat /\ MaxCalls \in Nat /\ sent \in Nat
  BY DEF PanelBounds, PageTyped
<1>1. CASE OpenCreate \/ OpenEdit \/ Input \/ Cancel \/ UNCHANGED vars
  <2>1. UNCHANGED <<table, list, fetch, calls, sent, untold>>
    BY <1>1 DEF OpenCreate, OpenEdit, Input, Cancel, vars
  <2>2. modal'.mode \in {"closed", "create", "edit"} /\ modal'.id \in 0 .. MaxId
    <3>1. CASE OpenEdit
      <4>1. PICK i \in DOMAIN list : modal'.id = i /\ modal'.mode = "edit"
        BY <3>1 DEF OpenEdit
      <4>2. DOMAIN list = 1 .. Len(list) /\ Len(list) \in 1 .. MaxId
        BY DEF PageTyped, Word
      <4>. QED
        BY <1>a, <4>1, <4>2
    <3>2. CASE OpenCreate
      BY <1>a, <3>2 DEF OpenCreate
    <3>3. CASE Input
      BY <3>3 DEF Input, PageTyped, IInv, FormNamesOne, ModalFields
    <3>4. CASE Cancel
      BY <1>a, <3>4 DEF Cancel, Emptied, Closed
    <3>5. CASE UNCHANGED vars
      BY <3>5 DEF vars, PageTyped
    <3>. QED
      BY <1>1, <3>1, <3>2, <3>3, <3>4, <3>5
  <2>. QED
    BY <2>1, <2>2 DEF PageTyped
<1>2. CASE Submit \/ DeleteRow \/ Import \/ Approve
  <2>1. PICK kind, m, reqs : Call(kind, m, reqs) /\ reqs # <<>>
    <3>1. CASE Submit
      BY <3>1, SomeRequest DEF Submit
    <3>5. \A x : <<x>> # <<>>
      OBVIOUS
    <3>2. CASE DeleteRow
      BY <3>2, <3>5, Zenon DEF DeleteRow
    <3>3. CASE Import
      BY <3>3, <3>5, Zenon DEF Import
    <3>4. CASE Approve
      BY <3>4, <3>5, Zenon DEF Approve
    <3>. QED
      BY <1>2, <3>1, <3>2, <3>3, <3>4
  <2>2. PICK new : new = [n |-> sent, kind |-> kind, shown |-> m.shown, reqs |-> reqs,
                          begun |-> FALSE,
                          opened |-> IF kind = "edit" THEN Body(m.start) ELSE NULL]
    OBVIOUS
  <2>3. /\ calls' = calls \cup {new} /\ sent' = sent + 1 /\ sent < MaxCalls
        /\ UNCHANGED <<table, list, fetch, modal, untold>>
    BY <2>1, <2>2 DEF Call
  <2>4. new.reqs # <<>>
    BY <2>1, <2>2
  <2>5. IsFiniteSet(calls') /\ Cardinality(calls') <= sent'
    BY <2>3, CountedCalls
  <2>6. sent' \in 0 .. MaxCalls
    BY <1>a, <2>3
  <2>7. \A c \in calls' : c.begun \/ c.reqs # <<>>
    BY <2>3, <2>4 DEF PageTyped
  <2>. QED
    BY <2>3, <2>5, <2>6, <2>7 DEF PageTyped
<1>3. ASSUME NEW c \in calls, Serve(c) PROVE PageTyped'
  <2>. DEFINE r == Head(c.reqs)
              d == [c EXCEPT !.reqs = Tail(c.reqs), !.begun = TRUE]
  <2>1. /\ c.reqs # <<>> /\ Acceptable(r) /\ table' = After(r) /\ Len(After(r)) <= MaxId
        /\ calls' = (calls \ {c}) \cup {d}
        /\ UNCHANGED <<page, list, fetch, modal, sent, untold>>
    BY <1>3 DEF Serve
  <2>2. CallFits(c) /\ Aimed(c)
    BY DEF FormsInv, IInv
  <2>3. c.reqs \in Seq({c.reqs[k] : k \in DOMAIN c.reqs})
    BY <2>2 DEF CallFits, Word
  <2>4. r = c.reqs[1] /\ 1 \in DOMAIN c.reqs
    BY <2>1, <2>3
  <2>5. RequestFits(c.kind, r)
    BY <2>2, <2>4 DEF CallFits
  <2>6. d.begun
    BY <2>2 DEF Aimed, CallFields
  <2>. HIDE DEF r, d
  <2>7. Word(table') /\ DOMAIN table \subseteq DOMAIN table'
    BY <2>1, <2>5, AfterFits, AfterGrows
  <2>8. /\ DOMAIN table = 1 .. Len(table) /\ Len(table) \in 1 .. MaxId
        /\ DOMAIN table' = 1 .. Len(table') /\ Len(table') \in Nat
    BY <2>7 DEF FormsInv, PageTyped, Word
  <2>9. Len(table') \in 1 .. MaxId
    BY <1>a, <2>1, <2>7, <2>8
  <2>10. IsFiniteSet(calls') /\ Cardinality(calls') <= sent
    BY <2>1, CountedCalls
  <2>11. \A e \in calls' : e.begun \/ e.reqs # <<>>
    BY <2>1, <2>6 DEF PageTyped
  <2>. QED
    BY <2>1, <2>9, <2>10, <2>11 DEF PageTyped
<1>4. ASSUME NEW c \in calls, Refuse(c) \/ Succeed(c) PROVE PageTyped'
  <2>1. calls' = calls \ {c} /\ UNCHANGED <<table, list, sent>>
    BY <1>4 DEF Refuse, Succeed
  <2>2. IsFiniteSet(calls') /\ Cardinality(calls') <= sent
    <3>1. Cardinality(calls') <= sent - 1 /\ IsFiniteSet(calls')
      BY <2>1, CountedCalls
    <3>2. Cardinality(calls') \in Nat
      BY <3>1, FS_CardinalityType
    <3>. QED
      BY <1>a, <3>1, <3>2
  <2>3. fetch' = fetch \/ fetch'.state = "asked"
    BY <1>4 DEF Refuse, Succeed, Refetched, Asked
  <2>4. modal'.mode \in {"closed", modal.mode} /\ modal'.id \in {0, modal.id}
    <3>1. \/ modal' = modal
          \/ \E f : modal' = Closed(f)
          \/ \E f : modal' = [modal EXCEPT !.form = f]
      BY <1>4 DEF Refuse, Succeed, AfterSuccess
    <3>. QED
      BY <3>1 DEF Closed, IInv, FormNamesOne, ModalFields
  <2>5. modal'.mode \in {"closed", "create", "edit"} /\ modal'.id \in 0 .. MaxId
    BY <1>a, <2>4 DEF PageTyped
  <2>6. untold' \in BOOLEAN
    BY <1>4 DEF Refuse, Succeed, PageTyped
  <2>7. \A e \in calls' : e.begun \/ e.reqs # <<>>
    BY <2>1 DEF PageTyped
  <2>. QED
    BY <2>1, <2>2, <2>3, <2>5, <2>6, <2>7 DEF PageTyped
<1>5. CASE Focus \/ Read \/ Arrive
  <2>1. UNCHANGED <<table, modal, calls, sent>> /\ untold' \in BOOLEAN
    BY <1>5 DEF Focus, Read, Arrive, PageTyped
  <2>2. /\ fetch'.state \in {"idle", "asked", "read"}
        /\ fetch'.state = "read" => fetch'.rows = Listed(table) /\ list' = list
        /\ list' = list \/ (fetch.state = "read" /\ list' = fetch.rows)
    BY <1>5 DEF Focus, Read, Arrive, Asked, Idle
  <2>3. Word(Listed(table)) /\ Len(Listed(table)) = Len(table)
    BY ListedWord DEF FormsInv
  <2>. QED
    BY <2>1, <2>2, <2>3 DEF PageTyped
<1>6. CASE Foreign \/ RemoveCategory
  <2>1. UNCHANGED <<list, fetch, modal, calls>> /\ sent' = sent + 1 /\ sent < MaxCalls
        /\ untold' = TRUE
    BY <1>6 DEF Foreign, RemoveCategory
  <2>2. DOMAIN table' = DOMAIN table /\ DOMAIN table = 1 .. Len(table) /\ Len(table) \in 1 .. MaxId
    BY <1>6 DEF Foreign, RemoveCategory, FormsInv, PageTyped, Word
  <2>3. Word(table')
    BY <1>6, OtherFits DEF FormsInv
  <2>4. DOMAIN table' = 1 .. Len(table') /\ Len(table') \in Nat
    BY <2>3 DEF Word
  <2>5. Len(table') \in 1 .. MaxId
    BY <1>a, <2>2, <2>4
  <2>6. sent' \in 0 .. MaxCalls /\ Cardinality(calls) <= sent'
    BY <1>a, <2>1, FS_CardinalityType DEF PageTyped
  <2>. QED
    BY <2>1, <2>5, <2>6 DEF PageTyped
<1>. QED
  BY <1>1, <1>2, <1>3, <1>4, <1>5, <1>6 DEF Next

(* The types and bounds of the page. *)
THEOREM PageTypeCorrect ==
    ASSUME PanelBounds, FormConstants
    PROVE  Spec => []TypeOK
<1>1. Init => IInv /\ FormsInv /\ PageTyped
  BY InitAimed, InitFits, InitTyped
<1>2. IInv /\ FormsInv /\ PageTyped /\ [Next]_vars => (IInv /\ FormsInv /\ PageTyped)'
  BY StepAimed, StepFits, StepTyped
<1>3. IInv /\ FormsInv /\ PageTyped => TypeOK
  BY DEF FormsInv, CallFits, PageTyped, TypeOK
<1>. QED
  BY <1>1, <1>2, <1>3, PTL DEF Spec

-----------------------------------------------------------------------------
(* The editor: saves of an editor that was left are told from those of this one. *)
EditorCounted ==
    /\ view = "list" => ~dirty /\ \A s \in saves : ~s.here
    /\ written \in 0 .. MaxSaves
    /\ IsFiniteSet(saves) /\ Cardinality(saves) <= written

LEMMA EditorInitCounted ==
    ASSUME PanelBounds, Editor!Init
    PROVE  EditorCounted
<1>1. view = "list" /\ dirty = FALSE /\ saves = {} /\ written = 0
  BY DEF Editor!Init
<1>2. IsFiniteSet(saves) /\ Cardinality(saves) <= written
  BY <1>1, FS_EmptySet
<1>3. written \in 0 .. MaxSaves
  BY <1>1 DEF PanelBounds
<1>. QED
  BY <1>1, <1>2, <1>3 DEF EditorCounted

LEMMA EditorStepCounted ==
    ASSUME PanelBounds, EditorInv, EditorCounted, [Editor!Next]_Editor!vars
    PROVE  EditorCounted'
<1>a. /\ IsFiniteSet(saves) /\ Cardinality(saves) \in Nat /\ Cardinality(saves) <= written
      /\ written \in Nat /\ MaxSaves \in Nat /\ written <= MaxSaves
  BY FS_CardinalityType DEF EditorCounted, PanelBounds
<1>b. \A s \in saves : s = [c \in {"n", "text", "here", "done"} |-> s[c]]
  BY DEF EditorInv, EditorTyped, Saves
<1>1. CASE Editor!CloseEditor
  <2>. DEFINE left(s) == [s EXCEPT !.here = FALSE]
  <2>1. saves' = {left(s) : s \in saves} /\ dirty' = FALSE /\ written' = written
    BY <1>1 DEF Editor!CloseEditor
  <2>2. IsFiniteSet(saves') /\ Cardinality(saves') <= Cardinality(saves)
    <3>. DEFINE f == [s \in saves |-> left(s)]
    <3>1. f \in Surjection(saves, saves')
      BY <2>1 DEF Surjection
    <3>. HIDE DEF f
    <3>. QED
      BY <1>a, <3>1, FS_Surjection
  <2>3. \A s \in saves' : ~s.here
    BY <1>b, <2>1
  <2>4. Cardinality(saves') \in Nat
    BY <2>2, FS_CardinalityType
  <2>. QED
    BY <1>a, <2>1, <2>2, <2>3, <2>4 DEF EditorCounted
<1>2. CASE Editor!SaveText
  <2>1. PICK new : /\ saves' = saves \cup {new} /\ written' = written + 1 /\ written < MaxSaves
                   /\ view = "editor" /\ UNCHANGED view
    BY <1>2 DEF Editor!SaveText, Editor!Visible
  <2>2. /\ IsFiniteSet(saves')
        /\ Cardinality(saves') \in {Cardinality(saves), Cardinality(saves) + 1}
    BY <1>a, <2>1, FS_AddElement
  <2>. QED
    BY <1>a, <2>1, <2>2 DEF EditorCounted
<1>3. ASSUME NEW s \in saves, Editor!Write(s) PROVE EditorCounted'
  <2>. DEFINE d == [s EXCEPT !.done = TRUE]
              D == saves \ {s}
  <2>1. saves' = D \cup {d} /\ UNCHANGED <<view, dirty, written>>
    BY <1>3 DEF Editor!Write
  <2>2. d.here = s.here
    BY <1>b
  <2>3. IsFiniteSet(D) /\ Cardinality(D) = Cardinality(saves) - 1
    BY <1>a, FS_RemoveElement
  <2>. HIDE DEF d
  <2>4. view = "list" => \A e \in saves' : ~e.here
    BY <2>1, <2>2 DEF EditorCounted
  <2>. HIDE DEF D
  <2>5. /\ IsFiniteSet(saves')
        /\ Cardinality(saves') \in {Cardinality(D), Cardinality(D) + 1}
    BY <2>1, <2>3, FS_AddElement
  <2>. QED
    BY <1>a, <2>1, <2>3, <2>4, <2>5 DEF EditorCounted
<1>4. ASSUME NEW s \in saves, Editor!FailSave(s) \/ Editor!Saved(s) PROVE EditorCounted'
  <2>1. /\ saves' = saves \ {s} /\ UNCHANGED <<view, written>>
        /\ dirty' = dirty \/ dirty' = (dirty /\ ~s.here)
    BY <1>4 DEF Editor!FailSave, Editor!Saved
  <2>3. ~dirty => ~dirty'
    BY <2>1, Zenon
  <2>2. IsFiniteSet(saves') /\ Cardinality(saves') = Cardinality(saves) - 1
    BY <1>a, <2>1, FS_RemoveElement
  <2>. QED
    BY <1>a, <2>1, <2>2, <2>3 DEF EditorCounted
<1>5. CASE Editor!WrittenElsewhere
  <2>1. UNCHANGED <<view, dirty, saves>> /\ written' = written + 1 /\ written < MaxSaves
    BY <1>5 DEF Editor!WrittenElsewhere
  <2>. QED
    BY <1>a, <2>1 DEF EditorCounted
<1>6. CASE \/ Editor!OpenEditor \/ Editor!TypeText \/ Editor!ReadText \/ Editor!ArriveText
           \/ UNCHANGED Editor!vars
  <2>1. UNCHANGED <<saves, written>>
    BY <1>6 DEF Editor!OpenEditor, Editor!TypeText, Editor!ReadText, Editor!ArriveText,
                Editor!vars
  <2>2. \/ view' = "editor"
        \/ /\ view' = view
           /\ dirty' = dirty \/ \E fresh \in BOOLEAN : dirty' = (dirty /\ ~fresh)
    <3>1. CASE Editor!ArriveText
      BY <3>1 DEF Editor!ArriveText
    <3>2. CASE ~Editor!ArriveText
      BY <1>6, <3>2 DEF Editor!OpenEditor, Editor!TypeText, Editor!Visible, Editor!ReadText,
                        Editor!vars
    <3>. QED
      BY <3>1, <3>2
  <2>3. view' = "list" => view = "list" /\ (~dirty => ~dirty')
    <3>1. "editor" # "list"
      OBVIOUS
    <3>. QED
      BY <2>2, <3>1, Zenon
  <2>. QED
    BY <2>1, <2>3 DEF EditorCounted
<1>. QED
  BY <1>1, <1>2, <1>3, <1>4, <1>5, <1>6 DEF Editor!Next

-----------------------------------------------------------------------------
(* The policy page: handlers count rows before they add one. *)
States == {"idle", "asked", "read"}

GroupsCounted ==
    /\ \A t \in Groups!Types : Len(rows[t]) <= MaxRows
    /\ \A k \in GroupNames : query[k].state \in States
    /\ rename.open => rename.new \in GroupNames
    /\ made <= MaxRequests
    /\ IsFiniteSet(requests) /\ Cardinality(requests) <= made
    /\ \A p \in moved : p[1] \in Groups!Types /\ p[2] \in 1 .. MaxRows

LEMMA GroupsInitCounted ==
    ASSUME PanelBounds, Groups!Init
    PROVE  GroupsCounted
<1>1. \A t \in Groups!Types : \E r : rows[t] = <<r>>
  BY DEF Groups!Init
<1>2. ASSUME NEW t \in Groups!Types PROVE Len(rows[t]) <= MaxRows
  <2>1. PICK r : rows[t] = <<r>>
    BY <1>1
  <2>2. Len(<<r>>) = 1
    OBVIOUS
  <2>. QED
    BY <2>1, <2>2 DEF PanelBounds
<1>. QED
  BY <1>2, FS_EmptySet DEF PanelBounds, Groups!Init, Groups!Waiting, Groups!NoRename, States,
                           GroupsCounted

(* Asking is one of the states. *)
LEMMA MountedStates ==
    ASSUME NEW q, q = [k \in GroupNames |-> q[k]], \A k \in GroupNames : q[k].state \in States,
           NEW g
    PROVE  \A k \in GroupNames : Groups!Mounted(q, g)[k].state \in States
BY DEF Groups!Mounted, Groups!DetailKey, Groups!Asked, States

LEMMA InvalidatedStates ==
    ASSUME \A k \in GroupNames : query[k].state \in States
    PROVE  \A k \in GroupNames : Groups!Invalidated[k].state \in States
BY DEF Groups!Invalidated, Groups!DetailKey, Groups!Asked, States

(* A handler adds a row only below the bound, and moves rows that are there. *)
LEMMA ServedCounted ==
    ASSUME PanelBounds, GroupsInv, GroupsCounted, NEW r \in requests, Groups!Serve(r)
    PROVE  /\ \A t \in Groups!Types : Len(rows'[t]) <= MaxRows
           /\ \A p \in moved' : p[1] \in Groups!Types /\ p[2] \in 1 .. MaxRows
<1>1. /\ Formed(r) /\ rows \in [Groups!Types -> Seq(Cells)] /\ MaxRows \in Nat
      /\ rows' = Groups!Effect(r) /\ moved' = moved \cup Groups!Moved(r) /\ Groups!Found(r)
  BY DEF GroupsInv, GroupsTyped, Groups!Serve, PanelBounds
<1>2. \A t \in Groups!Types : /\ Len(rows[t]) \in Nat /\ DOMAIN rows[t] = 1 .. Len(rows[t])
                              /\ Len(rows[t]) <= MaxRows
  BY <1>1 DEF GroupsCounted
<1>3. \A t \in Groups!Types : \A i \in Groups!Ids(t) : i \in 1 .. MaxRows
  BY <1>1, <1>2 DEF Groups!Ids
<1>4. ASSUME NEW p \in Groups!Moved(r) PROVE p[1] \in Groups!Types /\ p[2] \in 1 .. MaxRows
  <2>1. CASE r.kind = "rename"
    <3>1. PICK t \in Groups!Types : \E i \in Groups!Bearing(t, r.old) : p = <<t, i>>
      BY <1>4, <2>1 DEF Groups!Moved
    <3>. QED
      BY <1>3, <3>1 DEF Groups!Bearing
  <2>2. CASE r.kind = "edit" /\ r.type # r.of
    <3>1. p = <<r.type, r.id>> /\ r.type \in Groups!Types /\ r.id \in Groups!Ids(r.type)
      BY <1>1, <1>4, <2>2 DEF Groups!Moved, Groups!Found, Formed
    <3>. QED
      BY <1>3, <3>1
  <2>. QED
    BY <1>4, <2>1, <2>2 DEF Groups!Moved
<1>5. ASSUME NEW t \in Groups!Types PROVE Len(rows'[t]) <= MaxRows
  <2>0. rows[t] \in Seq(Cells) /\ Len(rows[t]) \in Nat /\ Len(rows[t]) <= MaxRows
    BY <1>1, <1>2
  <2>1. ASSUME rows'[t] = Append(rows[t], r.body), Len(rows[t]) < MaxRows
        PROVE  Len(rows'[t]) <= MaxRows
    <3>1. r.body \in Cells => Len(Append(rows[t], r.body)) = Len(rows[t]) + 1
      BY <2>0
    <3>. QED
      BY <1>1, <2>0, <2>1, <3>1
  <2>2. ASSUME rows'[t] = [i \in DOMAIN rows[t] |-> rows'[t][i]]
        PROVE  Len(rows'[t]) <= MaxRows
    <3>1. rows'[t] \in Seq(Cells) /\ DOMAIN rows'[t] = DOMAIN rows[t]
      BY <1>5, <2>2, ServedRows
    <3>2. DOMAIN rows'[t] = 1 .. Len(rows'[t]) /\ Len(rows'[t]) \in Nat
      BY <3>1
    <3>3. PICK m, n : m = Len(rows'[t]) /\ n = Len(rows[t])
      OBVIOUS
    <3>4. m \in Nat /\ n \in Nat /\ 1 .. m = 1 .. n
      BY <1>2, <3>1, <3>2, <3>3
    <3>5. m = n
      BY <3>4
    <3>. QED
      BY <1>2, <3>3, <3>5
  <2>3. CASE r.kind = "rename"
    BY <1>1, <2>2, <2>3 DEF Groups!Effect, Groups!Renamed
  <2>4. CASE r.kind = "drop"
    BY <1>1, <2>2, <2>4 DEF Groups!Effect, Groups!Without
  <2>5. CASE r.kind \in {"create", "add"}
    <3>1. PICK u \in Groups!Types :
            rows' = [rows EXCEPT ![u] = Append(@, r.body)] /\ Len(rows[u]) < MaxRows
      BY <1>1, <2>5 DEF Groups!Effect, Groups!Inserted, Groups!Found, Formed, Groups!Types
    <3>2. CASE u = t
      BY <1>1, <2>1, <3>1, <3>2
    <3>3. CASE u # t
      BY <1>1, <2>0, <3>1, <3>3
    <3>. QED
      BY <3>2, <3>3
  <2>6. CASE r.kind \in {"edit", "delete"}
    <3>1. PICK x : rows' = [rows EXCEPT ![r.type] = [rows[r.type] EXCEPT ![r.id] = x]]
      BY <1>1, <2>6 DEF Groups!Effect
    <3>2. CASE r.type = t
      <4>1. rows'[t] = [rows[t] EXCEPT ![r.id] = x]
        BY <1>1, <3>1, <3>2
      <4>. QED
        BY <2>2, <4>1
    <3>3. CASE r.type # t
      BY <1>1, <2>0, <3>1, <3>3
    <3>. QED
      BY <3>2, <3>3
  <2>. QED
    BY <1>1, <2>3, <2>4, <2>5, <2>6 DEF Formed
<1>. QED
  BY <1>1, <1>4, <1>5 DEF GroupsCounted

LEMMA GroupsStepCounted ==
    ASSUME PanelBounds, Values # {}, GroupsInv, GroupsCounted, [Groups!Next]_Groups!vars
    PROVE  GroupsCounted'
<1>a. /\ IsFiniteSet(requests) /\ Cardinality(requests) \in Nat /\ Cardinality(requests) <= made
      /\ made \in Nat /\ MaxRequests \in Nat /\ made <= MaxRequests
  BY FS_CardinalityType DEF GroupsInv, GroupsTyped, GroupsCounted, PanelBounds
<1>b. /\ query = [k \in GroupNames |-> query[k]] /\ rename = [c \in NameFields |-> rename[c]]
  BY DEF GroupsInv, GroupsTyped
<1>1. ASSUME NEW r, Groups!Send(r) PROVE GroupsCounted'
  <2>1. PICK q : requests' = requests \cup {q}
    BY <1>1 DEF Groups!Send
  <2>2. made < MaxRequests /\ made' = made + 1 /\ UNCHANGED <<rows, query, rename, moved>>
    BY <1>1 DEF Groups!Send
  <2>3. /\ IsFiniteSet(requests')
        /\ Cardinality(requests') \in {Cardinality(requests), Cardinality(requests) + 1}
    BY <1>a, <2>1, FS_AddElement
  <2>4. Cardinality(requests') <= made' /\ made' <= MaxRequests
    BY <1>a, <2>2, <2>3
  <2>. QED
    BY <2>2, <2>3, <2>4 DEF GroupsCounted
<1>2. ASSUME NEW r \in requests, Groups!Serve(r) PROVE GroupsCounted'
  <2>. DEFINE d == [r EXCEPT !.done = TRUE]
              D == requests \ {r}
  <2>1. requests' = D \cup {d} /\ UNCHANGED <<query, rename, made>>
    BY <1>2 DEF Groups!Serve
  <2>2. IsFiniteSet(D) /\ Cardinality(D) = Cardinality(requests) - 1
    BY <1>a, FS_RemoveElement
  <2>. HIDE DEF d, D
  <2>3. /\ IsFiniteSet(requests')
        /\ Cardinality(requests') \in {Cardinality(D), Cardinality(D) + 1}
    BY <2>1, <2>2, FS_AddElement
  <2>4. Cardinality(requests') <= made'
    BY <1>a, <2>1, <2>2, <2>3
  <2>. QED
    BY <1>2, <2>1, <2>3, <2>4, ServedCounted DEF GroupsCounted
<1>3. ASSUME NEW r \in requests, Groups!Fail(r) \/ Groups!Succeed(r) PROVE GroupsCounted'
  <2>1. requests' = requests \ {r} /\ UNCHANGED <<rows, made, moved>>
    BY <1>3 DEF Groups!Fail, Groups!Succeed
  <2>2. IsFiniteSet(requests') /\ Cardinality(requests') = Cardinality(requests) - 1
    BY <1>a, <2>1, FS_RemoveElement
  <2>3. Cardinality(requests') <= made'
    BY <1>a, <2>1, <2>2
  <2>4. \A k \in GroupNames : query'[k].state \in States
    <3>1. CASE Groups!Fail(r)
      BY <3>1 DEF Groups!Fail, GroupsCounted
    <3>2. CASE Groups!Succeed(r)
      <4>1. PICK q, g : q = Groups!Invalidated /\ g = selected'
        OBVIOUS
      <4>2. q = [k \in GroupNames |-> q[k]]
        BY <4>1, InvalidatedAsks DEF GroupsInv
      <4>3. \A k \in GroupNames : q[k].state \in States
        BY <4>1, InvalidatedStates DEF GroupsCounted
      <4>4. \A k \in GroupNames : Groups!Mounted(q, g)[k].state \in States
        BY <4>2, <4>3, MountedStates
      <4>5. query' = Groups!Mounted(q, g)
        BY <3>2, <4>1 DEF Groups!Succeed
      <4>. QED
        BY <4>4, <4>5
    <3>. QED
      BY <1>3, <3>1, <3>2
  <2>5. rename'.open => rename'.new \in GroupNames
    BY <1>3 DEF Groups!Fail, Groups!Succeed, Groups!NoRename, GroupsCounted
  <2>. QED
    BY <2>1, <2>2, <2>3, <2>4, <2>5 DEF GroupsCounted
<1>4. ASSUME NEW k \in GroupNames, Groups!Read(k) \/ Groups!Arrive(k) PROVE GroupsCounted'
  <2>1. \E x : query' = [query EXCEPT ![k] = x] /\ x.state \in States
    BY <1>4 DEF Groups!Read, Groups!Arrive, Groups!Waiting, States
  <2>2. \A j \in GroupNames : query'[j].state \in States
    BY <1>b, <2>1 DEF GroupsCounted
  <2>3. UNCHANGED <<rows, rename, requests, made, moved>>
    BY <1>4 DEF Groups!Read, Groups!Arrive
  <2>. QED
    BY <2>2, <2>3 DEF GroupsCounted
<1>5. ASSUME NEW g \in GroupNames, Groups!Select(g) PROVE GroupsCounted'
  <2>1. query' = Groups!Mounted(query, g) /\ UNCHANGED <<rows, rename, requests, made, moved>>
    BY <1>5 DEF Groups!Select, Groups!Quiet
  <2>2. \A k \in GroupNames : Groups!Mounted(query, g)[k].state \in States
    BY <1>b, MountedStates DEF GroupsCounted
  <2>. QED
    BY <2>1, <2>2 DEF GroupsCounted
<1>6. CASE \/ \E g \in GroupNames : Groups!OpenRename(g)
           \/ Groups!TypeName \/ Groups!Cancel \/ Groups!OpenAdd \/ Groups!OpenEdit
           \/ Groups!InputAttribute \/ UNCHANGED Groups!vars
  <2>1. UNCHANGED <<rows, query, requests, made, moved>>
    BY <1>6 DEF Groups!OpenRename, Groups!TypeName, Groups!Cancel, Groups!OpenAdd,
                Groups!OpenEdit, Groups!InputAttribute, Groups!Quiet, Groups!vars
  <2>2. rename'.open => rename'.new \in GroupNames
    <3>1. \/ rename' = rename \/ rename'.open = FALSE
          \/ \E g \in GroupNames : rename'.new = g
      <4>1. ASSUME NEW g, rename' = [rename EXCEPT !.new = g] PROVE rename'.new = g
        BY <1>b, <4>1 DEF NameFields
      <4>2. ASSUME rename' = [rename EXCEPT !.open = FALSE] PROVE rename'.open = FALSE
        BY <1>b, <4>2 DEF NameFields
      <4>3. CASE \E g \in GroupNames : Groups!OpenRename(g)
        BY <4>3 DEF Groups!OpenRename
      <4>4. CASE Groups!TypeName
        BY <4>1, <4>4 DEF Groups!TypeName
      <4>5. CASE Groups!Cancel
        BY <4>2, <4>5 DEF Groups!Cancel, Groups!NoRename
      <4>6. CASE \/ Groups!OpenAdd \/ Groups!OpenEdit \/ Groups!InputAttribute
                 \/ UNCHANGED Groups!vars
        BY <4>6 DEF Groups!OpenAdd, Groups!OpenEdit, Groups!InputAttribute, Groups!vars
      <4>. QED
        BY <1>6, <4>3, <4>4, <4>5, <4>6
    <3>. QED
      BY <3>1 DEF GroupsCounted
  <2>. QED
    BY <2>1, <2>2 DEF GroupsCounted
<1>. QED
  BY <1>1, <1>2, <1>3, <1>4, <1>5, <1>6
  DEF Groups!Next, Groups!SaveRename, Groups!CreateGroup, Groups!DeleteGroup,
      Groups!SaveAttribute, Groups!DeleteAttribute

-----------------------------------------------------------------------------
(* A step of the panel is a step of one part and leaves the others alone. *)
LEMMA PanelStep ==
    ASSUME [PanelNext]_panelVars
    PROVE  /\ [Next]_vars
           /\ [Groups!Next]_Groups!vars
           /\ [Editor!Next]_Editor!vars
BY DEF PanelNext, panelVars, vars, groupVars, dictVars, Groups!vars, Editor!vars

(* THE PANEL IS WELL TYPED.  Whatever is shown, fetched and under way on the
   three kinds of page: rows, forms, calls and dialogs are what their handlers
   take them for, an editor that was left has nothing unsaved and no save of
   its own, and no more is under way than was sent. *)
THEOREM PanelTypeCorrect ==
    ASSUME PanelBounds, FormConstants, EditorConstants, Values # {}
    PROVE  PanelSpec => []PanelTypeOK
<1>. DEFINE Inv == /\ IInv /\ FormsInv /\ PageTyped
                   /\ GroupsInv /\ GroupsCounted
                   /\ EditorInv /\ EditorCounted
<1>1. PanelInit => Inv
  BY InitAimed, InitFits, InitTyped, GroupsInit, GroupsInitCounted, EditorInit,
     EditorInitCounted
  DEF PanelInit
<1>2. Inv /\ [PanelNext]_panelVars => Inv'
  BY PanelStep, StepAimed, StepFits, StepTyped, GroupsStep, GroupsStepCounted, EditorStep,
     EditorStepCounted
<1>3. Inv => PanelTypeOK
  <2>. SUFFICES ASSUME Inv PROVE TypeOK /\ Groups!TypeOK /\ Editor!TypeOK
    BY DEF PanelTypeOK
  <2>1. TypeOK
    BY DEF FormsInv, CallFits, PageTyped, TypeOK
  <2>2. Groups!TypeOK
    <3>0. GroupsTyped /\ GroupsCounted
      BY DEF GroupsInv
    <3>1. DOMAIN rows = Groups!Types
      BY <3>0 DEF GroupsTyped
    <3>4. made \in 0 .. MaxRequests
      <4>1. made \in Nat
        BY <3>0 DEF GroupsTyped
      <4>2. made <= MaxRequests /\ MaxRequests \in Nat
        BY <3>0 DEF PanelBounds, GroupsCounted
      <4>. QED
        BY <4>1, <4>2
    <3>2. /\ selected \in GroupNames \cup {NULL} /\ attr.type \in Groups!Types
          /\ attr.open => attr.group \in GroupNames
      BY <3>0 DEF GroupsTyped
    <3>5. rename.open => rename.old \in GroupNames /\ rename.new \in GroupNames
      BY <3>0, Zenon DEF GroupsTyped, GroupsCounted
    <3>3. Groups!Cardinality(requests) = Cardinality(requests)
      BY DEF Groups!Cardinality, Cardinality
    <3>. HIDE DEF Inv
    <3>. QED
      BY <3>0, <3>1, <3>2, <3>3, <3>4, <3>5 DEF GroupsCounted, States, Groups!TypeOK
  <2>3. Editor!TypeOK
    <3>1. EditorTyped /\ EditorCounted
      BY DEF EditorInv
    <3>2. load.state \in {"idle", "failed", "asked", "read"}
      BY <3>1 DEF EditorTyped, Loads
    <3>3. Editor!Cardinality(saves) = Cardinality(saves)
      BY DEF Editor!Cardinality, Cardinality
    <3>. HIDE DEF Inv
    <3>. QED
      BY <3>1, <3>2, <3>3 DEF EditorTyped, EditorCounted, Editor!TypeOK
  <2>. QED
    BY <2>1, <2>2, <2>3
<1>. HIDE DEF Inv
<1>. QED
  BY <1>1, <1>2, <1>3, PTL DEF PanelSpec

(* THE PANEL.  All of it together, as the run checks it on small tables. *)
THEOREM PanelKeepsItsWord ==
    ASSUME FormConstants, EditorConstants, Values # {}
    PROVE  PanelSpec =>
               /\ [](TargetIsShown /\ ListCatchesUp /\ EditorShowsFile)
               /\ EditKeepsRest /\ SavedAsShown /\ EditStaysInGroup
<1>1. PanelSpec => Spec /\ Groups!Spec /\ Editor!Spec
  <2>1. PanelInit => Init /\ Groups!Init /\ Editor!Init
    BY DEF PanelInit
  <2>. QED
    BY <2>1, PanelStep, PTL DEF PanelSpec, Spec, Groups!Spec, Editor!Spec
<1>. QED
  BY <1>1, SaveGoesWhereShown, ListShowsTable, EditsKeepTheRest, SavesAreShown,
     EditorShowsWritten, AttributesStayInGroup, PTL
=============================================================================
