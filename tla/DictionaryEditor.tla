---------------------------- MODULE DictionaryEditor ----------------------------
(***************************************************************************)
(* The editor of a custom dictionary (pages/Dictionaries.jsx) over one     *)
(* file: the text being typed, the copy its query holds, saves under way   *)
(* and the fetches that follow them, with the list view beside it.  What   *)
(* write_content does is in Dictionaries; here a text may come back with   *)
(* its 4.x types converted.                                                *)
(***************************************************************************)
EXTENDS Integers, FiniteSets

CONSTANTS
    NULL,
    Contents,   \* texts one may type, "" included
    Converted,  \* text -> what is written of it
    MaxSaves    \* bound: saves, and writes of others

VARIABLES
    file,       \* the text on the server, NULL when there is no such file
    view,       \* "list" or "editor"
    data,       \* the copy of the content query, NULL before the first
    load,       \* the query: idle, failed, asked, or the text under way
    content, dirty,     \* what the textarea shows, "Unsaved changes"
    saves,      \* not answered yet; here: of the editor now open
    written,    \* counts towards MaxSaves
    untold,     \* observer: a write the editor was not told of since it opened
    raced       \* observer: typed, or left the editor, with something under way

vars == <<file, view, data, load, content, dirty, saves, written, untold, raced>>

Rest == [state |-> "idle", text |-> NULL]
Reload == [state |-> "asked", text |-> NULL]
UnderWay == load.state \in {"asked", "read"}

TypeOK ==
    /\ file \in Contents \cup {NULL} /\ data \in Contents \cup {NULL}
    /\ view \in {"list", "editor"}
    /\ load.state \in {"idle", "failed", "asked", "read"}
    /\ content \in Contents /\ dirty \in BOOLEAN
    /\ view = "list" => ~dirty /\ \A s \in saves : ~s.here
    /\ written \in 0 .. MaxSaves /\ Cardinality(saves) <= written
    /\ untold \in BOOLEAN /\ raced \in BOOLEAN

Init ==
    /\ file \in {Converted[t] : t \in Contents}
    /\ view = "list" /\ data = NULL /\ load = Rest
    /\ content = "" /\ dirty = FALSE
    /\ saves = {} /\ written = 0 /\ untold = FALSE /\ raced = FALSE

(* The eye button: the cached text at once, and another fetch.             *)
OpenEditor ==
    /\ view = "list" /\ view' = "editor"
    /\ load' = IF UnderWay THEN load ELSE Reload
    /\ content' = IF data = NULL THEN "" ELSE data
    /\ raced' = (raced /\ (UnderWay \/ saves # {}))
    /\ untold' = (untold /\ UnderWay)
    /\ UNCHANGED <<file, data, dirty, saves, written>>

\* Mutant: the editor shares its dirty flag with the one opened next.
CloseEditorDirty ==
    /\ view = "editor" /\ view' = "list"
    /\ content' = "" /\ UNCHANGED dirty
    /\ saves' = {[s EXCEPT !.here = FALSE] : s \in saves}
    /\ raced' = (raced \/ UnderWay \/ saves # {})
    /\ UNCHANGED <<file, data, load, written, untold>>

CloseEditor ==
    /\ view = "editor" /\ view' = "list"
    /\ content' = "" /\ dirty' = FALSE
    /\ saves' = {[s EXCEPT !.here = FALSE] : s \in saves}
    /\ raced' = (raced \/ UnderWay \/ saves # {})
    /\ UNCHANGED <<file, data, load, written, untold>>

\* "Loading content..." instead of the textarea, the first time.
Visible == view = "editor" /\ (data # NULL \/ ~UnderWay)

TypeText ==
    /\ Visible
    /\ \E t \in Contents : t # content /\ content' = t
    /\ dirty' = TRUE
    /\ raced' = (raced \/ saves # {})
    /\ UNCHANGED <<file, view, data, load, saves, written, untold>>

(* Ctrl+S, which is there whenever the Save button is, and more often.     *)
SaveText ==
    /\ Visible
    /\ written < MaxSaves /\ written' = written + 1
    /\ saves' = saves \cup {[n |-> written, text |-> content, here |-> TRUE, done |-> FALSE]}
    /\ UNCHANGED <<file, view, data, load, content, dirty, untold, raced>>

(* PUT /dictionary/content: it makes the file if there is none.            *)
Write(s) ==
    /\ ~s.done
    /\ file' = Converted[s.text]
    /\ saves' = (saves \ {s}) \cup {[s EXCEPT !.done = TRUE]}
    /\ UNCHANGED <<view, data, load, content, dirty, written, untold, raced>>

\* Rejected, or the answer is lost.
FailSave(s) ==
    /\ saves' = saves \ {s}
    /\ untold' = (untold \/ s.done)
    /\ UNCHANGED <<file, view, data, load, content, dirty, written, raced>>

\* Mutant: the text that was sent is taken for the text that was written.
NotReloaded == load

(* invalidateQueries: a first load is joined, another fetch dropped; nothing
   is fetched for an editor that is not shown.                             *)
Reloaded == IF view = "list" \/ (UnderWay /\ data = NULL) THEN load ELSE Reload

Saved(s) ==
    /\ s.done
    /\ saves' = saves \ {s}
    /\ dirty' = (dirty /\ ~s.here)
    /\ load' = Reloaded
    /\ UNCHANGED <<file, view, data, content, written, untold, raced>>

ReadText ==
    /\ load.state = "asked"
    /\ load' = [state |-> "read", text |-> file]
    /\ UNCHANGED <<file, view, data, content, dirty, saves, written, untold, raced>>

(* The effect on data: a text other than the one before replaces what was
   typed.  A file that is gone is an error, after the retries.             *)
ArriveText ==
    LET fresh == load.text # NULL /\ load.text # data
    IN  /\ load.state = "read"
        /\ load' = [Rest EXCEPT !.state = IF load.text = NULL THEN "failed" ELSE "idle"]
        /\ data' = IF fresh THEN load.text ELSE data
        /\ content' = IF fresh /\ view = "editor" THEN load.text ELSE content
        /\ dirty' = (dirty /\ ~fresh)
        /\ UNCHANGED <<file, view, saves, written, untold, raced>>

(* Uploaded over, renamed or deleted: in the list view, or by another user. *)
WrittenElsewhere ==
    /\ written < MaxSaves /\ written' = written + 1
    /\ \E t \in {Converted[c] : c \in Contents} \cup {NULL} : t # file /\ file' = t
    /\ untold' = TRUE
    /\ UNCHANGED <<view, data, load, content, dirty, saves, raced>>

Next ==
    \/ OpenEditor \/ CloseEditor \/ TypeText \/ SaveText
    \/ \E s \in saves : Write(s) \/ FailSave(s) \/ Saved(s)
    \/ ReadText \/ ArriveText \/ WrittenElsewhere

Spec == Init /\ [][Next]_vars

(* Once nothing is under way, an editor without unsaved changes shows what
   the server has written, 4.x types converted: after any saves, failed
   saves and reopenings, unless somebody else wrote the file, or one typed
   while a save was under way or left the editor then.  A text that was
   converted into the one fetched before stays as typed: the query keeps
   its object and the effect (Dictionaries.jsx:31) does not run. *)
EditorShowsFile ==
    view = "editor" /\ saves = {} /\ load.state = "idle" /\ ~dirty /\ ~untold /\ ~raced =>
        content = file \/ (data = file /\ Converted[content] = file)
=============================================================================
