-------------------------------- MODULE MCPanel --------------------------------
(***************************************************************************)
(* The pages of the panel that write: those PanelEditor describes, the     *)
(* policy page and the dictionary editor, one page in each behaviour.      *)
(***************************************************************************)
EXTENDS PanelEditor, TLC

CONSTANTS GroupNames, Values, MaxRows, MaxRequests, Contents, MaxSaves

VARIABLES
    part,
    rows, cache, query, selected, rename, attr, requests, made, moved,
    file, view, data, load, content, dirty, saves, written, unread, raced

\* A text the backend rewrites, and blanks.
Rewriting == [s \in Spellings |-> IF s = " " THEN "" ELSE "b"]

TypedShortnames == {<<"n">>, <<"OTHER", "n">>}

\* A row with every optional column and one with few.
FullAndBare ==
  [nas |-> {[name |-> <<"AP", "n">>, secret |-> "a", cat |-> "a", ports |-> "a"],
            [name |-> <<"n">>, secret |-> "a", cat |-> NULL, ports |-> NULL]},
   devices |-> {[mac |-> "a", name |-> "a", cat |-> NULL, active |-> 1],
                [mac |-> "a", name |-> NULL, cat |-> "a", active |-> 0]},
   segments |-> {[name |-> "a", cidr |-> "a", description |-> d] : d \in {NULL, "a"}},
   circuits |-> {[name |-> "a", circuit |-> "a", carrier |-> "a", active |-> 1],
                 [name |-> "a", circuit |-> "a", carrier |-> NULL, active |-> 0]},
   admins |-> {[username |-> "admin", password |-> "a", active |-> 1],
               [username |-> "admin", password |-> "a", active |-> 0]},
   users |-> {[table |-> "radcheck", username |-> "a", attribute |-> a, value |-> <<"text", "a">>] :
                a \in {"Cleartext-Password", "MD5-Password"}},
   assignments |-> {[c \in Target \cup {"group"} |->
                        IF c \in filled \cup {"group"} THEN "a" ELSE NULL] :
                    filled \in {{"seg", "start", "end"}, {"seg", "start"}, {"seg", "end"},
                               {"mac", "nas"}, {"cir", "nas"}}}]

OneRow ==
  [p \in DOMAIN FullAndBare |->
      IF p = "users" THEN FullAndBare[p] ELSE {CHOOSE r \in FullAndBare[p] : TRUE}]

\* A text of a 4.x server is written as one of a 3.x server.
Converted == [t \in Contents |-> IF t = "uint32" THEN "integer" ELSE t]

Groups == INSTANCE GroupsPage
Editor == INSTANCE DictionaryEditor WITH untold <- unread

groupVars == <<rows, cache, query, selected, rename, attr, requests, made, moved>>
dictVars == <<file, view, data, load, content, dirty, saves, written, unread, raced>>
panelVars == <<part, vars, groupVars, dictVars>>

\* The parts that are not looked at have one initial state.
PanelInit ==
    /\ part \in {"page", "groups", "dictionary"}
    /\ Init /\ (part # "page" => page = CHOOSE p \in Pages : TRUE)
    /\ part # "page" => table = <<CHOOSE r \in Initial[page] : TRUE>>
    /\ Groups!Init /\ (part # "groups" => \A t \in DOMAIN rows : rows[t] = rows["reply"])
    /\ Editor!Init /\ (part # "dictionary" => file = "")

PanelNext ==
    \/ part = "page" /\ Next /\ UNCHANGED <<part, groupVars, dictVars>>
    \/ part = "groups" /\ Groups!Next /\ UNCHANGED <<part, vars, dictVars>>
    \/ part = "dictionary" /\ Editor!Next /\ UNCHANGED <<part, vars, groupVars>>

PanelSpec == PanelInit /\ [][PanelNext]_panelVars

-----------------------------------------------------------------------------
(* The type invariants of all three. *)
PanelTypeOK == TypeOK /\ Groups!TypeOK /\ Editor!TypeOK
(* A saved attribute stays in the group it was shown in. *)
EditStaysInGroup == Groups!EditStaysInGroup
(* An editor without unsaved changes shows the file. *)
EditorShowsFile == Editor!EditorShowsFile
=============================================================================
