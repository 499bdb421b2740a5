---------------------------- MODULE MCDictionaries ----------------------------
(***************************************************************************)
(* Instances of Dictionaries for TLC: directories and uploads.             *)
(***************************************************************************)
EXTENDS Dictionaries

CONSTANTS plain, other, spaced

Text(v, f) == [vendors |-> v, redefines |-> FALSE, form |-> f]
\* The file "a b" becomes "a_b", here plain, which ships with a vendor.
Underscored == [n \in FileNames |-> IF n = spaced THEN plain ELSE n]
OneShipped == [n \in FileNames |-> IF n = plain THEN Text({9}, "v3") ELSE NULL]

\* Free and built-in vendors, and refused texts: no vendor, a redefinition.
EveryUpload ==
    {Text({161}, "v4"), Text({311}, "v3"), Text({2352}, "v3"), Text({}, "broken"),
     [vendors |-> {161}, redefines |-> TRUE, form |-> "v3"]}
=============================================================================
