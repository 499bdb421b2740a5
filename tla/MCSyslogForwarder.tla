--------------------------- MODULE MCSyslogForwarder ---------------------------
(* Instances of SyslogForwarder for TLC. *)
EXTENDS SyslogForwarder

CONSTANTS e1, e2, e3
=============================================================================
