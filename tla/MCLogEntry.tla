----------------------------- MODULE MCLogEntry -----------------------------
(***************************************************************************)
(* Two field names (one of them "error", which WithError writes) and two   *)
(* values; up to three entries alive besides the package-level one, enough *)
(* for a chain of two calls to take a spare that another chain released.   *)
(***************************************************************************)
EXTENDS LogEntry

=============================================================================
