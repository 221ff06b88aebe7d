------------------------- MODULE MCTaskTracking -------------------------
(* Small instances of TaskTracking. *)
EXTENDS TaskTracking
=========================================================================
