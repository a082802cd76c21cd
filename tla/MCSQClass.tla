----------------------------- MODULE MCSQClass -----------------------------
(* Small instances of SQClass. *)
EXTENDS SQClass
=============================================================================
