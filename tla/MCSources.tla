------------------------------ MODULE MCSources -----------------------------
(* Small instances of Sources. *)
EXTENDS Sources
=============================================================================
