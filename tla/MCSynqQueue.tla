---------------------------- MODULE MCSynqQueue -----------------------------
(* Small instances of SynqQueue for TLC. *)
EXTENDS SynqQueue

MCPriorities == {1, 5}
=============================================================================
