-------------------------- MODULE MCPinnedRotation --------------------------
(* A small instance of PinnedRotation. *)
EXTENDS PinnedRotation
=============================================================================
