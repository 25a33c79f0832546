---------------------------- MODULE MCVncConnection ----------------------------
(***************************************************************************)
(* Small instances of VncConnection.                                       *)
(***************************************************************************)
EXTENDS VncConnection

CONSTANT small

=============================================================================
