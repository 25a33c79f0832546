------------------------------- MODULE MCVncProxy -------------------------------
(***************************************************************************)
(* Small instances of VncProxy.                                            *)
(***************************************************************************)
EXTENDS VncProxy

CONSTANTS c1, c2, c3

AllKinds == {"rfb", "feature", "unhandled"}

=============================================================================
