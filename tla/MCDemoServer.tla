------------------------------ MODULE MCDemoServer ------------------------------
(***************************************************************************)
(* Small instances of DemoServer.                                          *)
(***************************************************************************)
EXTENDS DemoServer

CONSTANT c1

=============================================================================
