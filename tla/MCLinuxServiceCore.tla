--------------------------- MODULE MCLinuxServiceCore ---------------------------
(***************************************************************************)
(* LinuxServiceCore for model checking: two sessions, each of which can    *)
(* get a second server if it is both listed and announced, are enough for  *)
(* every pair of servers that may compete; all constants are given in the  *)
(* configurations.                                                         *)
(***************************************************************************)
EXTENDS LinuxServiceCore

=============================================================================
