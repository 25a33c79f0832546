--------------------------- MODULE MCFeatureWorkers ---------------------------
(***************************************************************************)
(* Small instances of FeatureWorkers: the access dialog's worker is a      *)
(* managed system process, the tray icon's an unmanaged one in the user's  *)
(* session.                                                                *)
(***************************************************************************)
EXTENDS FeatureWorkers

CONSTANTS dialog, tray, p1, p2

=============================================================================
