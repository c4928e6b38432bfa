------------------------------ MODULE MCAppSync ------------------------------
(* Small instances of AppSync for TLC.                                      *)
EXTENDS AppSync, TLC

OnlyApps == {fetch_apps}
=============================================================================
