----------------------------- MODULE MCDashboard -----------------------------
(***************************************************************************)
(* Model values for Dashboard.                                             *)
(***************************************************************************)
EXTENDS Dashboard

CONSTANTS b1, b2

MCBrowsers == {b1, b2}
==============================================================================
