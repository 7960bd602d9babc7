------------------------ MODULE HelperProcesses_MC -------------------------
(***************************************************************************)
(* The programs that Vidalia starts, together with the checks of the one   *)
(* that edits the sources of its Windows installer.                        *)
(***************************************************************************)
EXTENDS HelperProcesses, WixTool
=============================================================================
