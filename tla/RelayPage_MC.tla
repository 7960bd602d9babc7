---------------------------- MODULE RelayPage_MC ----------------------------
(***************************************************************************)
(* The page for relays on small sets of ports, boxes and rates, together   *)
(* with the checks of the two other pages that configure Tor.              *)
(***************************************************************************)
EXTENDS RelayPage, TorPages
=============================================================================
