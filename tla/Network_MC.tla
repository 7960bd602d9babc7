----------------------------- MODULE Network_MC -----------------------------
(***************************************************************************)
(* The network window on small sets of circuits and streams, together with *)
(* the checks of how Tor's answers, which fill it, are read, and of what   *)
(* it shows of the relays.                                                 *)
(***************************************************************************)
EXTENDS Network, TorReplies, ControlValues, RelayViews
=============================================================================
