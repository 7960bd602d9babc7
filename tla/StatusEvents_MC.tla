-------------------------- MODULE StatusEvents_MC --------------------------
(***************************************************************************)
(* StatusEvents with one event for every way in which a notification is    *)
(* made, together with the checks of two windows that the main window      *)
(* opens and that nothing else depends on.                                 *)
(***************************************************************************)
EXTENDS StatusEvents, BandwidthGraph, HelpBrowser

OneOfEach == {
    <<"DANGEROUS_TOR_VERSION", "NEW">>, <<"DANGEROUS_TOR_VERSION", "OBSOLETE">>,
    <<"CLOCK_SKEW", "skewOfRelay">>, <<"CIRCUIT_ESTABLISHED", "none">>,
    <<"CIRCUIT_NOT_ESTABLISHED", "none">>, <<"DANGEROUS_PORT", "REJECT">>,
    <<"DANGEROUS_SOCKS", "none">>, <<"REACHABILITY_FAILED", "DIRADDRESS">>,
    <<"GOOD_SERVER_DESCRIPTOR", "none">>, <<"ACCEPTED_SERVER_DESCRIPTOR", "DIRAUTH">>}
=============================================================================
