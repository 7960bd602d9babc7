---------------------------- MODULE Services_MC ----------------------------
(***************************************************************************)
(* The services page on small sets of services, together with the checks   *)
(* of how the application starts and of its other pages' settings.         *)
(***************************************************************************)
EXTENDS Services, Application
=============================================================================
