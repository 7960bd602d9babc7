-------------------------- MODULE MessageLog_MC ---------------------------
(***************************************************************************)
(* The message log on small sets of messages, together with the checks of  *)
(* the programs that carry Vidalia's texts to translators and back.        *)
(***************************************************************************)
EXTENDS MessageLog, Translations
=============================================================================
