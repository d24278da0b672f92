------------------------ MODULE MCInProcessCampaign ------------------------
(***************************************************************************)
(* The in-process campaign for TLC: the configurations of its runs give    *)
(* the constants their values.                                             *)
(***************************************************************************)
EXTENDS InProcessCampaign
=============================================================================
