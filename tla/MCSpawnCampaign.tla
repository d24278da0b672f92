-------------------------- MODULE MCSpawnCampaign --------------------------
(***************************************************************************)
(* The spawn campaign for TLC: the configurations of its runs give the     *)
(* constants their values.                                                 *)
(***************************************************************************)
EXTENDS SpawnCampaign
=============================================================================
