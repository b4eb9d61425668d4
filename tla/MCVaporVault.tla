---------------------------- MODULE MCVaporVault ----------------------------
(* Instances of the pipeline for TLC. *)
EXTENDS VaporVaultLifecycle, TLC

CONSTANTS api, worker, f1, f2, r1, r2, r3
=============================================================================
