-------------------------- MODULE MCStorageService --------------------------
(* Instances of StorageService for TLC. *)
EXTENDS StorageService, TLC

CONSTANTS c1, c2, c3
=============================================================================
