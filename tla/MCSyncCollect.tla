---------------------------- MODULE MCSyncCollect ----------------------------
(* Instances of SyncCollect for TLC. *)
EXTENDS SyncCollect
=============================================================================
