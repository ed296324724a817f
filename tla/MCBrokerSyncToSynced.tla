------------------------ MODULE MCBrokerSyncToSynced ------------------------
(***************************************************************************)
(* The environments of MCBrokerSync for the refinement of SyncedAccount.   *)
(***************************************************************************)
EXTENDS MCBrokerSync, BrokerSyncToSynced
=============================================================================
