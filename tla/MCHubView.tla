----------------------------- MODULE MCHubView -----------------------------
(***************************************************************************)
(* HubView on small times for TLC, with a wake watcher beside the probe    *)
(* loop and the handler.                                                   *)
(***************************************************************************)
EXTENDS HubView
=============================================================================
