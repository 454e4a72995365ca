------------------------------ MODULE MCWatchApp ------------------------------
(***************************************************************************)
(* WatchApp for TLC.  Nothing tells one choice of the location from the    *)
(* other: consent_migrate() only asks whether one was made.                *)
(***************************************************************************)
EXTENDS WatchApp, TLC

Swap == Permutations(Choice)
=============================================================================
