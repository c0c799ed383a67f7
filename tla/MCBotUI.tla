------------------------------ MODULE MCBotUI ------------------------------
(***************************************************************************)
(* BotUI for TLC: one chat that is or is not allowed, two hosts of which   *)
(* either may be the default or gone from the configuration, an action     *)
(* with a question and one without.                                        *)
(***************************************************************************)
EXTENDS BotUI, TLC
=============================================================================
