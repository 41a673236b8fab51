-------------------------- MODULE MCLingBotService --------------------------
(***************************************************************************)
(* Two sessions: to the first one everything can happen, the second one is *)
(* only pushed controls.                                                   *)
(***************************************************************************)
EXTENDS LingBotService, TLC

CONSTANTS s1, s2

MCMessages == (s1 :> {"control", "quiet", "stop"}) @@ (s2 :> {"control", "quiet"})
MCEvents == (s1 :> {"complete", "error", "cleanup", "close"}) @@ (s2 :> {})
=============================================================================
