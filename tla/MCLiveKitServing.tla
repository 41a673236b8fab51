-------------------------- MODULE MCLiveKitServing --------------------------
(* Instances of LiveKitServing: one DELETE handler besides the reaper.      *)
EXTENDS LiveKitServing

MCDeleters == {"delete"}
=============================================================================
