---------------------------- MODULE MCVlaSession ----------------------------
(* Instances of VlaSession: two episodes, a client that may send any        *)
(* sequence id at any time.                                                *)
EXTENDS VlaSession

MCEpisodes == {"e1", "e2"}
=============================================================================
