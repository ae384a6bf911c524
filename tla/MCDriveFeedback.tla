---------------------------- MODULE MCDriveFeedback ---------------------------
(***************************************************************************)
(* Instance of DriveFeedback for TLC: two axes and a stranger on the link, *)
(* encoder frames and heartbeats, whole and cut short, a queue of two.     *)
(* CanCodec, which has no state, is checked for every message on the way.  *)
(***************************************************************************)
EXTENDS DriveFeedback

MCBroadcasts == {Get_Encoder_Estimates, Heartbeat}

===============================================================================
