------------------------------ MODULE MCEventLoop -----------------------------
(***************************************************************************)
(* Instance of EventLoop for TLC: an interface and two events, with fewer  *)
(* addresses and descriptors than clients, so that they are given out      *)
(* again, and batches of two.                                              *)
(***************************************************************************)
EXTENDS EventLoop

CONSTANTS can, e1, e2, a1, a2

===============================================================================
