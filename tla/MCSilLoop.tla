------------------------------- MODULE MCSilLoop ------------------------------
(***************************************************************************)
(* Instance of SilLoop for TLC: two starts of each node, queues of one,    *)
(* every mode at run time.                                                 *)
(***************************************************************************)
EXTENDS SilLoop

===============================================================================
