-------------------------- MODULE MCFcWeightUpdate --------------------------
(***************************************************************************)
(* Layer shapes for TLC.  Shares: 4 threads over 2 x 3 blocks gives a     *)
(* chunk of 2 and one idle thread.  Gradient: 2 threads over 2 x 3 blocks *)
(* puts the two items of one ifm1 group in different threads.            *)
(***************************************************************************)
EXTENDS FcWeightUpdate
=============================================================================
