-------------------------- MODULE MCCscSpmmSample --------------------------
(***************************************************************************)
(* Arguments and files for TLC: every CSC pattern of a 2 x 3 and of a 3 x 2 *)
(* matrix, K and N arguments that match either or neither, M = 9 or not,  *)
(* and one or two repetitions.                                              *)
(***************************************************************************)
EXTENDS CscSpmmSample

MCFileDims == {<<2, 3>>, <<3, 2>>}
=============================================================================
