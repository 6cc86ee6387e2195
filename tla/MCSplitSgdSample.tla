-------------------------- MODULE MCSplitSgdSample --------------------------
(***************************************************************************)
(* Model-checking instances of SplitSgdSample.  The defaults of 64 are     *)
(* scaled down to 2, keeping M = N = ld; rows and columns of a matrix are  *)
(* alike, so what matters is how ld relates to M.                          *)
(***************************************************************************)
EXTENDS SplitSgdSample

MCDefault == [M |-> 2, N |-> 2, ld |-> 2]

\* The invocations whose leading dimension equals the row count.
DenseInvocations == {x \in Args : x.ld = x.M}

\* The invocations the equation kernel is defined for (ld >= M).
PaddedInvocations == {x \in Args : x.ld >= x.M}
=============================================================================
