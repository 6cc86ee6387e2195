--------------------------- MODULE SplitSgdSample ---------------------------
(***************************************************************************)
(* The split-SGD matrix-equation sample,                                   *)
(* src/samples/equation/equation_splitSGD.c: fp32 weights are kept as two *)
(* bf16 halves (lo, hi).  A JIT-ed matrix equation unpacks them, adds lr   *)
(* times a bf16 gradient and packs them again.  The sample checks it       *)
(* against a reference that does the same in C, by comparing the two      *)
(* results repacked into fp32 with libxsmm_matdiff.                        *)
(*                                                                         *)
(* Data abstraction.  A weight cell of an M x N matrix with leading        *)
(* dimension ld is at j * ld + i.  Cell c starts from the random weight    *)
(* w(c) and its gradient is g(c) (both buffers are filled on all ld * N    *)
(* cells), so a cell's value is the number of updates w(c) + lr * g(c) it  *)
(* has had, or Undef while the cell has not been written since             *)
(* libxsmm_aligned_malloc.  The lo and hi buffers are always written at    *)
(* the same cells, so each pair is one buffer.  The equation kernel is     *)
(* library code outside src/: it updates the cells i < M, j < N once.      *)
(***************************************************************************)
EXTENDS Integers

CONSTANTS
  MArgs, NArgs, LdArgs,  \* atoi(argv[1..3]) values
  Default,               \* [M, N, ld] when not given (64, 64, 64 in the code)
  Invocations            \* the invocations of Args a model runs

Undef == -1

\* Lines 73-75 and 82-84: an argument given on the command line replaces
\* its default.
Args ==
  {[argc |-> n,
    M  |-> IF n > 1 THEN m ELSE Default.M,
    N  |-> IF n > 2 THEN k ELSE Default.N,
    ld |-> IF n > 3 THEN l ELSE Default.ld] :
     n \in 1 .. 4, m \in MArgs, k \in NArgs, l \in LdArgs}

ASSUME Default \in [M : Nat, N : Nat, ld : Nat]
ASSUME Invocations \subseteq Args

VARIABLES
  a,         \* the invocation: argc, M, N, ld
  pc,        \* the point main has reached
  wtLoHi,   \* wt_lo / wt_hi: cell -> updates, or Undef
  eqnWtLoHi, \* eqn_wt_lo / eqn_wt_hi
  refOut,    \* f32_ref_out
  eqnOut,    \* f32_eqn_out
  func0,     \* the dispatched equation, or NULL
  differs    \* the cells libxsmm_matdiff found unequal or uninitialised

vars == <<a, pc, wtLoHi, eqnWtLoHi, refOut, eqnOut, func0, differs>>

\* Lines 86-93: every buffer holds N * ld elements.
Cells == 0 .. a.N * a.ld - 1

\* The cells the M x N loops of lines 21-60 visit.
Visited(x) == {j * x.ld + i : i \in 0 .. x.M - 1, j \in 0 .. x.N - 1}

\* Lines 62-96: the arguments and the uninitialised buffers.
Init ==
  /\ a \in Invocations
  /\ pc = "operands"
  /\ wtLoHi = [c \in Cells |-> Undef]
  /\ eqnWtLoHi = wtLoHi
  /\ refOut = wtLoHi
  /\ eqnOut = wtLoHi
  /\ func0 = "none"
  /\ differs = {}

\* Lines 21-31: reference_unpack splits each visited weight into lo / hi.
ReferenceUnpack(buf) ==
  [c \in DOMAIN buf |-> IF c \in Visited(a) THEN 0 ELSE buf[c]]

\* Lines 98-113: wt and the gradient are filled on all ld * N cells, the
\* weights are split and copied whole (ld * N elements) into eqn_wt, and
\* the gradient is rounded to bf16.
InitOperands ==
  /\ pc = "operands"
  /\ wtLoHi' = ReferenceUnpack(wtLoHi)
  /\ eqnWtLoHi' = ReferenceUnpack(wtLoHi)
  /\ pc' = "dispatch"
  /\ UNCHANGED <<a, refOut, eqnOut, func0, differs>>

\* Lines 116-124: the equation is built and JIT-ed; dispatch may fail.
Dispatch ==
  /\ pc = "dispatch"
  /\ func0' \in {"kernel", "NULL"}
  /\ pc' = "call"
  /\ UNCHANGED <<a, wtLoHi, eqnWtLoHi, refOut, eqnOut, differs>>

\* One SGD update of every visited cell (the equation kernel, and
\* reference_equation of lines 44-60).
SgdUpdate(buf) ==
  [c \in DOMAIN buf |-> IF c \in Visited(a) THEN buf[c] + 1 ELSE buf[c]]

\* Lines 126-134: func0 is called on eqn_wt, unchecked: a NULL kernel
\* crashes the sample.
CallEquation ==
  /\ pc = "call"
  /\ IF func0 = "kernel"
     THEN eqnWtLoHi' = SgdUpdate(eqnWtLoHi) /\ pc' = "reference"
     ELSE UNCHANGED eqnWtLoHi /\ pc' = "crashed"
  /\ UNCHANGED <<a, wtLoHi, refOut, eqnOut, func0, differs>>

\* Fault model for lines 35-36: the row loop bounded by N instead of M.
ReferencePackRowsByN(out, buf) ==
  [c \in DOMAIN out |->
     IF c \in {j * a.ld + i : i \in 0 .. a.N - 1, j \in 0 .. a.M - 1}
     THEN buf[c] ELSE out[c]]

\* Lines 33-43: reference_pack joins lo / hi of each visited cell into out.
ReferencePack(out, buf) ==
  [c \in DOMAIN out |-> IF c \in Visited(a) THEN buf[c] ELSE out[c]]

\* Lines 137-140: the reference update, then both results repacked.
Reference ==
  /\ pc = "reference"
  /\ wtLoHi' = SgdUpdate(wtLoHi)
  /\ refOut' = ReferencePack(refOut, SgdUpdate(wtLoHi))
  /\ eqnOut' = ReferencePack(eqnOut, eqnWtLoHi)
  /\ pc' = "compare"
  /\ UNCHANGED <<a, eqnWtLoHi, func0, differs>>

\* Line 146: the ld * N elements libxsmm_matdiff compares.
MatdiffRange == 0 .. a.ld * a.N - 1

\* Lines 142-176: libxsmm_matdiff and the printed norms; main returns 0.
Compare ==
  /\ pc = "compare"
  /\ differs' = {c \in MatdiffRange :
                   refOut[c] = Undef \/ eqnOut[c] = Undef \/ refOut[c] # eqnOut[c]}
  /\ pc' = "done"
  /\ UNCHANGED <<a, wtLoHi, eqnWtLoHi, refOut, eqnOut, func0>>

\* main has returned, or the process has died.
Stopped == pc \in {"done", "crashed"} /\ UNCHANGED vars

Next ==
  \/ InitOperands \/ Dispatch \/ CallEquation \/ Reference \/ Compare
  \/ Stopped

Spec == Init /\ [][Next]_vars

-----------------------------------------------------------------------------
(***************************************************************************)
(* What the sample reports is a comparison of results: every element      *)
(* libxsmm_matdiff reads at line 146 was written by both reference_pack    *)
(* calls, and the equation and the reference agree on it, so the printed   *)
(* errors are 0 for a correct kernel and depend on nothing uninitialised.  *)
(***************************************************************************)
ComparesOnlyComputedCells == pc = "done" => differs = {}
=============================================================================
