---------------------------- MODULE MCGemmKernel ----------------------------
(***************************************************************************)
(* Model-checking instances of GemmKernel: the tiers and descriptors each  *)
(* configuration enumerates.  Sizes are chosen so that every branch of the *)
(* blocking planner is taken: m with and without an M remainder (9, 24,    *)
(* 56 including the AVX2/F64 SeisSol case), n of one and of two equalized  *)
(* blocks and the 7-column shortcut, k under, over and not a multiple of   *)
(* the K blocking thresholds.                                              *)
(***************************************************************************)
EXTENDS GemmKernel

Plain(ms, ns, ks, dts) ==
  [m : ms, n : ns, k : ks, inp : {dts[1]}, out : {dts[2]},
   vnniA : {FALSE}, vnniC : {FALSE}, transA : {FALSE}, br : {"none"},
   prefetch : {"NONE"}, extAbi : {FALSE}, eltwOps : {FALSE},
   noResetTc : {FALSE}, noSetupTc : {FALSE}]

\* Blocking and tiling: floating-point GEMMs on the SSE..AVX-512 tiers.
CoreArchs == {SSE3, AVX, AVX2, VL256, AVX512_MIC, AVX512_CORE}
CoreDescs ==
  UNION {Plain({9, 24, 56}, {7, 10}, {20, 50, 56}, dt) :
           dt \in {<<"F32", "F32">>, <<"F64", "F64">>}}

\* Low-precision GEMMs on the AVX-512 tiers (masked M remainders).
LowArchs == {VL256, VL256_CPX, AVX512_CORE, AVX512_CPX}
LowDescs ==
  UNION {Plain({24, 40}, {10, 31}, {20, 48}, dt) :
           dt \in {<<"BF16", "F32">>, <<"I8", "I32">>, <<"I16", "I32">>}}
  \cup
  {[x EXCEPT !.vnniA = TRUE] : x \in Plain({24, 40}, {10}, {20}, <<"BF16", "BF16">>)}

\* Calling conventions, batch-reduce modes, transposed A, fusion, tileconfig.
AbiDescs ==
  [m : {24}, n : {10}, k : {20}, inp : {"F32", "I16"}, out : {"F32", "BF16"},
   vnniA : {FALSE}, vnniC : BOOLEAN, transA : BOOLEAN,
   br : {"none", "address", "offset", "stride"},
   prefetch : {"NONE", "AL2"}, extAbi : BOOLEAN, eltwOps : BOOLEAN,
   noResetTc : {FALSE}, noSetupTc : BOOLEAN]
\* All three families together, every tier with every descriptor.
TileArchs == CoreArchs \cup LowArchs
TileDescs == CoreDescs \cup LowDescs \cup AbiDescs

\* BF16 input without VNNI-packed A on the 256-bit AVX-512 tiers, with an
\* M remainder of one 256-bit vector.
Bf16MaskArchs == {VL256, AVX512_CORE}
Bf16MaskDescs == Plain({24}, {10}, {20}, <<"BF16", "F32">>)

\* Targets outside the tiers the generator has a path for.
UnknownArchs == {BELOW_GENERIC, BEYOND_ALLFEAT}
UnknownArchDescs == Plain({24}, {10}, {20}, <<"F32", "F32">>)
=============================================================================
