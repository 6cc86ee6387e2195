---------------------------- MODULE GemmBlocking ----------------------------
(***************************************************************************)
(* Blocking planner of the x86 GEMM generator                              *)
(* (src/src/generator_gemm_sse_avx_avx2_avx512.c): the N-blocking limit,   *)
(* the initial and the next M-blocking of an M sweep, the K-loop strategy, *)
(* and the micro-kernel configuration they read and rewrite.  All are      *)
(* pure operators over a descriptor record d and an architecture tier a.   *)
(***************************************************************************)
EXTENDS Integers, Sequences
LOCAL INSTANCE SequencesExt

(***************************************************************************)
(* Architecture tiers.  Only their order matters to the generator (it      *)
(* compares LIBXSMM_X86_* values with < and <=), so they are numbered in   *)
(* the order of the LIBXSMM_X86_* constants.  BELOW_GENERIC stands for any *)
(* tag under LIBXSMM_TARGET_ARCH_GENERIC, BEYOND_ALLFEAT for any tag above *)
(* LIBXSMM_X86_ALLFEAT (for instance a non-x86 target).                    *)
(***************************************************************************)
BELOW_GENERIC == 0
X86_GENERIC   == 1
SSE3          == 2
SSE42         == 3
AVX           == 4
AVX2          == 5
VL256         == 6
VL256_CLX     == 7
VL256_CPX     == 8
AVX512        == 9
AVX512_MIC    == 10
AVX512_KNM    == 11
AVX512_CORE   == 12
AVX512_CLX    == 13
AVX512_CPX    == 14
AVX512_SPR    == 15
ALLFEAT       == 16
BEYOND_ALLFEAT == 17

ArchTiers == BELOW_GENERIC .. BEYOND_ALLFEAT

VL256Family(a) == a \in {VL256, VL256_CLX, VL256_CPX}

(***************************************************************************)
(* A descriptor: m, n, k, input/output datatype, and the flags the         *)
(* generator reads.  (libxsmm_datatype)desc->datatype = t holds exactly    *)
(* when input and output are both t (LIBXSMM_GETENUM packs equal types     *)
(* into one value).                                                        *)
(***************************************************************************)
Uniform(d, t) == d.inp = t /\ d.out = t

(***************************************************************************)
(* Micro-kernel configuration (libxsmm_generator_gemm_init_micro_kernel_   *)
(* config_fullvector / _halfvector / _scalar, generator_gemm_common.c):    *)
(* the register file and vector length the blocking decisions read.  A     *)
(* configuration is a record [kind, masking].                              *)
(***************************************************************************)
VectorRegCount(a) == IF a >= VL256 THEN 32 ELSE 16

FullVectorLength(a, d) ==
  LET bytes == IF a <= SSE42 THEN 16 ELSE IF a < AVX512 THEN 32 ELSE 64
      elem  == IF d.inp = "F64" THEN 8 ELSE 4
  IN  bytes \div elem

VectorLength(a, d, cfg) ==
  CASE cfg.kind = "full"   -> FullVectorLength(a, d)
    [] cfg.kind = "half"   -> FullVectorLength(a, d) \div 2
    [] cfg.kind = "scalar" -> 1

FullCfg(masking) == [kind |-> "full", masking |-> masking]

\* vnni_format_C of the configuration: packed output requested for BF16 C.
VnniFormatC(d) == d.vnniC /\ d.out = "BF16"

CeilDiv(x, y) == (x + y - 1) \div y

(***************************************************************************)
(* The if-else chain shared by get_initial_m_blocking and                  *)
(* update_m_blocking: the index of the first branch whose condition holds, *)
(* 0 when none does ("we should never end up here").                       *)
(***************************************************************************)
OutIsWide(d) ==
  \/ d.out \in {"F32", "I32", "I8"}
  \/ d.out = "BF16" /\ d.vnniA

MBranchGuards(a, d) ==
  << a <= SSE42 /\ d.inp = "F32",
     a <= SSE42 /\ d.inp = "F64",
     a = AVX /\ d.inp = "F32",
     a = AVX /\ d.inp = "F64",
     a = AVX2 /\ d.inp = "F32",
     a = AVX2 /\ d.inp = "F64",
     a \in {AVX512_MIC, AVX512_KNM} /\ d.inp = "F32",
     a \in {AVX512_MIC, AVX512_KNM} /\ d.inp = "F64",
     d.inp = "BF16" /\ ~d.vnniA,
     a > AVX2 /\ a <= VL256 /\ d.inp \in {"I8", "I16"},
     a >= AVX512 /\ a <= AVX512_CORE /\ d.inp \in {"I8", "I16"},
     VL256Family(a) /\ OutIsWide(d),
     VL256Family(a) /\ d.inp = "F64",
     a <= ALLFEAT /\ OutIsWide(d),
     a <= ALLFEAT /\ d.inp = "F64" >>

MBranch(a, d) == SelectInSeq(MBranchGuards(a, d), LAMBDA holds : holds)

(***************************************************************************)
(* Branches 1-6 (SSE, AVX, AVX2 with F32/F64) walk a fixed descending      *)
(* ladder; the step to HalfSize switches to the half-vector configuration, *)
(* the step to 1 to the scalar one.                                        *)
(***************************************************************************)
Ladder ==
  << <<16, 12, 8, 4, 1>>,
     <<8, 6, 4, 2, 1>>,
     <<24, 16, 8, 4, 1>>,
     <<12, 8, 4, 2, 1>>,
     <<32, 24, 16, 8, 4, 1>>,
     <<16, 12, 8, 4, 2, 1>> >>

HalfSize == <<0, 0, 4, 2, 4, 2>>

(***************************************************************************)
(* Branches 7-15 block by a full tile of size s, or by m itself when m < s;*)
(* masking is switched on when the block is not a multiple of q.           *)
(***************************************************************************)
MaskedTile ==
  << [s |-> 16, q |-> 16], [s |-> 8, q |-> 8], [s |-> 16, q |-> 16],
     [s |-> 8, q |-> 8], [s |-> 16, q |-> 16], [s |-> 64, q |-> 8],
     [s |-> 16, q |-> 4], [s |-> 64, q |-> 16], [s |-> 32, q |-> 8] >>

(***************************************************************************)
(* get_initial_m_blocking: the first M block and the configuration it      *)
(* re-initialises (always full-vector, with the masking flag).             *)
(***************************************************************************)
InitialMBlocking(a, d) ==
  LET b == MBranch(a, d)
  IN  IF b \in 1 .. 6
      THEN [mb |-> Ladder[b][1], cfg |-> FullCfg(FALSE)]
      ELSE IF b \in 7 .. 15
      THEN LET t == MaskedTile[b - 6]
           IN  IF d.m >= t.s
               THEN [mb |-> t.s, cfg |-> FullCfg(FALSE)]
               ELSE [mb |-> d.m, cfg |-> FullCfg(d.m % t.q # 0)]
      ELSE [mb |-> 0, cfg |-> FullCfg(FALSE)]

\* Fault model for lines 1041-1244: the block size returned unchanged.
UpdateMBlockingStuck(a, d, cur, cfg) == [mb |-> cur, cfg |-> cfg]

(***************************************************************************)
(* update_m_blocking: the next smaller M block after cur, 0 when the sweep *)
(* is done, and the configuration afterwards (left alone unless a branch   *)
(* re-initialises it).                                                     *)
(***************************************************************************)
UpdateMBlocking(a, d, cur, cfg) ==
  LET b == MBranch(a, d)
  IN  IF b \in 1 .. 6
      THEN LET L == Ladder[b]
           IN  IF \E i \in 1 .. (Len(L) - 1) : L[i] = cur
               THEN LET i    == CHOOSE i \in 1 .. (Len(L) - 1) : L[i] = cur
                        next == L[i + 1]
                    IN  [mb  |-> next,
                         cfg |-> IF next = 1 THEN [kind |-> "scalar", masking |-> FALSE]
                                 ELSE IF next = HalfSize[b]
                                 THEN [kind |-> "half", masking |-> FALSE]
                                 ELSE cfg]
               ELSE [mb |-> 0, cfg |-> cfg]
      ELSE IF b \in 7 .. 15
      THEN LET t == MaskedTile[b - 6]
           IN  IF cur = t.s
               THEN [mb |-> d.m % t.s, cfg |-> FullCfg((d.m % t.s) % t.q # 0)]
               ELSE [mb |-> 0, cfg |-> cfg]
      ELSE [mb |-> 0, cfg |-> cfg]

(***************************************************************************)
(* get_max_n_blocking: the widest N block the tier allows, 0 outside the   *)
(* x86 tiers the generator has a path for.                                 *)
(***************************************************************************)
MaxNBlocking(a, d) ==
  IF a >= X86_GENERIC /\ a < VL256 THEN 3
  ELSE IF a >= VL256 /\ a < AVX512 THEN
    IF \/ a = VL256_CPX /\ d.inp = "BF16"
       \/ d.inp \in {"I8", "I16"}
       \/ ~d.vnniA /\ d.inp = "BF16"
    THEN 28 ELSE 30
  ELSE IF a >= AVX512 /\ a <= ALLFEAT THEN
    IF \/ a = AVX512_KNM /\ d.inp \in {"F32", "I16"}
       \/ a = AVX512_CORE /\ d.inp = "I16"
       \/ d.inp = "I8"
       \/ a < AVX512_CPX /\ d.inp = "BF16" /\ a # VL256_CPX
       \/ ~d.vnniA /\ d.inp = "BF16"
    THEN 28 ELSE 30
  ELSE 0

(***************************************************************************)
(* The register-budget loop of the driver: when the limit exceeds 3, it is *)
(* lowered until mblocks accumulator columns plus operand registers fit    *)
(* the register file.  VL256 tiers count n broadcast registers, the other  *)
(* tiers mblocks A registers; both count one more.                         *)
(***************************************************************************)
RegistersNeeded(a, mblocks, nb) ==
  IF VL256Family(a) THEN mblocks * nb + nb + 1 ELSE mblocks * nb + mblocks + 1

\* The while loop lowering x until the tile fits (x stays above 0 for every
\* tier: a tile of at most 64 rows never needs 32 A registers).
RECURSIVE LowerUntilFits(_, _, _)
LowerUntilFits(a, mblocks, x) ==
  IF RegistersNeeded(a, mblocks, x) > VectorRegCount(a) /\ x > 0
  THEN LowerUntilFits(a, mblocks, x - 1)
  ELSE x

FitNBlocking(a, d, maxn, initmb, cfg) ==
  IF 3 < maxn
  THEN LowerUntilFits(a, CeilDiv(initmb, VectorLength(a, d, cfg)), maxn)
  ELSE maxn

(***************************************************************************)
(* libxsmm_compute_equalized_blocking (generator_common.c): split size    *)
(* into chunks of at most max, N1 columns in blocks of n1 and N2 columns   *)
(* in blocks of n2 = n1 - 1.                                               *)
\* Fault model for the equalizer: the remainder blocks given the size n1.
EqualizedBlockingN2AtN1(size, max) ==
  LET sz     == IF size > 1 THEN size ELSE 1
      chunks == ((sz - 1) \div max) + 1
      n2     == sz \div chunks
      n1     == IF n2 + 1 > max THEN max ELSE n2 + 1
  IN  IF sz % chunks = 0
      THEN [N1 |-> chunks * n2, n1 |-> n2, N2 |-> 0, n2 |-> 0]
      ELSE [N1 |-> (sz % chunks) * n1, n1 |-> n1, N2 |-> (chunks - (sz % chunks)) * n2, n2 |-> n1]

(***************************************************************************)
EqualizedBlocking(size, max) ==
  LET sz     == IF size > 1 THEN size ELSE 1
      chunks == ((sz - 1) \div max) + 1
      modulo == sz % chunks
      n2     == sz \div chunks
      n1     == IF n2 + 1 > max THEN max ELSE n2 + 1
  IN  IF modulo = 0
      THEN [N1 |-> chunks * n2, n1 |-> n2, N2 |-> 0, n2 |-> 0]
      ELSE [N1 |-> modulo * n1, n1 |-> n1, N2 |-> (chunks - modulo) * n2, n2 |-> n2]

(***************************************************************************)
(* K loop (libxsmm_generator_gemm_sse_avx_avx2_avx512_kloop).              *)
(***************************************************************************)
MVectors(a, d, cfg, mb) == CeilDiv(mb, VectorLength(a, d, cfg))

KBlocking(a, mvec) ==
  IF a >= VL256 /\ a <= AVX512_KNM /\ mvec = 1
  THEN [unroll |-> 16, threshold |-> 47]
  ELSE [unroll |-> 4, threshold |-> 23]

\* A micro-kernel generator exists for the tier.
MicroKernelAvailable(a) ==
  /\ a >= X86_GENERIC
  /\ \/ a <= SSE42 \/ a = AVX \/ a = AVX2
     \/ a >= VL256 /\ a <= ALLFEAT

\* Which of the three strategies the K loop takes, in the code's precedence.
KStrategy(k, kb) ==
  IF k % kb.unroll = 0 /\ kb.threshold < k THEN "blocked"
  ELSE IF k <= kb.threshold THEN "unrolled"
  ELSE "blocked_remainder"

\* The largest multiple of the unroll factor below k (strategy 3).
MaxBlockedK(k, kb) == (k \div kb.unroll) * kb.unroll
=============================================================================
