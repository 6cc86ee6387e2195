# TLA+ models of the libxsmm x86 GEMM JIT generator

This directory models the JIT generator of dense matrix-multiplication
kernels in `src/src/generator_gemm_sse_avx_avx2_avx512.c`. It also models
the DNN weight-update template and two sample programs that drive JIT-ed
kernels and check them against a reference. It checks the models with TLC.

## The system

The generator is a single-threaded and deterministic function. Its input
is a GEMM descriptor: the sizes m, n and k, the input and output datatypes,
and flags for VNNI layouts, transposed A, batch-reduce mode, prefetch,
extended ABI, eltwise fusion and tile configuration. It also takes a target
architecture tier. Its output is a buffer of x86 code, or an error code.

| Part | Code | What it does |
|---|---|---|
| Kernel wrapper | `kernel_wrapper`, lines 26-107 | Maps argument roles (A, B, C, prefetch, reduce count, offsets) to registers. Resets the loop label tracker. Opens and closes the stream. |
| Kernel driver | `kernel`, lines 109-748 | Validates the descriptor. Plans the N blocking and fits it to the register budget. Emits the prologue stack frame and an optional on-the-fly transpose of A. Emits the N loop, then the M sweep inside it. The M sweep has ladder steps and masked remainders. For each tile it emits the batch-reduce entry, the K loop and the reduce exit. Finally it emits the VNNI store and the teardown. |
| Blocking planner | `get_initial_m_blocking`, `update_m_blocking`, `get_max_n_blocking`, lines 900-1294 | Chooses the M ladder per tier and datatype, the masking, and the maximum N block. |
| K loop | `kloop`, lines 750-899 | Chooses the K blocking, the micro-kernel, and a fully unrolled or blocked K loop with a remainder. |
| DNN fully-connected weight update | `template/libxsmm_dnn_fullyconnected_st_upd_custom_generic.tpl.c` | Run by every thread of a team. Each thread takes a chunk of the (ofm, ifm) block items, zeroes each item's filter block, accumulates one product per image into it, and waits at a barrier. |
| Packed sparse-GEMM sample | `samples/edge/bsparse_packed_csc.c` | Reads a sparse B in CSC form and checks its shape. Copies B into a dense buffer and runs a dense reference. Runs the JIT-ed CSC kernel and prints the largest difference between the two. |
| Split-SGD sample | `samples/equation/equation_splitSGD.c` | Splits fp32 weights into bf16 lo/hi halves. Runs a JIT-ed matrix equation that applies an SGD step to them, and a C reference that does the same. Compares the two results, repacked to fp32, with `libxsmm_matdiff`. |
| Loop label tracker, code buffer, micro-kernel configuration, instruction encoders | outside `src/` | Modelled from `spec.md` where the driver depends on them. |

How the parts interact: the driver calls the planner at each M step, which
rewrites the micro-kernel configuration. The driver and the K loop push loop
labels on the tracker, and the footers pop them. Pushes and pops of A/B and
of the frame must balance on every path, because the emitted code runs with
that stack.

## Modules

| Module | Models | State and actions |
|---|---|---|
| `GemmBlocking` | The blocking planner and the K blocking, as pure operators of (tier, descriptor). | `MBranch` picks the first of the 15 guarded branches of `get_initial_m_blocking`. `UpdateMBlocking` is the ladder step with its masked remainder. `MaxNBlocking` is `get_max_n_blocking`. `FitNBlocking`/`LowerUntilFits` (RECURSIVE) is the register-budget loop. `EqualizedBlocking` is `libxsmm_compute_equalized_blocking`. `KStrategy` is the choice of the K loop. |
| `LoopLabelTracker` | The code buffer and the tracker (from the spec). | The code is a sequence of events: label, jmp (target, stack depth), push, pop, mask, tile. `EmitAll` folds intents into the buffer. |
| `GemmKernel` | The driver and the K loop. | Variables: `pc`, `err`, the emitter `em`, the N-loop state (`nDone`, `nCount`, `nStart`, `nBlk`) and the M-sweep state (`mDone`, `mBlk`, `cfg`). Each early return is its own action: `TileConfigReturn`, `RejectTransADatatype`, `BlockN`, `RejectFusionArch`, `Prologue` (which includes ILLEGAL_ABI). The code's phases are also actions: `TransposeA`, `OpenBody`, `OpenN`, `MStep` (a whole M-sweep iteration, including the K loop of the tile), `CloseN` and `Finish`. |
| `MCGemmKernel` | TLC instances. | The sets of tiers and descriptors. |
| `GemmRegMapping` | The register role mapping of `kernel_wrapper` (lines 26-98) and the struct-ABI prologue that loads the roles from the parameter block (lines 214-253, 453-462), run on symbolic register contents. | `RegMapping(c)` composes the Linux, batch-reduce and common assignments with `@@`, so the later code assignment wins. `Prologue(c)` is the instruction list. Variables: the configuration `x`, the registers `regs`, the `pc` and `err`. `Execute` runs one instruction: a load through the block pointer yields the slot's offset, and a load through the count pointer yields `Count`. |
| `MCGemmRegMapping` | TLC instances. | The configuration sets: all mapped variants, OFFSET with prefetch, and I8 ADDRESS/STRIDE with prefetch. |
| `BatchReduceAbstract` | What a batch-reduce loop promises (spec sections 4.4 and 8). | `Consume` runs the K loop on the next pair of the batch. `Close` makes the result the caller's expected state: the A/B registers, the pointer arrays and the stack depth. |
| `BatchReduceLoop` | The code emitted around one tile for the three batch-reduce modes: the entry (lines 531-621), the K-loop call (622-623) and the exit (626-713). It runs on a machine with registers, a stack and memory holding the pointer and offset arrays. | One action per instruction class: `ExecPush`, `ExecPop`, `ExecLoad`, `ExecStore`, `ExecAlu`, `OpenLoop`, `CloseLoop` (the do-while footer) and `RunKLoop`. `RunKLoop` records the (A, B) pair used and advances A, B and A-prefetch by the K drift, as the micro-kernel does. The header and footer of the reduce loop are outside `src/`, so they are modelled from the spec. |
| `FcWeightUpdate` | The weight-update template, one process per thread. | `pc`, `item`, `img` and `tmp` are per thread. `filter` maps each flat block to a bag of product terms, so a product added twice or lost shows. `ran` is a history of the items each thread finished. Actions: `Start` (chunk bounds, lines 41-65), `ZeroBlock`, `LoadAcc` and `StoreAcc` (the += of line 80, as a load and a store), and `BarrierWait` (line 87). The inner ifm2/ofm2 loops touch every element of a block alike, so a block is the unit. |
| `MCFcWeightUpdate` | TLC instances. | The layer shapes. |
| `CscSpmmSample` | The packed sparse-GEMM sample `samples/edge/bsparse_packed_csc.c`. | Each phase of `main` is an action: `Validate` (the argument, shape and allocation checks, lines 59-84), `TouchAC`, `ReadCsc` (a failed read breaks out), `ZeroDense`, `CopyColumn` (one CSC column into `l_b_de`), `DenseProduct` (REPS times), `SparseKernel`, `Compare` and `Free`. A column of C is a bag of products `<<jj, v>>`. The rows and the N_CRUNS lanes are alike. The CSC reader and the JIT-ed kernel are library code: the reader yields the file's matrix, and the kernel adds A times it. |
| `MCCscSpmmSample` | TLC instances. | The file shapes. |
| `SplitSgdSample` | The split-SGD sample. | A buffer maps each of its N·ld cells to `Undef` (not written since `libxsmm_aligned_malloc`) or to the number of SGD updates the cell has had. Each lo/hi pair is one buffer, because the code always writes both halves at the same cells. Actions: `InitOperands` (lines 98-113: fill, `reference_unpack`, the whole-buffer `memcpy`), `Dispatch` (which may return NULL), `CallEquation` (the unchecked call: a NULL kernel crashes), `Reference` (`reference_equation` and both `reference_pack` calls) and `Compare` (`libxsmm_matdiff` over ld·N elements). The equation kernel is library code: it updates the M×N cells once. |
| `MCSplitSgdSample` | TLC instances. | The defaults scaled down to 2, and the invocation sets. |

An action emits everything its code emits before the next decision point.
For example, `MStep` emits the mask, the reduce entry, the K loop, the
stores and the reduce exit. It then applies `update_m_blocking`, as the
code does.

## Runs

| Run | Checks | Bounds | Result |
|---|---|---|---|
| tiles | `TypeOK`. `ProductCoveredOnce`: the tiles of C are disjoint and cover M×N; each tile's extent is a multiple of its blocking; each tile runs all k steps. `LoopBranchesMatch`: every backward branch targets a label of its own loop, at the same stack depth. `StackRestoredAtReturn`: a successful kernel ends at depth 0. `ArchErrorPrecedesAbiError`. `SweepProgresses`: until the call returns, the M step never stalls, and every step moves the driver forward in a bounded lexicographic order (phase, N blocks opened, N block closed, m_done, M block descended). Checked with deadlock detection, this means every generation call returns. | The 8 tiers from SSE3 to AVX512_CPX, each with every descriptor of three families. Floating point: m ∈ {9,24,56}, n ∈ {7,10}, k ∈ {20,50,56}, F32 and F64. Low precision: BF16, I8 and I16 with m ∈ {24,40}, n ∈ {10,31}, k ∈ {20,48}, with and without VNNI-A. Conventions: m = 24, n = 10, k = 20 with all 4 batch-reduce modes × transA × extAbi × vnniC × eltwOps × tileconfig × prefetch × 4 datatype pairs. | pass |
| roles | `LiveRolesDistinct`: every live role of the mapping has a register of its own, and none is UNDEF. `StructArgumentsLoaded`: after the struct prologue, every live role holds its slot (the trip count for `reduce_count`), and `help_1` still holds the block pointer. | Linux × {plain, xgemm, ext} × 4 batch-reduce modes × prefetch × I8, except the combinations listed below. Also Windows without batch-reduce and without I8. | pass |
| brmodes | `ImplementsBatchReduce`: the loop refines `BatchReduceAbstract` through the mapping below, including its `WF` liveness. | ADDRESS, ADDRESS with A-prefetch, OFFSET, STRIDE. Trip counts 1-3. Strides 7 and 11. Distinct non-zero K drifts for A, B and A-prefetch. | pass |
| offsetpf | `StructArgumentsLoaded` in OFFSET mode with prefetch. | Linux, xgemm ABI. | violation (finding) |
| i8undef | `PrologueRegistersMapped` for I8 ADDRESS/STRIDE with prefetch. | Linux, xgemm ABI. | violation (finding) |
| fcshares | `WorkDoneAtBarrier`: no item is run by two threads, and once any thread has left the barrier every item has been run. `AllThreadsFinish`: every thread passes the barrier, under WF per thread. | 4 threads, 2×3 blocks, 2 images: a chunk of 2 and one idle thread. | pass |
| fcgradient | `FilterGradientComputed`: after the barrier each block (ofm1, ifm1) holds each image's product exactly once. | 1 thread, 2×3 blocks, 2 images: the whole item range in one chunk, so the result depends on the item decoding alone. | violation (finding) |
| cscsample | `DenseWritesInBounds`: the dense copy writes only inside `l_b_de`. `ReferenceMatchesKernel`: when `main` returns success, C_gold equals what the CSC kernel computes, so the printed max error is 0. | Every CSC pattern of a 2×3 and a 3×2 matrix without repeated entries. K, N ∈ {2,3}, so the arguments match the file, are transposed, or mismatch. M ∈ {8,9}, REPS ∈ {1,2}, plus the defaults of argc ≠ 7. Allocation and read failures. | pass |
| splitsgd | `ComparesOnlyComputedCells`: every element `libxsmm_matdiff` reads was written by both `reference_pack` calls, and the equation and the reference agree on it. | Every argc from 1 to 4 with ld = M: M, N, ld ∈ {1,2,3}, defaults 2. Dispatch failures. | pass |
| splitsgdpadded | `ComparesOnlyComputedCells` with ld > M. | Every argc from 1 to 4 with ld ≥ M: M, N ∈ {1,2}, ld ∈ {2,3}, defaults 2. | violation (finding) |
| bf16mask | `MaskedTailHasLanes` | VL256 and AVX512_CORE, BF16 with m = 24. | violation (finding) |
| unknownarch | `UnknownArchReportedAsArch` | Tiers below GENERIC and above ALLFEAT. | violation (finding) |

**Why the bounds are enough.** The planner branches on the tier, the
datatype, and m, n and k against fixed thresholds.

- **m:** m = 9 gives a remainder below one vector. m = 24 and m = 40 give a ladder and a masked remainder. m = 56 is the AVX2/F64 special case.
- **n:** n = 7 is the shortcut. n = 10 is one block. n = 31 gives two equalized blocks of unequal size.
- **k:** k = 20, 50 and 56 fall on both sides of the unroll and blocking thresholds, including a non-multiple of the K block.

Larger values repeat the same branches. The calling-convention family is enumerated on every tier.

For `CscSpmmSample`, the two shapes are transposes of each other and K ≠ N, so a row-major/column-major mix-up, or a shape check that misses one dimension, lands on a wrong or out-of-range cell. All patterns are enumerated, including empty columns and a full matrix. REPS = 2 shows an accumulation counted the wrong number of times.

For `SplitSgdSample`, what matters is how ld relates to M, and whether M ≠ N, so that a loop bounded by the wrong one of them shows. With M, N ∈ {1,2,3} and ld = M, every such case occurs. The scaled defaults keep the code's M = N = ld.

For `BatchReduceLoop`, the trip counts 1-3 cover several cases:

- a single iteration;
- the first and the last iteration being different;
- an inner iteration, where a wrong index or a pop of the wrong slot shows.

The strides, offsets and drifts are distinct and non-zero, so no two wrong results coincide with the right one.

**Refinement.** `BatchReduceLoop` maps its state to the abstract module as follows:

- `todo` is the rest of `Batch(mode, cnt)` after the pairs used so far;
- `used` maps to itself;
- `result` is `NoResult` while code remains, and the observed registers, arrays and stack depth after it;
- `goal` is the expected state from `Goal(mode, cnt)`.

Every instruction except the K-loop call and the final one is a stuttering step.

**Fairness and termination.** The generator is sequential code that always
proceeds. Its termination is checked as a safety property: `SweepProgresses`
together with deadlock detection. `Spec` still states `WF` on `Next`. A
temporal check of termination under it did not finish within 5 minutes on the
`tiles` instance, and neither did an `ENABLED` invariant. The safety form of
the check takes 8 seconds. The same holds for the
emitted code in `BatchReduceLoop`, which is straight-line code and one loop.
The template's threads are OS threads of an OpenMP-style team. Each thread that
can run eventually runs, so `FcWeightUpdate` has `WF` per thread.

## Findings

- **bf16mask (code bug).** For BF16 without VNNI-A, the planner decides masking modulo 16 on every tier. The VL256 tier holds 8 F32 lanes, so an 8-row remainder is flagged as masked. Line 518 then computes `mask_count = 8 - 0`, which gives a mask that enables no lane. This depends on the vector length of the micro-kernel configuration, which is taken from the spec.
- **unknownarch (divergence from the spec).** The spec says an out-of-range tier is an architecture error. The code reports `ERR_N_BLOCK` (line 203), and the `ERR_ARCH` branches of the K loop are unreachable.
- **offsetpf (code bug, line 78).**
  - In OFFSET mode the prefetch registers keep their Linux defaults: RCX/R8, or R8/R9 for I8. These are also `reduce_count` and `a_offset`.
  - With prefetch, the prologue loads A_pf into RCX. It then overwrites RCX with the count pointer. After the count dereference, `a_prefetch` holds the trip count.
- **i8undef (code bug, line 66).** For I8 ADDRESS/STRIDE, `gp_reg_b_prefetch` is UNDEF. With prefetch, the prologue still emits a load of slot 88 into it.
- **fcgradient (code bug, template line 66).**
  - Line 66 assigns `ofm2` where the decoding of the item needs `ofm1`. The inner loop then overwrites `ofm2`, and `ofm1` stays 0. Line 67 divides by `nBlocksIFm`.
  - Every item therefore writes a block of row 0, and the rows `ofm1 > 0` are never computed.
  - Items with the same quotient share a block, and the later item re-zeroes what the earlier one computed.
  - TLC finds the violation with a single thread, so it does not depend on the schedule. When two such items fall in different threads' chunks, the bug also creates a race: an unsynchronised += on one block (template line 80). No run isolates that race, because this property fails on every schedule anyway.

- **splitsgdpadded (code bug, line 146).** `libxsmm_matdiff` compares ld·N elements, but only the M rows of each column are written. Whenever ld > M it reads uninitialised memory. This includes `equation_splitSGD 32 32`, where ld keeps its default of 64. The printed norms then depend on garbage.

## Not modelled, and the plan

- **The Windows mapping with batch-reduce or I8.** The code marks it as a TODO, and the `roles` run leaves it out.
- **The emitter's behaviour on an UNDEF operand.** It is outside `src/`. `PrologueRegistersMapped` checks that the emitter is never asked to encode one.
- **A batch-reduce trip count of 0.** The reduce loop header and footer are outside `src/`. The spec does not say whether 0 is a legal count. The do-while model would run the K loop once on the first pair, and in STRIDE mode leave A and B one stride off. `brmodes` therefore checks counts of 1 and up.
- **Hazards 180 and 273 (see PROJECT.json).** 180 depends on the micro-kernel's register need, which is outside `src/`. 273 leaves partial code in a buffer that the spec says the caller discards.
- **A reference check of `EqualizedBlocking`** against the specification of a balanced partition, over bounded n and limits.
- **The element level of the template.** A filter block is the unit of `FcWeightUpdate`. The SIMD ofm2 loop and the order of element stores within a block are abstracted away.
- **`libxsmm_barrier_init`/`libxsmm_barrier_wait`.** They live outside `src/`. They are modelled as a barrier that releases once every thread has arrived.
- **The float arithmetic of the split-SGD sample.** A weight is abstracted to the number of updates it has had. Rounding differences between the kernel's fused multiply-add and the reference are not modelled.
- **Split-SGD invocations with ld < M.** Nothing in the sample rejects them. The reference loops then visit overlapping cells, and the last column writes past the buffers. What the equation kernel does there is library code, so the runs keep ld ≥ M. The crash of an unchecked NULL dispatch is modelled, but no run treats it as a violation. Both are hazards in PROJECT.json.
- **The Eigen sample.** Its body is compiled out unless the build defines `__EIGEN_UNSUPPORTED` (line 28 ends in `&& 0`). As shipped, `main` throws at line 66 and returns failure.
- **The AArch64 header.** It holds prototypes and constants, with no behaviour.
- **A CSC file with a repeated entry, or one that changes between the sample's two reads of it.** The reader is outside `src/`. Both are listed as hazards without a property.
- **Instruction encoding.** Out of scope: it is pure I/O and formatting.
