----------------------------- MODULE GemmKernel -----------------------------
(***************************************************************************)
(* The kernel driver libxsmm_generator_gemm_sse_avx_avx2_avx512_kernel     *)
(* (src/src/generator_gemm_sse_avx_avx2_avx512.c, lines 109-748) with the  *)
(* K loop it calls (lines 750-899).  One behaviour is one generation call  *)
(* for one descriptor d on one architecture tier arch: the state is the    *)
(* driver's locals, the error code and the emitter (code buffer, loop      *)
(* label tracker, run-time stack depth).  The actions are the stretches    *)
(* of the function between its loop boundaries, in program order.         *)
(***************************************************************************)
EXTENDS Integers, Sequences, GemmBlocking, LoopLabelTracker

CONSTANTS
  Archs,        \* architecture tiers a generation may target
  Descs         \* descriptors a generation may be asked for

Descriptor ==
  [m : Nat \ {0}, n : Nat \ {0}, k : Nat \ {0},
   inp : {"F32", "F64", "BF16", "I16", "I8"},
   out : {"F32", "F64", "BF16", "I32", "I8"},
   vnniA : BOOLEAN, vnniC : BOOLEAN, transA : BOOLEAN,
   br : {"none", "address", "offset", "stride"},
   prefetch : {"NONE", "AL2", "BL2_VIA_C"},
   extAbi : BOOLEAN, eltwOps : BOOLEAN,
   noResetTc : BOOLEAN, noSetupTc : BOOLEAN]

ASSUME Archs \subseteq ArchTiers
ASSUME Descs \subseteq Descriptor

Errors == {"ERR_UNSUP_DATATYPE", "ERR_N_BLOCK", "ERR_UNSUP_ARCH",
           "ERR_ILLEGAL_ABI", "ERR_M_BLOCK", "ERR_ARCH"}

VARIABLES
  arch, d,        \* the target tier and the descriptor (fixed per call)
  pc,             \* where the driver is
  err,            \* last_error of the generated code object ("none" if unset)
  em,             \* emitter: code buffer, label tracker, stack depth
  nblk,           \* l_n_N / l_n_n: equalized N blocking
  nDone, nCount,  \* l_n_done, l_n_count
  nStart, nBlk,   \* first column and block size of the open N loop
  mDone, mBlk,    \* l_m_done, l_m_blocking
  cfg             \* l_micro_kernel_config (kind and masking)

vars == <<arch, d, pc, err, em, nblk, nDone, nCount, nStart, nBlk, mDone, mBlk, cfg>>

(***************************************************************************)
(* Conditions the driver tests, each named after the code it reads.        *)
(***************************************************************************)
\* Lines 138-141: exactly one of NO_RESET_TILECONFIG / NO_SETUP_TILECONFIG.
TileConfigOnly(x) == x.noResetTc # x.noSetupTc

\* Lines 153-171: A can be transposed on the fly only for uniform F32/F64.
TransADatatypeOk(x) == Uniform(x, "F32") \/ Uniform(x, "F64")

\* Line 180: the fixed 7-column blocking of AVX512_CORE and later.
SevenColumnShortcut(a, x) == x.n = 7 /\ a >= AVX512_CORE /\ a <= ALLFEAT

\* Lines 255-256: a stack frame is set up for the extended ABI or VNNI C.
SetupFrameCond(x) == x.extAbi \/ VnniFormatC(x)

\* Fault model for line 258: the fusion check one tier too low.
FusionArchRejectedBelowSse3(a, x) == a < SSE3 /\ x.eltwOps

\* Lines 258-262: fusion is refused below AVX when any eltwise op is set.
FusionArchRejected(a, x) == a < AVX /\ x.eltwOps

\* Lines 269-276: the extended ABI needs BF16 or F32 input.
ExtAbiDatatypeRejected(x) == x.extAbi /\ x.inp \notin {"BF16", "F32"}

\* Lines 441-446: the hoisted BF16 emulation mask.
HoistBf16Mask(a, x) ==
  /\ x.inp = "BF16" /\ x.vnniA
  /\ a # AVX512_CPX /\ a >= VL256 /\ a <= ALLFEAT /\ a # VL256_CPX

\* Lines 143-149: batch-reduce by address re-points the A prefetch pointer.
AdjustAPf(x) == x.br = "address" /\ x.prefetch \in {"AL2", "BL2_VIA_C"}

\* Line 122: adjust_B_pf_ptrs is never set.
AdjustBPf(x) == FALSE

\* Fault model for lines 489-511: the M boundary rounded up, not down.
NextMDoneRoundUp(a, x, done, mb) == done + CeilDiv(x.m - done, mb) * mb

\* Lines 489-511: the next M boundary, with the SeisSol AVX2/F64 m=56 case.
NextMDone(a, x, done, mb) ==
  IF done = 0 /\ a = AVX2 /\ x.inp = "F64" /\ x.m = 56
  THEN 32
  ELSE done + ((x.m - done) \div mb) * mb

\* Fault model for line 730: the frame torn down for the extended ABI only.
DestroyFrameExtAbiOnly(x) == x.extAbi

\* Lines 730-747: the frame is destroyed under the same condition as set up.
DestroyFrameCond(x) == x.extAbi \/ VnniFormatC(x)

(***************************************************************************)
(* Code emitted by the driver, as intents for the emitter and tracker.     *)
(***************************************************************************)
\* Lines 514-526: AVX-512 mask for a tile whose block is not full vectors.
MaskIntents(a, x, c, mb) ==
  IF c.masking /\ a >= VL256 /\ a <= ALLFEAT
  THEN LET vlen  == VectorLength(a, x, c)
           count == vlen - (mb % vlen)
           m1    == Mask(vlen - count)
       IN  IF Uniform(x, "BF16") \/ Uniform(x, "I8") THEN <<m1, m1, m1>> ELSE <<m1>>
  ELSE <<>>

\* Fault model for lines 537-539: the address-mode loop saves A but not B.
ReduceEntryNoBSave(x) ==
  (IF x.br \in {"offset", "stride"} THEN <<Push("b"), Push("a")>> ELSE <<>>)
  \o <<Hdr("reduce")>>
  \o (IF x.br = "address" THEN <<Push("a")>>
      ELSE <<Pop("a"), Pop("b"), Push("b"), Push("a")>>)

\* Lines 531-621: saving and re-pointing A and B at the top of the reduce loop.
ReduceEntry(x) ==
  (IF x.br \in {"offset", "stride"} THEN <<Push("b"), Push("a")>> ELSE <<>>)
  \o <<Hdr("reduce")>>
  \o (IF x.br = "address"
      THEN <<Push("a"), Push("b")>>
           \o (IF AdjustAPf(x) THEN <<Push("a_pf")>> ELSE <<>>)
           \o (IF AdjustBPf(x) THEN <<Push("b_pf")>> ELSE <<>>)
      ELSE <<Pop("a"), Pop("b"), Push("b"), Push("a")>>)

\* Lines 626-713: restoring the array bases / pointers around the footer.
ReduceExit(x) ==
  (IF x.br = "address"
   THEN (IF AdjustBPf(x) THEN <<Pop("help0")>> ELSE <<>>)
        \o (IF AdjustAPf(x) THEN <<Pop("help0")>> ELSE <<>>)
        \o <<Pop("help0"), Pop("help0")>>
   ELSE <<>>)
  \o <<Ftr("reduce")>>
  \o (IF x.br \in {"offset", "stride"} THEN <<Pop("help0"), Pop("help0")>> ELSE <<>>)

\* Lines 801-898: the K loop emitted for one tile.
KLoopIntents(a, x, c, mb) ==
  LET kb == KBlocking(a, MVectors(a, x, c, mb))
      s  == KStrategy(x.k, kb)
  IN  IF \/ s = "blocked"
         \/ s = "blocked_remainder" /\ MaxBlockedK(x.k, kb) > 0
      THEN <<Hdr("k"), Ftr("k")>>
      ELSE <<>>

\* Fault model for lines 886-898: strategy 3 without its remainder steps.
KStepsNoRemainder(a, x, c, mb) ==
  LET kb == KBlocking(a, MVectors(a, x, c, mb))
  IN  IF KStrategy(x.k, kb) = "unrolled" THEN x.k ELSE MaxBlockedK(x.k, kb)

\* Lines 801-886: how many K steps the emitted code performs at run time.
KSteps(a, x, c, mb) ==
  LET kb == KBlocking(a, MVectors(a, x, c, mb))
      s  == KStrategy(x.k, kb)
  IN  CASE s = "blocked"  -> kb.unroll * (x.k \div kb.unroll)
        [] s = "unrolled" -> x.k
        [] s = "blocked_remainder" ->
             LET mk == MaxBlockedK(x.k, kb)
             IN  kb.unroll * (mk \div kb.unroll) + (x.k - mk)

\* Lines 513-717: one M block of the sweep, from mask setup to footer.
TileIntents(a, x, c, m0, m1, mb, n0, n1, nb) ==
  LET mvec == MVectors(a, x, c, mb)
      tile == [m0 |-> m0, m1 |-> m1, mb |-> mb, n0 |-> n0, n1 |-> n1, nb |-> nb,
               ksteps |-> KSteps(a, x, c, mb),
               regs |-> RegistersNeeded(a, mvec, nb)]
      br   == x.br # "none"
  IN  MaskIntents(a, x, c, mb)
      \o <<Hdr("m")>>
      \o (IF br THEN ReduceEntry(x) ELSE <<>>)
      \o KLoopIntents(a, x, c, mb)
      \o (IF br THEN ReduceExit(x) ELSE <<>>)
      \o <<TileOp(tile), Ftr("m")>>

\* Lines 302-432: stack buffer, register saves and the transpose kernel.
TransposeIntents(x) ==
  (IF ~x.extAbi THEN <<Push("align"), Push("transbuf")>> ELSE <<>>)
  \o <<Push("rdx"), Push("rcx"), Push("rdi"), Push("r8"), Push("r9")>>
  \o <<Hdr("trans_n"), Hdr("trans_m"), Ftr("trans_m"), Ftr("trans_n")>>
  \o <<Pop("r9"), Pop("r8"), Pop("rdi"), Pop("rcx"), Pop("rdx")>>

\* Lines 725-747: VNNI repacking and stack teardown.
FinishIntents(x) ==
  (IF VnniFormatC(x) THEN <<Hdr("vnni"), Ftr("vnni")>> ELSE <<>>)
  \o (IF DestroyFrameCond(x) THEN <<Pop("frame")>>
      ELSE IF x.transA THEN <<Pop("transbuf"), Pop("align")>>
      ELSE <<>>)

(***************************************************************************)
(* Actions.                                                                *)
(***************************************************************************)
Fail(e) == /\ err' = e
           /\ pc' = "done"

\* Lines 180-201: the N block limit, after the register-budget loop.
NBlockLimit(a, x) ==
  IF SevenColumnShortcut(a, x) THEN 7
  ELSE LET init == InitialMBlocking(a, x)
       IN  FitNBlocking(a, x, MaxNBlocking(a, x), init.mb, init.cfg)

\* Lines 136-141: only one of the two tileconfig flags: return, no code.
TileConfigReturn ==
  /\ pc = "start"
  /\ TileConfigOnly(d)
  /\ pc' = "done"
  /\ UNCHANGED <<arch, d, err, em, nblk, nDone, nCount, nStart, nBlk, mDone, mBlk, cfg>>

\* Lines 151-174: transposing A is refused for other than F32/F64.
RejectTransADatatype ==
  /\ pc = "start"
  /\ ~TileConfigOnly(d)
  /\ d.transA /\ ~TransADatatypeOk(d)
  /\ Fail("ERR_UNSUP_DATATYPE")
  /\ UNCHANGED <<arch, d, em, nblk, nDone, nCount, nStart, nBlk, mDone, mBlk, cfg>>

\* The N blocking of every tier and descriptor of the model, as a table
\* (NoBlocks where the limit is 0 and the code never calls the equalizer).
NoBlocks == [N1 |-> 0, n1 |-> 0, N2 |-> 0, n2 |-> 0]

\* Fault model for line 206: the second block size written through
\* &(l_n_n[0]) as well, overwriting the first.
NBlockingN1FromN2 ==
  [a \in Archs, x \in Descs |->
     LET lim == NBlockLimit(a, x)
     IN  [lim |-> lim, eq |-> IF lim = 0 THEN NoBlocks
                              ELSE LET e == EqualizedBlocking(x.n, lim)
                                   IN  [e EXCEPT !.n1 = IF e.n2 = 0 THEN e.n1 ELSE e.n2]]]

NBlocking ==
  [a \in Archs, x \in Descs |->
     LET lim == NBlockLimit(a, x)
     IN  [lim |-> lim, eq |-> IF lim = 0 THEN NoBlocks ELSE EqualizedBlocking(x.n, lim)]]

\* Lines 177-212: N blocking (including the two ERR_N_BLOCK returns).
BlockN ==
  /\ pc = "start"
  /\ ~TileConfigOnly(d)
  /\ d.transA => TransADatatypeOk(d)
  /\ LET plan == NBlocking[arch, d]
     IN  IF plan.lim = 0 \/ plan.eq.N1 = 0
         THEN Fail("ERR_N_BLOCK") /\ UNCHANGED nblk
         ELSE /\ nblk' = plan.eq
              /\ pc' = "prologue"
              /\ UNCHANGED err
  /\ UNCHANGED <<arch, d, em, nDone, nCount, nStart, nBlk, mDone, mBlk, cfg>>

\* Lines 255-263: fusion below AVX is refused before the frame is set up.
RejectFusionArch ==
  /\ pc = "prologue"
  /\ SetupFrameCond(d) /\ FusionArchRejected(arch, d)
  /\ Fail("ERR_UNSUP_ARCH")
  /\ UNCHANGED <<arch, d, em, nblk, nDone, nCount, nStart, nBlk, mDone, mBlk, cfg>>

\* Lines 214-284: struct loads, stack frame, extended-ABI datatype check
\* (which fails after the frame was emitted), C redirected to scratch.
Prologue ==
  /\ pc = "prologue"
  /\ ~(SetupFrameCond(d) /\ FusionArchRejected(arch, d))
  /\ em' = IF SetupFrameCond(d) THEN EmitAll(em, <<Push("frame")>>) ELSE em
  /\ IF ExtAbiDatatypeRejected(d)
     THEN Fail("ERR_ILLEGAL_ABI")
     ELSE /\ pc' = IF d.transA THEN "transpose" ELSE "body"
          /\ UNCHANGED err
  /\ UNCHANGED <<arch, d, nblk, nDone, nCount, nStart, nBlk, mDone, mBlk, cfg>>

\* Lines 286-433: on-the-fly transpose of A.
TransposeA ==
  /\ pc = "transpose"
  /\ em' = EmitAll(em, TransposeIntents(d))
  /\ pc' = "body"
  /\ UNCHANGED <<arch, d, err, nblk, nDone, nCount, nStart, nBlk, mDone, mBlk, cfg>>

\* Lines 438-463: tracker reset, hoisted BF16 mask, batch-reduce count load.
OpenBody ==
  /\ pc = "body"
  /\ em' = EmitAll(ResetTracker(em),
                   IF HoistBf16Mask(arch, d) THEN <<Push("help2"), Pop("help2")>> ELSE <<>>)
  /\ pc' = "nloop"
  /\ UNCHANGED <<arch, d, err, nblk, nDone, nCount, nStart, nBlk, mDone, mBlk, cfg>>

\* Lines 466-480: open the next N block and start its M sweep.
OpenN ==
  /\ pc = "nloop"
  /\ nDone # d.n
  /\ nCount < 2      \* l_n_n and l_n_N have two entries
  /\ LET blk  == IF nCount = 0 THEN nblk.n1 ELSE nblk.n2
         size == IF nCount = 0 THEN nblk.N1 ELSE nblk.N2
         init == InitialMBlocking(arch, d)
     IN  /\ em' = EmitAll(em, <<Hdr("n")>>)
         /\ nStart' = nDone
         /\ nBlk' = blk
         /\ nDone' = nDone + size
         /\ nCount' = nCount + 1
         /\ mBlk' = init.mb
         /\ cfg' = init.cfg
         /\ mDone' = 0
  /\ pc' = "mloop"
  /\ UNCHANGED <<arch, d, err, nblk>>

\* Lines 483-720: one iteration of the M sweep.
MStep ==
  /\ pc = "mloop"
  /\ mDone # d.m
  /\ IF mBlk = 0
     THEN Fail("ERR_M_BLOCK") /\ UNCHANGED <<em, mDone, mBlk, cfg>>
     ELSE LET new  == NextMDone(arch, d, mDone, mBlk)
              next == UpdateMBlocking(arch, d, mBlk, cfg)
          IN  /\ em' = IF new # mDone /\ new > 0
                       THEN EmitAll(em, TileIntents(arch, d, cfg, mDone, new, mBlk,
                                                    nStart, nDone, nBlk))
                       ELSE em
              /\ err' = IF new # mDone /\ new > 0 /\ ~MicroKernelAvailable(arch) /\ err = "none"
                        THEN "ERR_ARCH" ELSE err
              /\ mDone' = new
              /\ mBlk' = next.mb
              /\ cfg' = next.cfg
              /\ UNCHANGED pc
  /\ UNCHANGED <<arch, d, nblk, nDone, nCount, nStart, nBlk>>

\* Line 722: close the N block when its M sweep is complete.
CloseN ==
  /\ pc = "mloop"
  /\ mDone = d.m
  /\ em' = EmitAll(em, <<Ftr("n")>>)
  /\ pc' = "nloop"
  /\ UNCHANGED <<arch, d, err, nblk, nDone, nCount, nStart, nBlk, mDone, mBlk, cfg>>

\* Lines 725-747: VNNI repacking of C and stack teardown.
Finish ==
  /\ pc = "nloop"
  /\ nDone = d.n
  /\ em' = EmitAll(em, FinishIntents(d))
  /\ pc' = "done"
  /\ UNCHANGED <<arch, d, err, nblk, nDone, nCount, nStart, nBlk, mDone, mBlk, cfg>>

\* The generation call has returned.
Returned ==
  /\ pc = "done"
  /\ UNCHANGED vars

Init ==
  /\ arch \in Archs
  /\ d \in Descs
  /\ pc = "start"
  /\ err = "none"
  /\ em = EmptyEmitter
  /\ nblk = NoBlocks
  /\ nDone = 0 /\ nCount = 0 /\ nStart = 0 /\ nBlk = 0
  /\ mDone = 0 /\ mBlk = 0
  /\ cfg = FullCfg(FALSE)

Next ==
  \/ TileConfigReturn \/ RejectTransADatatype \/ BlockN
  \/ RejectFusionArch \/ Prologue \/ TransposeA \/ OpenBody
  \/ OpenN \/ MStep \/ CloseN \/ Finish
  \/ Returned

\* Generation is one synchronous, single-threaded call: every enabled step
\* of it is eventually taken.
Spec == Init /\ [][Next]_vars /\ WF_vars(Next)

(***************************************************************************)
(* Properties.                                                             *)
(***************************************************************************)
Tiles == {em.code[j].tile : j \in {i \in DOMAIN em.code : em.code[i].op = "tile"}}

Succeeded == pc = "done" /\ err = "none" /\ ~TileConfigOnly(d)

TypeOK ==
  /\ arch \in ArchTiers
  /\ d \in Descriptor
  /\ pc \in {"start", "prologue", "transpose", "body", "nloop", "mloop", "done"}
  /\ err \in Errors \cup {"none"}
  /\ em.depth \in Int /\ em.labels \in Seq(Nat)
  /\ nDone \in 0 .. d.n /\ nCount \in 0 .. 2
  /\ mDone \in 0 .. d.m
  /\ cfg.kind \in {"full", "half", "scalar"} /\ cfg.masking \in BOOLEAN

(***************************************************************************)
(* A kernel generated without error computes every product term exactly   *)
(* once: the M loops of the emitted tiles, each stepping by its block,     *)
(* partition the M x N cells of C, and every tile runs all K steps (the N  *)
(* blocking, the M sweep with its ladders and SeisSol case, and the three  *)
(* K-loop strategies of kloop together).                                   *)
(***************************************************************************)
ProductCoveredOnce ==
  Succeeded =>
    /\ \A t \in Tiles : (t.m1 - t.m0) % t.mb = 0 /\ (t.n1 - t.n0) % t.nb = 0
                        /\ t.ksteps = d.k
    /\ \A i \in 0 .. (d.m - 1), j \in 0 .. (d.n - 1) :
         \E t \in Tiles : /\ t.m0 <= i /\ i < t.m1 /\ t.n0 <= j /\ j < t.n1
                          /\ \A u \in Tiles \ {t} :
                               ~(u.m0 <= i /\ i < u.m1 /\ u.n0 <= j /\ j < u.n1)

(***************************************************************************)
(* Every loop footer of the emitted code branches back to the label of its *)
(* own header (the tracker pairs them last-in first-out), and each loop    *)
(* body leaves the run-time stack as deep as it found it: the pushes and   *)
(* pops of the batch-reduce loop, the transpose and the frame are          *)
(* balanced per iteration.                                                 *)
(***************************************************************************)
LoopBranchesMatch ==
  \A j \in DOMAIN em.code :
    em.code[j].op = "jmp" =>
      LET t == em.code[j].target
      IN  /\ t \in DOMAIN em.code
          /\ em.code[t].op = "label"
          /\ em.code[t].loop = em.code[j].loop
          /\ em.code[t].depth = em.code[j].depth

(***************************************************************************)
(* A kernel that returns normally leaves the caller's stack as it found    *)
(* it: the fused-op frame, the transpose buffer and its alignment, and all *)
(* register saves are released by the teardown, and no loop is left open. *)
(***************************************************************************)
StackRestoredAtReturn ==
  Succeeded => em.depth = 0 /\ em.labels = <<>>

(***************************************************************************)
(* When fusion is requested below AVX with an eltwise op and the input is  *)
(* not BF16/F32, the unsupported architecture is reported, not the illegal *)
(* ABI (spec, section 8: error precedence).                                *)
(***************************************************************************)
ArchErrorPrecedesAbiError ==
  (pc = "done" /\ err = "ERR_ILLEGAL_ABI") => ~(arch < AVX /\ d.eltwOps)

\* How far a generation call has got: the phase, the N blocks opened, the
\* N block closed, the rows of the sweep done, and the M ladder descended
\* (a smaller block is further on).
PcRank == [start |-> 0, prologue |-> 1, transpose |-> 2, body |-> 3,
           nloop |-> 4, mloop |-> 4, done |-> 5]

Progress == <<PcRank[pc], nCount, IF pc = "nloop" THEN 1 ELSE 0, mDone, -mBlk>>

\* u comes before v in lexicographic order.
LexLess(u, v) ==
  \E i \in DOMAIN u : (\A j \in 1 .. (i - 1) : u[j] = v[j]) /\ u[i] < v[i]

\* The M step would leave the state as it is: it places no block and
\* update_m_blocking keeps the block (every other step moves pc).
MStepStalls ==
  /\ pc = "mloop" /\ mDone # d.m /\ mBlk # 0
  /\ NextMDone(arch, d, mDone, mBlk) = mDone
  /\ UpdateMBlocking(arch, d, mBlk, cfg) = [mb |-> mBlk, cfg |-> cfg]

(***************************************************************************)
(* Every generation call returns: until it returns, the driver never       *)
(* stalls, and each of its steps moves it strictly forward in a bounded    *)
(* order.  An M step that cannot place a whole block (the block exceeds    *)
(* the rows left) must take update_m_blocking a rung down the ladder, and  *)
(* one that places blocks must advance m_done, so the N and M sweeps of    *)
(* lines 466-722 end.                                                      *)
(***************************************************************************)
SweepProgresses ==
  /\ [](~MStepStalls)
  /\ [][pc # "done" => LexLess(Progress, Progress')]_vars

(***************************************************************************)
(* An AVX-512 mask set up for a tile enables the lanes of its partial      *)
(* vector and at least one: the mask count computed at line 518 is below  *)
(* the vector length.                                                      *)
(***************************************************************************)
MaskedTailHasLanes ==
  \A j \in DOMAIN em.code : em.code[j].op = "mask" => em.code[j].lanes > 0

(***************************************************************************)
(* A target outside the x86 tiers the generator has a path for is          *)
(* reported as an unsupported architecture (spec, section 7).              *)
(***************************************************************************)
UnknownArchReportedAsArch ==
  (pc = "done" /\ (arch < X86_GENERIC \/ arch > ALLFEAT) /\ ~TileConfigOnly(d))
    => err \in {"ERR_ARCH", "ERR_UNSUP_ARCH"}
=============================================================================
