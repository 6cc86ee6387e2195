---------------------------- MODULE GemmRegMapping ----------------------------
(***************************************************************************)
(* The register role mapping of                                            *)
(* libxsmm_generator_gemm_sse_avx_avx2_avx512_kernel_wrapper (lines        *)
(* 26-98) and what the generated prologue does with it at run time: for   *)
(* the struct ABIs (USE_XGEMM_ABI, USE_XGEMM_EXT_ABI) the parameter-block *)
(* pointer is copied to help_1 and every operand the kernel uses is       *)
(* loaded from its slot of the block (lines 214-253), then the batch-     *)
(* reduce count is dereferenced (lines 453-462).                          *)
(*                                                                         *)
(* A register holds a symbolic value: the byte offset of the block slot   *)
(* it was loaded from, or one of the sentinels Struct (the parameter-     *)
(* block pointer), Count (the trip count) and Junk.                        *)
(***************************************************************************)
EXTENDS Integers, Sequences, FiniteSets, TLC

CONSTANTS
  Configs     \* the (platform, ABI, batch-reduce, prefetch, I8) variants

GPRegs == {"RAX", "RBX", "RCX", "RDX", "RSI", "RDI", "R8", "R9",
           "R10", "R11", "R12", "R13", "R14", "R15"}

UNDEF == "UNDEF"

Struct == -1
Count  == -2
Junk   == -3

Roles == {"param", "a", "b", "c", "a_pf", "b_pf", "scf", "reduce_count",
          "a_offset", "b_offset", "reduce_loop", "help_0", "help_1",
          "help_2", "mloop", "nloop", "kloop"}

\* A configuration: the build's platform, the ABI flag, the batch-reduce
\* mode, whether prefetch is not NONE, and whether A and C are both I8.
Config ==
  [plat : {"linux", "win"}, abi : {"plain", "xgemm", "ext"},
   br : {"none", "address", "offset", "stride"},
   prefetch : BOOLEAN, i8 : BOOLEAN]

ASSUME Configs \subseteq Config

VARIABLES
  x,      \* the configuration being generated for
  regs,   \* run-time contents of the general-purpose registers
  pc,     \* index of the next prologue instruction
  err     \* the emitter's error flag

vars == <<x, regs, pc, err>>

(***************************************************************************)
(* The mapping.  f @@ g takes f where f is defined, so an assignment made *)
(* later in the code is written further to the left.                       *)
(***************************************************************************)
\* Line 32: libxsmm_reset_x86_gp_reg_mapping.
ResetMapping == [r \in Roles |-> UNDEF]

\* Lines 90-94: the loop counters and helpers, on every platform.
CommonRoles ==
  [mloop |-> "R10", nloop |-> "R11", kloop |-> "R12", help_1 |-> "R15", help_2 |-> "RBX"]

\* Lines 33-40: Windows (no batch-reduce or I8 roles).
WinRoles ==
  [param |-> "RCX", a |-> "RCX", b |-> "RDX", c |-> "R8", a_pf |-> UNDEF, b_pf |-> UNDEF]

\* Lines 42-56: the Linux argument registers.
LinuxRoles(c) ==
  [scf  |-> IF c.i8 THEN "RCX" ELSE UNDEF,
   a_pf |-> IF c.i8 THEN "R8" ELSE "RCX",
   b_pf |-> IF c.i8 THEN "R9" ELSE "R8"]
  @@ [param |-> "RDI", a |-> "RDI", b |-> "RSI", c |-> "RDX"]

\* Lines 58-88: the batch-reduce renaming.
BrRoles(c) ==
  CASE c.br \in {"address", "stride"} ->
         [scf  |-> IF c.i8 THEN "R8" ELSE UNDEF,
          a_pf |-> IF c.i8 THEN "R9" ELSE "R8",
          b_pf |-> IF c.i8 THEN UNDEF ELSE "R9",
          reduce_count |-> "RCX", reduce_loop |-> "R13", help_0 |-> "R14"]
    [] c.br = "offset" ->
         [scf |-> IF c.i8 THEN "RAX" ELSE UNDEF,
          reduce_count |-> "RCX", a_offset |-> "R8", b_offset |-> "R9",
          reduce_loop |-> "R13", help_0 |-> "R14"]
    [] OTHER -> <<>>

\* Fault model for line 87: help_0 given the reduce-loop counter's register.
RegMappingHelp0Clash(c) ==
  [r \in Roles |-> IF r = "help_0" /\ c.plat = "linux" /\ c.br # "none"
                   THEN "R13" ELSE (CommonRoles @@ BrRoles(c) @@ LinuxRoles(c) @@ ResetMapping)[r]]

\* Lines 26-94: the gp_reg_mapping the kernel is generated with.
RegMapping(c) ==
  IF c.plat = "win"
  THEN CommonRoles @@ WinRoles @@ ResetMapping
  ELSE CommonRoles @@ BrRoles(c) @@ LinuxRoles(c) @@ ResetMapping

(***************************************************************************)
(* The roles the generated kernel reads after its prologue.                *)
(***************************************************************************)
LiveRoles(c) ==
  {"a", "b", "c", "mloop", "nloop", "kloop", "help_1", "help_2"}
  \cup (IF c.prefetch THEN {"a_pf", "b_pf"} ELSE {})
  \cup (IF c.br # "none" THEN {"reduce_count", "reduce_loop", "help_0"} ELSE {})
  \cup (IF c.br = "offset" THEN {"a_offset", "b_offset"} ELSE {})
  \cup (IF c.i8 THEN {"scf"} ELSE {})

\* The block slot each role is loaded from (lines 221-251).
Slot == [a |-> 32, b |-> 64, c |-> 96, a_pf |-> 56, b_pf |-> 88,
         reduce_count |-> 16, a_offset |-> 40, b_offset |-> 72, scf |-> 112]

(***************************************************************************)
(* The prologue as instructions: Mov(dst, src) copies a register, Ld(dst,  *)
(* base, off) loads from memory at base+off.                               *)
(***************************************************************************)
Mov(dst, src)     == [op |-> "mov", dst |-> dst, src |-> src]
Ld(dst, base, off) == [op |-> "ld", dst |-> dst, base |-> base, off |-> off]

StructAbi(c) == c.abi \in {"xgemm", "ext"}

\* Loads of block slots through help_1, for the roles in rs, in this order.
SlotLoads(m, rs) == [i \in 1 .. Len(rs) |-> Ld(m[rs[i]], m.help_1, Slot[rs[i]])]

\* Fault model for lines 218-221: A loaded through help_1 before the copy.
StructLoadsAFirst(c) ==
  LET m == RegMapping(c)
  IN  IF ~StructAbi(c) THEN <<>>
      ELSE SlotLoads(m, <<"a">>) \o <<Mov(m.help_1, m.param)>>
           \o SlotLoads(m, <<"b", "c">>)
           \o (IF c.prefetch THEN SlotLoads(m, <<"a_pf", "b_pf">>) ELSE <<>>)
           \o (IF c.br # "none" THEN SlotLoads(m, <<"reduce_count">>) ELSE <<>>)
           \o (IF c.br = "offset" THEN SlotLoads(m, <<"a_offset", "b_offset">>) ELSE <<>>)
           \o (IF c.i8 THEN SlotLoads(m, <<"scf">>) ELSE <<>>)

\* Lines 214-253: the parameter-block loads of the struct ABIs.
StructLoads(c) ==
  LET m == RegMapping(c)
  IN  IF ~StructAbi(c) THEN <<>>
      ELSE <<Mov(m.help_1, m.param)>>
           \o SlotLoads(m, <<"a", "b", "c">>)
           \o (IF c.prefetch THEN SlotLoads(m, <<"a_pf", "b_pf">>) ELSE <<>>)
           \o (IF c.br # "none" THEN SlotLoads(m, <<"reduce_count">>) ELSE <<>>)
           \o (IF c.br = "offset" THEN SlotLoads(m, <<"a_offset", "b_offset">>) ELSE <<>>)
           \o (IF c.i8 THEN SlotLoads(m, <<"scf">>) ELSE <<>>)

\* Lines 453-462: the trip count read through the pointer just loaded.
CountDeref(c) ==
  LET m == RegMapping(c)
  IN  IF c.br # "none" THEN <<Ld(m.reduce_count, m.reduce_count, 0)>> ELSE <<>>

Prologue(c) == StructLoads(c) \o CountDeref(c)

(***************************************************************************)
(* Machine semantics of one instruction.  A load from struct+off yields    *)
(* the slot off; a load through the count slot yields the count; anything *)
(* else is junk.  What the encoder does with an UNDEF operand is not part *)
(* of this file; the model stops there and PrologueRegistersMapped says   *)
(* that it is never asked to.                                             *)
(***************************************************************************)
LoadedValue(base, off) ==
  CASE regs[base] = Struct -> off
    [] regs[base] = 16 /\ off = 0 -> Count
    [] OTHER -> Junk

Value(i) == IF i.op = "mov" THEN regs[i.src] ELSE LoadedValue(i.base, i.off)

Init ==
  /\ x \in Configs
  /\ regs = [r \in GPRegs |-> IF StructAbi(x) /\ r = RegMapping(x).param
                              THEN Struct ELSE Junk]
  /\ pc = 1
  /\ err = FALSE

\* One prologue instruction (its operands are mapped registers).
Execute ==
  /\ ~err /\ pc <= Len(Prologue(x))
  /\ LET i == Prologue(x)[pc]
     IN  /\ i.dst \in GPRegs
         /\ (i.op = "mov" => i.src \in GPRegs) /\ (i.op = "ld" => i.base \in GPRegs)
         /\ regs' = [regs EXCEPT ![i.dst] = Value(i)]
  /\ pc' = pc + 1
  /\ UNCHANGED <<x, err>>

Done == (pc > Len(Prologue(x)) \/ err) /\ UNCHANGED vars

Next == Execute \/ Done

Spec == Init /\ [][Next]_vars

-----------------------------------------------------------------------------
TypeOK ==
  /\ x \in Configs
  /\ regs \in [GPRegs -> {Struct, Count, Junk} \cup {Slot[r] : r \in DOMAIN Slot}]
  /\ pc \in 1 .. Len(Prologue(x)) + 1
  /\ err \in BOOLEAN

(***************************************************************************)
(* Every role the generated kernel uses is bound to a register of its own: *)
(* no two live roles of the kernel_wrapper mapping share a register and    *)
(* none is UNDEF, whatever the platform, ABI, batch-reduce mode, prefetch  *)
(* and I8 combination.                                                     *)
(***************************************************************************)
LiveRolesDistinct ==
  LET m == RegMapping(x)
  IN  /\ \A r \in LiveRoles(x) : m[r] \in GPRegs
      /\ \A r1, r2 \in LiveRoles(x) : r1 # r2 => m[r1] # m[r2]

(***************************************************************************)
(* The prologue names no UNDEF register: every load the struct-ABI        *)
(* prologue emits (lines 218-251, 455-461) has a mapped destination and   *)
(* base register.                                                          *)
(***************************************************************************)
PrologueRegistersMapped ==
  \A j \in 1 .. Len(Prologue(x)) :
    LET i == Prologue(x)[j]
    IN  /\ i.dst \in GPRegs
        /\ (i.op = "mov" => i.src \in GPRegs)
        /\ (i.op = "ld" => i.base \in GPRegs)

(***************************************************************************)
(* When the struct-ABI prologue has run without error, every live operand  *)
(* role holds the parameter-block slot it was loaded from (the trip count  *)
(* itself for reduce_count) and help_1 still points at the block: no load  *)
(* overwrote another, and none went through a register that no longer    *)
(* held the block pointer.                                                 *)
(***************************************************************************)
StructArgumentsLoaded ==
  (StructAbi(x) /\ pc > Len(Prologue(x)) /\ ~err) =>
    LET m == RegMapping(x)
    IN  /\ regs[m.help_1] = Struct
        /\ \A r \in LiveRoles(x) \cap DOMAIN Slot :
             /\ m[r] \in GPRegs
             /\ regs[m[r]] = IF r = "reduce_count" THEN Count ELSE Slot[r]
=============================================================================
