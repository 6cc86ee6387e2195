---------------------------- MODULE BatchReduceLoop ----------------------------
(***************************************************************************)
(* Run-time behaviour of the batch-reduce loop that the kernel driver      *)
(* emits around one C tile (lines 453-462 and 531-713 of                   *)
(* generator_gemm_sse_avx_avx2_avx512.c): the emitted instructions are     *)
(* executed one at a time on registers, a stack and memory holding the     *)
(* pointer and offset arrays.  The K loop (lines 801-898 with the          *)
(* micro-kernels) is one instruction that runs the tile's product on the   *)
(* current A/B pointers and leaves them advanced by KDriftA / KDriftB,     *)
(* the prefetch pointer by KDriftPf.                                       *)
(*                                                                         *)
(* The loop header and footer are libxsmm_generator_gemm_header_/footer_   *)
(* reduceloop, outside this file (spec section 6): the header zeroes the   *)
(* counter and places the label, the footer increments it and branches     *)
(* back while it is below the trip count.                                  *)
(***************************************************************************)
EXTENDS Integers, Sequences

CONSTANTS
  Modes,      \* subset of {"address", "address_pf", "offset", "stride"}
  Counts,     \* trip counts the caller may pass
  MaxCount,   \* bound on the arrays' length
  C1, C2,     \* descriptor c1 / c2: the strides of A and B
  KDriftA, KDriftB, KDriftPf

ASSUME Modes \subseteq {"address", "address_pf", "offset", "stride"}
ASSUME Counts \subseteq 0 .. MaxCount

VARIABLES
  mode, cnt,  \* batch-reduce flavour of the descriptor, run-time trip count
  pc,         \* index of the next instruction
  regs,       \* gp_reg_a, gp_reg_b, a_prefetch, offsets, help_0, counters
  stack,      \* the run-time stack above the loop's entry depth
  mem,        \* pointer arrays (address) and offset arrays (offset)
  used        \* (A, B) pointers each execution of the K loop ran on

vars == <<mode, cnt, pc, regs, stack, mem, used>>

(***************************************************************************)
(* The caller's data: matrix bases, the arrays' addresses and contents.    *)
(* An array element i is at Arr + i (the scale of 8 is left out).          *)
(***************************************************************************)
A0 == 1000
B0 == 2000
ArrA == 10
ArrB == 20
ArrPf == 30
OffA == 40
OffB == 50

InitMem ==
  [addr \in 10 .. 50 + MaxCount |->
     LET base == 10 * (addr \div 10)
         i    == addr - base
     IN  CASE base = ArrA  -> A0 + 100 * (i + 1)
           [] base = ArrB  -> B0 + 100 * (i + 1)
           [] base = ArrPf -> 3000 + 100 * (i + 1)
           [] base = OffA  -> 30 * (i + 1)
           [] base = OffB  -> 40 * (i + 1)
           [] OTHER        -> 0]

Regs == {"a", "b", "a_pf", "a_off", "b_off", "h", "loop", "count"}

Address(m) == m \in {"address", "address_pf"}

\* What the driver's register mapping holds when the tile starts.
InitRegs(m, n) ==
  [r \in Regs |->
     CASE r = "a"     -> IF Address(m) THEN ArrA ELSE A0
       [] r = "b"     -> IF Address(m) THEN ArrB ELSE B0
       [] r = "a_pf"  -> ArrPf
       [] r = "a_off" -> OffA
       [] r = "b_off" -> OffB
       [] r = "count" -> n
       [] OTHER       -> 0]

(***************************************************************************)
(* Instructions.                                                           *)
(***************************************************************************)
I(op, d, s, k) == [op |-> op, d |-> d, s |-> s, k |-> k]
PushR(r)       == I("push", r, r, 0)
PopR(r)        == I("pop", r, r, 0)
Load(d, b, k)  == I("load", d, b, k)     \* d := mem[b + loop + k]
Store(s, b, k) == I("store", s, b, k)    \* mem[b + loop + k] := s
MovR(d, s)     == I("mov", d, s, 0)
AddR(d, s)     == I("add", d, s, 0)
SubR(d, s)     == I("sub", d, s, 0)
MulI(d, k)     == I("imul", d, d, k)
SubI(d, k)     == I("subi", d, d, k)
LoopOpen       == I("open", "loop", "loop", 0)
LoopClose      == I("close", "loop", "count", 0)
KLoop          == I("kloop", "a", "b", 0)

(***************************************************************************)
(* The code the driver emits for one tile, per mode.                       *)
(***************************************************************************)
\* Lines 531-621: before the loop and at the top of each iteration.
EntryCode(m) ==
  CASE Address(m) ->
         <<LoopOpen, PushR("a"), PushR("b")>>
         \o (IF m = "address_pf" THEN <<PushR("a_pf")>> ELSE <<>>)
         \o <<Load("a", "a", 0), Load("b", "b", 0)>>
         \o (IF m = "address_pf" THEN <<Load("a_pf", "a_pf", 0)>> ELSE <<>>)
    [] m = "offset" ->
         <<PushR("b"), PushR("a"), LoopOpen,
           PopR("a"), PopR("b"), PushR("b"), PushR("a"),
           Load("h", "a_off", 0), AddR("a", "h"),
           Load("h", "b_off", 0), AddR("b", "h")>>
    [] m = "stride" ->
         <<PushR("b"), PushR("a"), LoopOpen,
           PopR("a"), PopR("b"), PushR("b"), PushR("a"),
           MovR("h", "loop"), MulI("h", C1), AddR("a", "h"),
           MovR("h", "loop"), MulI("h", C2), AddR("b", "h")>>

\* Lines 626-661: address mode writes each advanced pointer back to its
\* list entry and restores the list base, then the footer.
AddressExit(m) ==
  (IF m = "address_pf"
   THEN <<PopR("h"), Store("a_pf", "h", 0), MovR("a_pf", "h")>> ELSE <<>>)
  \o <<PopR("h"), Store("b", "h", 0), MovR("b", "h"),
       PopR("h"), Store("a", "h", 0), MovR("a", "h"), LoopClose>>

\* Fault model for lines 676-693: the last offset read at the trip count
\* (displacement 0) instead of one entry before it (-8).
OffsetExitAtCount ==
  <<LoopClose, Load("h", "a_off", 0), SubR("a", "h"),
    Load("h", "b_off", 0), SubR("b", "h"), PopR("h"), PopR("h")>>

\* Lines 662-696: footer, subtract the last offset, drop the two saves.
OffsetExit ==
  <<LoopClose, Load("h", "a_off", -1), SubR("a", "h"),
    Load("h", "b_off", -1), SubR("b", "h"), PopR("h"), PopR("h")>>

\* Lines 662-712: footer, subtract (count - 1) strides, drop the saves.
StrideExit ==
  <<LoopClose, MovR("h", "count"), MulI("h", C1), SubI("h", C1), SubR("a", "h"),
    MovR("h", "count"), MulI("h", C2), SubI("h", C2), SubR("b", "h"),
    PopR("h"), PopR("h")>>

\* Lines 626-713: after the K loop of the tile.
ExitCode(m) ==
  CASE Address(m)   -> AddressExit(m)
    [] m = "offset" -> OffsetExit
    [] m = "stride" -> StrideExit

Code(m) == EntryCode(m) \o <<KLoop>> \o ExitCode(m)

LabelPos(m) == CHOOSE j \in 1 .. Len(Code(m)) : Code(m)[j].op = "open"

-----------------------------------------------------------------------------
Init ==
  /\ mode \in Modes
  /\ cnt \in Counts
  /\ pc = 1
  /\ regs = InitRegs(mode, cnt)
  /\ stack = <<>>
  /\ mem = InitMem
  /\ used = <<>>

Ins == Code(mode)[pc]
Running == pc <= Len(Code(mode))
Addr(b, k) == regs[b] + regs["loop"] + k

Step(r) ==
  /\ regs' = r
  /\ pc' = pc + 1

ExecPush ==
  /\ Running /\ Ins.op = "push"
  /\ stack' = Append(stack, regs[Ins.s])
  /\ Step(regs)
  /\ UNCHANGED <<mode, cnt, mem, used>>

ExecPop ==
  /\ Running /\ Ins.op = "pop" /\ stack # <<>>
  /\ stack' = SubSeq(stack, 1, Len(stack) - 1)
  /\ Step([regs EXCEPT ![Ins.d] = stack[Len(stack)]])
  /\ UNCHANGED <<mode, cnt, mem, used>>

ExecLoad ==
  /\ Running /\ Ins.op = "load"
  /\ Step([regs EXCEPT ![Ins.d] = mem[Addr(Ins.s, Ins.k)]])
  /\ UNCHANGED <<mode, cnt, stack, mem, used>>

ExecStore ==
  /\ Running /\ Ins.op = "store"
  /\ mem' = [mem EXCEPT ![Addr(Ins.s, Ins.k)] = regs[Ins.d]]
  /\ Step(regs)
  /\ UNCHANGED <<mode, cnt, stack, used>>

\* Register arithmetic (mov, add, sub, imul and sub by an immediate).
ExecAlu ==
  /\ Running /\ Ins.op \in {"mov", "add", "sub", "imul", "subi"}
  /\ LET d == regs[Ins.d]
         s == regs[Ins.s]
         v == CASE Ins.op = "mov"  -> s
                [] Ins.op = "add"  -> d + s
                [] Ins.op = "sub"  -> d - s
                [] Ins.op = "imul" -> d * Ins.k
                [] Ins.op = "subi" -> d - Ins.k
     IN  Step([regs EXCEPT ![Ins.d] = v])
  /\ UNCHANGED <<mode, cnt, stack, mem, used>>

\* header_reduceloop: zero the counter, the label is this position.
OpenLoop ==
  /\ Running /\ Ins.op = "open"
  /\ Step([regs EXCEPT !["loop"] = 0])
  /\ UNCHANGED <<mode, cnt, stack, mem, used>>

\* footer_reduceloop: count the iteration, branch back while below count.
CloseLoop ==
  /\ Running /\ Ins.op = "close"
  /\ LET n == regs["loop"] + 1
     IN  /\ regs' = [regs EXCEPT !["loop"] = n]
         /\ pc' = IF n < regs["count"] THEN LabelPos(mode) + 1 ELSE pc + 1
  /\ UNCHANGED <<mode, cnt, stack, mem, used>>

\* The K loop of the tile on the current A and B pointers.
RunKLoop ==
  /\ Running /\ Ins.op = "kloop"
  /\ used' = Append(used, <<regs["a"], regs["b"]>>)
  /\ Step([regs EXCEPT !["a"] = @ + KDriftA, !["b"] = @ + KDriftB,
                       !["a_pf"] = @ + KDriftPf])
  /\ UNCHANGED <<mode, cnt, stack, mem>>

Finished == ~Running /\ UNCHANGED vars

Next ==
  \/ ExecPush \/ ExecPop \/ ExecLoad \/ ExecStore \/ ExecAlu
  \/ OpenLoop \/ CloseLoop \/ RunKLoop \/ Finished

Spec == Init /\ [][Next]_vars /\ WF_vars(Next)

-----------------------------------------------------------------------------
(***************************************************************************)
(* The refinement: the pairs the caller's batch describes (spec 4.4: the   *)
(* i-th entries of the address lists, base + the i-th offsets, base + i    *)
(* strides), and the state it expects after the loop: the A/B registers    *)
(* as a kernel without batch-reduce leaves them after its K loop (the     *)
(* array bases in address mode), the address lists advanced as the K     *)
(* loop advanced the pointers it ran on, and the stack back at its entry  *)
(* depth.                                                                  *)
(***************************************************************************)
Batch(m, n) ==
  [i \in 1 .. n |->
     CASE Address(m)    -> <<InitMem[ArrA + i - 1], InitMem[ArrB + i - 1]>>
       [] m = "offset"  -> <<A0 + InitMem[OffA + i - 1], B0 + InitMem[OffB + i - 1]>>
       [] m = "stride"  -> <<A0 + (i - 1) * C1, B0 + (i - 1) * C2>>]

Goal(m, n) ==
  [a     |-> IF Address(m) THEN ArrA ELSE A0 + KDriftA,
   b     |-> IF Address(m) THEN ArrB ELSE B0 + KDriftB,
   apf   |-> ArrPf,
   mem   |-> [addr \in DOMAIN InitMem |->
                LET i == addr % 10
                IN  CASE Address(m) /\ addr \div 10 = 1 /\ i < n -> InitMem[addr] + KDriftA
                      [] Address(m) /\ addr \div 10 = 2 /\ i < n -> InitMem[addr] + KDriftB
                      [] m = "address_pf" /\ addr \div 10 = 3 /\ i < n
                                                             -> InitMem[addr] + KDriftPf
                      [] OTHER -> InitMem[addr]],
   depth |-> 0]

\* The prefetch register is observed only where the loop adjusts it.
Observed ==
  [a |-> regs["a"], b |-> regs["b"],
   apf |-> IF mode = "address_pf" THEN regs["a_pf"] ELSE ArrPf,
   mem |-> mem, depth |-> Len(stack)]

\* The abstract NoResult: the loop has not closed yet.
Pending == [a |-> 0, b |-> 0, apf |-> 0, mem |-> <<>>, depth |-> -1]

Abs == INSTANCE BatchReduceAbstract
         WITH todo   <- SubSeq(Batch(mode, cnt), Len(used) + 1, cnt),
              used   <- used,
              result <- IF Running THEN Pending ELSE Observed,
              goal   <- Goal(mode, cnt)

TypeOK ==
  /\ mode \in Modes /\ cnt \in Counts
  /\ pc \in 1 .. Len(Code(mode)) + 1
  /\ regs \in [Regs -> Int]
  /\ stack \in Seq(Int)
  /\ mem \in [DOMAIN InitMem -> Int]
  /\ used \in Seq(Int \X Int)

(***************************************************************************)
(* The emitted loop implements the batch reduction: every execution of the *)
(* K loop runs on the next (A, B) pair of the batch, exactly cnt times,    *)
(* and the loop ends with the A/B and prefetch registers, the address      *)
(* lists and the stack as the caller expects.                              *)
(***************************************************************************)
ImplementsBatchReduce == Abs!Spec
=============================================================================
