--------------------------- MODULE LoopLabelTracker ---------------------------
(***************************************************************************)
(* The generated code object and the loop label tracker, as the driver     *)
(* uses them.  The code buffer is a sequence of abstract instructions;     *)
(* only those that matter to control flow and to the run-time stack are    *)
(* kept: loop labels, backward branches, pushes and pops, AVX-512 mask     *)
(* setups and one record per computed C tile.                              *)
(*                                                                         *)
(* A loop header records the current code position on the tracker and     *)
(* emits a label; a loop footer pops the most recent position and emits    *)
(* a backward branch to it (libxsmm_generator_gemm_header_* / footer_*,    *)
(* libxsmm_x86_instruction_register_jump_back_label / jump_back_to_label). *)
(* Each label and branch remembers the run-time stack depth at the point   *)
(* it is emitted, so that a loop body that leaves the stack unbalanced is  *)
(* visible in the buffer.                                                  *)
(***************************************************************************)
EXTENDS Integers, Sequences
LOCAL INSTANCE SequencesExt

(***************************************************************************)
(* What the generator asks of the emitter and the tracker ("intents").     *)
(***************************************************************************)
Hdr(loop)  == [kind |-> "hdr", loop |-> loop]
Ftr(loop)  == [kind |-> "ftr", loop |-> loop]
Push(reg)  == [kind |-> "push", reg |-> reg]
Pop(reg)   == [kind |-> "pop", reg |-> reg]
Mask(lanes) == [kind |-> "mask", lanes |-> lanes]
TileOp(t)  == [kind |-> "tile", tile |-> t]

(***************************************************************************)
(* The emitter state: the code buffer, the tracker (a stack of code        *)
(* positions of open labels), and the run-time stack depth at the end of   *)
(* the buffer.  NoLabel is the target a footer gets from an empty tracker. *)
(***************************************************************************)
NoLabel == 0

EmptyEmitter == [code |-> <<>>, labels |-> <<>>, depth |-> 0]

EmitOne(g, i) ==
  CASE i.kind = "hdr" ->
         [code   |-> Append(g.code, [op |-> "label", loop |-> i.loop, depth |-> g.depth]),
          labels |-> Append(g.labels, Len(g.code) + 1),
          depth  |-> g.depth]
    [] i.kind = "ftr" ->
         LET target == IF g.labels = <<>> THEN NoLabel ELSE g.labels[Len(g.labels)]
         IN  [code   |-> Append(g.code, [op |-> "jmp", loop |-> i.loop,
                                          target |-> target, depth |-> g.depth]),
              labels |-> IF g.labels = <<>> THEN <<>>
                         ELSE SubSeq(g.labels, 1, Len(g.labels) - 1),
              depth  |-> g.depth]
    [] i.kind = "push" ->
         [g EXCEPT !.code = Append(@, [op |-> "push", reg |-> i.reg]), !.depth = @ + 1]
    [] i.kind = "pop" ->
         [g EXCEPT !.code = Append(@, [op |-> "pop", reg |-> i.reg]), !.depth = @ - 1]
    [] i.kind = "mask" ->
         [g EXCEPT !.code = Append(@, [op |-> "mask", lanes |-> i.lanes])]
    [] i.kind = "tile" ->
         [g EXCEPT !.code = Append(@, [op |-> "tile", tile |-> i.tile])]

\* The intents emitted one after the other, in order.
EmitAll(g, is) == FoldLeft(EmitOne, g, is)

\* libxsmm_reset_loop_label_tracker
ResetTracker(g) == [g EXCEPT !.labels = <<>>]

=============================================================================
