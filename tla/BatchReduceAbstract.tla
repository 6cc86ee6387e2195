-------------------------- MODULE BatchReduceAbstract --------------------------
(***************************************************************************)
(* What a batch-reduce loop promises (spec sections 4.4 and 8, "ABI round  *)
(* trip"): the K loop of the tile runs once for each (A, B) pair of the    *)
(* batch, in batch order, and when the loop has closed the A/B registers,  *)
(* the pointer arrays and the stack are as the caller expects.             *)
(*                                                                         *)
(* todo: the pairs still to be consumed; used: the pairs the K loop has    *)
(* run on; result: NoResult until the loop is done, then the observable    *)
(* state after it; goal: the state the caller expects after the loop.      *)
(***************************************************************************)
EXTENDS Integers, Sequences

VARIABLES todo, used, result, goal

avars == <<todo, used, result, goal>>

NoResult == [a |-> 0, b |-> 0, apf |-> 0, mem |-> <<>>, depth |-> -1]

Init ==
  /\ used = <<>>
  /\ result = NoResult

\* The K loop runs on the next pair of the batch.
Consume ==
  /\ todo # <<>>
  /\ used' = Append(used, Head(todo))
  /\ todo' = Tail(todo)
  /\ UNCHANGED <<result, goal>>

\* The loop closes with the registers, arrays and stack the caller expects.
Close ==
  /\ todo = <<>>
  /\ result = NoResult
  /\ result' = goal
  /\ UNCHANGED <<todo, used, goal>>

Next == Consume \/ Close

Spec == Init /\ [][Next]_avars /\ WF_avars(Next)
=============================================================================
