--------------------------- MODULE FcWeightUpdate ---------------------------
(***************************************************************************)
(* The threaded weight-gradient update of the DNN fully-connected layer,   *)
(* src/src/template/libxsmm_dnn_fullyconnected_st_upd_custom_generic.tpl.c *)
(* Every thread ltid in 0 .. NThreads-1 runs the template: it takes the    *)
(* chunk [thr_begin, thr_end) of the work items ifmofm (lines 41-48),      *)
(* zeroes the filter block the item selects and accumulates one product    *)
(* per image into it (lines 65-85), then waits at the barrier (line 87).   *)
(*                                                                         *)
(* Data are abstracted to what tells results apart.  The filter is indexed *)
(* by its flat block number ofm1*nBlocksIFm + ifm1 (the inner ifm2/ofm2    *)
(* loops update every element of a block alike); a block holds a bag of   *)
(* terms, a term <<o, i>> being the product of the flat output block o and *)
(* the flat input block i of one image.  The += of line 80 is a load and a *)
(* store, so two threads updating one block may interleave between them.  *)
(***************************************************************************)
EXTENDS Integers, FiniteSets, Bags

CONSTANTS
  NThreads,     \* handle->desc.threads
  NBlocksIFm,   \* handle->blocksifm
  NBlocksOFm,   \* handle->blocksofm
  NImg          \* handle->desc.N

ASSUME /\ NThreads \in Nat \ {0}
       /\ {NBlocksIFm, NBlocksOFm, NImg} \subseteq Nat \ {0}

Ltids == 0 .. NThreads - 1

\* Line 43: the number of work items.
Work == NBlocksIFm * NBlocksOFm

\* Fault model for line 45: the chunk rounded down.
ChunkSizeFloor == Work \div NThreads

\* Line 45: the chunk of each thread, work / threads rounded up.
ChunkSize ==
  IF Work % NThreads = 0 THEN Work \div NThreads ELSE (Work \div NThreads) + 1

\* Lines 47-48: the items of thread l, clamped to the work.
ThrBegin(l) == IF l * ChunkSize < Work THEN l * ChunkSize ELSE Work
ThrEnd(l)   == IF (l + 1) * ChunkSize < Work THEN (l + 1) * ChunkSize ELSE Work

(***************************************************************************)
(* Lines 53 and 66-67: the item's filter block.  ofm1 is initialised to 0 *)
(* and never assigned (line 66 assigns ofm2, which the inner loop then    *)
(* overwrites); ifm1 is the item divided by nBlocksIFm.                    *)
(***************************************************************************)
ItemOfm1(t) == 0
ItemIfm1(t) == t \div NBlocksIFm

\* Lines 72 and 80: the flat filter block the item writes.
FilterBlock(t) == ItemOfm1(t) * NBlocksIFm + ItemIfm1(t)

\* Line 81: the term image img adds, output[img][ofm1] times input[img][ifm1].
Term(t, img) == <<img * NBlocksOFm + ItemOfm1(t), img * NBlocksIFm + ItemIfm1(t)>>

\* What the layer is to compute: block (o, i) sums the products of the
\* output block o and the input block i over the images.
Gradient(o, i) ==
  SetToBag({<<img * NBlocksOFm + o, img * NBlocksIFm + i>> : img \in 0 .. NImg - 1})

VARIABLES
  filter,  \* flat filter block -> bag of terms
  pc,      \* ltid -> "start", "zero", "load", "store", "wait", "done"
  item,    \* ltid -> the current ifmofm
  img,     \* ltid -> the current img2
  tmp,     \* ltid -> the block value loaded by the += of line 80
  ran      \* ltid -> the items the thread has finished (history)

vars == <<filter, pc, item, img, tmp, ran>>

\* Line 60: the blocks of the filter array.
Blocks == 0 .. Work - 1

\* Lines 51-56: the loop variables; grad_filter holds the caller's values,
\* which no item reads before zeroing its block (EmptyBag stands for them).
Init ==
  /\ filter \in [Blocks -> {EmptyBag}]
  /\ pc = [l \in Ltids |-> "start"]
  /\ item = [l \in Ltids |-> 0]
  /\ img = [l \in Ltids |-> 0]
  /\ tmp = [l \in Ltids |-> EmptyBag]
  /\ ran = [l \in Ltids |-> {}]

\* Fault model for line 65: the loop increment dropped.
AdvanceItemDropped(t) == t

\* Line 65: ++ifmofm.
AdvanceItem(t) == t + 1

\* Where a thread goes when item t is its next one.
NextItem(l, t) == IF t < ThrEnd(l) THEN "zero" ELSE "wait"

\* Lines 41-65: the chunk bounds, the lazy barrier init and the loop test.
Start(l) ==
  /\ pc[l] = "start"
  /\ item' = [item EXCEPT ![l] = ThrBegin(l)]
  /\ pc' = [pc EXCEPT ![l] = NextItem(l, ThrBegin(l))]
  /\ UNCHANGED <<filter, img, tmp, ran>>

\* Lines 66-76: the item's block is zeroed and the image loop starts.
ZeroBlock(l) ==
  /\ pc[l] = "zero"
  /\ filter' = [filter EXCEPT ![FilterBlock(item[l])] = EmptyBag]
  /\ img' = [img EXCEPT ![l] = 0]
  /\ pc' = [pc EXCEPT ![l] = "load"]
  /\ UNCHANGED <<item, tmp, ran>>

\* Line 80, first half: the block is read.
LoadAcc(l) ==
  /\ pc[l] = "load"
  /\ tmp' = [tmp EXCEPT ![l] = filter[FilterBlock(item[l])]]
  /\ pc' = [pc EXCEPT ![l] = "store"]
  /\ UNCHANGED <<filter, item, img, ran>>

\* Lines 76-85: the sum is stored; next image, or next item, or the end.
StoreAcc(l) ==
  LET t == item[l]
      lastImg == img[l] + 1 = NImg
  IN  /\ pc[l] = "store"
      /\ filter' = [filter EXCEPT ![FilterBlock(t)] = tmp[l] (+) SetToBag({Term(t, img[l])})]
      /\ img' = [img EXCEPT ![l] = IF lastImg THEN 0 ELSE @ + 1]
      /\ item' = [item EXCEPT ![l] = IF lastImg THEN AdvanceItem(@) ELSE @]
      /\ ran' = [ran EXCEPT ![l] = IF lastImg THEN @ \cup {t} ELSE @]
      /\ pc' = [pc EXCEPT ![l] = IF lastImg THEN NextItem(l, AdvanceItem(t)) ELSE "load"]
      /\ UNCHANGED tmp

\* Line 87: libxsmm_barrier_wait releases a thread once all have arrived.
BarrierWait(l) ==
  /\ pc[l] = "wait"
  /\ \A k \in Ltids : pc[k] \in {"wait", "done"}
  /\ pc' = [pc EXCEPT ![l] = "done"]
  /\ UNCHANGED <<filter, item, img, tmp, ran>>

AllDone == \A l \in Ltids : pc[l] = "done"

Terminated == AllDone /\ UNCHANGED vars

Next ==
  \/ \E l \in Ltids : Start(l) \/ ZeroBlock(l) \/ LoadAcc(l) \/ StoreAcc(l) \/ BarrierWait(l)
  \/ Terminated

\* Threads are OS threads; each one that can run eventually does.
Spec == Init /\ [][Next]_vars /\ \A l \in Ltids : WF_vars(Start(l) \/ ZeroBlock(l)
          \/ LoadAcc(l) \/ StoreAcc(l) \/ BarrierWait(l))

-----------------------------------------------------------------------------
(***************************************************************************)
(* The chunks of lines 45-48 share the work out: no item is run by two    *)
(* threads, and no thread leaves the barrier of line 87 before every item *)
(* 0 .. work-1 has been run, idle threads (thr_begin = work) included.    *)
(***************************************************************************)
WorkDoneAtBarrier ==
  /\ \A l, k \in Ltids : l # k => ran[l] \cap ran[k] = {}
  /\ (\E l \in Ltids : pc[l] = "done") => UNION {ran[l] : l \in Ltids} = 0 .. Work - 1

(***************************************************************************)
(* Every thread eventually passes the barrier: the item and image loops   *)
(* of lines 65-85 end and the barrier releases.                            *)
(***************************************************************************)
AllThreadsFinish == <>AllDone

(***************************************************************************)
(* Once all threads have passed the barrier, every filter block (ofm1,     *)
(* ifm1) holds the sum over the images of output[img][ofm1] times          *)
(* input[img][ifm1], each product once: what the weight update computes.   *)
(***************************************************************************)
FilterGradientComputed ==
  AllDone => \A o \in 0 .. NBlocksOFm - 1, i \in 0 .. NBlocksIFm - 1 :
               filter[o * NBlocksIFm + i] = Gradient(o, i)
=============================================================================
