--------------------------- MODULE CscSpmmSample ---------------------------
(***************************************************************************)
(* The packed sparse-GEMM sample, src/samples/edge/bsparse_packed_csc.c:   *)
(* it reads a K x N sparse B in CSC form from a file, checks the shape     *)
(* against its arguments, copies B into a dense K x N buffer, computes     *)
(* C_gold = A * B_dense REPS times, runs the JIT-ed packed CSC kernel REPS *)
(* times into C_asm, and reports the largest difference.                   *)
(*                                                                         *)
(* Data abstraction.  The rows i < M and the N_CRUNS lanes of A and C are  *)
(* alike, so a column j of C is one bag of products <<jj, v>>: A's column  *)
(* jj times a value v of B, v being e + 1 for the CSC entry e (0 for an    *)
(* empty dense cell, whose product adds nothing).  The CSC reader and the  *)
(* sparse kernel are library code outside src/: the reader yields the      *)
(* file's matrix, and the kernel adds A times the CSC matrix into C_asm.   *)
(***************************************************************************)
EXTENDS Integers, Sequences, FiniteSets, Bags, SequencesExt

CONSTANTS
  KArgs, NArgs, MArgs, RepsArgs,  \* argv values of K, N, M, REPS
  FileDims                        \* <<rows, cols>> of the CSC files

SUCCESS == 0
FAILURE == 1

\* Lines 16-21: the arguments, or the defaults when argc != 7.
Args ==
  [argc7 : {TRUE}, M : MArgs, N : NArgs, K : KArgs, reps : RepsArgs]
  \cup {[argc7 |-> FALSE, M |-> 9, N |-> 10, K |-> 20, reps |-> 1]}

\* A CSC matrix whose column c holds the rows cols[c], in increasing order.
CscFile(d, cols) ==
  LET rows == [c \in 1 .. d[2] |-> SetToSortSeq(cols[c - 1], <)]
      flat == FlattenSeq(rows)
  IN  [rows |-> d[1], cols |-> d[2],
       colptr |-> [n \in 0 .. d[2] |-> Len(FlattenSeq(SubSeq(rows, 1, n)))],
       rowidx |-> [e \in 0 .. Len(flat) - 1 |-> flat[e + 1]]]

\* Every CSC file of the given shapes without a repeated (row, column).
Files ==
  UNION {{CscFile(d, cols) : cols \in [0 .. d[2] - 1 -> SUBSET (0 .. d[1] - 1)]} : d \in FileDims}

\* The entries of column n of a CSC file.
ColEntries(f, n) == f.colptr[n] .. f.colptr[n + 1] - 1

\* n copies of every element of S.
Times(n, S) == IF n = 0 THEN EmptyBag ELSE [x \in S |-> n]

VARIABLES
  a,       \* the arguments
  file,    \* the CSC file
  alloc,   \* the four aligned mallocs of lines 36-45 succeeded
  result,  \* the exit status
  pc,      \* the point main has reached
  bde,     \* l_b_de: dense cell -> value
  col,     \* l_n of the copy loop
  cgold,   \* l_c_gold: column -> bag of products
  casm,    \* l_c_asm: column -> bag of products
  maxErrZero, \* the printed max error is 0
  oob      \* the dense copy wrote outside l_b_de

vars == <<a, file, alloc, result, pc, bde, col, cgold, casm, maxErrZero, oob>>

\* Lines 15-57: arguments, the shape from libxsmm_sparse_csc_reader_desc,
\* the buffers (uninitialised, model value -1).
Init ==
  /\ a \in Args
  /\ file \in Files
  /\ alloc \in BOOLEAN
  /\ result = SUCCESS
  /\ pc = "check"
  /\ bde = [p \in 0 .. a.K * a.N - 1 |-> -1]
  /\ col = 0
  /\ cgold = [j \in 0 .. a.N - 1 |-> EmptyBag]
  /\ casm = [j \in 0 .. a.N - 1 |-> EmptyBag]
  /\ maxErrZero = FALSE
  /\ oob = FALSE

\* Fault model for line 64: the row count not compared with K.
ShapeMatchesColsOnly(x, f) == x.N = f.cols

\* Lines 64-72: the file's shape is K x N.
ShapeMatches(x, f) == x.K = f.rows /\ x.N = f.cols

\* Lines 59-84: the argument and allocation checks; on failure the do-while
\* body is skipped.
Validate ==
  LET ok == a.argc7 /\ ShapeMatches(a, file) /\ a.M = 9 /\ alloc
  IN  /\ pc = "check"
      /\ result' = IF ok THEN result ELSE FAILURE
      /\ pc' = IF ok THEN "touch" ELSE "free"
      /\ UNCHANGED <<a, file, alloc, bde, col, cgold, casm, maxErrZero, oob>>

\* Lines 85-102: A gets random values, both Cs are zeroed.
TouchAC ==
  /\ pc = "touch"
  /\ cgold' = [j \in 0 .. a.N - 1 |-> EmptyBag]
  /\ casm' = [j \in 0 .. a.N - 1 |-> EmptyBag]
  /\ pc' = "read"
  /\ UNCHANGED <<a, file, alloc, result, bde, col, maxErrZero, oob>>

\* Lines 104-113: libxsmm_sparse_csc_reader; a NULL array breaks out.
ReadCsc ==
  /\ pc = "read"
  /\ \E ok \in BOOLEAN :
       /\ result' = IF ok THEN result ELSE FAILURE
       /\ pc' = IF ok THEN "zero" ELSE "free"
  /\ UNCHANGED <<a, file, alloc, bde, col, cgold, casm, maxErrZero, oob>>

\* Lines 119-121: the dense buffer is zeroed.
ZeroDense ==
  /\ pc = "zero"
  /\ bde' = [p \in DOMAIN bde |-> 0]
  /\ col' = 0
  /\ pc' = "copy"
  /\ UNCHANGED <<a, file, alloc, result, cgold, casm, maxErrZero, oob>>

\* Fault model for line 128: the dense cell taken column-major.
BdeIndexColMajor(r, c) == c * a.K + r

\* Line 128: the dense cell of row r, column c.
BdeIndex(r, c) == r * a.N + c

\* Lines 123-130: column col of the CSC matrix is copied into l_b_de.
CopyColumn ==
  LET cells == {BdeIndex(file.rowidx[e], col) : e \in ColEntries(file, col)}
      value(p) == CHOOSE v \in {e + 1 : e \in ColEntries(file, col)} :
                    BdeIndex(file.rowidx[v - 1], col) = p
  IN  /\ pc = "copy"
      /\ bde' = [p \in DOMAIN bde |-> IF p \in cells THEN value(p) ELSE bde[p]]
      /\ oob' = (oob \/ ~(cells \subseteq DOMAIN bde))
      /\ col' = col + 1
      /\ pc' = IF col + 1 = a.N THEN "dense" ELSE "copy"
      /\ UNCHANGED <<a, file, alloc, result, cgold, casm, maxErrZero>>

\* Line 143: the dense cell B[jj][j] the reference reads.
RefIndex(jj, j) == jj * a.N + j

\* Lines 132-153: C_gold += A * B_dense, REPS times.
DenseProduct ==
  /\ pc = "dense"
  /\ cgold' = [j \in 0 .. a.N - 1 |->
                 cgold[j] (+) Times(a.reps, {<<jj, bde[RefIndex(jj, j)]>> :
                                             jj \in {r \in 0 .. a.K - 1 : bde[RefIndex(r, j)] # 0}})]
  /\ pc' = "sparse"
  /\ UNCHANGED <<a, file, alloc, result, bde, col, casm, maxErrZero, oob>>

\* Lines 155-171: the packed CSC kernel is JIT-ed and called REPS times.
SparseKernel ==
  /\ pc = "sparse"
  /\ casm' = [j \in 0 .. a.N - 1 |->
                casm[j] (+) Times(a.reps, {<<file.rowidx[e], e + 1>> : e \in ColEntries(file, j)})]
  /\ pc' = "compare"
  /\ UNCHANGED <<a, file, alloc, result, bde, col, cgold, maxErrZero, oob>>

\* Lines 173-189: the largest |C_gold - C_asm|.
Compare ==
  /\ pc = "compare"
  /\ maxErrZero' = (cgold = casm)
  /\ pc' = "free"
  /\ UNCHANGED <<a, file, alloc, result, bde, col, cgold, casm, oob>>

\* Lines 190-206: the buffers are freed and main returns.
Free ==
  /\ pc = "free"
  /\ pc' = "done"
  /\ UNCHANGED <<a, file, alloc, result, bde, col, cgold, casm, maxErrZero, oob>>

Returned == pc = "done" /\ UNCHANGED vars

Next ==
  \/ Validate \/ TouchAC \/ ReadCsc \/ ZeroDense \/ CopyColumn
  \/ DenseProduct \/ SparseKernel \/ Compare \/ Free \/ Returned

Spec == Init /\ [][Next]_vars

-----------------------------------------------------------------------------
(***************************************************************************)
(* The dense copy of lines 123-130 writes only inside l_b_de: the shape    *)
(* checks of lines 64-72, made on the file's header before the matrix is   *)
(* read, keep every row index times N plus the column below K * N.         *)
(***************************************************************************)
DenseWritesInBounds == ~oob

(***************************************************************************)
(* When main returns EXIT_SUCCESS, the dense reference of lines 119-148    *)
(* equals what the CSC kernel computes: the dense copy puts every CSC      *)
(* entry in its row and column and the zeroing leaves no stale cell, so   *)
(* the printed max error is 0 for a correct kernel.                        *)
(***************************************************************************)
ReferenceMatchesKernel ==
  (pc = "done" /\ result = SUCCESS) => maxErrZero
=============================================================================
