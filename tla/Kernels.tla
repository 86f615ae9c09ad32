------------------------------- MODULE Kernels -------------------------------
(***************************************************************************)
(* The vector kernels under src/apps, each called by its own main program:  *)
(* a behaviour is one call, from its arguments to its return.               *)
(***************************************************************************)
EXTENDS LargeConvolutions, StreamKernels

Init ==
  /\ job \in Jobs
  /\ \/ job.kernel \in DOMAIN DotWidth /\ DotStart(DotWidth[job.kernel])
     \/ job.kernel \in {"fmatmul", "imatmul"} /\ MatMulStart
     \/ job.kernel \in {"fconv2d_3x3", "iconv2d_3x3", "iconv2d_5x5"} /\ ConvStart
     \/ job.kernel \in LargeKernels /\ LargeStart
     \/ job.kernel = "jacobi2d" /\ JacobiStart
     \/ job.kernel = "pathfinder" /\ PathStart
     \/ job.kernel = "dwt" /\ WaveStart
     \/ job.kernel = "softmax" /\ SoftmaxStart
     \/ job.kernel = "dropout" /\ DropoutStart

Next ==
  \/ DotProduct \/ MatMul \/ Conv2D
  \/ fconv2d_7x7 \/ iconv2d_7x7 \/ fconv3d_CHx7x7
  \/ Jacobi2D \/ PathFinder \/ Wavelet \/ Softmax \/ Dropout

\* A program that can go on does.
Spec == Init /\ [][Next]_vars /\ WF_vars(Next)
-----------------------------------------------------------------------------
Places == {"strip", "block", "even", "odd", "preload", "column", "row", "copy",
           "load", "pass", "level", "max", "exp", "div", "slice", "rows", "columns", "done"}

\* The shape of the state.  The elements of a register group that a kernel of
\* vectors of its own holds are as many as the group has: the wavelet
\* transform works on two vector lengths at once, and must not ask for more
\* than a group (LMUL 4) has room for.
TypeOK ==
  /\ job \in Jobs
  /\ at \in Places
  /\ \A array \in DOMAIN mem : \A k \in DOMAIN mem[array] : IsABag(mem[array][k])
  /\ job.kernel = "dwt" =>
       \A r \in DOMAIN v : DOMAIN v[r] \subseteq 0 .. VLMax(32, 4) - 1

\* A dot product is the sum over all elements, each once, although every strip
\* only adds to as many elements of the accumulator as it has itself, and the
\* reduction covers as many as the last one has (fdotproduct.c, dotproduct.c).
DotProductsRight ==
  job.kernel \in DOMAIN DotWidth /\ at = "done" => mem.red[0] = fdotp_s64b(job.avl)

\* Matrix products and convolutions are the textbook ones, with the operand
\* rows fetched ahead into two registers by turns and the last input rows of a
\* block handed to the next one, with the special cases of the first and the
\* last rows and two rows to a pass between them (fmatmul.c, imatmul.c,
\* fconv2d_3x3.c, iconv2d_3x3.c, iconv2d_5x5.c, fconv2d_7x7.c, iconv2d_7x7.c,
\* fconv3d_3x7x7.c).
ProductsRight ==
  at = "done" =>
    /\ job.kernel \in {"fmatmul", "imatmul"} => mem.c = ProductOf(job.M, job.N, job.P)
    /\ job.kernel \in {"fconv2d_3x3", "iconv2d_3x3", "iconv2d_5x5"} =>
         mem.o = ConvolutionOf(job.R, job.C, 1, F)
    /\ job.kernel \in LargeKernels => mem.o = ConvolutionOf(job.R, job.C, job.CH, F7)

\* The stencil with three rows in registers by turns, the neighbours of a
\* strip read one row ahead, computes what the scalar sweeps compute, at the
\* seams of strips too (jacobi2d.c).
SweepsRight ==
  job.kernel = "jacobi2d" /\ at = "done" =>
    LET grids == j2d_s(job.r, job.c)[2 * job.steps]
    IN mem.A = grids[1] /\ mem.B = grids[2]

\* The cheapest path is taken over all three neighbours as they were in the
\* row above, although the row is overwritten strip by strip (pathfinder.c).
PathsRight ==
  job.kernel = "pathfinder" /\ at = "done" =>
    \A n \in 0 .. job.cols - 1 :
      BagToSet(mem.result_v[n]) = BagToSet(run(job.rows, job.cols)[n])

\* The wavelet transform, the softmax and the dropout store what their scalar
\* versions store: no sample is overwritten before it is read, numerators and
\* sums belong to one column, and the mask keeps up with the elements
\* (wavelet.c, softmax.c, dropout.c).
StreamsRight ==
  at = "done" =>
    /\ job.kernel = "dwt" => mem.data = gsl_wavelet_transform(job.n, job.first_iter_only)
    /\ job.kernel = "softmax" => mem.o = softmax(job.channels, job.inner)
    /\ job.kernel = "dropout" => mem.o = dropout_gold(job.n)

\* No kernel reads or writes outside its arrays, not even where it fetches
\* ahead of its use (the prefetches of fmatmul.c and jacobi2d.c).
InBounds == strays = {}

\* Every call returns (the loop conditions and the counters of all kernels).
EveryKernelReturns == <>(at = "done")
-----------------------------------------------------------------------------
(* What the run checks: the properties above, by subject. *)

\* A kernel keeps within its arrays and its register groups.
StaysInside == TypeOK /\ InBounds

\* A kernel stores what its scalar version or its textbook definition does.
StoresItsResult ==
  DotProductsRight /\ ProductsRight /\ SweepsRight /\ PathsRight /\ StreamsRight
=============================================================================
