------------------------------ MODULE MatrixKernels ------------------------------
(***************************************************************************)
(* Dot products, matrix products and convolutions: kernels that accumulate  *)
(* products in vector registers, strip by strip and block by block, with    *)
(* the next row of an operand loaded while the last one is used.  An action *)
(* is one pass through the body of a loop.                                  *)
(***************************************************************************)
EXTENDS VectorProgram
-----------------------------------------------------------------------------
(* Dot product of "a" and "b", job.avl elements each, sew bits wide. *)

DotStart(sew) ==
  Start("strip",
        [i |-> 0, avl |-> job.avl, vl |-> vsetvl(job.avl, sew, 8)],
        [acc |-> <<>>],
        [a |-> Array("a", job.avl), b |-> Array("b", job.avl), red |-> Array("red", 1)])

\* The first strip sets the accumulator, the others add to it; elements past
\* vl stay as they are.
Accumulated(products) ==
  IF x.avl = job.avl
  THEN products
  ELSE [k \in DOMAIN products |-> Plus(v.acc[k], products[k])] @@ v.acc

DotStrip(sew) ==
  /\ at = "strip"
  /\ x.avl > 0
  /\ LET vl == vsetvl(x.avl, sew, 8)
         products == Pointwise(Load("a", x.i, vl), Load("b", x.i, vl), Times)
     IN Step("strip",
             [i |-> x.i + vl, avl |-> x.avl - vl, vl |-> vl],
             [acc |-> Accumulated(products)],
             mem,
             Outside("a", Span(x.i, 1, vl)) \cup Outside("b", Span(x.i, 1, vl)))

\* The reduction sums the first vl elements, vl being that of the last strip.
DotReduce ==
  /\ at = "strip"
  /\ x.avl = 0
  /\ LET red == Sum([k \in 0 .. x.vl - 1 |-> v.acc[k]])
     IN Step("done", x, v, [mem EXCEPT !.red[0] = red], {})

Dot(sew) == DotStrip(sew) \/ DotReduce

\* The element widths of the functions, and what the scalar ones return.
DotWidth == [fdotp_v64b |-> 64, fdotp_v32b |-> 32, fdotp_v16b |-> 16,
             dotp_v64b |-> 64, dotp_v32b |-> 32, dotp_v16b |-> 16, dotp_v8b |-> 8]
fdotp_v64b == job.kernel = "fdotp_v64b" /\ Dot(64)
fdotp_v32b == job.kernel = "fdotp_v32b" /\ Dot(32)
fdotp_v16b == job.kernel = "fdotp_v16b" /\ Dot(16)
dotp_v64b == job.kernel = "dotp_v64b" /\ Dot(64)
dotp_v32b == job.kernel = "dotp_v32b" /\ Dot(32)
dotp_v16b == job.kernel = "dotp_v16b" /\ Dot(16)
dotp_v8b == job.kernel = "dotp_v8b" /\ Dot(8)
DotProduct == \/ fdotp_v64b \/ fdotp_v32b \/ fdotp_v16b
              \/ dotp_v64b \/ dotp_v32b \/ dotp_v16b \/ dotp_v8b

fdotp_s64b(n) == Sum([k \in 0 .. n - 1 |-> Times(Term(<<"a", k>>), Term(<<"b", k>>))])
-----------------------------------------------------------------------------
(* Product of "a", M by N, and "b", N by P.  A block of rows of the result  *)
(* stays in registers while the rows of "b" pass, in two registers by turns. *)

mul_4x4 == [rows |-> 4, lmul |-> 4]
mul_8x8 == [rows |-> 8, lmul |-> 2]
mul_16x16 == [rows |-> 16, lmul |-> 1]

\* Which variant is called for how many rows.
fmatmul(M) == CASE M <= 4 -> mul_4x4
                [] M \in 5 .. 8 -> mul_8x8
                [] M \in 9 .. 64 -> mul_16x16
                [] M \in 65 .. 128 -> mul_8x8
                [] OTHER -> mul_4x4
imatmul(M) == IF M \in 5 .. 128 THEN mul_8x8 ELSE mul_4x4

Variant == IF job.kernel = "fmatmul" THEN fmatmul(job.M) ELSE imatmul(job.M)
BlockP == vsetvl(job.P, 64, Variant.lmul)
Rows == 0 .. Variant.rows - 1

\* Elements of this slice of columns.
p_ == Min({job.P - x.p, BlockP})

MatMulStart ==
  Start("block", [p |-> 0, m |-> 0],
        <<>>,
        [a |-> Array("a", job.M * job.N), b |-> Array("b", job.N * job.P),
         c |-> Array("c", job.M * job.P)])

\* The scalars of column n of the block of "a", and row n of the slice of "b".
ColumnAt(n) == {(x.m + k) * job.N + n : k \in Rows}
Column(n) == [k \in Rows |-> Cell("a", (x.m + k) * job.N + n)]
RowAt(n) == Span(n * job.P + x.p, 1, p_)
Row(n) == Load("b", n * job.P + x.p, p_)
Fetched(n) == Outside("a", ColumnAt(n)) \cup Outside("b", RowAt(n))

\* vfmacc.vf of every row of the block with the scalars and one row of "b".
MultiplyAdd(row) ==
  [k \in Rows |-> Pointwise(v.c[k], Scaled(x.t[k], row), Plus)]

\* Clear the block and fetch the first row and the first scalars.
SliceInit ==
  /\ at = "block"
  /\ x.p < job.P
  /\ Step("even", [p |-> x.p, m |-> x.m, n |-> 0, t |-> Column(0)],
          [c |-> [k \in Rows |-> Splat(Zero, p_)], b |-> <<Row(0)>>],
          mem, Fetched(0))

\* The two halves of the loop: use one row, fetch the next into the other.
UseAndFetch(place, used, next) ==
  Step(place, [x EXCEPT !.n = x.n + 1, !.t = Column(x.n + 1)],
       [c |-> MultiplyAdd(used), b |-> next], mem, Fetched(x.n + 1))

\* The conditions differ where an odd number of rows is passed by.
MoreRows == IF job.kernel = "imatmul" THEN x.n < job.N ELSE x.n # job.N

FirstHalf ==
  /\ at = "even"
  /\ MoreRows
  /\ UseAndFetch("odd", v.b[1], <<v.b[1], Row(x.n + 1)>>)

\* Mutant: no break in the middle of the loop.
SecondHalf_NoBreak ==
  /\ at = "odd"
  /\ UseAndFetch("even", v.b[2], <<Row(x.n + 1), v.b[2]>>)

SecondHalf ==
  /\ at = "odd"
  /\ x.n + 1 # job.N
  /\ UseAndFetch("even", v.b[2], <<Row(x.n + 1), v.b[2]>>)

\* The last row is always the second of the two; then the block is stored
\* and the next one begins, to the last row and then with the next columns.
StoreBlock ==
  /\ \/ at = "odd" /\ x.n + 1 = job.N
     \/ at = "even" /\ ~MoreRows
  /\ LET to == [k \in Rows |-> (x.m + k) * job.P + x.p]
         block == MultiplyAdd(v.b[2])
         more == x.m + Variant.rows < job.M
     IN Step("block",
             [p |-> IF more THEN x.p ELSE x.p + BlockP,
              m |-> IF more THEN x.m + Variant.rows ELSE 0],
             v,
             [mem EXCEPT !.c = StoredRows(mem.c, to, block)],
             Outside("c", UNION {Span(to[k], 1, p_) : k \in Rows}))

MatMulReturns == at = "block" /\ x.p >= job.P /\ Step("done", x, v, mem, {})

MatMul ==
  /\ job.kernel \in {"fmatmul", "imatmul"}
  /\ SliceInit \/ FirstHalf \/ SecondHalf \/ StoreBlock \/ MatMulReturns

\* Row by column.
ProductOf(M, N, P) ==
  [e \in 0 .. M * P - 1 |->
     Sum([n \in 0 .. N - 1 |->
            Times(Term(<<"a", (e \div P) * N + n>>), Term(<<"b", n * P + (e % P)>>))])]
-----------------------------------------------------------------------------
(* Convolution of "i", (R + F - 1) by (C + F - 1), with the filter "f",     *)
(* F by F.  A block of output rows is computed at once, column of the       *)
(* filter by column; the last F - 1 input rows are kept for the next block. *)

fconv2d_3x3 == [rows |-> 4, F |-> 3]
iconv2d_3x3 == [rows |-> 4, F |-> 3]
iconv2d_5x5 == [rows |-> 2, F |-> 5]

Shape == CASE job.kernel = "fconv2d_3x3" -> fconv2d_3x3
           [] job.kernel = "iconv2d_3x3" -> iconv2d_3x3
           [] job.kernel = "iconv2d_5x5" -> iconv2d_5x5
F == Shape.F
Width == job.C + F - 1

InputRow(r) == Load("i", r * Width, vsetvl(Width, 64, 2))
RowsOutside(rows) == Outside("i", UNION {Span(r * Width, 1, vsetvl(Width, 64, 2)) : r \in rows})

ConvStart ==
  Start("preload", [r |-> 0],
        <<>>,
        [i |-> Array("i", (job.R + F - 1) * Width), f |-> Array("f", F * F),
         o |-> Array("o", job.R * job.C)])

\* The first F - 1 rows, which the later blocks take from the one before.
Preload ==
  /\ at = "preload"
  /\ Step("block", x, [in |-> [d \in 0 .. F - 2 |-> InputRow(d)]], mem,
          RowsOutside(0 .. F - 2))

LoadBlock ==
  /\ at = "block"
  /\ x.r < job.R
  /\ LET rows == F - 1 .. F - 2 + Shape.rows
     IN Step("column", [r |-> x.r, col |-> 0],
             [in |-> [d \in rows |-> InputRow(x.r + d)] @@ v.in,
              out |-> [k \in 0 .. Shape.rows - 1 |-> Splat(Zero, vsetvl(job.C, 64, 2))]],
             mem, RowsOutside({x.r + d : d \in rows}))

\* Output row k takes the input rows k .. k + F - 1, slid down by the column.
FilterColumn ==
  /\ at = "column"
  /\ x.col < F
  /\ LET term(k, d) == Scaled(mem.f[d * F + x.col],
                              slidedown(v.in[k + d], x.col, vsetvl(job.C, 64, 2)))
         new == [k \in DOMAIN v.out |->
                   [e \in DOMAIN v.out[k] |->
                      Plus(v.out[k][e], Sum([d \in 0 .. F - 1 |-> term(k, d)[e]]))]]
     IN Step("column", [x EXCEPT !.col = x.col + 1], [v EXCEPT !.out = new], mem, {})

\* Store the block, and move the rows that the next one needs.
StoreRows ==
  /\ at = "column"
  /\ x.col = F
  /\ LET n == vsetvl(job.C, 64, 2)
         to == [k \in DOMAIN v.out |-> (x.r + k) * job.C]
     IN Step("block", [r |-> x.r + Shape.rows],
             [in |-> [d \in 0 .. F - 2 |-> v.in[d + Shape.rows]]],
             [mem EXCEPT !.o = StoredRows(mem.o, to, v.out)],
             Outside("o", UNION {Span(to[k], 1, n) : k \in DOMAIN v.out}))

ConvReturns == at = "block" /\ x.r >= job.R /\ Step("done", x, v, mem, {})

Conv2D ==
  /\ job.kernel \in {"fconv2d_3x3", "iconv2d_3x3", "iconv2d_5x5"}
  /\ Preload \/ LoadBlock \/ FilterColumn \/ StoreRows \/ ConvReturns

\* Every output element is the window below it times the filter, over all
\* channels.
ConvolutionOf(R, C, CH, size) ==
  LET width == C + size - 1
      height == R + size - 1
  IN [e \in 0 .. R * C - 1 |->
        Sum([w \in (0 .. CH - 1) \X (0 .. size - 1) \X (0 .. size - 1) |->
               Times(Term(<<"f", (w[1] * size + w[2]) * size + w[3]>>),
                     Term(<<"i", (w[1] * height + (e \div C) + w[2]) * width
                                   + (e % C) + w[3]>>))])]
=============================================================================
