------------------------------ MODULE StreamKernels ------------------------------
(***************************************************************************)
(* Kernels that work in place or reuse what they loaded: a stencil with     *)
(* three rows in registers by turns, a shortest path that overwrites the    *)
(* row it reads, a wavelet transform in the array it transforms, a softmax  *)
(* that keeps its numerators in the result, and a dropout whose mask moves  *)
(* on by bytes.  An action is one pass through the body of a loop.          *)
(***************************************************************************)
EXTENDS VectorProgram
-----------------------------------------------------------------------------
(* Jacobi stencil: job.steps times from "A" to "B" and back, r by c points. *)

size_x == job.c - 2
size_y == job.r - 2
Source == IF x.half % 2 = 0 THEN "A" ELSE "B"
Target == IF x.half % 2 = 0 THEN "B" ELSE "A"
GridRow(i, j, n) == Load(Source, i * job.c + j, n)

Beside(i, j, n) == [left |-> Cell(Source, i * job.c + j - 1),
                    right |-> Cell(Source, i * job.c + j + n)]

BesideAt(i, j, n) == {i * job.c + j - 1, i * job.c + j + n}

JacobiStart ==
  Start("strip", [half |-> 0, j |-> 1], <<>>,
        [A |-> Array("A", job.r * job.c), B |-> Array("B", job.r * job.c)])

\* A strip of columns: its first three rows, and the neighbours of the second.
JacobiStrip ==
  /\ at = "strip"
  /\ x.j <= size_x
  /\ LET gvl == vsetvl(size_x - x.j + 1, 64, 4)
     IN Step("row",
             [half |-> x.half, j |-> x.j, i |-> 1, gvl |-> gvl,
              beside |-> Beside(1, x.j, gvl)],
             [rows |-> [k \in 0 .. 2 |-> GridRow(k, x.j, gvl)]],
             mem,
             Outside(Source, BesideAt(1, x.j, gvl)
                               \cup UNION {Span(k * job.c + x.j, 1, gvl) : k \in 0 .. 2}))

\* One of the three unrolled rows: its registers turn by one from row to row,
\* and the row after the next one replaces the top row.
Fifth == Term(<<"0.2">>)
JacobiRow ==
  /\ at = "row"
  /\ x.i <= size_y
  /\ LET top == (x.i - 1) % 3
         middle == v.rows[(top + 1) % 3]
         bottom == v.rows[(top + 2) % 3]
         left == slide1up(middle, x.beside.left)
         right == slide1down(middle, x.beside.right)
         result == [k \in 0 .. x.gvl - 1 |->
                      Times(Fifth, Sum(<<middle[k], v.rows[top][k], bottom[k],
                                         left[k], right[k]>>))]
         goes_on == x.i + 1 <= size_y
     IN Step("row",
             [x EXCEPT !.i = x.i + 1,
                       !.beside = IF goes_on THEN Beside(x.i + 1, x.j, x.gvl) ELSE @],
             [rows |-> IF goes_on
                       THEN [v.rows EXCEPT ![top] = GridRow(x.i + 2, x.j, x.gvl)]
                       ELSE v.rows],
             [mem EXCEPT ![Target] = Stored(@, x.i * job.c + x.j, result)],
             Outside(Target, Span(x.i * job.c + x.j, 1, x.gvl))
               \cup IF goes_on
                    THEN Outside(Source, BesideAt(x.i + 1, x.j, x.gvl)
                                   \cup Span((x.i + 2) * job.c + x.j, 1, x.gvl))
                    ELSE {})

\* Mutant: the columns do not move on.
JacobiNextStrip_Same ==
  /\ at = "row"
  /\ x.i > size_y
  /\ Step("strip", [half |-> x.half, j |-> x.j], <<>>, mem, {})

JacobiNextStrip ==
  /\ at = "row"
  /\ x.i > size_y
  /\ Step("strip", [half |-> x.half, j |-> x.j + x.gvl], <<>>, mem, {})

\* The next call, with the grids swapped.
JacobiNextCall ==
  /\ at = "strip"
  /\ x.j > size_x
  /\ Step(IF x.half + 1 = 2 * job.steps THEN "done" ELSE "strip",
          [half |-> x.half + 1, j |-> 1], <<>>, mem, {})

Jacobi2D ==
  /\ job.kernel = "jacobi2d"
  /\ JacobiStrip \/ JacobiRow \/ JacobiNextStrip \/ JacobiNextCall

\* The scalar version: both grids after a number of half steps.
j2d_s(r, c) ==
  LET swept(from, to) ==
        [e \in DOMAIN to |->
           IF e \div c \in 1 .. r - 2 /\ e % c \in 1 .. c - 2
           THEN Times(Fifth, Sum([d \in {0, -1, 1, c, -c} |-> from[e + d]]))
           ELSE to[e]]
      grids[half \in Nat] ==
        IF half = 0
        THEN <<Array("A", r * c), Array("B", r * c)>>
        ELSE LET old == grids[half - 1]
             IN IF half % 2 = 1 THEN <<old[1], swept(old[1], old[2])>>
                                ELSE <<swept(old[2], old[1]), old[2]>>
  IN grids
-----------------------------------------------------------------------------
(* Cheapest path down a wall of job.rows rows: costs add up along a path,   *)
(* and of the paths to a point the cheapest counts.  Long rows are worked   *)
(* on in strips, in the result; short ones stay in registers.               *)

IsShort == job.cols <= VLMax(32, 4)

\* Column by column the cheapest of a row, its left and its right neighbours.
Cheapest(row, left, right) ==
  Pointwise(Pointwise(row, slide1up(row, left), Least), slide1down(row, right), Least)
WallRow(t, n, gvl) == Load("wall", t * job.cols + n, gvl)

PathStart ==
  Start(IF IsShort THEN "load" ELSE "copy",
        [run |-> 0, n |-> 0],
        <<>>,
        [wall |-> Array("wall", job.rows * job.cols),
         result_v |-> Array("result_v", job.cols)])

\* The first row, always with the vector length of a whole row.
PathCopy ==
  /\ at = "copy"
  /\ x.n < job.cols
  /\ LET gvl == vsetvl(job.cols, 32, 1)
     IN Step("copy", [x EXCEPT !.n = x.n + gvl], v,
             [mem EXCEPT !.result_v = Stored(@, x.n, Load("wall", x.n, gvl))],
             Outside("wall", Span(x.n, 1, gvl)) \cup Outside("result_v", Span(x.n, 1, gvl)))

PathCopied ==
  /\ at = "copy"
  /\ x.n >= job.cols
  /\ Step("row", [run |-> x.run, t |-> 0], v, mem, {})

PathRow ==
  /\ at = "row"
  /\ x.t < job.rows - 1
  /\ Step("strip", [run |-> x.run, t |-> x.t, n |-> 0, aux |-> Cell("result_v", 0)], v, mem, {})

\* aux is the left neighbour of the strip, read before the strip on its left
\* was overwritten; at the right end of a row the last element stands for its
\* own neighbour.
PathStrip ==
  /\ at = "strip"
  /\ x.n < job.cols
  /\ LET gvl == vsetvl(job.cols - x.n, 32, 1)
         src == Load("result_v", x.n, gvl)
         aux2 == Cell("result_v", IF x.n + gvl >= job.cols THEN x.n + gvl - 1 ELSE x.n + gvl)
         next == Pointwise(WallRow(x.t + 1, x.n, gvl), Cheapest(src, x.aux, aux2), Times)
     IN Step("strip",
             [x EXCEPT !.n = x.n + gvl, !.aux = Cell("result_v", x.n + gvl - 1)],
             v,
             [mem EXCEPT !.result_v = Stored(@, x.n, next)],
             Outside("wall", Span((x.t + 1) * job.cols + x.n, 1, gvl))
               \cup Outside("result_v", Span(x.n, 1, gvl)))

PathNextRow ==
  /\ at = "strip"
  /\ x.n >= job.cols
  /\ Step("row", [run |-> x.run, t |-> x.t + 1], v, mem, {})

NextRun(place) ==
  Step(IF x.run + 1 = job.num_runs THEN "done" ELSE place,
       [run |-> x.run + 1, n |-> 0], <<>>, mem, {})

PathNextRun == at = "row" /\ x.t >= job.rows - 1 /\ NextRun("copy")

run_vector == \/ PathCopy \/ PathCopied \/ PathRow
              \/ PathStrip \/ PathNextRow \/ PathNextRun

\* The short version: three rows a pass, each into the next one of three
\* registers (v0, v4, v16), of which the last one holds the row that the pass
\* begins with.
ShortLoad ==
  /\ at = "load"
  /\ LET gvl == vsetvl(job.cols, 32, 4)
     IN Step("pass", [run |-> x.run, t |-> 0, k |-> 0],
             [rows |-> <<Splat(Unknown, gvl), Splat(Unknown, gvl), WallRow(0, 0, gvl)>>],
             mem, Outside("wall", Span(0, 1, gvl)))

ShortRow ==
  /\ at = "pass"
  /\ x.k < 3
  /\ x.t + x.k < job.rows - 1
  /\ LET gvl == vsetvl(job.cols, 32, 4)
         above == v.rows[((x.k + 2) % 3) + 1]
         row == Pointwise(WallRow(x.t + x.k + 1, 0, gvl), Cheapest(above, Zero, Zero), Times)
     IN Step("pass", [x EXCEPT !.k = x.k + 1],
             [v EXCEPT !.rows[x.k + 1] = row],
             mem, Outside("wall", Span((x.t + x.k + 1) * job.cols, 1, gvl)))

\* Mutant: the conditions on signed numbers.
StoredRegister_Signed(t) ==
  IF t - 2 >= job.rows - 1 THEN 1 ELSE IF t - 1 < job.rows - 1 THEN 3 ELSE 2

\* Which register the pass stores.  The conditions are on unsigned numbers:
\* t - 2 is a very large one when t is zero.
StoredRegister(t) ==
  LET last == job.rows - 1
      Below(n, bound) == n \in 0 .. bound - 1
  IN IF ~Below(t - 2, last) THEN 1
     ELSE IF Below(t - 1, last) THEN 3
     ELSE 2

ShortStore ==
  /\ at = "pass"
  /\ x.t < job.rows - 1
  /\ x.k = 3 \/ x.t + x.k >= job.rows - 1
  /\ Step("pass", [x EXCEPT !.t = x.t + 3, !.k = 0], v,
          [mem EXCEPT !.result_v = Stored(@, 0, v.rows[StoredRegister(x.t)])],
          Outside("result_v", Span(0, 1, vsetvl(job.cols, 32, 4))))

ShortNextRun == at = "pass" /\ x.t >= job.rows - 1 /\ NextRun("load")

run_vector_short_m4 == ShortLoad \/ ShortRow \/ ShortStore \/ ShortNextRun

PathFinder ==
  /\ job.kernel = "pathfinder"
  /\ run_vector \/ run_vector_short_m4

\* The scalar version.
run(rows, cols) ==
  LET cost[t \in Nat] ==
        IF t = 0
        THEN Array("wall", cols)
        ELSE LET above == cost[t - 1]
             IN [n \in 0 .. cols - 1 |->
                   Times(Term(<<"wall", t * cols + n>>),
                         FoldFunctionOnSet(Least, Zero, above, {n - 1, n, n + 1} \cap 0 .. cols - 1))]
  IN cost[rows - 1]
-----------------------------------------------------------------------------
(* Haar wavelet transform of job.n samples, in place: level after level the *)
(* averages go to the first half and the details to the second.             *)

Average(s0, s1) == Plus(Times(Term(<<"g0">>), s0), Times(Term(<<"g1">>), s1))
Detail(s0, s1) == Plus(Times(Term(<<"h0">>), s0), Times(Term(<<"h1">>), s1))

WaveStart ==
  Start("level", [n |-> job.n], <<>>,
        [data |-> Array("data", job.n), buf |-> Array("buf", job.n)])

WaveLevel ==
  /\ at = "level"
  /\ x.n >= 2
  /\ Step("strip", [n |-> x.n, avl |-> x.n, r |-> 0, w |-> 0], <<>>, mem, {})

\* Even and odd samples are loaded apart, half a vector length each; with
\* samples enough for two vectors, both are full.
WaveHalf(avl) ==
  LET vl == vsetvl(avl, 32, 4)
  IN IF avl >= 2 * vl THEN vl ELSE vl \div 2

WaveTaken(avl) ==
  LET vl == vsetvl(avl, 32, 4)
  IN IF avl >= 2 * vl THEN 2 * vl ELSE vl

WaveStrip ==
  /\ at = "strip"
  /\ x.avl > 0
  /\ LET half == WaveHalf(x.avl)
         s0 == Strided("data", x.r, 2, half)
         s1 == Strided("data", x.r + 1, 2, half)
         g == Pointwise(s0, s1, Average)
         h == Pointwise(s0, s1, Detail)
     IN Step("strip",
             [x EXCEPT !.avl = x.avl - WaveTaken(x.avl), !.r = x.r + WaveTaken(x.avl),
                       !.w = x.w + half],
             [g |-> g, h |-> h],
             [mem EXCEPT !.data = Stored(@, x.w, g), !.buf = Stored(@, x.w, h)],
             Outside("data", Span(x.r, 1, 2 * half) \cup Span(x.w, 1, half))
               \cup Outside("buf", Span(x.w, 1, half)))

\* Copy the details behind the averages; the vector length is set once.  The
\* count is unsigned, so that only zero ends the loop.
WaveDetails ==
  /\ at = "strip"
  /\ x.avl = 0
  /\ LET n == x.n \div 2
     IN Step("copy", [n |-> x.n, avl |-> n, vl |-> vsetvl(n, 32, 4), r |-> 0, w |-> x.w],
             <<>>, mem, {})

WaveCopy ==
  /\ at = "copy"
  /\ x.avl # 0
  /\ LET h == Load("buf", x.r, x.vl)
     IN Step("copy",
             [x EXCEPT !.avl = x.avl - x.vl, !.r = x.r + x.vl, !.w = x.w + x.vl],
             [h |-> h],
             [mem EXCEPT !.data = Stored(@, x.w, h)],
             Outside("buf", Span(x.r, 1, x.vl)) \cup Outside("data", Span(x.w, 1, x.vl)))

WaveNextLevel ==
  /\ at = "copy"
  /\ x.avl = 0
  /\ Step("level", [n |-> IF job.first_iter_only THEN 0 ELSE x.n \div 2], <<>>, mem, {})

WaveReturns == at = "level" /\ x.n < 2 /\ Step("done", x, v, mem, {})

Wavelet ==
  /\ job.kernel = "dwt"
  /\ WaveLevel \/ WaveStrip \/ WaveDetails \/ WaveCopy \/ WaveNextLevel \/ WaveReturns

\* The scalar version: one level over the first n samples, then the next.
dwt_step(a, n) ==
  [k \in DOMAIN a |->
     IF k < n \div 2 THEN Average(a[2 * k], a[2 * k + 1])
     ELSE IF k < n THEN Detail(a[2 * k - n], a[2 * k - n + 1])
     ELSE a[k]]
gsl_wavelet_transform(size, first_iter_only) ==
  LET before[n \in Nat] ==   \* the samples as level n finds them
        IF n = size THEN Array("data", size) ELSE dwt_step(before[2 * n], 2 * n)
  IN before[IF first_iter_only THEN size \div 2 ELSE 1]
-----------------------------------------------------------------------------
(* Softmax of every column of "i", job.channels by job.inner, into "o".     *)

Exp(value, max) == Term(<<"exp", value, max>>)
Quotient(num, den) == Term(<<"div", num, den>>)

SoftmaxStart ==
  LET size == job.channels * job.inner
  IN Start("strip", [avl |-> job.inner, s |-> 0], <<>>,
           [i |-> Array("i", size), o |-> Array("o", size)])

SoftmaxStrip ==
  /\ at = "strip"
  /\ x.avl > 0
  /\ LET vl == vsetvl(x.avl, 32, 1)
     IN Step("max", [avl |-> x.avl, s |-> x.s, vl |-> vl, ch |-> 1, ptr |-> x.s + job.inner],
             [max |-> Load("i", x.s, vl)], mem, Outside("i", Span(x.s, 1, vl)))

SoftmaxMax ==
  /\ at = "max"
  /\ x.ch < job.channels
  /\ Step("max", [x EXCEPT !.ch = x.ch + 1, !.ptr = x.ptr + job.inner],
          [max |-> Pointwise(v.max, Load("i", x.ptr, x.vl), Least)],
          mem, Outside("i", Span(x.ptr, 1, x.vl)))

\* Back to the first channel, with the sum cleared.
SoftmaxSum ==
  /\ at = "max"
  /\ x.ch = job.channels
  /\ Step("exp", [x EXCEPT !.ch = 0, !.ptr = x.s],
          [max |-> v.max, den |-> Splat(Zero, x.vl)], mem, {})

\* The numerators wait in the result while their sum is not known yet.
SoftmaxExp ==
  /\ at = "exp"
  /\ x.ch < job.channels
  /\ LET num == Pointwise(Load("i", x.ptr, x.vl), v.max, Exp)
     IN Step("exp", [x EXCEPT !.ch = x.ch + 1, !.ptr = x.ptr + job.inner],
             [v EXCEPT !.den = Pointwise(@, num, Plus)],
             [mem EXCEPT !.o = Stored(@, x.ptr, num)],
             Outside("i", Span(x.ptr, 1, x.vl)) \cup Outside("o", Span(x.ptr, 1, x.vl)))

SoftmaxSummed ==
  /\ at = "exp"
  /\ x.ch = job.channels
  /\ Step("div", [x EXCEPT !.ch = 0, !.ptr = x.s], v, mem, {})

SoftmaxDiv ==
  /\ at = "div"
  /\ x.ch < job.channels
  /\ Step("div", [x EXCEPT !.ch = x.ch + 1, !.ptr = x.ptr + job.inner], v,
          [mem EXCEPT !.o = Stored(@, x.ptr,
                              Pointwise(Load("o", x.ptr, x.vl), v.den, Quotient))],
          Outside("o", Span(x.ptr, 1, x.vl)))

SoftmaxNextStrip ==
  /\ at = "div"
  /\ x.ch = job.channels
  /\ Step(IF x.avl = x.vl THEN "done" ELSE "strip",
          [avl |-> x.avl - x.vl, s |-> x.s + x.vl], <<>>, mem, {})

Softmax ==
  /\ job.kernel = "softmax"
  /\ \/ SoftmaxStrip \/ SoftmaxMax \/ SoftmaxSum \/ SoftmaxExp
     \/ SoftmaxSummed \/ SoftmaxDiv \/ SoftmaxNextStrip

\* The scalar version.
softmax(channels, inner) ==
  LET in(ch, k) == Term(<<"i", ch * inner + k>>)
      max(k) == FoldFunction(Least, Zero, [ch \in 0 .. channels - 1 |-> in(ch, k)])
      num(ch, k) == Exp(in(ch, k), max(k))
      den(k) == Sum([ch \in 0 .. channels - 1 |-> num(ch, k)])
  IN [e \in 0 .. channels * inner - 1 |->
        Quotient(num(e \div inner, e % inner), den(e % inner))]
-----------------------------------------------------------------------------
(* Dropout: an element is kept and scaled where its bit of "sel" is set.    *)

Kept(byte, bit, value) == Term(<<"keep", byte, bit, Times(Term(<<"scale">>), value)>>)

DropoutStart ==
  Start("strip", [avl |-> job.n, i |-> 0, sel |-> 0], <<>>,
        [i |-> Array("i", job.n), sel |-> Array("sel", (job.n + 7) \div 8),
         o |-> Array("o", job.n)])

DropoutStrip ==
  /\ at = "strip"
  /\ x.avl > 0
  /\ LET vl == vsetvl(x.avl, 32, 8)
         kept == [k \in 0 .. vl - 1 |->
                    Kept(Cell("sel", x.sel + k \div 8), k % 8, Cell("i", x.i + k))]
     IN Step("strip",
             [avl |-> x.avl - vl, i |-> x.i + vl, sel |-> x.sel + vl \div 8],
             [kept |-> kept],
             [mem EXCEPT !.o = Stored(@, x.i, kept)],
             Outside("i", Span(x.i, 1, vl)) \cup Outside("o", Span(x.i, 1, vl))
               \cup Outside("sel", Span(x.sel, 1, (vl + 7) \div 8)))

DropoutReturns == at = "strip" /\ x.avl = 0 /\ Step("done", x, <<>>, mem, {})

Dropout == job.kernel = "dropout" /\ (DropoutStrip \/ DropoutReturns)

\* The scalar version.
dropout_gold(n) ==
  [k \in 0 .. n - 1 |-> Kept(Term(<<"sel", k \div 8>>), k % 8, Term(<<"i", k>>))]
=============================================================================
