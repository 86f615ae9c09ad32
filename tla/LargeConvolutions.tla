--------------------------- MODULE LargeConvolutions ---------------------------
(***************************************************************************)
(* Convolutions with a filter of 7 by 7: every input row goes into seven    *)
(* output rows at once, which stay in registers and move up by one when the *)
(* first is complete.  The first and the last seven input rows have code of *)
(* their own, and the loop between them takes two rows at a time.  Wide     *)
(* images are cut into slices of columns, and the image may have channels.  *)
(*                                                                          *)
(* Input rows and filter coefficients are fetched ahead in the code; both   *)
(* arrays are only read, and a row is loaded here when its turn comes.      *)
(***************************************************************************)
EXTENDS MatrixKernels

F7 == 7
OutRows == 0 .. F7 - 1
InWidth == job.C + F7 - 1

\* The phases, with the input rows each works on, counted from the input row
\* in which the window of the first output row in registers begins.
Window == [first |-> 0 .. 3, next |-> 4 .. 6, regime |-> 6 .. 6, last |-> 6 .. 9, end |-> 10 .. 12]

\* Columns of one slice, and of this one; and where the input row number r
\* of this channel and slice begins.
BlockSizeN == vsetvl(job.C, 64, 2)
n_ == Min({job.C - x.n, BlockSizeN})
InAt(r) == x.ch * (job.R + F7 - 1) * InWidth + r * InWidth + x.n
OutAt(r) == r * job.C + x.n

LargeStart ==
  Start("slice", [n |-> 0],
        <<>>,
        [i |-> Array("i", job.CH * (job.R + F7 - 1) * InWidth),
         f |-> Array("f", job.CH * F7 * F7),
         o |-> Array("o", job.R * job.C)])

\* The input rows that the loop in the middle takes: the division of a
\* negative number of rows is towards zero, and such a loop ends at once.
RegimeRows == 2 * Max({0, ((job.R + F7 - 1) - 2 * F7) \div 2})

SliceStart ==
  /\ at = "slice"
  /\ x.n < job.C
  /\ Step("rows",
          [n |-> x.n, phase |-> "first", i |-> 0, o |-> 0, left |-> RegimeRows, ch |-> 0],
          [out |-> [k \in OutRows |-> Splat(Unknown, n_)]], mem, {})

\* Load the rows of the phase from one channel, and point to the elements
\* after them, which slide in one by one.
LoadRows ==
  /\ at = "rows"
  /\ LET from == [d \in Window[x.phase] |-> InAt(x.i + d - Min(Window[x.phase]))]
     IN Step("columns",
             x @@ [col |-> 0, i_slide_ptr |-> [d \in DOMAIN from |-> from[d] + n_]],
             [in |-> [d \in DOMAIN from |-> Load("i", from[d], n_)], out |-> v.out],
             mem, Outside("i", UNION {Span(from[d], 1, n_) : d \in DOMAIN from}))

\* One column of the filter: row d goes into the output rows whose window has
\* it.  The first product of an output row (vfmul) sets its register.
Contributed(k) ==
  LET rows == {d \in DOMAIN v.in : d - k \in OutRows}
      f(d) == mem.f[x.ch * F7 * F7 + (d - k) * F7 + x.col]
      first == x.ch = 0 /\ x.col = 0 /\ k \in DOMAIN v.in
  IN [e \in DOMAIN v.out[k] |->
        Plus(IF first THEN Zero ELSE v.out[k][e],
             Sum([d \in rows |-> Times(f(d), v.in[d][e])]))]

Slid(d) == slide1down(v.in[d], Cell("i", x.i_slide_ptr[d]))

\* Every column but the last slides the rows down by one.
FilterPass ==
  /\ at = "columns"
  /\ x.col < F7 - 1
  /\ Step("columns",
          [x EXCEPT !.col = @ + 1,
                    !.i_slide_ptr = [d \in DOMAIN v.in |-> x.i_slide_ptr[d] + 1]],
          [in |-> [d \in DOMAIN v.in |-> Slid(d)],
           out |-> [k \in OutRows |-> Contributed(k)]],
          mem, Outside("i", {x.i_slide_ptr[d] : d \in DOMAIN v.in}))

\* What goes on after the last column of a channel: the next channel, or with
\* the last one the end of the phase.
LastColumn == at = "columns" /\ x.col = F7 - 1
Finished == [k \in OutRows |-> Contributed(k)]
Channel(phase, i, o, left, ch) ==
  [n |-> x.n, phase |-> phase, i |-> i, o |-> o, left |-> left, ch |-> ch]

NextChannel ==
  /\ LastColumn
  /\ x.ch + 1 < job.CH
  /\ Step("rows", Channel(x.phase, x.i, x.o, x.left, x.ch + 1), [out |-> Finished], mem, {})

\* The first four rows complete no output row.
FirstRows ==
  /\ LastColumn
  /\ x.ch + 1 = job.CH
  /\ x.phase = "first"
  /\ Step("rows", Channel("next", x.i + 4, x.o, x.left, 0), [out |-> Finished], mem, {})

\* What follows a row of the loop.
RegimeOrLast(left) == IF left > 0 THEN "regime" ELSE "last"

MovedUp(rows) == [k \in OutRows |-> IF k = F7 - 1 THEN rows[k] ELSE rows[k + 1]]

\* The first output row is complete: store it and move the others up.
RowDone ==
  /\ LastColumn
  /\ x.ch + 1 = job.CH
  /\ x.phase \in {"next", "regime"}
  /\ LET left == IF x.phase = "next" THEN x.left ELSE x.left - 1
         taken == Cardinality(Window[x.phase])
     IN Step("rows", Channel(RegimeOrLast(left), x.i + taken, x.o + 1, left, 0),
             [out |-> MovedUp(Finished)],
             [mem EXCEPT !.o = Stored(mem.o, OutAt(x.o), Finished[0])],
             Outside("o", Span(OutAt(x.o), 1, n_)))

\* Four more rows complete four output rows.
LastRows ==
  /\ LastColumn
  /\ x.ch + 1 = job.CH
  /\ x.phase = "last"
  /\ LET to == [k \in 0 .. 3 |-> OutAt(x.o + k)]
     IN Step("rows", Channel("end", x.i + 4, x.o + 4, x.left, 0),
             [out |-> Finished],
             [mem EXCEPT !.o = StoredRows(mem.o, to, [k \in 0 .. 3 |-> Finished[k]])],
             Outside("o", UNION {Span(to[k], 1, n_) : k \in DOMAIN to}))

\* The last three rows complete the last three output rows of the slice.
EndRows ==
  /\ LastColumn
  /\ x.ch + 1 = job.CH
  /\ x.phase = "end"
  /\ LET to == [k \in 4 .. 6 |-> OutAt(x.o + k - 4)]
     IN Step("slice", [n |-> x.n + BlockSizeN],
             <<>>,
             [mem EXCEPT !.o = StoredRows(mem.o, to, [k \in 4 .. 6 |-> Finished[k]])],
             Outside("o", UNION {Span(to[k], 1, n_) : k \in DOMAIN to}))

LargeReturns == at = "slice" /\ x.n >= job.C /\ Step("done", x, v, mem, {})

LargeConv ==
  \/ SliceStart \/ LoadRows \/ FilterPass \/ NextChannel
  \/ FirstRows \/ RowDone \/ LastRows \/ EndRows \/ LargeReturns

fconv2d_7x7 == job.kernel = "fconv2d_7x7" /\ LargeConv
iconv2d_7x7 == job.kernel = "iconv2d_7x7" /\ LargeConv
fconv3d_CHx7x7 == job.kernel = "fconv3d_CHx7x7" /\ LargeConv
LargeKernels == {"fconv2d_7x7", "iconv2d_7x7", "fconv3d_CHx7x7"}
=============================================================================
