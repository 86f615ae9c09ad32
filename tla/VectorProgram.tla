------------------------------ MODULE VectorProgram ------------------------------
(***************************************************************************)
(* What the vector programs under src/apps compute with: vector registers,  *)
(* arrays in memory and the vector instructions, with values as formal      *)
(* expressions.  A value is a sum of products of inputs, and a kernel is    *)
(* right if it stores the very sum its scalar version stores.               *)
(*                                                                          *)
(* A bag of sequences of factors is that sum: each sequence is a product,   *)
(* counted as often as it occurs.  Where a kernel takes minima instead of   *)
(* sums, and sums instead of products, the same bag is read in that way.    *)
(***************************************************************************)
EXTENDS Integers, Sequences, Bags, FiniteSetsExt, TLC

CONSTANT
  Jobs    \* the calls to run: records of a kernel's name, its arguments, and
          \* VLen, the 64-bit elements in one vector register

ASSUME VLenAssumption == \A j \in Jobs : j.VLen \in Nat \ {0}

VARIABLES
  job,    \* the call that runs
  at,     \* the place in the program
  x,      \* its scalar variables
  v,      \* its vector registers, each a function on 0 .. n - 1
  mem,    \* its arrays, each a function on 0 .. n - 1
  strays  \* history: the addresses used outside an array

vars == <<job, at, x, v, mem, strays>>
-----------------------------------------------------------------------------
(* Values *)

Zero == EmptyBag
Term(factor) == SetToBag({<<factor>>})
Unknown == Term(<<"unknown">>)

Plus(p, q) == p (+) q

Times(p, q) ==
  [t \in {a \o b : a \in DOMAIN p, b \in DOMAIN q} |->
     MapThenSumSet(LAMBDA ab : p[ab[1]] * q[ab[2]],
                   {ab \in (DOMAIN p) \X (DOMAIN q) : ab[1] \o ab[2] = t})]

Sum(values) == FoldFunctionOnSet(Plus, Zero, values, DOMAIN values)

\* With minima for sums, a term that occurs twice counts once.
Least(p, q) == SetToBag(BagToSet(p) \cup BagToSet(q))
-----------------------------------------------------------------------------
(* Vectors and memory *)

Array(name, size) == [k \in 0 .. size - 1 |-> Term(<<name, k>>)]

VLMax(sew, lmul) == (job.VLen * lmul * 64) \div sew
vsetvl(avl, sew, lmul) == Min({avl, VLMax(sew, lmul)})

\* What reading n elements from an address on, stride apart, touches.
Span(from, stride, n) == {from + stride * k : k \in 0 .. n - 1}
Outside(array, addresses) == {array} \X (addresses \ DOMAIN mem[array])

Cell(array, k) == IF k \in DOMAIN mem[array] THEN mem[array][k] ELSE Unknown
Strided(array, from, stride, n) == [k \in 0 .. n - 1 |-> Cell(array, from + stride * k)]
Load(array, from, n) == Strided(array, from, 1, n)

\* The contents of an array after a vector is stored from an address on, and
\* after several are, in the order of their numbers.
Stored(contents, from, vec) ==
  [e \in DOMAIN contents |-> IF e - from \in DOMAIN vec THEN vec[e - from] ELSE contents[e]]
StoredRows(contents, from, rows) ==
  LET hits(e) == {k \in DOMAIN rows : e - from[k] \in DOMAIN rows[k]}
  IN [e \in DOMAIN contents |->
        IF hits(e) = {} THEN contents[e] ELSE rows[Max(hits(e))][e - from[Max(hits(e))]]]

Splat(value, n) == [k \in 0 .. n - 1 |-> value]
Scaled(factor, vec) == [k \in DOMAIN vec |-> Times(factor, vec[k])]
slide1up(vec, scalar) == [k \in DOMAIN vec |-> IF k = 0 THEN scalar ELSE vec[k - 1]]
slide1down(vec, scalar) ==
  [k \in DOMAIN vec |-> IF k + 1 \in DOMAIN vec THEN vec[k + 1] ELSE scalar]
slidedown(vec, by, n) ==
  [k \in 0 .. n - 1 |-> IF k + by \in DOMAIN vec THEN vec[k + by] ELSE Unknown]
-----------------------------------------------------------------------------
(* A call starts with some scalars, registers and arrays; a step moves on   *)
(* and uses some addresses.                                                 *)

Start(place, scalars, registers, arrays) ==
  /\ at = place
  /\ x = scalars
  /\ v = registers
  /\ mem = arrays
  /\ strays = {}

Step(place, scalars, registers, arrays, outside) ==
  /\ at' = place
  /\ x' = scalars
  /\ v' = registers
  /\ mem' = arrays
  /\ strays' = strays \cup outside
  /\ UNCHANGED job
=============================================================================
