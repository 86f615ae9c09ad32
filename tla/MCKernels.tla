------------------------------ MODULE MCKernels ------------------------------
(***************************************************************************)
(* Calls of the kernels.  With one, two or four 64-bit elements to a        *)
(* register every kernel needs several strips for a few elements.           *)
(***************************************************************************)
EXTENDS Kernels

dot(kernel, avl) == [kernel |-> kernel, VLen |-> 1, avl |-> avl]
mul(kernel, M, N, P) == [kernel |-> kernel, VLen |-> 1, M |-> M, N |-> N, P |-> P]
conv(kernel, R, C) == [kernel |-> kernel, VLen |-> 4, R |-> R, C |-> C]
large(kernel, R, C, CH) ==
  [kernel |-> kernel, VLen |-> 1, R |-> R, C |-> C, CH |-> CH]
jacobi(r, c, steps) ==
  [kernel |-> "jacobi2d", VLen |-> 1, r |-> r, c |-> c, steps |-> steps]
path(rows, cols, runs, VLen) ==
  [kernel |-> "pathfinder", VLen |-> VLen, rows |-> rows, cols |-> cols, num_runs |-> runs]
wave(n, once) == [kernel |-> "dwt", VLen |-> 1, n |-> n, first_iter_only |-> once]
soft(channels, inner, VLen) ==
  [kernel |-> "softmax", VLen |-> VLen, channels |-> channels, inner |-> inner]
drop(n, VLen) == [kernel |-> "dropout", VLen |-> VLen, n |-> n]

\* Lengths that fit one strip or fill whole ones, even numbers of rows of the
\* right operand, whole blocks of rows, images no wider than a register group
\* (for filters of 7 by 7 of any width, but of eight rows or more), and paths
\* of whole strips and whole passes.
Calls ==
  {dot("fdotp_v64b", n) : n \in {1, 5, 8, 16, 24}}
    \cup {dot("fdotp_v32b", n) : n \in {7, 16, 32}}
    \cup {dot("fdotp_v16b", n) : n \in {8, 64}}
    \cup {dot("dotp_v64b", n) : n \in {8, 16}} \cup {dot("dotp_v32b", n) : n \in {8, 32}}
    \cup {dot("dotp_v16b", n) : n \in {8, 64}} \cup {dot("dotp_v8b", n) : n \in {8, 128}}
    \cup {mul("fmatmul", 4, 4, 6), mul("fmatmul", 4, 2, 4), mul("fmatmul", 8, 4, 3),
          mul("fmatmul", 16, 2, 2), mul("fmatmul", 32, 2, 2), mul("imatmul", 4, 4, 6),
          mul("imatmul", 16, 2, 3)}
    \cup {conv("fconv2d_3x3", R, C) : R \in {4, 8, 12}, C \in {4, 6}}
    \cup {conv("iconv2d_3x3", 8, 5), conv("iconv2d_5x5", 2, 4), conv("iconv2d_5x5", 6, 3)}
    \cup {large("fconv2d_7x7", 8, 4, 1), large("fconv2d_7x7", 12, 3, 1),
          large("iconv2d_7x7", 12, 2, 1), large("fconv3d_CHx7x7", 8, 1, 2),
          large("fconv3d_CHx7x7", 12, 2, 2)}
    \cup {jacobi(r, c, 1) : r \in 3 .. 8, c \in {3, 6, 8}} \cup {jacobi(4, 7, 2)}
    \cup {path(rows, cols, 1, 1) : rows \in 1 .. 4, cols \in {10, 12}}
    \cup {path(3, 20, 1, 2), path(2, 10, 2, 1)}
    \cup {path(2, 1, 1, 1), path(2, 8, 2, 1), path(7, 3, 1, 1), path(7, 4, 2, 1)}
    \cup {wave(n, FALSE) : n \in {2, 4, 8, 16, 32}} \cup {wave(8, TRUE), wave(16, TRUE)}
    \cup {soft(channels, inner, VLen) : channels \in {1, 3}, inner \in 1 .. 5, VLen \in {1, 2}}
    \cup {drop(n, VLen) : n \in {1, 8, 16, 20, 37, 40}, VLen \in {1, 2}}

\* Calls outside those limits: a dot product whose last strip is not full, a
\* path whose rows are no whole number of passes, long rows that are no whole
\* number of strips, a matrix product over an odd number of rows, and an image
\* with fewer rows than the first and the last part of a convolution take.
OddDots == {dot("fdotp_v64b", n) : n \in 9 .. 15}
OddPaths == {path(rows, cols, 1, 1) : rows \in {3, 4, 5, 6}, cols \in 1 .. 8}
OddRows == {path(rows, cols, 1, 1) : rows \in 1 .. 3, cols \in {9, 11, 13}}
SmallImages == {large("fconv2d_7x7", 4, 4, 1), large("iconv2d_7x7", 4, 4, 1)}
OddProducts == {mul("fmatmul", 4, 3, P) : P \in 2 .. 5}
=============================================================================
