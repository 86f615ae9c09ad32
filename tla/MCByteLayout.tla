---------------------------- MODULE MCByteLayout ----------------------------
(* One word of a vector register file with four lanes, the default, and the *)
(* tables of shuffle_index for every number of lanes the code supports.     *)
EXTENDS ByteLayout

(***************************************************************************)
(* The places of the bytes 0, 1, 2... for elements of one, two and four    *)
(* bytes; elements of eight bytes stay in order.                           *)
(***************************************************************************)
idx_1 ==
  << <<0, 4, 2, 6, 1, 5, 3, 7>>,
     <<0, 1, 4, 5, 2, 3, 6, 7>>,
     <<0, 1, 2, 3, 4, 5, 6, 7>> >>
idx_2 ==
  << <<0,  8,  4, 12,  2, 10,  6, 14,  1,  9,  5, 13,  3, 11,  7, 15>>,
     <<0,  1,  8,  9,  4,  5, 12, 13,  2,  3, 10, 11,  6,  7, 14, 15>>,
     <<0,  1,  2,  3,  8,  9, 10, 11,  4,  5,  6,  7, 12, 13, 14, 15>> >>
idx_4 ==
  << <<0,  8, 16, 24,  4, 12, 20, 28,  2, 10, 18, 26,  6, 14, 22, 30,  1,  9,
       17, 25,  5, 13, 21, 29,  3, 11, 19, 27,  7, 15, 23, 31>>,
     <<0,  1,  8,  9, 16, 17, 24, 25,  4,  5, 12, 13, 20, 21, 28, 29,  2,  3,
       10, 11, 18, 19, 26, 27,  6,  7, 14, 15, 22, 23, 30, 31>>,
     <<0,  1,  2,  3,  8,  9, 10, 11, 16, 17, 18, 19, 24, 25, 26, 27,  4,  5,
       6,  7, 12, 13, 14, 15, 20, 21, 22, 23, 28, 29, 30, 31>> >>
idx_8 ==
  << <<0,  8, 16, 24, 32, 40, 48, 56,  4, 12, 20, 28, 36, 44, 52, 60,  2, 10,
       18, 26, 34, 42, 50, 58,  6, 14, 22, 30, 38, 46, 54, 62,  1,  9, 17, 25,
       33, 41, 49, 57,  5, 13, 21, 29, 37, 45, 53, 61,  3, 11, 19, 27, 35, 43,
       51, 59,  7, 15, 23, 31, 39, 47, 55, 63>>,
     <<0,  1,  8,  9, 16, 17, 24, 25, 32, 33, 40, 41, 48, 49, 56, 57,  4,  5,
       12, 13, 20, 21, 28, 29, 36, 37, 44, 45, 52, 53, 60, 61,  2,  3, 10, 11,
       18, 19, 26, 27, 34, 35, 42, 43, 50, 51, 58, 59,  6,  7, 14, 15, 22, 23,
       30, 31, 38, 39, 46, 47, 54, 55, 62, 63>>,
     <<0,  1,  2,  3,  8,  9, 10, 11, 16, 17, 18, 19, 24, 25, 26, 27, 32, 33,
       34, 35, 40, 41, 42, 43, 48, 49, 50, 51, 56, 57, 58, 59,  4,  5,  6,  7,
       12, 13, 14, 15, 20, 21, 22, 23, 28, 29, 30, 31, 36, 37, 38, 39, 44, 45,
       46, 47, 52, 53, 54, 55, 60, 61, 62, 63>> >>
idx_16 ==
  << <<0,   8,  16,  24,  32,  40,  48,  56,  64,  72,  80,  88,  96, 104,
       112, 120,   4,  12,  20,  28,  36,  44,  52,  60,  68,  76,  84,  92,
       100, 108, 116, 124,   2,  10,  18,  26,  34,  42,  50,  58,  66,  74,
       82,  90,  98, 106, 114, 122,   6,  14,  22,  30,  38,  46,  54,  62,
       70,  78,  86,  94, 102, 110, 118, 126,   1,   9,  17,  25,  33,  41,
       49,  57,  65,  73,  81,  89,  97, 105, 113, 121,   5,  13,  21,  29,
       37,  45,  53,  61,  69,  77,  85,  93, 101, 109, 117, 125,   3,  11,
       19,  27,  35,  43,  51,  59,  67,  75,  83,  91,  99, 107, 115, 123,
       7,  15,  23,  31,  39,  47,  55,  63,  71,  79,  87,  95, 103, 111,
       119, 127>>,
     <<0,   1,   8,   9,  16,  17,  24,  25,  32,  33,  40,  41,  48,  49,
       56,  57,  64,  65,  72,  73,  80,  81,  88,  89,  96,  97, 104, 105,
       112, 113, 120, 121,   4,   5,  12,  13,  20,  21,  28,  29,  36,  37,
       44,  45,  52,  53,  60,  61,  68,  69,  76,  77,  84,  85,  92,  93,
       100, 101, 108, 109, 116, 117, 124, 125,   2,   3,  10,  11,  18,  19,
       26,  27,  34,  35,  42,  43,  50,  51,  58,  59,  66,  67,  74,  75,
       82,  83,  90,  91,  98,  99, 106, 107, 114, 115, 122, 123,   6,   7,
       14,  15,  22,  23,  30,  31,  38,  39,  46,  47,  54,  55,  62,  63,
       70,  71,  78,  79,  86,  87,  94,  95, 102, 103, 110, 111, 118, 119,
       126, 127>>,
     <<0,   1,   2,   3,   8,   9,  10,  11,  16,  17,  18,  19,  24,  25,
       26,  27,  32,  33,  34,  35,  40,  41,  42,  43,  48,  49,  50,  51,
       56,  57,  58,  59,  64,  65,  66,  67,  72,  73,  74,  75,  80,  81,
       82,  83,  88,  89,  90,  91,  96,  97,  98,  99, 104, 105, 106, 107,
       112, 113, 114, 115, 120, 121, 122, 123,   4,   5,   6,   7,  12,  13,
       14,  15,  20,  21,  22,  23,  28,  29,  30,  31,  36,  37,  38,  39,
       44,  45,  46,  47,  52,  53,  54,  55,  60,  61,  62,  63,  68,  69,
       70,  71,  76,  77,  78,  79,  84,  85,  86,  87,  92,  93,  94,  95,
       100, 101, 102, 103, 108, 109, 110, 111, 116, 117, 118, 119, 124, 125,
       126, 127>> >>

idx == [n \in {1, 2, 4, 8, 16} |->
          CASE n = 1 -> idx_1 [] n = 2 -> idx_2 [] n = 4 -> idx_4
            [] n = 8 -> idx_8 [] n = 16 -> idx_16]

Of(n) == INSTANCE ByteLayout WITH NrLanes <- n

\* The module's formula is the table, for any number of lanes.
ASSUME TablesFollow ==
    \A n \in DOMAIN idx : \A b \in 0..(8 * n - 1) :
        /\ \A e \in 0..2 : Of(n)!shuffle_index(b, e) = idx[n][e + 1][b + 1]
        /\ Of(n)!shuffle_index(b, 3) = b
=============================================================================
