----------------------------- MODULE MCKDFParams -----------------------------
(* A small instance of KDFParams for TLC.  A word has 12 bits, the memory   *)
(* ceiling is half of what a word holds, as 2 GiB is, and the largest       *)
(* scrypt parameters take twice the ceiling.                                *)
EXTENDS KDFParams

Powers == [n \in 0..6 |-> 2^n]

(* Around every bound and every point where a product wraps at 12 bits.     *)
Times == {0, 1, 3, 4, 5, 4095}
Memories == {0, 1, 2, 3, 511, 512, 513, 1023, 1024, 1025, 4095}
Rs == {0, 1, 8, 15, 16, 17, 31, 32, 33, 4095}
Ps == {0, 1, 2, 3, 4095}

SomeKDFs ==
  [id : {"argon2id"}, time : Times, memoryKiB : Memories,
   threads : {0, 1, 2, 3, 7}]
    \cup [id : {"scrypt"}, logN : 0..7, r : Rs, p : Ps]
=============================================================================
