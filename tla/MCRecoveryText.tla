---------------------------- MODULE MCRecoveryText ----------------------------
(* A small instance of RecoveryText for TLC: codes of seven bytes, whose    *)
(* last group has four symbols as that of 32 bytes has.                     *)
EXTENDS RecoveryText

SomeCodes == {<<0, 0, 0, 0, 0, 0, 0>>, <<255, 255, 255, 255, 255, 255, 255>>,
              <<8, 66, 16, 132, 33, 200, 57>>}

(* Neighbours in the alphabet, its ends, and a digit outside it.            *)
SomeWrong == {0, 1, 15, 16, 31, Digit}
=============================================================================
