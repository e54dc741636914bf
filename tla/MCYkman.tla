------------------------------- MODULE MCYkman -------------------------------
(* Small instances of Ykman for TLC.                                        *)
EXTENDS Ykman

CONSTANTS new, old

(* One tool at the floor, one below it in the last two components only.     *)
Versions == [b \in Binaries |-> CASE b = new -> <<5, 0, 0>>
                                  [] b = old -> <<4, 9, 9>>]

Floor == <<5, 0, 0>>
=============================================================================
