------------------------------- MODULE KDFParams -------------------------------
(***************************************************************************)
(* The cost parameters of the two password KDFs (kdf.go) in fixed-width    *)
(* arithmetic: an application configures a KDF, Enroll derives with it and *)
(* stores its parameters, a byte of them may change in the file, parseKDF  *)
(* decides about them, and Unlock derives with what it returned.           *)
(*                                                                         *)
(* argon2.IDKey and scrypt.Key are external: which parameters they refuse, *)
(* by an error or by a panic, and how much memory they take.               *)
(***************************************************************************)
EXTENDS Integers, Sequences

CONSTANTS
  Base,                 \* values of a byte (256); a word has four (2^32)
  Wide,                 \* values of a uint64 (2^64)
  IntBits,              \* bits of a positive int (63)
  Pow2,                 \* 2^n for n below IntBits
  KiB, Block,           \* 1024; the unit of scrypt, 128
  MaxKDFMemBytes,
  MaxArgonTimeParam, MaxArgonThreadsParam, MinArgonMemKiB,
  MinScryptLogN, MaxScryptLogN, MaxScryptR, MaxScryptP,
  Configured            \* the KDFs applications construct

Byte == 0..(Base - 1)
Word == 0..(Base * Base * Base * Base - 1)

Argon2s == [id : {"argon2id"}, time : Word, memoryKiB : Word, threads : Byte]
Scrypts == [id : {"scrypt"}, logN : Byte, r : Word, p : Word]

ASSUME KDFAssumption ==
  /\ Base \in Nat \ {0, 1}
  /\ KiB \in Nat \ {0}
  /\ {Wide, IntBits, Block, MaxKDFMemBytes, MaxArgonTimeParam,
      MaxArgonThreadsParam, MinArgonMemKiB, MinScryptLogN, MaxScryptLogN,
      MaxScryptR, MaxScryptP} \subseteq Nat
  /\ Pow2 \in [0..(IntBits - 1) -> Nat \ {0}]
  /\ \A m, n \in 0..(IntBits - 1) : m < n => Pow2[m] < Pow2[n]
  /\ Configured \subseteq Argon2s \cup Scrypts

(* No product that parseKDF computes exceeds its width, and what Argon2id  *)
(* takes at least is within the ceiling.                                   *)
ASSUME WidthAssumption ==
  /\ Base * Base * Base * Base * KiB <= Wide
  /\ MinScryptLogN >= 1 /\ MaxScryptLogN < IntBits
  /\ \A n \in 0..MaxScryptLogN, r \in 0..MaxScryptR : Block * Pow2[n] * r < Wide
  /\ 8 * MaxArgonThreadsParam * KiB <= MaxKDFMemBytes

-----------------------------------------------------------------------------
(* Serialisation *)

(* Mutant: little-endian.                                                  *)
u32BytesLittle(n) ==
  << n % Base, (n \div Base) % Base, (n \div (Base * Base)) % Base,
     n \div (Base * Base * Base) >>

u32Bytes(n) ==
  << n \div (Base * Base * Base), (n \div (Base * Base)) % Base,
     (n \div Base) % Base, n % Base >>

Uint32(b, i) == ((b[i] * Base + b[i + 1]) * Base + b[i + 2]) * Base + b[i + 3]

MarshalParams(kdf) ==
  IF kdf.id = "argon2id"
  THEN u32Bytes(kdf.time) \o u32Bytes(kdf.memoryKiB) \o <<kdf.threads>>
  ELSE <<kdf.logN>> \o u32Bytes(kdf.r) \o u32Bytes(kdf.p)

NewArgon2idKDF(time, memoryKiB, threads) ==
  [id |-> "argon2id", time |-> time, memoryKiB |-> memoryKiB,
   threads |-> threads]

NewScryptKDF(logN, r, p) == [id |-> "scrypt", logN |-> logN, r |-> r, p |-> p]

Refused == [id |-> "ErrKDFParams"]

(* Mutant: the product is computed in 32 bits.                             *)
argonMemNarrow(mem) == (mem * KiB) % (Base * Base * Base * Base)

argonMem(mem) == (mem * KiB) % Wide

scryptMem(logN, r) == (Block * Pow2[logN] * r) % Wide

argonInBounds(kdf) ==
  /\ kdf.time \in 1..MaxArgonTimeParam
  /\ kdf.memoryKiB >= MinArgonMemKiB
  /\ argonMem(kdf.memoryKiB) <= MaxKDFMemBytes
  /\ kdf.threads \in 1..MaxArgonThreadsParam

(* Mutant: only the upper bounds of r and p are checked.                   *)
scryptBelowBounds(kdf) ==
  /\ kdf.logN \in MinScryptLogN..MaxScryptLogN
  /\ kdf.r <= MaxScryptR
  /\ kdf.p <= MaxScryptP
  /\ scryptMem(kdf.logN, kdf.r) <= MaxKDFMemBytes

scryptInBounds(kdf) ==
  /\ kdf.logN \in MinScryptLogN..MaxScryptLogN
  /\ kdf.r \in 1..MaxScryptR
  /\ kdf.p \in 1..MaxScryptP
  /\ scryptMem(kdf.logN, kdf.r) <= MaxKDFMemBytes

(* The KDF the nine bytes b stand for under this id.                       *)
Decoded(id, b) ==
  IF id = "argon2id"
  THEN NewArgon2idKDF(Uint32(b, 1), Uint32(b, 5), b[9])
  ELSE NewScryptKDF(b[1], Uint32(b, 2), Uint32(b, 6))

parseKDF(id, b) ==
  LET kdf == Decoded(id, b)
      inBounds == IF id = "argon2id" THEN argonInBounds(kdf)
                  ELSE scryptInBounds(kdf)
  IN  IF inBounds THEN kdf ELSE Refused

-----------------------------------------------------------------------------
(* Derivation *)

shl(n) == IF n < IntBits THEN Pow2[n] ELSE 0

(* argon2.IDKey panics without a pass or a lane.  scrypt.Key wants N > 1   *)
(* and divides by r and by p in its overflow checks; those checks          *)
(* themselves never fire for parameters parseKDF accepts.                  *)
Outcome(kdf) ==
  IF kdf.id = "argon2id"
  THEN IF kdf.time < 1 \/ kdf.threads < 1 THEN "panic" ELSE "key"
  ELSE IF shl(kdf.logN) <= 1 THEN "error"
  ELSE IF kdf.r = 0 \/ kdf.p = 0 THEN "panic"
  ELSE "key"

(* What Argon2id takes: whole groups of four blocks per lane, at least two *)
(* of them.                                                                *)
argon2Blocks(mem, threads) ==
  IF mem < 8 * threads THEN 8 * threads ELSE mem - (mem % (4 * threads))

MemoryTaken(kdf) ==
  IF kdf.id = "argon2id"
  THEN argon2Blocks(kdf.memoryKiB, kdf.threads) * KiB
  ELSE Block * Pow2[kdf.logN] * kdf.r

-----------------------------------------------------------------------------
VARIABLES
  kdf,       \* the KDF of the method that enrolls
  stored,    \* [id, bytes] of the slot, or with no bytes before it exists
  intact,    \* the stored bytes are as written
  parsed,    \* what parseKDF returned
  pc

vars == <<kdf, stored, intact, parsed, pc>>

Nothing == [id |-> "none"]

Init ==
  /\ kdf \in Configured
  /\ stored = [id |-> kdf.id, bytes |-> <<>>]
  /\ intact = TRUE
  /\ parsed = Nothing
  /\ pc = "enroll"

(* Enroll derives before it stores; an error or a panic ends it.           *)
Enroll ==
  /\ pc = "enroll"
  /\ IF Outcome(kdf) = "key"
     THEN /\ stored' = [stored EXCEPT !.bytes = MarshalParams(kdf)]
          /\ pc' = "file"
     ELSE pc' = "end" /\ UNCHANGED stored
  /\ UNCHANGED <<kdf, intact, parsed>>

(* A byte of the parameters changes at rest.                               *)
Damage ==
  /\ pc = "file"
  /\ \E i \in 1..9, b \in Byte :
       /\ b # stored.bytes[i]
       /\ stored' = [stored EXCEPT !.bytes[i] = b]
  /\ intact' = FALSE
  /\ pc' = "changed"
  /\ UNCHANGED <<kdf, parsed>>

Parse ==
  /\ pc \in {"file", "changed"}
  /\ parsed' = parseKDF(stored.id, stored.bytes)
  /\ pc' = "end"
  /\ UNCHANGED <<kdf, stored, intact>>

End == pc = "end" /\ UNCHANGED vars

Next ==
  \/ Enroll
  \/ Damage
  \/ Parse
  \/ End

Spec == Init /\ [][Next]_vars

-----------------------------------------------------------------------------
(* Properties *)

Accepted == parsed \notin {Nothing, Refused}

TypeOK ==
  /\ kdf \in Configured
  /\ stored \in [id : {"argon2id", "scrypt"}, bytes : Seq(Byte)]
  /\ pc \in {"file", "changed"} => Len(stored.bytes) = 9
  /\ intact \in BOOLEAN
  /\ parsed \in Argon2s \cup Scrypts \cup {Nothing, Refused}
  /\ pc \in {"enroll", "file", "changed", "end"}

(* "A tampered file cannot trigger a multi-gigabyte allocation": what the  *)
(* derivation takes for accepted parameters, computed without any width,   *)
(* is within the ceiling.                                                  *)
AcceptedIsBounded == Accepted => MemoryTaken(parsed) <= MaxKDFMemBytes

(* Deriving with accepted parameters yields a key: no file makes Unlock    *)
(* panic inside a KDF or fail before the tag is checked.                   *)
AcceptedDerives == Accepted => Outcome(parsed) = "key"

(* The documented bounds, in the natural numbers.                          *)
WithinBounds(f) ==
  IF f.id = "argon2id"
  THEN /\ f.time \in 1..MaxArgonTimeParam
       /\ f.threads \in 1..MaxArgonThreadsParam
       /\ f.memoryKiB >= MinArgonMemKiB
       /\ f.memoryKiB * KiB <= MaxKDFMemBytes
  ELSE /\ f.logN \in MinScryptLogN..MaxScryptLogN
       /\ f.r \in 1..MaxScryptR
       /\ f.p \in 1..MaxScryptP
       /\ Block * Pow2[f.logN] * f.r <= MaxKDFMemBytes

(* "Self-describing and re-derivable without app-side config": from the    *)
(* bytes as written parseKDF makes the very KDF that enrolled, if that is  *)
(* within the bounds; from changed bytes it makes another one or none, so  *)
(* that a change of cost is never without effect on the key.               *)
ParametersSurvive ==
  /\ Accepted => (intact <=> parsed = kdf)
  /\ intact /\ parsed # Nothing /\ WithinBounds(kdf) => Accepted
=============================================================================
