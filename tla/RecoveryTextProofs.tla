-------------------------- MODULE RecoveryTextProofs --------------------------
(***************************************************************************)
(* Theorems about the printed recovery code, for every code and however    *)
(* often the person who types it slips: base32 keeps the bits of what it   *)
(* encodes, so a code is read back and only what has its bits is read as   *)
(* it; and the liberties ParseRecoveryCode grants leave the symbols.       *)
(***************************************************************************)
EXTENDS RecoveryText, DataLemmas

-----------------------------------------------------------------------------
(* Numbers and their bits *)

Byte == 0..255

(* The digits of a number are added one after the other.                   *)
LEMMA NumberSteps ==
  ASSUME NEW n \in Nat, NEW bits \in [1..n -> 0..1]
  PROVE  \E v \in [0..n -> Nat] :
           /\ v[0] = 0
           /\ \A j \in 1..n : v[j] = 2 * v[j - 1] + bits[j]
           /\ Number(bits) = v[n]
<1> DEFINE Eq(v) == v = [j \in 0..Len(bits) |->
                           IF j = 0 THEN 0 ELSE 2 * v[j - 1] + bits[j]]
           value == CHOOSE v : Eq(v)
           step == [p \in (1..n) \X Nat |-> 2 * p[2] + bits[p[1]]]
<1>1. Len(bits) = n
  OBVIOUS
<1>2. Number(bits) = value[n]
  BY <1>1 DEF Number
<1>3. \E v : Eq(v)
  <2>1. step \in [(1..n) \X Nat -> Nat]
    OBVIOUS
  <2>2. \A j \in 1..n, x \in Nat : step[<<j, x>>] = 2 * x + bits[j]
    OBVIOUS
  <2> HIDE DEF step
  <2>3. PICK v \in [0..n -> Nat] :
          v[0] = 0 /\ \A j \in 1..n : v[j] = step[<<j, v[j - 1]>>]
    <3> DEFINE A == Nat
    <3>1. 0 \in A /\ step \in [(1..n) \X A -> A]
      BY <2>1
    <3> HIDE DEF A
    <3>2. \E v \in [0..n -> A] : Loops(v, n, 0, step)
      BY <3>1, LoopExists
    <3> QED
      BY <3>2 DEF A, Loops
  <2>4. \A j \in 1..n : v[j] = 2 * v[j - 1] + bits[j]
    <3>1. \A j \in 1..n : j - 1 \in 0..n
      OBVIOUS
    <3> QED
      BY <2>2, <2>3, <3>1
  <2>5. Eq(v)
    <3>1. \A j \in 0..n : v[j] = IF j = 0 THEN 0 ELSE 2 * v[j - 1] + bits[j]
      BY <2>3, <2>4
    <3> QED
      BY <1>1, <3>1
  <2> QED
    BY <2>5
<1>4. Eq(value)
  <2> HIDE DEF Eq
  <2> QED
    BY <1>3
<1> HIDE DEF value
<1>5. /\ value[0] = 0
      /\ \A j \in 1..n : value[j] = 2 * value[j - 1] + bits[j]
      /\ DOMAIN value = 0..n
  BY <1>1, <1>4
<1>6. \A j \in 0..n : value[j] \in Nat
  <2> DEFINE T == {j \in Nat : j <= n => value[j] \in Nat}
  <2>1. 0 \in T
    BY <1>5
  <2>2. ASSUME NEW j \in T PROVE j + 1 \in T
    <3>1. CASE j + 1 <= n
      <4>1. j + 1 \in 1..n /\ (j + 1) - 1 = j /\ value[j] \in Nat
        BY <3>1
      <4>2. value[j + 1] = 2 * value[j] + bits[j + 1] /\ bits[j + 1] \in 0..1
        BY <1>5, <4>1
      <4> QED
        BY <4>1, <4>2
    <3> QED
      BY <3>1
  <2>3. T = Nat
    <3>1. T \in SUBSET Nat /\ \A j \in T : j + 1 \in T
      BY <2>2
    <3> HIDE DEF T
    <3> QED
      BY <2>1, <3>1, Induction
  <2> QED
    BY <2>3
<1>7. value \in [0..n -> Nat]
  <2>1. value = [j \in 0..n |-> value[j]]
    BY <1>1, <1>4
  <2> QED
    BY <1>6, <2>1
<1> HIDE DEF Eq
<1> QED
  BY <1>2, <1>5, <1>7

(* Five digits make a symbol, and are its bits.                            *)
LEMMA FiveDigits ==
  ASSUME NEW b \in [1..5 -> 0..1]
  PROVE  /\ Number(b) \in Symbol
         /\ (Number(b) \div 2^4) % 2 = b[1]
         /\ (Number(b) \div 2^3) % 2 = b[2]
         /\ (Number(b) \div 2^2) % 2 = b[3]
         /\ (Number(b) \div 2^1) % 2 = b[4]
         /\ (Number(b) \div 2^0) % 2 = b[5]
<1>1. PICK v \in [0..5 -> Nat] :
        /\ v[0] = 0
        /\ \A j \in 1..5 : v[j] = 2 * v[j - 1] + b[j]
        /\ Number(b) = v[5]
  BY NumberSteps
<1>2. /\ v[1] = b[1]
      /\ v[2] = 2 * v[1] + b[2]
      /\ v[3] = 2 * v[2] + b[3]
      /\ v[4] = 2 * v[3] + b[4]
      /\ v[5] = 2 * v[4] + b[5]
  BY <1>1
<1>3. b[1] \in 0..1 /\ b[2] \in 0..1 /\ b[3] \in 0..1 /\ b[4] \in 0..1
      /\ b[5] \in 0..1
  OBVIOUS
<1> DEFINE x == 16 * b[1] + 8 * b[2] + 4 * b[3] + 2 * b[4] + b[5]
<1>4. Number(b) = x
  <2>1. v[2] = 2 * b[1] + b[2]
    BY <1>2, <1>3
  <2>2. v[3] = 4 * b[1] + 2 * b[2] + b[3]
    BY <1>2, <1>3, <2>1
  <2>3. v[4] = 8 * b[1] + 4 * b[2] + 2 * b[3] + b[4]
    BY <1>2, <1>3, <2>2
  <2>4. v[5] = 16 * b[1] + 8 * b[2] + 4 * b[3] + 2 * b[4] + b[5]
    BY <1>2, <1>3, <2>3
  <2> QED
    BY <1>1, <2>4
<1>5. /\ x \in 0..31
      /\ (x \div 16) % 2 = b[1]
      /\ (x \div 8) % 2 = b[2]
      /\ (x \div 4) % 2 = b[3]
      /\ (x \div 2) % 2 = b[4]
      /\ (x \div 1) % 2 = b[5]
  BY <1>3
<1>6. 2^4 = 16 /\ 2^3 = 8 /\ 2^2 = 4 /\ 2^1 = 2 /\ 2^0 = 1
  OBVIOUS
<1> HIDE DEF x
<1> QED
  BY <1>4, <1>5, <1>6 DEF Symbol

(* Eight digits make a byte, and are its bits.                             *)
LEMMA EightDigits ==
  ASSUME NEW b \in [1..8 -> 0..1]
  PROVE  /\ Number(b) \in Byte
         /\ (Number(b) \div 2^7) % 2 = b[1]
         /\ (Number(b) \div 2^6) % 2 = b[2]
         /\ (Number(b) \div 2^5) % 2 = b[3]
         /\ (Number(b) \div 2^4) % 2 = b[4]
         /\ (Number(b) \div 2^3) % 2 = b[5]
         /\ (Number(b) \div 2^2) % 2 = b[6]
         /\ (Number(b) \div 2^1) % 2 = b[7]
         /\ (Number(b) \div 2^0) % 2 = b[8]
<1>1. PICK v \in [0..8 -> Nat] :
        /\ v[0] = 0
        /\ \A j \in 1..8 : v[j] = 2 * v[j - 1] + b[j]
        /\ Number(b) = v[8]
  BY NumberSteps
<1>2. /\ v[1] = b[1]
      /\ v[2] = 2 * v[1] + b[2]
      /\ v[3] = 2 * v[2] + b[3]
      /\ v[4] = 2 * v[3] + b[4]
      /\ v[5] = 2 * v[4] + b[5]
      /\ v[6] = 2 * v[5] + b[6]
      /\ v[7] = 2 * v[6] + b[7]
      /\ v[8] = 2 * v[7] + b[8]
  BY <1>1
<1>3. b[1] \in 0..1 /\ b[2] \in 0..1 /\ b[3] \in 0..1 /\ b[4] \in 0..1
      /\ b[5] \in 0..1 /\ b[6] \in 0..1 /\ b[7] \in 0..1 /\ b[8] \in 0..1
  OBVIOUS
<1> DEFINE x == 128 * b[1] + 64 * b[2] + 32 * b[3] + 16 * b[4]
                  + 8 * b[5] + 4 * b[6] + 2 * b[7] + b[8]
<1>4. Number(b) = x
  <2>1. v[2] = 2 * b[1] + b[2]
    BY <1>2, <1>3
  <2>2. v[3] = 4 * b[1] + 2 * b[2] + b[3]
    BY <1>2, <1>3, <2>1
  <2>3. v[4] = 8 * b[1] + 4 * b[2] + 2 * b[3] + b[4]
    BY <1>2, <1>3, <2>2
  <2>4. v[5] = 16 * b[1] + 8 * b[2] + 4 * b[3] + 2 * b[4] + b[5]
    BY <1>2, <1>3, <2>3
  <2>5. v[6] = 32 * b[1] + 16 * b[2] + 8 * b[3] + 4 * b[4] + 2 * b[5] + b[6]
    BY <1>2, <1>3, <2>4
  <2>6. v[7] = 64 * b[1] + 32 * b[2] + 16 * b[3]
             + 8 * b[4] + 4 * b[5] + 2 * b[6] + b[7]
    BY <1>2, <1>3, <2>5
  <2>7. v[8] = 128 * b[1] + 64 * b[2] + 32 * b[3] + 16 * b[4]
             + 8 * b[5] + 4 * b[6] + 2 * b[7] + b[8]
    BY <1>2, <1>3, <2>6
  <2> QED
    BY <1>1, <2>7
<1>5. /\ x \in 0..255
      /\ (x \div 128) % 2 = b[1]
      /\ (x \div 64) % 2 = b[2]
      /\ (x \div 32) % 2 = b[3]
      /\ (x \div 16) % 2 = b[4]
      /\ (x \div 8) % 2 = b[5]
      /\ (x \div 4) % 2 = b[6]
      /\ (x \div 2) % 2 = b[7]
      /\ (x \div 1) % 2 = b[8]
  BY <1>3
<1>6. /\ 2^7 = 128 /\ 2^6 = 64 /\ 2^5 = 32
      /\ 2^4 = 16 /\ 2^3 = 8 /\ 2^2 = 4 /\ 2^1 = 2 /\ 2^0 = 1
  OBVIOUS
<1> HIDE DEF x
<1> QED
  BY <1>4, <1>5, <1>6 DEF Byte

(* The powers of two that pick a bit.                                       *)
LEMMA Powers ==
  /\ 2^0 = 1 /\ 2^1 = 2 /\ 2^2 = 4 /\ 2^3 = 8
  /\ 2^4 = 16 /\ 2^5 = 32 /\ 2^6 = 64 /\ 2^7 = 128 /\ 2^8 = 256
  OBVIOUS

(* A bit is zero or one.                                                   *)
LEMMA BitType ==
  ASSUME NEW seq \in Seq(Nat), NEW w \in {5, 8}, NEW n \in Nat
  PROVE  Bit(seq, w, n) \in 0..1
<1> DEFINE i == n \div w
           e == w - 1 - (n % w)
<1>1. i \in Nat /\ e \in 0..7
  <2>1. w \in Nat \ {0} /\ w <= 8
    OBVIOUS
  <2> DEFINE r == n % w
  <2>2. i \in Nat /\ r \in 0..(w - 1)
    BY <2>1, Division
  <2> HIDE DEF i, r
  <2>3. w - 1 - r \in 0..7
    BY <2>1, <2>2
  <2> QED
    BY <2>2, <2>3 DEF r
<1>2. 2^e \in Nat \ {0}
  <2>1. \A k \in 0..7 : k = 0 \/ k = 1 \/ k = 2 \/ k = 3 \/ k = 4 \/ k = 5
                         \/ k = 6 \/ k = 7
    OBVIOUS
  <2> HIDE DEF e
  <2>2. \/ e = 0 \/ e = 1 \/ e = 2 \/ e = 3 \/ e = 4 \/ e = 5
        \/ e = 6 \/ e = 7
    BY <1>1, <2>1, Zenon
  <2> DEFINE P == Nat \ {0}
  <2>3. /\ 2^0 \in P /\ 2^1 \in P /\ 2^2 \in P /\ 2^3 \in P
        /\ 2^4 \in P /\ 2^5 \in P /\ 2^6 \in P /\ 2^7 \in P
    BY Powers
  <2>4. 2^e \in P
    <3> HIDE DEF P
    <3> QED
      BY <2>2, <2>3, Zenon
  <2> QED
    BY <2>4
<1> DEFINE p == 2^e
<1>3. Bit(seq, w, n) = IF i >= Len(seq) THEN 0 ELSE (seq[i + 1] \div p) % 2
  BY DEF Bit
<1> HIDE DEF i, p
<1>4. CASE i >= Len(seq)
  BY <1>3, <1>4
<1>5. CASE ~(i >= Len(seq))
  <2>1. seq[i + 1] \in Nat
    BY <1>1, <1>5
  <2>2. p \in Nat \ {0}
    BY <1>2 DEF p
  <2>3. seq[i + 1] \div p \in Nat
    BY <2>1, <2>2, Division
  <2>4. (seq[i + 1] \div p) % 2 \in 0..1
    BY <2>3
  <2> QED
    BY <1>3, <1>5, <2>4
<1> QED
  BY <1>4, <1>5

(* Bit k of number i + 1.                                                  *)
LEMMA BitOf ==
  ASSUME NEW seq \in Seq(Nat), NEW w \in {5, 8}, NEW i \in Nat,
         i < Len(seq), NEW k \in 0..(w - 1)
  PROVE  Bit(seq, w, w * i + k) = (seq[i + 1] \div 2^(w - 1 - k)) % 2
<1>1. (w * i + k) \div w = i /\ (w * i + k) % w = k
  BY QuotientIs
<1>2. ~(i >= Len(seq))
  OBVIOUS
<1> QED
  BY <1>1, <1>2, Zenon DEF Bit

(* Regrouping into symbols keeps the bits.                                 *)
LEMMA Symbols ==
  ASSUME NEW seq \in Seq(Nat), NEW v \in {5, 8}, NEW n \in Nat
  PROVE  /\ Regroup(seq, v, 5, n) \in Seq(Symbol)
         /\ Len(Regroup(seq, v, 5, n)) = n
         /\ \A i \in 0..(n - 1), k \in 0..4 :
              Bit(Regroup(seq, v, 5, n), 5, 5 * i + k)
                = Bit(seq, v, 5 * i + k)
<1> DEFINE digits(i) == [j \in 1..5 |-> Bit(seq, v, 5 * (i - 1) + j - 1)]
           R == Regroup(seq, v, 5, n)
<1>1. R = [i \in 1..n |-> Number(digits(i))]
  BY DEF Regroup
<1>2. ASSUME NEW i \in 1..n PROVE digits(i) \in [1..5 -> 0..1]
  <2>1. ASSUME NEW j \in 1..5
        PROVE  Bit(seq, v, 5 * (i - 1) + j - 1) \in 0..1
    <3>1. 5 * (i - 1) + j - 1 \in Nat
      OBVIOUS
    <3> QED
      BY <3>1, BitType
  <2> QED
    BY <2>1
<1>3. \A i \in 1..n, j \in 1..5 :
        digits(i)[j] = Bit(seq, v, 5 * (i - 1) + j - 1)
  OBVIOUS
<1> HIDE DEF digits, R
<1>4. \A i \in 1..n : Number(digits(i)) \in Symbol
  BY <1>2, FiveDigits
<1>5. /\ R \in Seq(Symbol) /\ Len(R) = n
      /\ \A i \in 1..n : R[i] = Number(digits(i))
  <2>1. R \in [1..n -> Symbol] /\ \A i \in 1..n : R[i] = Number(digits(i))
    BY <1>1, <1>4
  <2> QED
    BY <2>1
<1>6. ASSUME NEW i \in 0..(n - 1), NEW k \in 0..4
      PROVE  Bit(R, 5, 5 * i + k) = Bit(seq, v, 5 * i + k)
  <2>1. R \in Seq(Nat) /\ i \in Nat /\ i < Len(R) /\ i + 1 \in 1..n
    <3>1. R \in Seq(Nat)
      <4>1. Symbol \subseteq Nat
        BY DEF Symbol
      <4> QED
        BY <1>5, <4>1, SeqMonotonic
    <3> QED
      BY <1>5, <3>1
  <2>2. Bit(R, 5, 5 * i + k) = (R[i + 1] \div 2^(5 - 1 - k)) % 2
    <3>1. 5 \in {5, 8} /\ k \in 0..(5 - 1)
      OBVIOUS
    <3> QED
      BY <2>1, <3>1, BitOf
  <2>3. (R[i + 1] \div 2^(5 - 1 - k)) % 2 = digits(i + 1)[k + 1]
    <3> DEFINE d == digits(i + 1)
    <3>1. d \in [1..5 -> 0..1] /\ R[i + 1] = Number(d)
      BY <1>2, <1>5, <2>1
    <3> HIDE DEF d
    <3>2. /\ (Number(d) \div 2^4) % 2 = d[1]
          /\ (Number(d) \div 2^3) % 2 = d[2]
          /\ (Number(d) \div 2^2) % 2 = d[3]
          /\ (Number(d) \div 2^1) % 2 = d[4]
          /\ (Number(d) \div 2^0) % 2 = d[5]
      BY <3>1, FiveDigits
    <3>3. \/ k = 0 /\ 5 - 1 - k = 4 /\ k + 1 = 1
          \/ k = 1 /\ 5 - 1 - k = 3 /\ k + 1 = 2
          \/ k = 2 /\ 5 - 1 - k = 2 /\ k + 1 = 3
          \/ k = 3 /\ 5 - 1 - k = 1 /\ k + 1 = 4
          \/ k = 4 /\ 5 - 1 - k = 0 /\ k + 1 = 5
      OBVIOUS
    <3>4. (Number(d) \div 2^(5 - 1 - k)) % 2 = d[k + 1]
      BY <3>2, <3>3, Zenon
    <3> QED
      BY <3>1, <3>4 DEF d
  <2>4. digits(i + 1)[k + 1] = Bit(seq, v, 5 * i + k)
    <3>1. /\ i + 1 \in 1..n /\ k + 1 \in 1..5
          /\ 5 * ((i + 1) - 1) + (k + 1) - 1 = 5 * i + k
      OBVIOUS
    <3>2. digits(i + 1)[k + 1]
            = Bit(seq, v, 5 * ((i + 1) - 1) + (k + 1) - 1)
      BY <1>3, <3>1, Zenon
    <3> QED
      BY <3>1, <3>2, Zenon
  <2> QED
    BY <2>2, <2>3, <2>4
<1> QED
  BY <1>5, <1>6 DEF R

(* Regrouping into bytes keeps the bits.                                   *)
LEMMA Bytes ==
  ASSUME NEW seq \in Seq(Nat), NEW v \in {5, 8}, NEW n \in Nat
  PROVE  /\ Regroup(seq, v, 8, n) \in Seq(Byte)
         /\ Len(Regroup(seq, v, 8, n)) = n
         /\ \A i \in 0..(n - 1), k \in 0..7 :
              Bit(Regroup(seq, v, 8, n), 8, 8 * i + k)
                = Bit(seq, v, 8 * i + k)
<1> DEFINE digits(i) == [j \in 1..8 |-> Bit(seq, v, 8 * (i - 1) + j - 1)]
           R == Regroup(seq, v, 8, n)
<1>1. R = [i \in 1..n |-> Number(digits(i))]
  BY DEF Regroup
<1>2. ASSUME NEW i \in 1..n PROVE digits(i) \in [1..8 -> 0..1]
  <2>1. ASSUME NEW j \in 1..8
        PROVE  Bit(seq, v, 8 * (i - 1) + j - 1) \in 0..1
    <3>1. 8 * (i - 1) + j - 1 \in Nat
      OBVIOUS
    <3> QED
      BY <3>1, BitType
  <2> QED
    BY <2>1
<1>3. \A i \in 1..n, j \in 1..8 :
        digits(i)[j] = Bit(seq, v, 8 * (i - 1) + j - 1)
  OBVIOUS
<1> HIDE DEF digits, R
<1>4. \A i \in 1..n : Number(digits(i)) \in Byte
  BY <1>2, EightDigits
<1>5. R \in Seq(Byte) /\ Len(R) = n /\ \A i \in 1..n : R[i] = Number(digits(i))
  <2>1. R \in [1..n -> Byte] /\ \A i \in 1..n : R[i] = Number(digits(i))
    BY <1>1, <1>4
  <2> QED
    BY <2>1
<1>6. ASSUME NEW i \in 0..(n - 1), NEW k \in 0..7
      PROVE  Bit(R, 8, 8 * i + k) = Bit(seq, v, 8 * i + k)
  <2>1. R \in Seq(Nat) /\ i \in Nat /\ i < Len(R) /\ i + 1 \in 1..n
    <3>1. R \in Seq(Nat)
      <4>1. Byte \subseteq Nat
        BY DEF Byte
      <4> QED
        BY <1>5, <4>1, SeqMonotonic
    <3> QED
      BY <1>5, <3>1
  <2>2. Bit(R, 8, 8 * i + k) = (R[i + 1] \div 2^(8 - 1 - k)) % 2
    <3>1. 8 \in {5, 8} /\ k \in 0..(8 - 1)
      OBVIOUS
    <3> QED
      BY <2>1, <3>1, BitOf
  <2>3. (R[i + 1] \div 2^(8 - 1 - k)) % 2 = digits(i + 1)[k + 1]
    <3> DEFINE d == digits(i + 1)
    <3>1. d \in [1..8 -> 0..1] /\ R[i + 1] = Number(d)
      BY <1>2, <1>5, <2>1
    <3> HIDE DEF d
    <3>2. /\ (Number(d) \div 2^7) % 2 = d[1]
          /\ (Number(d) \div 2^6) % 2 = d[2]
          /\ (Number(d) \div 2^5) % 2 = d[3]
          /\ (Number(d) \div 2^4) % 2 = d[4]
          /\ (Number(d) \div 2^3) % 2 = d[5]
          /\ (Number(d) \div 2^2) % 2 = d[6]
          /\ (Number(d) \div 2^1) % 2 = d[7]
          /\ (Number(d) \div 2^0) % 2 = d[8]
      BY <3>1, EightDigits
    <3>3. \/ k = 0 /\ 8 - 1 - k = 7 /\ k + 1 = 1
          \/ k = 1 /\ 8 - 1 - k = 6 /\ k + 1 = 2
          \/ k = 2 /\ 8 - 1 - k = 5 /\ k + 1 = 3
          \/ k = 3 /\ 8 - 1 - k = 4 /\ k + 1 = 4
          \/ k = 4 /\ 8 - 1 - k = 3 /\ k + 1 = 5
          \/ k = 5 /\ 8 - 1 - k = 2 /\ k + 1 = 6
          \/ k = 6 /\ 8 - 1 - k = 1 /\ k + 1 = 7
          \/ k = 7 /\ 8 - 1 - k = 0 /\ k + 1 = 8
      OBVIOUS
    <3>4. (Number(d) \div 2^(8 - 1 - k)) % 2 = d[k + 1]
      BY <3>2, <3>3, Zenon
    <3> QED
      BY <3>1, <3>4 DEF d
  <2>4. digits(i + 1)[k + 1] = Bit(seq, v, 8 * i + k)
    <3>1. /\ i + 1 \in 1..n /\ k + 1 \in 1..8
          /\ 8 * ((i + 1) - 1) + (k + 1) - 1 = 8 * i + k
      OBVIOUS
    <3>2. digits(i + 1)[k + 1]
            = Bit(seq, v, 8 * ((i + 1) - 1) + (k + 1) - 1)
      BY <1>3, <3>1, Zenon
    <3> QED
      BY <3>1, <3>2, Zenon
  <2> QED
    BY <2>2, <2>3, <2>4
<1> QED
  BY <1>5, <1>6 DEF R

(* Numbers that agree up to a bit, and in that bit.                        *)
LEMMA SameHalf ==
  ASSUME NEW x \in Nat, NEW y \in Nat, NEW d \in Nat \ {0},
         x \div (d * 2) = y \div (d * 2), (x \div d) % 2 = (y \div d) % 2
  PROVE  x \div d = y \div d
<1> DEFINE u == x \div d
           v == y \div d
<1>1. u \in Nat /\ v \in Nat
  BY Division
<1>2. 2 \in Nat \ {0}
  OBVIOUS
<1>3. x \div (d * 2) = u \div 2 /\ y \div (d * 2) = v \div 2
  BY <1>2, QuotientTwice
<1>4. u \div 2 = v \div 2 /\ u % 2 = v % 2
  BY <1>3
<1> HIDE DEF u, v
<1>5. u = v
  BY <1>1, <1>4
<1> QED
  BY <1>5 DEF u, v

(* Powers of two, one after the other.                                     *)
LEMMA Doubling ==
  ASSUME NEW e \in 0..7
  PROVE  2^e \in Nat \ {0} /\ 2^(e + 1) = 2^e * 2
<1>1. \/ e = 0 /\ e + 1 = 1
      \/ e = 1 /\ e + 1 = 2
      \/ e = 2 /\ e + 1 = 3
      \/ e = 3 /\ e + 1 = 4
      \/ e = 4 /\ e + 1 = 5
      \/ e = 5 /\ e + 1 = 6
      \/ e = 6 /\ e + 1 = 7
      \/ e = 7 /\ e + 1 = 8
  OBVIOUS
<1> DEFINE P(i, j) == 2^i \in Nat \ {0} /\ 2^j = 2^i * 2
<1>2. /\ P(0, 1) /\ P(1, 2) /\ P(2, 3) /\ P(3, 4)
      /\ P(4, 5) /\ P(5, 6) /\ P(6, 7) /\ P(7, 8)
  BY Powers
<1>3. P(e, e + 1)
  <2> HIDE DEF P
  <2> QED
    BY <1>1, <1>2
<1> QED
  BY <1>3

(* Numbers with the same first n bits agree up to the rest.                *)
LEMMA SameBits ==
  ASSUME NEW w \in {5, 8}, NEW x \in Nat, NEW y \in Nat, x < 2^w, y < 2^w,
         NEW n \in 0..w,
         \A k \in 0..(n - 1) :
           (x \div 2^(w - 1 - k)) % 2 = (y \div 2^(w - 1 - k)) % 2
  PROVE  x \div 2^(w - n) = y \div 2^(w - n)
<1> DEFINE T == {m \in Nat : m <= n => x \div 2^(w - m) = y \div 2^(w - m)}
<1>1. 0 \in T
  <2> DEFINE d == 2^w
  <2>1. d \in Nat \ {0} /\ x < d /\ y < d
    BY Powers
  <2> HIDE DEF d
  <2>2. x \div d = 0 /\ y \div d = 0
    <3>1. x = d * 0 + x /\ y = d * 0 + y /\ x \in 0..(d - 1) /\ y \in 0..(d - 1)
      BY <2>1
    <3> QED
      BY <2>1, <3>1, QuotientOf
  <2>3. w - 0 = w
    OBVIOUS
  <2> QED
    BY <2>2, <2>3 DEF d
<1>2. ASSUME NEW m \in T PROVE m + 1 \in T
  <2>1. SUFFICES ASSUME m + 1 <= n
                 PROVE  x \div 2^(w - (m + 1)) = y \div 2^(w - (m + 1))
    OBVIOUS
  <2>2. /\ w - (m + 1) \in 0..7 /\ (w - (m + 1)) + 1 = w - m
        /\ m \in 0..(n - 1) /\ w - 1 - m = w - (m + 1) /\ m <= n
    BY <2>1
  <2> DEFINE d == 2^(w - (m + 1))
             e == 2^(w - m)
  <2>3. d \in Nat \ {0} /\ e = d * 2
    BY <2>2, Doubling
  <2>4. x \div e = y \div e /\ (x \div d) % 2 = (y \div d) % 2
    BY <2>2, Zenon
  <2>5. x \div (d * 2) = y \div (d * 2)
    BY <2>3, <2>4, Zenon
  <2> HIDE DEF d, e
  <2>6. x \div d = y \div d
    BY <2>3, <2>4, <2>5, SameHalf, Zenon
  <2> QED
    BY <2>6 DEF d
<1>3. T = Nat
  <2>1. T \in SUBSET Nat /\ \A m \in T : m + 1 \in T
    BY <1>2
  <2> HIDE DEF T
  <2> QED
    BY <1>1, <2>1, Induction
<1>4. n \in Nat /\ n <= n
  OBVIOUS
<1>5. n \in T
  BY <1>3, <1>4, Zenon
<1> QED
  BY <1>4, <1>5

(* The length of an encoding, and what decodes to that many bytes.         *)
LEMMA Lengths ==
  ASSUME NEW L \in Nat
  PROVE  LET n == (8 * L + 4) \div 5
         IN  /\ n \in Nat
             /\ 8 * L <= 5 * n /\ 5 * n <= 8 * L + 4
             /\ DecodedLen(n) = L
             /\ L % 5 # 0 => \A m \in Nat : DecodedLen(m) = L => m = n
<1> DEFINE n == (8 * L + 4) \div 5
<1>1. n \in Nat /\ 8 * L <= 5 * n /\ 5 * n <= 8 * L + 4
  OBVIOUS
<1>2. DecodedLen(n) = L
  <2> DEFINE a == L \div 5
             r == L % 5
  <2>1. a \in Nat /\ r \in 0..4 /\ L = 5 * a + r
    OBVIOUS
  <2>2. \/ r = 0 /\ n = 8 * a + 0
        \/ r = 1 /\ n = 8 * a + 2
        \/ r = 2 /\ n = 8 * a + 4
        \/ r = 3 /\ n = 8 * a + 5
        \/ r = 4 /\ n = 8 * a + 7
    <3> HIDE DEF a, r
    <3> QED
      BY <2>1, <1>1
  <2> HIDE DEF a, r, n
  <2>3. \A t \in 0..7 : (8 * a + t) \div 8 = a /\ (8 * a + t) % 8 = t
    BY <2>1
  <2> QED
    BY <2>1, <2>2, <2>3 DEF DecodedLen
<1>3. ASSUME L % 5 # 0, NEW m \in Nat, DecodedLen(m) = L PROVE m = n
  <2> DEFINE b == m \div 8
             t == m % 8
             d == CASE t = 2 -> 1 [] t = 4 -> 2 [] t = 5 -> 3
                    [] t = 7 -> 4 [] OTHER -> 0
  <2>1. b \in Nat /\ t \in 0..7 /\ m = 8 * b + t
    OBVIOUS
  <2>2. L = 5 * b + d
    BY <1>3 DEF DecodedLen
  <2>3. \/ t = 2 /\ d = 1
        \/ t = 4 /\ d = 2
        \/ t = 5 /\ d = 3
        \/ t = 7 /\ d = 4
        \/ d = 0
    OBVIOUS
  <2>4. d # 0
    <3> HIDE DEF b, d
    <3> QED
      BY <1>3, <2>1, <2>2
  <2> HIDE DEF b, t, d
  <2> QED
    BY <1>1, <2>1, <2>2, <2>3, <2>4
<1> QED
  BY <1>1, <1>2, <1>3

-----------------------------------------------------------------------------
(* Encoding and decoding *)

(* What is encoded, and what it decodes to.                                *)
LEMMA Encoded ==
  ASSUME NEW c \in Seq(Byte)
  PROVE  /\ EncodeToString(c) \in Seq(Symbol)
         /\ Len(EncodeToString(c)) = (8 * Len(c) + 4) \div 5
         /\ \A m \in Nat : m < 8 * Len(c) =>
              Bit(EncodeToString(c), 5, m) = Bit(c, 8, m)
<1> DEFINE n == (8 * Len(c) + 4) \div 5
           P == Regroup(c, 8, 5, n)
<1>1. c \in Seq(Nat) /\ 8 \in {5, 8}
  <2>1. Byte \subseteq Nat
    BY DEF Byte
  <2> QED
    BY <2>1, SeqMonotonic
<1>2. n \in Nat /\ 8 * Len(c) <= 5 * n
  <2>1. Len(c) \in Nat
    OBVIOUS
  <2> QED
    BY <2>1, Lengths, Zenon
<1> HIDE DEF n
<1>3. /\ P \in Seq(Symbol)
      /\ Len(P) = n
      /\ \A i \in 0..(n - 1), k \in 0..4 :
           Bit(P, 5, 5 * i + k) = Bit(c, 8, 5 * i + k)
  BY <1>1, <1>2, Symbols
<1> HIDE DEF P
<1>4. ASSUME NEW m \in Nat, m < 8 * Len(c) PROVE Bit(P, 5, m) = Bit(c, 8, m)
  <2> DEFINE i == m \div 5
             k == m % 5
  <2>1. m = 5 * i + k /\ k \in 0..4 /\ i \in Nat /\ Len(c) \in Nat
    OBVIOUS
  <2> HIDE DEF i, k
  <2>2. i \in 0..(n - 1)
    BY <1>2, <1>4, <2>1
  <2>3. Bit(P, 5, 5 * i + k) = Bit(c, 8, 5 * i + k)
    BY <1>3, <2>1, <2>2
  <2> QED
    BY <2>1, <2>3, Zenon
<1> QED
  BY <1>3, <1>4 DEF EncodeToString, P, n

(* What is decoded.                                                        *)
LEMMA Decoded ==
  ASSUME NEW s \in Seq(Symbol)
  PROVE  /\ DecodeString(s) \in Seq(Byte)
         /\ Len(DecodeString(s)) = DecodedLen(Len(s))
         /\ \A m \in Nat : m < 8 * DecodedLen(Len(s)) =>
              Bit(DecodeString(s), 8, m) = Bit(s, 5, m)
<1> DEFINE n == DecodedLen(Len(s))
           D == Regroup(s, 5, 8, n)
<1>1. s \in Seq(Nat) /\ 5 \in {5, 8}
  <2>1. Symbol \subseteq Nat
    BY DEF Symbol
  <2> QED
    BY <2>1, SeqMonotonic
<1>2. n \in Nat
  <2>1. Len(s) \div 8 \in Nat
    BY LenProperties, Division
  <2> DEFINE a == Len(s) \div 8
             d == CASE Len(s) % 8 = 2 -> 1 [] Len(s) % 8 = 4 -> 2
                    [] Len(s) % 8 = 5 -> 3 [] Len(s) % 8 = 7 -> 4
                    [] OTHER -> 0
  <2>2. d \in Nat
    OBVIOUS
  <2>3. n = 5 * a + d
    BY DEF DecodedLen
  <2> HIDE DEF a, d, n
  <2> QED
    BY <2>1, <2>2, <2>3 DEF a
<1> HIDE DEF n
<1>3. /\ D \in Seq(Byte)
      /\ Len(D) = n
      /\ \A i \in 0..(n - 1), k \in 0..7 :
           Bit(D, 8, 8 * i + k) = Bit(s, 5, 8 * i + k)
  BY <1>1, <1>2, Bytes
<1> HIDE DEF D
<1>4. ASSUME NEW m \in Nat, m < 8 * n PROVE Bit(D, 8, m) = Bit(s, 5, m)
  <2> DEFINE i == m \div 8
             k == m % 8
  <2>1. m = 8 * i + k /\ k \in 0..7 /\ i \in Nat
    OBVIOUS
  <2> HIDE DEF i, k
  <2>2. i \in 0..(n - 1)
    BY <1>2, <1>4, <2>1
  <2>3. Bit(D, 8, 8 * i + k) = Bit(s, 5, 8 * i + k)
    BY <1>3, <2>1, <2>2
  <2> QED
    BY <2>1, <2>3, Zenon
<1> QED
  BY <1>3, <1>4 DEF DecodeString, D, n

(* Numbers of the same bits, in two sequences.                             *)
LEMMA SameElement ==
  ASSUME NEW w \in {5, 8}, NEW s \in Seq(0..(2^w - 1)),
         NEW t \in Seq(0..(2^w - 1)), NEW i \in Nat, i < Len(s), i < Len(t),
         NEW n \in 0..w,
         \A k \in 0..(n - 1) : Bit(s, w, w * i + k) = Bit(t, w, w * i + k)
  PROVE  s[i + 1] \div 2^(w - n) = t[i + 1] \div 2^(w - n)
<1> DEFINE B == 0..(2^w - 1)
           x == s[i + 1]
           y == t[i + 1]
<1>1. /\ x \in Nat /\ x < 2^w
      /\ y \in Nat /\ y < 2^w
      /\ s \in Seq(Nat) /\ t \in Seq(Nat)
  <2>1. \A z \in B : z \in Nat /\ z < 2^w
    BY Powers
  <2>2. s \in Seq(B) /\ t \in Seq(B)
    OBVIOUS
  <2> HIDE DEF B
  <2>3. i + 1 \in 1..Len(s) /\ i + 1 \in 1..Len(t)
    BY <2>2
  <2>4. x \in B /\ y \in B
    BY <2>2, <2>3, ElementOfSeq
  <2>5. B \subseteq Nat
    BY <2>1
  <2>6. s \in Seq(Nat) /\ t \in Seq(Nat)
    BY <2>2, <2>5, SeqMonotonic
  <2> QED
    BY <2>1, <2>4, <2>6
<1>2. \A k \in 0..(n - 1) :
        (x \div 2^(w - 1 - k)) % 2 = (y \div 2^(w - 1 - k)) % 2
  <2>1. SUFFICES ASSUME NEW k \in 0..(n - 1)
                 PROVE  (x \div 2^(w - 1 - k)) % 2 = (y \div 2^(w - 1 - k)) % 2
    OBVIOUS
  <2>2. k \in 0..(w - 1)
    OBVIOUS
  <2>3. Bit(s, w, w * i + k) = (x \div 2^(w - 1 - k)) % 2
    BY <1>1, <2>2, BitOf, Zenon
  <2>4. Bit(t, w, w * i + k) = (y \div 2^(w - 1 - k)) % 2
    BY <1>1, <2>2, BitOf, Zenon
  <2> QED
    BY <2>3, <2>4, Zenon
<1> HIDE DEF x, y
<1>3. x \div 2^(w - n) = y \div 2^(w - n)
  BY <1>1, <1>2, SameBits, Zenon
<1> QED
  BY <1>3, Zenon DEF x, y

(* A code decodes from its encoding.                                       *)
LEMMA RoundTrip ==
  ASSUME NEW c \in Seq(Byte)
  PROVE  DecodeString(EncodeToString(c)) = c
<1> DEFINE P == EncodeToString(c)
           D == DecodeString(P)
           L == Len(c)
<1>1. /\ P \in Seq(Symbol) /\ Len(P) = (8 * L + 4) \div 5 /\ L \in Nat
      /\ \A m \in Nat : m < 8 * L => Bit(P, 5, m) = Bit(c, 8, m)
  BY Encoded, LenProperties
<1> HIDE DEF P
<1>2. DecodedLen(Len(P)) = L
  BY <1>1, Lengths, Zenon
<1>3. /\ D \in Seq(Byte) /\ Len(D) = L
      /\ \A m \in Nat : m < 8 * L => Bit(D, 8, m) = Bit(P, 5, m)
  BY <1>1, <1>2, Decoded
<1> HIDE DEF D
<1>4. ASSUME NEW i \in 1..L PROVE D[i] = c[i]
  <2> DEFINE h == i - 1
  <2>1. h \in Nat /\ h < L /\ h + 1 = i /\ L = Len(c)
    BY <1>1
  <2>2. \A k \in 0..7 : 8 * h + k \in Nat /\ 8 * h + k < 8 * L
    BY <1>1, <2>1
  <2> HIDE DEF h, L
  <2>3. \A k \in 0..(8 - 1) : Bit(D, 8, 8 * h + k) = Bit(c, 8, 8 * h + k)
    <3>1. 8 - 1 = 7
      OBVIOUS
    <3> QED
      BY <1>1, <1>3, <2>2, <3>1, Zenon
  <2>4. Byte = 0..(2^8 - 1) /\ 8 \in {5, 8} /\ 8 \in 0..8
    BY Powers DEF Byte
  <2>5. D[h + 1] \div 2^(8 - 8) = c[h + 1] \div 2^(8 - 8)
    <3>1. D \in Seq(0..(2^8 - 1)) /\ c \in Seq(0..(2^8 - 1))
      BY <1>3, <2>4, Zenon
    <3>2. h < Len(D) /\ h < Len(c)
      BY <1>3, <2>1, Zenon
    <3> QED
      BY <2>1, <2>3, <2>4, <3>1, <3>2, SameElement, Zenon
  <2>6. D[i] \in Byte /\ c[i] \in Byte
    <3>1. i \in 1..Len(D) /\ i \in 1..Len(c)
      BY <1>3 DEF L
    <3> QED
      BY <1>3, <3>1, ElementOfSeq
  <2>7. \A z \in Byte : z \div 2^(8 - 8) = z
    <3>1. 2^(8 - 8) = 1
      <4>1. 8 - 8 = 0
        OBVIOUS
      <4> QED
        BY <4>1, Powers
    <3>2. \A z \in Byte : z \div 1 = z
      BY DEF Byte
    <3> QED
      BY <3>1, <3>2, Zenon
  <2> QED
    BY <2>1, <2>5, <2>6, <2>7, Zenon
<1> QED
  BY <1>3, <1>4, SeqEqual DEF D, P

(* Texts of the length of an encoding that decode to the same agree in     *)
(* all bits that are looked at.                                            *)
LEMMA DecodedTheSame ==
  ASSUME NEW L \in Nat \ {0}, NEW s \in Seq(Symbol), NEW t \in Seq(Symbol),
         Len(s) = (8 * L + 4) \div 5, Len(t) = Len(s),
         DecodeString(s) = DecodeString(t)
  PROVE  /\ Len(s) \in Nat \ {0}
         /\ \A i \in 1..(Len(s) - 1) : s[i] = t[i]
         /\ s[Len(s)] \div 2^(5 * Len(s) - 8 * L)
              = t[Len(s)] \div 2^(5 * Len(s) - 8 * L)
<1> DEFINE n == Len(s)
<1>1. /\ n \in Nat \ {0} /\ 8 * L <= 5 * n /\ 5 * n <= 8 * L + 4
      /\ DecodedLen(n) = L
  <2>1. L \in Nat /\ n = (8 * L + 4) \div 5
    OBVIOUS
  <2>2. /\ n \in Nat /\ 8 * L <= 5 * n /\ 5 * n <= 8 * L + 4
        /\ DecodedLen(n) = L
    BY <2>1, Lengths, Zenon
  <2> HIDE DEF n
  <2> QED
    BY <2>2
<1>2. \A m \in Nat : m < 8 * L => Bit(s, 5, m) = Bit(t, 5, m)
  <2>1. \A m \in Nat : m < 8 * L => Bit(DecodeString(s), 8, m) = Bit(s, 5, m)
    BY <1>1, Decoded, Zenon
  <2>2. \A m \in Nat : m < 8 * L => Bit(DecodeString(t), 8, m) = Bit(t, 5, m)
    BY <1>1, Decoded, Zenon
  <2> QED
    BY <2>1, <2>2, Zenon
<1>3. ASSUME NEW i \in Nat, i < n, NEW q \in 1..5, 5 * i + q <= 8 * L
      PROVE  s[i + 1] \div 2^(5 - q) = t[i + 1] \div 2^(5 - q)
  <2>1. \A k \in 0..(q - 1) : 5 * i + k \in Nat /\ 5 * i + k < 8 * L
    BY <1>3
  <2>2. \A k \in 0..(q - 1) : Bit(s, 5, 5 * i + k) = Bit(t, 5, 5 * i + k)
    BY <1>2, <2>1, Zenon
  <2>3. Symbol = 0..(2^5 - 1) /\ 5 \in {5, 8} /\ q \in 0..5
    BY Powers DEF Symbol
  <2>4. s \in Seq(0..(2^5 - 1)) /\ t \in Seq(0..(2^5 - 1))
    BY <2>3, Zenon
  <2>5. i < Len(s) /\ i < Len(t)
    BY <1>3, Zenon
  <2> QED
    BY <1>3, <2>2, <2>3, <2>4, <2>5, SameElement, Zenon
<1>4. ASSUME NEW i \in 1..(n - 1) PROVE s[i] = t[i]
  <2> DEFINE h == i - 1
  <2>1. h \in Nat /\ h < n /\ h + 1 = i /\ 5 \in 1..5 /\ 5 * h + 5 <= 8 * L
    BY <1>1
  <2> HIDE DEF h
  <2>2. s[h + 1] \div 2^(5 - 5) = t[h + 1] \div 2^(5 - 5)
    BY <1>3, <2>1, Zenon
  <2>3. s[i] \in Symbol /\ t[i] \in Symbol
    <3>1. i \in 1..Len(s) /\ i \in 1..Len(t)
      BY <1>1
    <3> QED
      BY <3>1, ElementOfSeq
  <2>4. \A z \in Symbol : z \div 2^(5 - 5) = z
    <3>1. 2^(5 - 5) = 1
      <4>1. 5 - 5 = 0
        OBVIOUS
      <4> QED
        BY <4>1, Powers
    <3>2. \A z \in Symbol : z \div 1 = z
      BY DEF Symbol
    <3> QED
      BY <3>1, <3>2, Zenon
  <2> QED
    BY <2>1, <2>2, <2>3, <2>4, Zenon
<1>5. s[n] \div 2^(5 * n - 8 * L) = t[n] \div 2^(5 * n - 8 * L)
  <2> DEFINE h == n - 1
             q == 8 * L - 5 * (n - 1)
  <2>1. /\ h \in Nat /\ h < n /\ h + 1 = n /\ q \in 1..5
        /\ 5 * h + q <= 8 * L /\ 5 - q = 5 * n - 8 * L
    <3> HIDE DEF n
    <3> QED
      BY <1>1
  <2> HIDE DEF h, q, n
  <2>2. s[h + 1] \div 2^(5 - q) = t[h + 1] \div 2^(5 - q)
    BY <1>3, <2>1, Zenon
  <2> QED
    BY <2>1, <2>2, Zenon
<1> QED
  BY <1>1, <1>4, <1>5

-----------------------------------------------------------------------------
(* Cleaning a text *)

(* What is left of a character.                                            *)
Kept == Symbol \cup {Digit}

Maps == [ch \in Characters |-> Mapped(ch)]

(* A separator leaves nothing, any other character one that is kept.       *)
LEMMA MapsType ==
  /\ Maps \in [Characters -> Seq(Kept)]
  /\ Mapped(Separator) = <<>>
  /\ \A ch \in Characters \ {Separator} : Len(Mapped(ch)) = 1
  /\ \A ch \in Kept : ch \in Characters /\ Mapped(ch) = <<ch>>
  /\ \A ch \in Letter : /\ ch + LowerCase \in Characters
                        /\ Mapped(ch + LowerCase) = Mapped(ch)
<1>1. ASSUME NEW ch \in Characters, ch # Separator
      PROVE  Mapped(ch) \in Seq(Kept) /\ Len(Mapped(ch)) = 1
  <2> DEFINE k == IF ch >= LowerCase THEN ch - LowerCase ELSE ch
  <2>1. k \in Kept
    BY <1>1 DEF Characters, Separator, Kept, Symbol, Digit, Letter, LowerCase
  <2>2. Mapped(ch) = <<k>>
    BY <1>1 DEF Mapped
  <2> HIDE DEF k
  <2> QED
    BY <2>1, <2>2
<1>2. Mapped(Separator) = <<>> /\ <<>> \in Seq(Kept)
  BY EmptySeq DEF Mapped
<1>3. Maps \in [Characters -> Seq(Kept)]
  <2>1. \A ch \in Characters : Mapped(ch) \in Seq(Kept)
    BY <1>1, <1>2, Zenon
  <2> QED
    BY <2>1 DEF Maps
<1>4. ASSUME NEW ch \in Kept
      PROVE  ch \in Characters /\ Mapped(ch) = <<ch>>
  BY DEF Mapped, Characters, Separator, Kept, Symbol, Digit, LowerCase
<1>5. ASSUME NEW ch \in Letter
      PROVE  /\ ch + LowerCase \in Characters
             /\ Mapped(ch + LowerCase) = Mapped(ch)
  <2>1. ch + LowerCase \in Characters
    <3>1. ch + LowerCase = LowerCase + ch
      BY DEF Letter, LowerCase
    <3> QED
      BY <3>1 DEF Characters
  <2>2. /\ ch + LowerCase # Separator /\ ch + LowerCase >= LowerCase
        /\ (ch + LowerCase) - LowerCase = ch
        /\ ch # Separator /\ ~(ch >= LowerCase)
    BY DEF Separator, Letter, LowerCase
  <2> QED
    BY <2>1, <2>2 DEF Mapped
<1> QED
  BY <1>1, <1>2, <1>3, <1>4, <1>5

(* A text is cleaned part by part.                                         *)
LEMMA CleanedParts ==
  ASSUME NEW s \in Seq(Characters), NEW t \in Seq(Characters)
  PROVE  /\ cleaned(s) \in Seq(Kept)
         /\ cleaned(<<>>) = <<>>
         /\ \A ch \in Characters : cleaned(<<ch>>) = Mapped(ch)
         /\ cleaned(s \o t) = cleaned(s) \o cleaned(t)
<1>1. ASSUME NEW u \in Seq(Characters) PROVE cleaned(u) = Expand(Maps, u)
  <2>1. \A i \in DOMAIN u : u[i] \in Characters
    OBVIOUS
  <2>2. [i \in DOMAIN u |-> Mapped(u[i])] = [i \in DOMAIN u |-> Maps[u[i]]]
    BY <2>1 DEF Maps
  <2> QED
    BY <2>2 DEF cleaned, Expand
<1>2. Maps \in [Characters -> Seq(Kept)]
  BY MapsType
<1>3. cleaned(s) \in Seq(Kept)
  <2>1. Expand(Maps, s) \in Seq(Kept)
    BY <1>2, ExpandType
  <2> QED
    BY <1>1, <2>1
<1>4. cleaned(<<>>) = <<>>
  BY <1>1, ExpandEmpty, EmptySeq
<1>5. ASSUME NEW ch \in Characters PROVE cleaned(<<ch>>) = Mapped(ch)
  <2>1. Expand(Maps, <<ch>>) = Maps[ch]
    BY <1>2, ExpandOne
  <2>2. <<ch>> \in Seq(Characters)
    OBVIOUS
  <2> QED
    BY <1>1, <2>1, <2>2 DEF Maps
<1>6. cleaned(s \o t) = cleaned(s) \o cleaned(t)
  <2>1. s \o t \in Seq(Characters)
    BY ConcatProperties
  <2>2. Expand(Maps, s \o t) = Expand(Maps, s) \o Expand(Maps, t)
    BY <1>2, ExpandConcat
  <2> QED
    BY <1>1, <2>1, <2>2
<1> QED
  BY <1>3, <1>4, <1>5, <1>6

(* An element in the middle of a concatenation.                            *)
LEMMA ElementInside ==
  ASSUME NEW S, NEW p \in Seq(S), NEW d \in Seq(S), NEW q \in Seq(S),
         Len(d) = 1
  PROVE  Contains(p \o d \o q, d[1])
<1> DEFINE v == p \o d
           m == Len(p) + 1
<1>1. /\ v \in Seq(S) /\ Len(v) = Len(p) + Len(d)
      /\ \A j \in 1..(Len(p) + Len(d)) :
           v[j] = IF j <= Len(p) THEN p[j] ELSE d[j - Len(p)]
  BY ConcatProperties
<1>2. Len(p) \in Nat
  OBVIOUS
<1> HIDE DEF v
<1>3. v[m] = d[1]
  <2>1. m \in 1..(Len(p) + Len(d)) /\ ~(m <= Len(p)) /\ m - Len(p) = 1
    BY <1>2
  <2> HIDE DEF m
  <2> QED
    BY <1>1, <2>1
<1>4. /\ v \o q \in Seq(S) /\ Len(v \o q) = Len(v) + Len(q)
      /\ \A j \in 1..(Len(v) + Len(q)) :
           (v \o q)[j] = IF j <= Len(v) THEN v[j] ELSE q[j - Len(v)]
  <2>1. v \in Seq(S)
    BY <1>1
  <2> QED
    BY <2>1, ConcatProperties
<1>5. m \in 1..(Len(v) + Len(q)) /\ m <= Len(v)
  <2>1. Len(q) \in Nat
    OBVIOUS
  <2> QED
    BY <1>1, <1>2, <2>1
<1> HIDE DEF m
<1>6. m \in DOMAIN (v \o q) /\ (v \o q)[m] = v[m]
  <2> DEFINE r == v \o q
  <2>1. r \in Seq(S) /\ m \in 1..Len(r) /\ r[m] = v[m]
    BY <1>4, <1>5
  <2> HIDE DEF r
  <2>2. m \in DOMAIN r
    BY <2>1
  <2> QED
    BY <2>1, <2>2 DEF r
<1>7. Contains(v \o q, d[1])
  <2> DEFINE r == v \o q
  <2>1. m \in 1..Len(r) /\ r[m] = d[1]
    BY <1>3, <1>4, <1>5, <1>6
  <2> HIDE DEF r
  <2>2. Contains(r, d[1])
    BY <2>1 DEF Contains
  <2> QED
    BY <2>2 DEF r
<1> QED
  BY <1>7 DEF v

(* One character more and one less, and what is kept of them.              *)
LEMMA CleanedAround ==
  ASSUME NEW s \in Seq(Characters)
  PROVE  /\ \A i \in 1..(Len(s) + 1), ch \in Characters :
              /\ InsertAt(s, i, ch) \in Seq(Characters)
              /\ Len(cleaned(InsertAt(s, i, ch)))
                   = Len(cleaned(s)) + Len(Mapped(ch))
              /\ Mapped(ch) = <<>> => cleaned(InsertAt(s, i, ch)) = cleaned(s)
         /\ \A i \in 1..Len(s) :
              /\ RemoveAt(s, i) \in Seq(Characters)
              /\ Len(cleaned(s))
                   = Len(cleaned(RemoveAt(s, i))) + Len(Mapped(s[i]))
              /\ s[i] = Digit =>
                   \E j \in DOMAIN cleaned(s) : cleaned(s)[j] = Digit
<1>1. \A ch \in Characters : Mapped(ch) \in Seq(Kept)
  BY MapsType DEF Maps
<1>2. ASSUME NEW a \in Seq(Characters), NEW b \in Seq(Characters),
             NEW ch \in Characters
      PROVE  /\ <<ch>> \in Seq(Characters)
             /\ a \o <<ch>> \o b \in Seq(Characters)
             /\ cleaned(a \o <<ch>> \o b)
                  = cleaned(a) \o Mapped(ch) \o cleaned(b)
  <2>1. <<ch>> \in Seq(Characters) /\ a \o <<ch>> \in Seq(Characters)
        /\ a \o <<ch>> \o b \in Seq(Characters)
    BY ConcatProperties
  <2> DEFINE x == <<ch>>
             y == a \o x
  <2>2. /\ x \in Seq(Characters) /\ y \in Seq(Characters)
        /\ cleaned(x) = Mapped(ch)
    BY <2>1, CleanedParts
  <2>3. cleaned(y) = cleaned(a) \o cleaned(x)
    <3> HIDE DEF x
    <3> QED
      BY <2>2, CleanedParts
  <2>4. cleaned(y \o b) = cleaned(y) \o cleaned(b)
    <3> HIDE DEF x, y
    <3> QED
      BY <2>2, CleanedParts
  <2> QED
    BY <2>1, <2>2, <2>3, <2>4
<1>3. ASSUME NEW i \in 1..(Len(s) + 1), NEW ch \in Characters
      PROVE  /\ InsertAt(s, i, ch) \in Seq(Characters)
             /\ Len(cleaned(InsertAt(s, i, ch)))
                  = Len(cleaned(s)) + Len(Mapped(ch))
             /\ Mapped(ch) = <<>> => cleaned(InsertAt(s, i, ch)) = cleaned(s)
  <2> DEFINE a == SubSeq(s, 1, i - 1)
             b == SubSeq(s, i, Len(s))
             d == Mapped(ch)
  <2>1. a \in Seq(Characters) /\ b \in Seq(Characters) /\ s = a \o b
    BY Around
  <2>2. InsertAt(s, i, ch) = a \o <<ch>> \o b
    BY DEF InsertAt
  <2> HIDE DEF a, b
  <2>3. /\ InsertAt(s, i, ch) \in Seq(Characters)
        /\ cleaned(InsertAt(s, i, ch)) = cleaned(a) \o d \o cleaned(b)
    <3>1. /\ a \o <<ch>> \o b \in Seq(Characters)
          /\ cleaned(a \o <<ch>> \o b) = cleaned(a) \o d \o cleaned(b)
      BY <1>2, <2>1, Zenon
    <3> QED
      BY <2>2, <3>1, Zenon
  <2>4. /\ cleaned(s) = cleaned(a) \o cleaned(b)
        /\ cleaned(a) \in Seq(Kept) /\ cleaned(b) \in Seq(Kept)
        /\ d \in Seq(Kept)
    BY <1>1, <2>1, CleanedParts
  <2> DEFINE p == cleaned(a)
             q == cleaned(b)
  <2>5. Len(p \o d \o q) = Len(p \o q) + Len(d)
    <3> HIDE DEF p, q, d
    <3> QED
      BY <2>4, ConcatProperties DEF p, q, d
  <2>6. d = <<>> => p \o d \o q = p \o q
    BY <2>4, ConcatEmptySeq
  <2> QED
    BY <2>3, <2>4, <2>5, <2>6
<1>4. ASSUME NEW i \in 1..Len(s)
      PROVE  /\ RemoveAt(s, i) \in Seq(Characters)
             /\ Len(cleaned(s))
                  = Len(cleaned(RemoveAt(s, i))) + Len(Mapped(s[i]))
             /\ s[i] = Digit =>
                  \E j \in DOMAIN cleaned(s) : cleaned(s)[j] = Digit
  <2> DEFINE a == SubSeq(s, 1, i - 1)
             b == SubSeq(s, i + 1, Len(s))
             d == Mapped(s[i])
  <2>1. /\ a \in Seq(Characters) /\ b \in Seq(Characters)
        /\ s[i] \in Characters
        /\ s = a \o (<<s[i]>> \o b)
    <3>1. i \in 1..(Len(s) + 1)
      OBVIOUS
    <3> QED
      BY <3>1, Around
  <2>2. RemoveAt(s, i) = a \o b
    BY DEF RemoveAt
  <2> HIDE DEF a, b
  <2>3. s = a \o <<s[i]>> \o b
    <3> DEFINE x == <<s[i]>>
    <3>1. /\ a \in Seq(Characters) /\ x \in Seq(Characters)
          /\ b \in Seq(Characters)
      BY <2>1
    <3> HIDE DEF x
    <3>2. Associates(a, x, b)
      BY <3>1, Associative
    <3> QED
      BY <2>1, <3>2 DEF x, Associates
  <2>4. cleaned(s) = cleaned(a) \o d \o cleaned(b)
    <3>1. cleaned(a \o <<s[i]>> \o b) = cleaned(a) \o d \o cleaned(b)
      BY <1>2, <2>1
    <3> QED
      BY <2>3, <3>1
  <2>5. /\ RemoveAt(s, i) \in Seq(Characters)
        /\ cleaned(RemoveAt(s, i)) = cleaned(a) \o cleaned(b)
        /\ cleaned(a) \in Seq(Kept) /\ cleaned(b) \in Seq(Kept)
        /\ d \in Seq(Kept)
    BY <1>1, <2>1, <2>2, CleanedParts, ConcatProperties
  <2> DEFINE p == cleaned(a)
             q == cleaned(b)
  <2>6. Len(p \o d \o q) = Len(p \o q) + Len(d)
    <3> HIDE DEF p, q, d
    <3> QED
      BY <2>5, ConcatProperties DEF p, q, d
  <2>7. ASSUME s[i] = Digit
        PROVE  \E j \in DOMAIN cleaned(s) : cleaned(s)[j] = Digit
    <3>1. d = <<Digit>>
      <4>1. Digit \in Kept
        BY DEF Kept
      <4> QED
        BY <2>7, <4>1, MapsType
    <3>2. Len(d) = 1 /\ d[1] = Digit
      BY <3>1
    <3> HIDE DEF p, q, d
    <3>3. /\ p \in Seq(Kept) /\ d \in Seq(Kept) /\ q \in Seq(Kept)
          /\ cleaned(s) = p \o d \o q
      BY <2>4, <2>5 DEF p, q
    <3>4. Contains(p \o d \o q, d[1])
      BY <3>2, <3>3, ElementInside
    <3>5. Contains(cleaned(s), Digit)
      BY <3>2, <3>3, <3>4
    <3>6. DOMAIN cleaned(s) = 1..Len(cleaned(s))
      <4>1. cleaned(s) \in Seq(Kept)
        BY CleanedParts
      <4> QED
        BY <4>1
    <3> QED
      BY <3>5, <3>6 DEF Contains
  <2> QED
    BY <2>4, <2>5, <2>6, <2>7
<1> QED
  BY <1>3, <1>4

(* A text is cleaned character by character.                               *)
LEMMA CleanedSame ==
  ASSUME NEW s \in Seq(Characters), NEW t \in Seq(Characters),
         Len(s) = Len(t), \A i \in 1..Len(s) : Mapped(s[i]) = Mapped(t[i])
  PROVE  cleaned(s) = cleaned(t)
<1>1. DOMAIN s = 1..Len(s) /\ DOMAIN t = 1..Len(s)
  OBVIOUS
<1>2. [i \in DOMAIN s |-> Mapped(s[i])] = [i \in DOMAIN t |-> Mapped(t[i])]
  BY <1>1
<1> QED
  BY <1>2 DEF cleaned

(* Grouping adds only separators.                                          *)
LEMMA CleanedGrouped ==
  ASSUME NEW s \in Seq(Symbol), NEW n \in Nat \ {0}
  PROVE  /\ groupString(s, n) \in Seq(Characters)
         /\ cleaned(groupString(s, n)) = s
<1> DEFINE U == Seq(Characters)
           q == [i \in DOMAIN s |->
                   IF i > 1 /\ (i - 1) % n = 0 THEN <<Separator, s[i]>>
                   ELSE <<s[i]>>]
           T == {i \in Nat :
                   i <= Len(s) => cleaned(Flat(q, i)) = SubSeq(s, 1, i)}
<1>0. /\ Len(s) \in Nat /\ DOMAIN s = 1..Len(s)
      /\ \A i \in 1..Len(s) : s[i] \in Symbol
  OBVIOUS
<1>1. \A ch \in Symbol : ch \in Kept /\ ch \in Characters
  BY DEF Kept, Characters
<1>2. Separator \in Characters
  BY DEF Characters
<1>3. ASSUME NEW i \in 1..Len(s)
      PROVE  q[i] \in U /\ cleaned(q[i]) = <<s[i]>>
  <2>1. /\ s[i] \in Kept /\ s[i] \in Characters
        /\ <<s[i]>> \in U /\ <<Separator>> \in U
        /\ <<Separator>> \o <<s[i]>> = <<Separator, s[i]>>
    <3> DEFINE x == s[i]
    <3>1. x \in Kept /\ x \in Characters
      BY <1>0, <1>1
    <3> HIDE DEF x
    <3>2. <<x>> \in U /\ <<Separator>> \in U
      BY <1>2, <3>1
    <3>3. Append(<<Separator>>, x) = <<Separator>> \o <<x>>
      BY <3>1, <3>2, AppendIsConcat
    <3>4. <<Separator, x>> = Append(<<Separator>>, x)
      <4> DEFINE a == <<Separator>>
                 b == <<Separator, x>>
      <4>1. /\ a \in U /\ b \in U /\ Len(b) = Len(a) + 1
            /\ \A j \in 1..Len(a) : b[j] = a[j]
            /\ b[Len(a) + 1] = x
        BY <1>2, <3>1
      <4> HIDE DEF a, b
      <4>2. b = Append(a, x)
        BY <3>1, <4>1, SeqIsAppend
      <4> QED
        BY <4>2 DEF a, b
    <3> QED
      BY <3>1, <3>2, <3>3, <3>4 DEF x
  <2>2. cleaned(<<s[i]>>) = <<s[i]>>
    BY <2>1, CleanedParts, MapsType
  <2>3. cleaned(<<Separator>>) = <<>>
    BY <1>2, <2>1, CleanedParts, MapsType
  <2>4. cleaned(<<Separator>> \o <<s[i]>>) = <<s[i]>>
    <3>1. cleaned(<<Separator>> \o <<s[i]>>)
            = cleaned(<<Separator>>) \o cleaned(<<s[i]>>)
      BY <2>1, CleanedParts
    <3>2. <<>> \o <<s[i]>> = <<s[i]>>
      BY <2>1, ConcatEmptySeq
    <3> QED
      BY <2>2, <2>3, <3>1, <3>2
  <2>5. q[i] = <<Separator>> \o <<s[i]>> \/ q[i] = <<s[i]>>
    BY <1>0, <2>1
  <2>6. <<Separator>> \o <<s[i]>> \in U
    BY <2>1, ConcatProperties
  <2> HIDE DEF q, U
  <2> QED
    BY <2>1, <2>2, <2>4, <2>5, <2>6
<1>4. q \in Seq(U) /\ Len(q) = Len(s)
  <2> HIDE DEF U
  <2>1. q \in [1..Len(s) -> U]
    BY <1>0, <1>3
  <2> HIDE DEF q
  <2> QED
    BY <1>0, <2>1
<1>5. /\ FlattenSeq(q) \in U
      /\ Flat(q, 0) = <<>>
      /\ Flat(q, Len(q)) = FlattenSeq(q)
      /\ \A i \in 0..Len(q) : Flat(q, i) \in U
      /\ \A i \in 0..(Len(q) - 1) : Flat(q, i + 1) = Flat(q, i) \o q[i + 1]
  <2> HIDE DEF q
  <2> QED
    BY <1>4, Pieces
<1> HIDE DEF q
<1>6. 0 \in T
  <2>1. SubSeq(s, 1, 0) = <<>>
    BY SubSeqEmpty
  <2>2. cleaned(<<>>) = <<>>
    BY CleanedParts, EmptySeq
  <2> QED
    BY <1>5, <2>1, <2>2
<1>7. ASSUME NEW i \in T PROVE i + 1 \in T
  <2>1. SUFFICES ASSUME i + 1 <= Len(s)
                 PROVE  cleaned(Flat(q, i + 1)) = SubSeq(s, 1, i + 1)
    OBVIOUS
  <2>2. /\ i \in Nat /\ i \in 0..Len(q) /\ i \in 0..(Len(q) - 1)
        /\ i + 1 \in 1..Len(s) /\ cleaned(Flat(q, i)) = SubSeq(s, 1, i)
    BY <1>0, <1>4, <2>1
  <2> HIDE DEF T
  <2>3. Flat(q, i + 1) = Flat(q, i) \o q[i + 1]
    BY <1>5, <2>2
  <2>4. cleaned(Flat(q, i) \o q[i + 1])
        = cleaned(Flat(q, i)) \o cleaned(q[i + 1])
    <3>1. Flat(q, i) \in Seq(Characters) /\ q[i + 1] \in Seq(Characters)
      BY <1>3, <1>5, <2>2
    <3> QED
      BY <3>1, CleanedParts
  <2>5. SubSeq(s, 1, i + 1) = SubSeq(s, 1, i) \o <<s[i + 1]>>
    <3> DEFINE m == i + 1
    <3>1. m \in 1..Len(s) /\ 1 \in 1..Len(s) /\ m - 1 = i
      BY <1>0, <2>2
    <3>2. m \in 1..Len(s)
      BY <3>1
    <3> HIDE DEF m
    <3>3. SubSeq(s, 1, m) = SubSeq(s, 1, m - 1) \o <<s[m]>>
      BY <3>1, <3>2, SubSeqRecursiveSecond
    <3> QED
      BY <3>1, <3>3 DEF m
  <2>6. cleaned(q[i + 1]) = <<s[i + 1]>>
    BY <1>3, <2>2
  <2> QED
    BY <2>2, <2>3, <2>4, <2>5, <2>6
<1>8. T = Nat
  <2>1. T \in SUBSET Nat /\ \A i \in T : i + 1 \in T
    BY <1>7
  <2> HIDE DEF T
  <2> QED
    BY <1>6, <2>1, Induction
<1>9. cleaned(Flat(q, Len(s))) = SubSeq(s, 1, Len(s))
  <2>1. Len(s) \in T
    BY <1>0, <1>8, Zenon
  <2>2. Len(s) <= Len(s)
    BY <1>0
  <2> QED
    BY <2>1, <2>2
<1>10. SubSeq(s, 1, Len(s)) = s
  BY SubSeqFull
<1> QED
  BY <1>4, <1>5, <1>9, <1>10 DEF groupString, q

(* Without its separators a text is cleaned to the same.                   *)
LEMMA CleanedDropped ==
  ASSUME NEW s \in Seq(Characters)
  PROVE  LET typed == FlattenSeq([i \in DOMAIN s |->
                        IF s[i] = Separator THEN <<>> ELSE <<s[i]>>])
         IN  typed \in Seq(Characters) /\ cleaned(typed) = cleaned(s)
<1> DEFINE C == Characters
           g == [ch \in C |-> IF ch = Separator THEN <<>> ELSE <<ch>>]
           T == {t \in Seq(C) : cleaned(Expand(g, t)) = cleaned(t)}
<1>1. /\ g \in [C -> Seq(C)]
      /\ \A ch \in C : g[ch] = IF ch = Separator THEN <<>> ELSE <<ch>>
  <2> HIDE DEF C
  <2>1. \A ch \in C : (IF ch = Separator THEN <<>> ELSE <<ch>>) \in Seq(C)
    BY EmptySeq
  <2> QED
    BY <2>1
<1>2. FlattenSeq([i \in DOMAIN s |->
                    IF s[i] = Separator THEN <<>> ELSE <<s[i]>>]) = Expand(g, s)
  <2>1. \A i \in DOMAIN s : s[i] \in C
    OBVIOUS
  <2> HIDE DEF C
  <2>2. [i \in DOMAIN s |-> IF s[i] = Separator THEN <<>> ELSE <<s[i]>>]
          = [i \in DOMAIN s |-> g[s[i]]]
    BY <2>1
  <2> HIDE DEF g
  <2> QED
    BY <2>2 DEF Expand
<1> HIDE DEF g
<1>3. <<>> \in T
  BY ExpandEmpty, EmptySeq
<1>4. ASSUME NEW t \in T, NEW e \in C PROVE Append(t, e) \in T
  <2>1. t \in Seq(C) /\ cleaned(Expand(g, t)) = cleaned(t)
    OBVIOUS
  <2>2. /\ Append(t, e) \in Seq(C) /\ Append(t, e) = t \o <<e>>
        /\ <<e>> \in Seq(C)
    BY <2>1, AppendProperties, AppendIsConcat
  <2> DEFINE x == <<e>>
  <2>3. cleaned(t \o x) = cleaned(t) \o cleaned(x)
    BY <2>1, <2>2, CleanedParts
  <2>4. /\ Expand(g, t) \in Seq(C)
        /\ Expand(g, Append(t, e)) = Expand(g, t) \o g[e]
    BY <1>1, <2>1, ExpandType, ExpandAppend
  <2>5. g[e] \in Seq(C)
    BY <1>1
  <2>6. cleaned(Expand(g, t) \o g[e]) = cleaned(Expand(g, t)) \o cleaned(g[e])
    BY <2>4, <2>5, CleanedParts
  <2>7. cleaned(g[e]) = cleaned(x)
    <3>1. cleaned(<<>>) = <<>> /\ cleaned(x) = Mapped(e)
      BY <2>2, CleanedParts
    <3>2. Mapped(Separator) = <<>>
      BY MapsType
    <3> QED
      BY <1>1, <3>1, <3>2
  <2> HIDE DEF x
  <2> QED
    BY <2>1, <2>2, <2>3, <2>4, <2>6, <2>7 DEF x
<1>5. T = Seq(C)
  <2>1. T \in SUBSET Seq(C) /\ \A t \in T, e \in C : Append(t, e) \in T
    BY <1>4
  <2> HIDE DEF T, C
  <2> QED
    BY <1>3, <2>1, SeqInduction
<1>6. Expand(g, s) \in Seq(Characters)
  BY <1>1, ExpandType
<1>7. cleaned(Expand(g, s)) = cleaned(s)
  BY <1>5
<1> QED
  BY <1>2, <1>6, <1>7

-----------------------------------------------------------------------------
(* The inductive invariant *)

Kinds == {"case", "separator", "lost", "double", "wrong", "swap"}

TypeOK ==
  /\ code \in Codes
  /\ text \in Seq(Characters)
  /\ slips \in Seq(Kinds)
  /\ pc \in {"print", "type", "end"}

Printed == EncodeToString(code)

(* What is left of the text when it is cleaned: the printed symbols, while *)
(* no slip did harm, and one less or one more after one that did; and what *)
(* was read is what ParseRecoveryCode makes of the text.                   *)
Copied ==
  /\ pc = "print" => slips = <<>>
  /\ pc # "print" =>
       /\ Harm = <<>> => cleaned(text) = Printed
       /\ Harm = <<"lost">> => Len(cleaned(text)) = Len(Printed) - 1
       /\ Harm = <<"double">> => Len(cleaned(text)) = Len(Printed) + 1
  /\ read = IF pc = "end" THEN ParseRecoveryCode(text) ELSE Refused

IInv == TypeOK /\ Copied

(* What was harmful among the slips sl.                                    *)
Harmful(sl) ==
  FlattenSeq([i \in DOMAIN sl |->
                IF sl[i] \in Harmless THEN <<>> ELSE <<sl[i]>>])

(* One slip more is among them or changes nothing, and the first is alone. *)
LEMMA HarmfulSteps ==
  ASSUME NEW sl \in Seq(Kinds), NEW k \in Kinds
  PROVE  /\ Harmful(<<>>) = <<>>
         /\ Harmful(sl) \in Seq(Kinds)
         /\ k \in Harmless => Harmful(Append(sl, k)) = Harmful(sl)
         /\ k \notin Harmless =>
              /\ Harmful(Append(sl, k)) # <<>>
              /\ \A x : Harmful(Append(sl, k)) = <<x>> =>
                          Harmful(sl) = <<>> /\ k = x
<1> DEFINE K == Kinds
           g == [x \in K |-> IF x \in Harmless THEN <<>> ELSE <<x>>]
<1>1. /\ g \in [K -> Seq(K)]
      /\ \A x \in K : g[x] = IF x \in Harmless THEN <<>> ELSE <<x>>
  <2> HIDE DEF K
  <2>1. \A x \in K : (IF x \in Harmless THEN <<>> ELSE <<x>>) \in Seq(K)
    BY EmptySeq
  <2> QED
    BY <2>1
<1>2. ASSUME NEW t \in Seq(K) PROVE Harmful(t) = Expand(g, t)
  <2>1. \A i \in DOMAIN t : t[i] \in K
    OBVIOUS
  <2> HIDE DEF K
  <2>2. [i \in DOMAIN t |-> IF t[i] \in Harmless THEN <<>> ELSE <<t[i]>>]
          = [i \in DOMAIN t |-> g[t[i]]]
    BY <2>1
  <2> HIDE DEF g
  <2> QED
    BY <2>2 DEF Expand, Harmful
<1>3. sl \in Seq(K) /\ k \in K
  OBVIOUS
<1> HIDE DEF g, K
<1>4. Harmful(<<>>) = <<>>
  BY <1>2, ExpandEmpty, EmptySeq
<1>5. Harmful(sl) \in Seq(K)
  <2>1. Expand(g, sl) \in Seq(K)
    BY <1>1, <1>3, ExpandType
  <2> QED
    BY <1>2, <1>3, <2>1
<1>6. Harmful(Append(sl, k)) = Harmful(sl) \o g[k]
  <2>1. Append(sl, k) \in Seq(K)
    BY <1>3, AppendProperties
  <2>2. Expand(g, Append(sl, k)) = Expand(g, sl) \o g[k]
    BY <1>1, <1>3, ExpandAppend
  <2> QED
    BY <1>2, <1>3, <2>1, <2>2
<1> DEFINE h == Harmful(sl)
<1>7. k \in Harmless => h \o g[k] = h
  BY <1>1, <1>3, <1>5, ConcatEmptySeq
<1>8. ASSUME k \notin Harmless
      PROVE  /\ h \o g[k] # <<>>
             /\ \A x : h \o g[k] = <<x>> => h = <<>> /\ k = x
  <2>1. h \in Seq(K) /\ h \o g[k] = Append(h, k)
    BY <1>1, <1>3, <1>5, <1>8, AppendIsConcat
  <2> HIDE DEF h
  <2>2. /\ Append(h, k) # <<>> /\ Len(Append(h, k)) = Len(h) + 1
        /\ Append(h, k)[Len(h) + 1] = k
    BY <1>3, <2>1, AppendProperties
  <2>3. ASSUME NEW x, Append(h, k) = <<x>> PROVE h = <<>> /\ k = x
    <3>1. Len(<<x>>) = 1 /\ <<x>>[1] = x
      OBVIOUS
    <3>2. Len(h) \in Nat
      BY <2>1
    <3>3. Len(h) = 0
      BY <2>2, <2>3, <3>1, <3>2
    <3>4. h = <<>>
      BY <2>1, <3>3, EmptySeq
    <3> QED
      BY <2>2, <2>3, <3>1, <3>3, <3>4
  <2> QED
    BY <2>1, <2>2, <2>3
<1> QED
  BY <1>4, <1>5, <1>6, <1>7, <1>8 DEF K, h

(* A slip that does no harm leaves what is read.                           *)
LEMMA HarmlessSlip ==
  ASSUME TypeOK, Copied, NEW kind \in Harmless, NEW typed \in Seq(Characters),
         cleaned(typed) = cleaned(text), Slip(kind, typed)
  PROVE  TypeOK' /\ Copied'
<1>1. kind \in Kinds
  BY DEF Harmless, Kinds
<1>2. /\ slips \in Seq(Kinds) /\ pc = "type" /\ pc' = pc /\ code' = code
      /\ text' = typed /\ slips' = Append(slips, kind) /\ read' = read
  BY DEF TypeOK, Slip
<1>3. Harm' = Harm
  <2>1. Harmful(Append(slips, kind)) = Harmful(slips)
    BY <1>1, <1>2, HarmfulSteps
  <2>2. Harm = Harmful(slips) /\ Harm' = Harmful(slips')
    BY DEF Harm, Harmful
  <2> QED
    BY <1>2, <2>1, <2>2, Zenon
<1>4. TypeOK'
  <2>1. slips' \in Seq(Kinds)
    BY <1>1, <1>2, AppendProperties
  <2> QED
    BY <1>2, <2>1 DEF TypeOK
<1>5. cleaned(text)' = cleaned(text) /\ Printed' = Printed
  BY <1>2 DEF Printed
<1>6. Copied'
  BY <1>2, <1>3, <1>5 DEF Copied
<1> QED
  BY <1>4, <1>6

(* A harmful one is the first, or the text is not promised anything.       *)
LEMMA HarmfulSlip ==
  ASSUME TypeOK, Copied, NEW kind \in Kinds \ Harmless,
         NEW typed \in Seq(Characters), Slip(kind, typed),
         kind = "lost" => Len(cleaned(typed)) = Len(cleaned(text)) - 1,
         kind = "double" => Len(cleaned(typed)) = Len(cleaned(text)) + 1
  PROVE  TypeOK' /\ Copied'
<1>1. /\ slips \in Seq(Kinds) /\ pc = "type" /\ pc' = pc /\ code' = code
      /\ text' = typed /\ slips' = Append(slips, kind) /\ read' = read
  BY DEF TypeOK, Slip
<1>2. Harm' # <<>> /\ \A x : Harm' = <<x>> => Harm = <<>> /\ kind = x
  <2>1. /\ Harmful(Append(slips, kind)) # <<>>
        /\ \A x : Harmful(Append(slips, kind)) = <<x>> =>
                    Harmful(slips) = <<>> /\ kind = x
    BY <1>1, HarmfulSteps
  <2>2. Harm = Harmful(slips) /\ Harm' = Harmful(slips')
    BY DEF Harm, Harmful
  <2> QED
    BY <1>1, <2>1, <2>2, Zenon
<1>3. TypeOK'
  <2>1. slips' \in Seq(Kinds)
    BY <1>1, AppendProperties
  <2> QED
    BY <1>1, <2>1 DEF TypeOK
<1>4. cleaned(text)' = cleaned(typed) /\ Printed' = Printed
  BY <1>1 DEF Printed
<1>5. Harm = <<>> => cleaned(text) = Printed
  BY <1>1 DEF Copied
<1>6. Copied'
  BY <1>1, <1>2, <1>4, <1>5 DEF Copied
<1> QED
  BY <1>3, <1>6

(* A code, as bytes, and as it is printed.                                 *)
LEMMA PrintedCode ==
  ASSUME code \in Codes
  PROVE  /\ code \in Seq(Byte) /\ Len(code) = RecoveryCodeLen
         /\ Printed \in Seq(Symbol)
         /\ Len(Printed) = (8 * RecoveryCodeLen + 4) \div 5
         /\ DecodeString(Printed) = code
<1>1. RecoveryCodeLen \in Nat
  BY RecoveryAssumption
<1>2. code \in Seq(Byte) /\ Len(code) = RecoveryCodeLen
  <2>1. code \in [1..RecoveryCodeLen -> Byte]
    BY CodesAssumption DEF Byte
  <2> QED
    BY <1>1, <2>1
<1>3. /\ Printed \in Seq(Symbol)
      /\ Len(Printed) = (8 * Len(code) + 4) \div 5
  BY <1>2, Encoded DEF Printed
<1>4. DecodeString(Printed) = code
  BY <1>2, RoundTrip DEF Printed
<1> QED
  BY <1>2, <1>3, <1>4

(* Every slip, and printing, keep the invariant.                           *)
LEMMA Invariance == IInv /\ [Next]_vars => IInv'
<1> SUFFICES ASSUME IInv, [Next]_vars PROVE IInv'
  OBVIOUS
<1> USE DEF IInv
<1>0. TypeOK /\ Copied
  OBVIOUS
<1>1. /\ \A ch \in Letter : ch \in Kept
      /\ \A ch \in Kept : ch \in Characters
      /\ Separator \in Characters
      /\ Wrong \subseteq Kept
  BY CodesAssumption, MapsType
     DEF Letter, Kept, Symbol, Characters
<1>2. /\ text \in Seq(Characters)
      /\ Len(text) \in Nat /\ DOMAIN text = 1..Len(text)
      /\ \A i \in 1..Len(text) : text[i] \in Characters
  <2>1. text \in Seq(Characters)
    BY DEF TypeOK
  <2> DEFINE C == Characters
  <2> HIDE DEF C
  <2>2. text \in Seq(C)
    BY <2>1 DEF C
  <2>3. Len(text) \in Nat /\ DOMAIN text = 1..Len(text)
        /\ \A i \in 1..Len(text) : text[i] \in C
    BY <2>2
  <2> QED
    BY <2>1, <2>3 DEF C
<1>3. "case" \in Harmless /\ "separator" \in Harmless
      /\ {"lost", "double", "wrong", "swap"} \subseteq Kinds \ Harmless
  BY DEF Harmless, Kinds
<1>4. CASE Show
  <2>1. /\ code \in Codes /\ slips = <<>> /\ read = Refused
        /\ text' = groupString(EncodeToString(code), 4)
        /\ pc' = "type" /\ code' = code /\ slips' = slips /\ read' = read
    BY <1>4 DEF Show, TypeOK, Copied, FormatRecoveryCode
  <2>2. text' \in Seq(Characters) /\ cleaned(text') = Printed
    BY <2>1, PrintedCode, CleanedGrouped DEF Printed
  <2>3. Harm' = <<>>
    <3>1. Harmful(<<>>) = <<>>
      <4>1. "case" \in Kinds /\ <<>> \in Seq(Kinds)
        BY EmptySeq DEF Kinds
      <4> QED
        BY <4>1, HarmfulSteps
    <3> QED
      BY <2>1, <3>1 DEF Harm, Harmful
  <2>4. TypeOK'
    BY <1>0, <2>1, <2>2 DEF TypeOK
  <2>5. cleaned(text)' = Printed'
    BY <2>1, <2>2 DEF Printed
  <2>6. Harm' # <<"lost">> /\ Harm' # <<"double">>
    BY <2>3
  <2>7. Copied'
    BY <2>1, <2>3, <2>5, <2>6 DEF Copied
  <2> QED
    BY <2>4, <2>7
<1>5. CASE LowerOne
  <2>1. PICK i \in DOMAIN text :
          /\ text[i] \in Letter
          /\ Slip("case", [text EXCEPT ![i] = @ + LowerCase])
    BY <1>5 DEF LowerOne
  <2> DEFINE e == text[i] + LowerCase
             t == [text EXCEPT ![i] = e]
  <2>2. e \in Characters /\ Mapped(e) = Mapped(text[i])
    BY <2>1, MapsType
  <2> HIDE DEF e
  <2>3. /\ t \in Seq(Characters) /\ Len(t) = Len(text)
        /\ \A j \in 1..Len(text) : t[j] = IF j = i THEN e ELSE text[j]
    BY <1>2, <2>1, <2>2, ExceptSeq
  <2> HIDE DEF t
  <2>4. cleaned(t) = cleaned(text)
    <3>1. \A j \in 1..Len(t) : Mapped(t[j]) = Mapped(text[j])
      BY <2>2, <2>3, Zenon
    <3> QED
      BY <1>2, <2>3, <3>1, CleanedSame
  <2>5. Slip("case", t)
    BY <2>1 DEF t, e
  <2> QED
    BY <1>0, <1>3, <2>3, <2>4, <2>5, HarmlessSlip
<1>6. CASE LowerAll
  <2> DEFINE t == [i \in DOMAIN text |->
                     IF text[i] \in Letter THEN text[i] + LowerCase ELSE text[i]]
  <2>1. ASSUME NEW i \in 1..Len(text)
        PROVE  /\ t[i] \in Characters
               /\ Mapped(t[i]) = Mapped(text[i])
    <3>1. t[i] = IF text[i] \in Letter THEN text[i] + LowerCase ELSE text[i]
      BY <1>2
    <3> HIDE DEF t
    <3> QED
      BY <1>2, <3>1, MapsType
  <2>2. t \in Seq(Characters) /\ Len(t) = Len(text)
    <3> DEFINE C == Characters
    <3>1. \A i \in 1..Len(text) : t[i] \in C
      BY <2>1
    <3>2. DOMAIN t = 1..Len(text) /\ t = [i \in 1..Len(text) |-> t[i]]
      BY <1>2
    <3> HIDE DEF C, t
    <3>3. t \in [1..Len(text) -> C]
      BY <3>1, <3>2
    <3>4. t \in Seq(C) /\ Len(t) = Len(text)
      BY <1>2, <3>3
    <3> QED
      BY <3>4 DEF C
  <2> HIDE DEF t
  <2>3. cleaned(t) = cleaned(text)
    BY <1>2, <2>1, <2>2, CleanedSame
  <2>4. Slip("case", t)
    BY <1>6 DEF LowerAll, t
  <2> QED
    BY <1>0, <1>3, <2>2, <2>3, <2>4, HarmlessSlip
<1>7. CASE DropSeparators
  <2> DEFINE t == FlattenSeq([i \in DOMAIN text |->
                    IF text[i] = Separator THEN <<>> ELSE <<text[i]>>])
  <2>1. t \in Seq(Characters) /\ cleaned(t) = cleaned(text)
    BY <1>2, CleanedDropped
  <2>2. Slip("separator", t)
    BY <1>7 DEF DropSeparators
  <2> HIDE DEF t
  <2> QED
    BY <1>0, <1>3, <2>1, <2>2, HarmlessSlip
<1>8. CASE AddSeparator
  <2>1. PICK i \in 1..(Len(text) + 1) :
          Slip("separator", InsertAt(text, i, Separator))
    BY <1>8 DEF AddSeparator
  <2>2. /\ InsertAt(text, i, Separator) \in Seq(Characters)
        /\ cleaned(InsertAt(text, i, Separator)) = cleaned(text)
    BY <1>1, <1>2, CleanedAround, MapsType
  <2> QED
    BY <1>0, <1>3, <2>1, <2>2, HarmlessSlip
<1>9. CASE DropOne
  <2>1. PICK i \in DOMAIN text :
          text[i] # Separator /\ Slip("lost", RemoveAt(text, i))
    BY <1>9 DEF DropOne
  <2> DEFINE t == RemoveAt(text, i)
  <2>2. /\ t \in Seq(Characters)
        /\ Len(cleaned(text)) = Len(cleaned(t)) + Len(Mapped(text[i]))
    BY <1>2, CleanedAround
  <2>3. Len(Mapped(text[i])) = 1
    BY <1>2, <2>1, MapsType
  <2> HIDE DEF t
  <2>4. Len(cleaned(t)) \in Nat
    BY <2>2, CleanedParts, LenProperties
  <2>5. Len(cleaned(t)) = Len(cleaned(text)) - 1
    <3> DEFINE after == Len(cleaned(t))
               before == Len(cleaned(text))
               one == Len(Mapped(text[i]))
    <3>1. after \in Nat /\ before = after + one /\ one = 1
      BY <2>2, <2>3, <2>4
    <3> HIDE DEF after, before, one
    <3>2. after = before - 1
      BY <3>1
    <3> QED
      BY <3>2 DEF after, before
  <2> QED
    BY <1>0, <1>3, <2>1, <2>2, <2>5, HarmfulSlip DEF t
<1>10. CASE DoubleOne
  <2>1. PICK i \in DOMAIN text :
          text[i] # Separator /\ Slip("double", InsertAt(text, i, text[i]))
    BY <1>10 DEF DoubleOne
  <2> DEFINE t == InsertAt(text, i, text[i])
  <2>2. /\ t \in Seq(Characters)
        /\ Len(cleaned(t)) = Len(cleaned(text)) + Len(Mapped(text[i]))
    <3>1. i \in 1..(Len(text) + 1)
      BY <1>2
    <3> QED
      BY <1>2, <3>1, CleanedAround
  <2>3. Len(Mapped(text[i])) = 1
    BY <1>2, <2>1, MapsType
  <2> HIDE DEF t
  <2>4. Len(cleaned(t)) = Len(cleaned(text)) + 1
    BY <2>2, <2>3
  <2> QED
    BY <1>0, <1>3, <2>1, <2>2, <2>4, HarmfulSlip DEF t
<1>11. CASE Mistype
  <2>1. PICK i \in DOMAIN text, ch \in Wrong :
          Slip("wrong", [text EXCEPT ![i] = ch])
    BY <1>11 DEF Mistype
  <2>2. [text EXCEPT ![i] = ch] \in Seq(Characters)
    BY <1>1, <1>2, ExceptSeq
  <2> QED
    BY <1>0, <1>3, <2>1, <2>2, HarmfulSlip
<1>12. CASE SwapTwo
  <2>1. PICK i \in 1..(Len(text) - 1) :
          Slip("swap", [text EXCEPT ![i] = text[i + 1], ![i + 1] = text[i]])
    BY <1>12 DEF SwapTwo
  <2> DEFINE t == [text EXCEPT ![i] = text[i + 1]]
             u == [t EXCEPT ![i + 1] = text[i]]
  <2>2. i \in 1..Len(text) /\ i + 1 \in 1..Len(text)
    BY <1>2
  <2>3. t \in Seq(Characters) /\ Len(t) = Len(text)
    BY <1>2, <2>2, ExceptSeq
  <2>4. Slip("swap", u)
    BY <2>1
  <2> HIDE DEF t
  <2>5. u \in Seq(Characters)
    <3>1. i + 1 \in 1..Len(t)
      BY <2>2, <2>3
    <3> QED
      BY <1>2, <2>2, <2>3, <3>1, ExceptSeq
  <2> HIDE DEF u
  <2> QED
    BY <1>0, <1>3, <2>4, <2>5, HarmfulSlip
<1>13. CASE Enter
  <2>1. /\ read' = ParseRecoveryCode(text) /\ pc = "type" /\ pc' = "end"
        /\ code' = code /\ text' = text /\ slips' = slips
    BY <1>13 DEF Enter
  <2>2. Harm' = Harm /\ cleaned(text)' = cleaned(text) /\ Printed' = Printed
        /\ ParseRecoveryCode(text)' = ParseRecoveryCode(text)
    BY <2>1 DEF Harm, Printed
  <2>3. TypeOK'
    BY <1>0, <2>1 DEF TypeOK
  <2>4. Copied'
    BY <1>0, <2>1, <2>2 DEF Copied
  <2> QED
    BY <2>3, <2>4
<1>14. CASE UNCHANGED vars
  <2>1. /\ code' = code /\ text' = text /\ slips' = slips /\ read' = read
        /\ pc' = pc
    BY <1>14 DEF vars
  <2>2. Harm' = Harm /\ cleaned(text)' = cleaned(text) /\ Printed' = Printed
        /\ ParseRecoveryCode(text)' = ParseRecoveryCode(text)
    BY <2>1 DEF Harm, Printed
  <2> QED
    BY <1>0, <2>1, <2>2 DEF TypeOK, Copied
<1>15. CASE End
  BY <1>14, <1>15 DEF End
<1> QED
  BY <1>4, <1>5, <1>6, <1>7, <1>8, <1>9, <1>10, <1>11, <1>12, <1>13, <1>14,
     <1>15 DEF Next

(* The invariant holds from the beginning on.                              *)
THEOREM Invariant == Spec => []IInv
<1>1. Init => IInv
  <2> SUFFICES ASSUME Init PROVE TypeOK /\ Copied
    BY DEF IInv
  <2> QED
    BY EmptySeq DEF Init, TypeOK, Copied
<1>2. IInv /\ [Next]_vars => IInv'
  BY Invariance
<1> QED
  BY <1>1, <1>2, PTL DEF Spec

-----------------------------------------------------------------------------
(* What is read *)

(* What ParseRecoveryCode makes of what was typed.                         *)
LEMMA Read ==
  ASSUME IInv, pc = "end"
  PROVE  /\ cleaned(text) \in Seq(Kept)
         /\ read = code =>
              /\ cleaned(text) \in Seq(Symbol)
              /\ DecodeString(cleaned(text)) = code
         /\ cleaned(text) = Printed => read = code
         /\ Len(cleaned(text)) # Len(Printed) => read = Refused
         /\ (\E i \in DOMAIN cleaned(text) : cleaned(text)[i] = Digit) =>
              read = Refused
<1> DEFINE typed == cleaned(text)
           D == DecodeString(typed)
           L == RecoveryCodeLen
<1>1. /\ code \in Codes /\ text \in Seq(Characters)
      /\ read = ParseRecoveryCode(text)
  BY DEF IInv, TypeOK, Copied
<1>2. /\ code \in Seq(Byte) /\ Len(code) = L
      /\ Printed \in Seq(Symbol) /\ Len(Printed) = (8 * L + 4) \div 5
      /\ DecodeString(Printed) = code
  BY <1>1, PrintedCode
<1>3. L \in Nat \ {0} /\ L % 5 # 0
  BY RecoveryAssumption, LengthAssumption
<1>4. typed \in Seq(Kept)
  BY <1>1, CleanedParts
<1>5. read = IF \E i \in DOMAIN typed : typed[i] \notin Symbol THEN Refused
             ELSE IF ~(Len(D) = L) THEN Refused ELSE SubSeq(D, 1, L)
  BY <1>1 DEF ParseRecoveryCode, lengthValid
<1> HIDE DEF typed, D, L
<1>6. code # Refused
  <2>1. Len(<<>>) = 0 /\ Len(code) # 0
    BY <1>2, <1>3
  <2> QED
    BY <2>1 DEF Refused
<1>7. ASSUME \A i \in DOMAIN typed : typed[i] \in Symbol
      PROVE  /\ typed \in Seq(Symbol) /\ D \in Seq(Byte)
             /\ Len(D) = DecodedLen(Len(typed)) /\ Len(typed) \in Nat
  <2>1. Len(typed) \in Nat /\ DOMAIN typed = 1..Len(typed)
        /\ typed = [i \in 1..Len(typed) |-> typed[i]]
    BY <1>4
  <2>2. typed \in Seq(Symbol)
    <3>1. typed \in [1..Len(typed) -> Symbol]
      BY <1>7, <2>1
    <3> QED
      BY <2>1, <3>1
  <2> QED
    BY <2>1, <2>2, Decoded DEF D
<1>8. \A s \in Seq(Byte) : Len(s) = L => SubSeq(s, 1, L) = s
  BY SubSeqFull
<1>9. ASSUME read # Refused
      PROVE  /\ typed \in Seq(Symbol) /\ D = read
             /\ Len(typed) = Len(Printed)
  <2>1. /\ \A i \in DOMAIN typed : typed[i] \in Symbol
        /\ Len(D) = L /\ read = SubSeq(D, 1, L)
    BY <1>5, <1>9
  <2>2. typed \in Seq(Symbol) /\ D \in Seq(Byte)
        /\ DecodedLen(Len(typed)) = L /\ Len(typed) \in Nat
    BY <1>7, <2>1
  <2>3. Len(typed) = (8 * L + 4) \div 5
    <3>1. L \in Nat
      BY <1>3
    <3> QED
      BY <1>3, <2>2, <3>1, Lengths, Zenon
  <2> QED
    BY <1>2, <1>8, <2>1, <2>2, <2>3
<1>10. ASSUME typed = Printed PROVE read = code
  <2>1. D = code /\ Len(D) = L
    BY <1>2, <1>10 DEF D
  <2>2. \A i \in DOMAIN typed : typed[i] \in Symbol
    <3> DEFINE S == Symbol
    <3>1. typed \in Seq(S)
      BY <1>2, <1>10
    <3> HIDE DEF S
    <3>2. \A i \in DOMAIN typed : typed[i] \in S
      BY <3>1
    <3> QED
      BY <3>2 DEF S
  <2>3. SubSeq(code, 1, L) = code
    BY <1>2, <1>8
  <2> QED
    BY <1>5, <2>1, <2>2, <2>3
<1>11. ASSUME \E i \in DOMAIN typed : typed[i] = Digit PROVE read = Refused
  <2>1. Digit \notin Symbol
    BY DEF Digit, Symbol
  <2> QED
    BY <1>5, <1>11, <2>1
<1> QED
  BY <1>4, <1>6, <1>9, <1>10, <1>11 DEF typed, D

(* A code typed as it was printed, up to case and separators, is read as   *)
(* the code (ParseRecoveryCode).                                           *)
THEOREM PrintedIsRead == Spec => []EnteredAsPrinted
<1>1. IInv => EnteredAsPrinted
  <2> SUFFICES ASSUME IInv, pc = "end", Harm = <<>> PROVE read = code
    BY DEF EnteredAsPrinted
  <2>1. cleaned(text) = Printed
    BY DEF IInv, Copied
  <2> QED
    BY <2>1, Read
<1> QED
  BY <1>1, Invariant, PTL

(* A lost, a doubled and a foreign symbol are noticed: by the length, which *)
(* no other number of symbols decodes to, and by the alphabet.             *)
THEOREM LossIsNoticed == Spec => []LostSymbolIsRefused
<1>1. IInv => LostSymbolIsRefused
  <2> SUFFICES ASSUME IInv, pc = "end"
               PROVE  /\ Harm \in {<<"lost">>, <<"double">>} => read = Refused
                      /\ (\E i \in DOMAIN text : text[i] = Digit) =>
                           read = Refused
    BY DEF LostSymbolIsRefused
  <2>1. ASSUME Harm \in {<<"lost">>, <<"double">>} PROVE read = Refused
    <3>1. \/ Len(cleaned(text)) = Len(Printed) - 1
          \/ Len(cleaned(text)) = Len(Printed) + 1
      BY <2>1 DEF IInv, Copied
    <3>2. Len(Printed) \in Nat
      <4>1. Printed \in Seq(Symbol)
        BY PrintedCode DEF IInv, TypeOK
      <4> QED
        BY <4>1, LenProperties
    <3>3. Len(cleaned(text)) # Len(Printed)
      BY <3>1, <3>2
    <3> QED
      BY <3>3, Read
  <2>2. ASSUME NEW i \in DOMAIN text, text[i] = Digit PROVE read = Refused
    <3>1. text \in Seq(Characters) /\ DOMAIN text = 1..Len(text)
      BY LenProperties DEF IInv, TypeOK
    <3>2. \E j \in DOMAIN cleaned(text) : cleaned(text)[j] = Digit
      BY <2>2, <3>1, CleanedAround
    <3> QED
      BY <3>2, Read
  <2> QED
    BY <2>1, <2>2
<1> QED
  BY <1>1, Invariant, PTL

(* Whatever is read as the code agrees with it in all bits that carry it   *)
(* (DecodeString drops the rest).                                          *)
THEOREM OnlyItselfIsRead == Spec => []ReadAsItselfOnly
<1>1. IInv => ReadAsItselfOnly
  <2> SUFFICES ASSUME IInv, pc = "end", read = code PROVE ReadAsItselfOnly
    BY DEF ReadAsItselfOnly
  <2> DEFINE typed == cleaned(text)
             L == RecoveryCodeLen
             n == Len(Printed)
  <2>1. /\ typed \in Seq(Symbol) /\ DecodeString(typed) = code
        /\ Printed \in Seq(Symbol) /\ DecodeString(Printed) = code
        /\ n = (8 * L + 4) \div 5 /\ L \in Nat \ {0}
    <3>1. code \in Codes
      BY DEF IInv, TypeOK
    <3>2. L \in Nat \ {0}
      BY RecoveryAssumption
    <3> QED
      BY <3>1, <3>2, Read, PrintedCode
  <2>2. Len(typed) = n
    <3>1. code # Refused
      <4>1. Len(code) # 0 /\ Len(<<>>) = 0
        BY PrintedCode, RecoveryAssumption DEF IInv, TypeOK
      <4> QED
        BY <4>1 DEF Refused
    <3> QED
      BY <3>1, Read
  <2> HIDE DEF typed, L
  <2>3. /\ Len(typed) \in Nat \ {0}
        /\ \A i \in 1..(Len(typed) - 1) : typed[i] = Printed[i]
        /\ typed[Len(typed)] \div 2^(5 * Len(typed) - 8 * L)
             = Printed[Len(typed)] \div 2^(5 * Len(typed) - 8 * L)
    <3>1. /\ Len(typed) = (8 * L + 4) \div 5 /\ Len(Printed) = Len(typed)
          /\ DecodeString(typed) = DecodeString(Printed)
      BY <2>1, <2>2
    <3> QED
      BY <2>1, <3>1, DecodedTheSame, Zenon
  <2> QED
    BY <2>2, <2>3, Zenon DEF ReadAsItselfOnly, Printed, typed, L
<1> QED
  BY <1>1, Invariant, PTL
===============================================================================
