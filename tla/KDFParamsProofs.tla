---------------------------- MODULE KDFParamsProofs ----------------------------
(***************************************************************************)
(* Theorems about KDFParams, for bytes, words and bounds of any size that  *)
(* KDFAssumption and WidthAssumption allow, those of kdf.go among them.    *)
(*                                                                         *)
(* First the bytes: u32Bytes and Uint32 are inverses of each other, by the *)
(* arithmetic of DataLemmas, and with them MarshalParams and Decoded.  Then*)
(* the bounds: the 64-bit products of parseKDF are exact.  Last the        *)
(* specification.                                                          *)
(***************************************************************************)
EXTENDS KDFParams, DataLemmas

-----------------------------------------------------------------------------
(* Bytes *)

(* The powers of the byte size that occur are positive.                    *)
LEMMA BaseType ==
  /\ Base \in Nat \ {0, 1}
  /\ Base * Base \in Nat
  /\ Base * Base * Base \in Nat \ {0}
<1>1. Base \in Nat \ {0, 1}
  BY KDFAssumption
<1>2. Base * Base \in Nat /\ Base * Base >= 1
  BY <1>1, ProductOrder, Products
<1>3. Base * Base * Base \in Nat /\ Base * Base * Base >= 1
  BY <1>1, <1>2, ProductOrder, Products
<1> QED
  BY <1>1, <1>2, <1>3

(* binary.BigEndian.PutUint32 makes four bytes of any word.                *)
LEMMA u32BytesType ==
  ASSUME NEW n \in Word
  PROVE  /\ u32Bytes(n) \in Seq(Byte)
         /\ Len(u32Bytes(n)) = 4
<1> DEFINE cube == Base * Base * Base
<1>1. /\ Base \in Nat \ {0}
      /\ Base * Base \in Nat \ {0}
      /\ cube \in Nat \ {0}
  BY BaseType, Products
<1>2. n \in Nat /\ n < Base * cube
  <2>1. Base * Base * Base * Base = Base * cube
    BY <1>1
  <2> QED
    BY <2>1, <1>1, Products DEF Word
<1> HIDE DEF cube
<1>3. n \div cube \in Byte
  <2>1. n \div cube < Base
    BY <1>1, <1>2, QuotientBound
  <2>2. n \div cube \in Nat
    BY <1>1, <1>2, Division
  <2> QED
    BY <2>1, <2>2, <1>1 DEF Byte
<1>4. /\ (n \div (Base * Base)) % Base \in Byte
      /\ (n \div Base) % Base \in Byte
      /\ n % Base \in Byte
  BY <1>1, <1>2, Division DEF Byte
<1> QED
  BY <1>3, <1>4 DEF u32Bytes, cube

(* One step of Uint32: appending a byte stays below the next power.        *)
LEMMA Horner ==
  ASSUME NEW c \in Nat, NEW a \in 0..(c - 1), NEW b \in Byte
  PROVE  a * Base + b \in 0..(c * Base - 1)
<1>1. /\ Base \in Nat
      /\ (a + 1) * Base <= c * Base
      /\ (a + 1) * Base = a * Base + Base
  BY BaseType, ProductOrder
<1>2. a * Base \in Nat /\ c * Base \in Nat
  BY BaseType, Products
<1> QED
  BY <1>1, <1>2 DEF Byte

(* binary.BigEndian.Uint32 makes a word of any four bytes.                 *)
LEMMA Uint32Type ==
  ASSUME NEW b \in Seq(Byte), NEW i \in Nat \ {0}, i + 3 <= Len(b)
  PROVE  Uint32(b, i) \in Word
<1>1. /\ b[i] \in Byte /\ b[i + 1] \in Byte
      /\ b[i + 2] \in Byte /\ b[i + 3] \in Byte
  OBVIOUS
<1>2. b[i] * Base + b[i + 1] \in 0..(Base * Base - 1)
  BY <1>1, Horner, BaseType DEF Byte
<1>3. (b[i] * Base + b[i + 1]) * Base + b[i + 2] \in 0..(Base * Base * Base - 1)
  BY <1>1, <1>2, Horner, BaseType
<1>4. Uint32(b, i) \in 0..(Base * Base * Base * Base - 1)
  BY <1>1, <1>3, Horner, BaseType DEF Uint32
<1> QED
  BY <1>4 DEF Word

(* Dividing undoes one step of Uint32.                                     *)
LEMMA HornerInverse ==
  ASSUME NEW a \in Nat, NEW b \in Byte
  PROVE  /\ a * Base + b \in Nat
         /\ (a * Base + b) \div Base = a
         /\ (a * Base + b) % Base = b
<1>1. Base \in Nat \ {0} /\ b \in 0..(Base - 1)
  BY BaseType DEF Byte
<1>2. a * Base = Base * a /\ a * Base \in Nat
  BY <1>1, Products
<1> QED
  BY <1>1, <1>2, QuotientIs

(* One step of Uint32 undoes a division.                                   *)
LEMMA HornerDivision ==
  ASSUME NEW n \in Nat
  PROVE  /\ n \div Base \in Nat
         /\ (n \div Base) * Base + (n % Base) = n
<1>1. Base \in Nat \ {0}
  BY BaseType
<1>2. /\ n \div Base \in Nat
      /\ n = Base * (n \div Base) + (n % Base)
  BY <1>1, Division
<1>3. Base * (n \div Base) = (n \div Base) * Base
  BY <1>1, <1>2
<1> QED
  BY <1>2, <1>3

(* Uint32 reads the word that u32Bytes wrote.                              *)
LEMMA ReadBack ==
  ASSUME NEW n \in Word
  PROVE  Uint32(u32Bytes(n), 1) = n
<1> DEFINE n1 == n \div Base
           n2 == n1 \div Base
           n3 == n2 \div Base
<1>1. Base \in Nat \ {0} /\ Base * Base \in Nat \ {0}
  BY BaseType, Products
<1>2. n \in Nat
  BY DEF Word
<1>3. n1 \in Nat /\ n1 * Base + (n % Base) = n
  BY <1>2, HornerDivision
<1>4. n2 \in Nat /\ n2 * Base + (n1 % Base) = n1
  BY <1>3, HornerDivision
<1>5. n3 \in Nat /\ n3 * Base + (n2 % Base) = n2
  BY <1>4, HornerDivision
<1>6. n \div (Base * Base) = n2
  BY <1>1, <1>2, QuotientTwice
<1>7. n \div (Base * Base * Base) = n3
  <2> DEFINE square == Base * Base
  <2>1. square \in Nat \ {0} /\ Base \in Nat \ {0}
    BY <1>1
  <2> HIDE DEF square
  <2>2. n \div (square * Base) = (n \div square) \div Base
    BY <2>1, <1>2, QuotientTwice
  <2> QED
    BY <2>2, <1>6 DEF square
<1>8. u32Bytes(n) = <<n3, n2 % Base, n1 % Base, n % Base>>
  BY <1>6, <1>7 DEF u32Bytes
<1> HIDE DEF n1, n2, n3
<1> QED
  BY <1>3, <1>4, <1>5, <1>8 DEF Uint32

(* u32Bytes writes the bytes that Uint32 read.                             *)
LEMMA WriteBack ==
  ASSUME NEW b \in Seq(Byte), NEW i \in Nat \ {0}, i + 3 <= Len(b)
  PROVE  u32Bytes(Uint32(b, i)) = <<b[i], b[i + 1], b[i + 2], b[i + 3]>>
<1> DEFINE n3 == b[i]
           n2 == n3 * Base + b[i + 1]
           n1 == n2 * Base + b[i + 2]
           n  == n1 * Base + b[i + 3]
<1>1. /\ n3 \in Nat /\ b[i + 1] \in Byte
      /\ b[i + 2] \in Byte /\ b[i + 3] \in Byte
  <2>1. /\ b[i] \in Byte /\ b[i + 1] \in Byte
        /\ b[i + 2] \in Byte /\ b[i + 3] \in Byte
    OBVIOUS
  <2> QED
    BY <2>1 DEF Byte
<1>2. n2 \in Nat /\ n2 \div Base = n3 /\ n2 % Base = b[i + 1]
  BY <1>1, HornerInverse
<1>3. n1 \in Nat /\ n1 \div Base = n2 /\ n1 % Base = b[i + 2]
  BY <1>1, <1>2, HornerInverse
<1>4. n \in Nat /\ n \div Base = n1 /\ n % Base = b[i + 3]
  BY <1>1, <1>3, HornerInverse
<1>5. Uint32(b, i) = n
  BY DEF Uint32
<1> HIDE DEF n1, n2, n3, n
<1>6. Base \in Nat \ {0} /\ Base * Base \in Nat \ {0}
  BY BaseType, Products
<1>7. n \div (Base * Base) = n2
  BY <1>3, <1>4, <1>6, QuotientTwice
<1>8. n \div (Base * Base * Base) = n3
  BY <1>2, <1>4, <1>6, <1>7, QuotientTwice
<1> QED
  BY <1>2, <1>3, <1>4, <1>5, <1>7, <1>8 DEF u32Bytes, n3

(* The same, byte by byte at any offset of the parameters.                 *)
LEMMA WriteBackAt ==
  ASSUME NEW b \in Seq(Byte), NEW i \in Nat \ {0}, i + 3 <= Len(b)
  PROVE  \A j \in 1..4 : u32Bytes(Uint32(b, i))[j] = b[i + j - 1]
<1>1. u32Bytes(Uint32(b, i)) = <<b[i], b[i + 1], b[i + 2], b[i + 3]>>
  BY WriteBack
<1>2. \A j \in 1..4 : j = 1 \/ j = 2 \/ j = 3 \/ j = 4
  OBVIOUS
<1>3. /\ i + 1 - 1 = i /\ i + 2 - 1 = i + 1
      /\ i + 3 - 1 = i + 2 /\ i + 4 - 1 = i + 3
  OBVIOUS
<1> QED
  BY <1>1, <1>2, <1>3

(* Uint32 at an offset reads the word whose bytes lie there.               *)
LEMMA ReadBackAt ==
  ASSUME NEW n \in Word, NEW b \in Seq(Byte), NEW i \in Nat \ {0},
         \A j \in 1..4 : b[i + j - 1] = u32Bytes(n)[j]
  PROVE  Uint32(b, i) = n
<1>1. /\ i + 1 - 1 = i /\ i + 2 - 1 = i + 1
      /\ i + 3 - 1 = i + 2 /\ i + 4 - 1 = i + 3
  OBVIOUS
<1>2. /\ b[i] = u32Bytes(n)[1] /\ b[i + 1] = u32Bytes(n)[2]
      /\ b[i + 2] = u32Bytes(n)[3] /\ b[i + 3] = u32Bytes(n)[4]
  BY <1>1
<1> QED
  BY <1>2, ReadBack DEF Uint32

(* An element of a sequence of bytes is a byte.                            *)
LEMMA ByteAt ==
  ASSUME NEW s \in Seq(Byte), NEW j \in 1..Len(s)
  PROVE  s[j] \in Byte
  OBVIOUS

(* Length and elements of two sequences of bytes, one after the other.     *)
LEMMA Concat ==
  ASSUME NEW s \in Seq(Byte), NEW t \in Seq(Byte)
  PROVE  /\ s \o t \in Seq(Byte)
         /\ Len(s \o t) = Len(s) + Len(t)
         /\ \A j \in 1..Len(s) : (s \o t)[j] = s[j]
         /\ \A j \in 1..Len(t) : (s \o t)[Len(s) + j] = t[j]
  OBVIOUS

(* Sequences of bytes are equal if they agree at every offset.             *)
LEMMA SameBytes ==
  ASSUME NEW s \in Seq(Byte), NEW t \in Seq(Byte), Len(s) = Len(t),
         \A j \in 1..Len(s) : s[j] = t[j]
  PROVE  s = t
  OBVIOUS

(* The layout of scrypt's parameters: a byte and two words.                *)
LEMMA FirstThenWords ==
  ASSUME NEW x \in Byte, NEW m \in Word, NEW n \in Word
  PROVE  LET b == <<x>> \o u32Bytes(m) \o u32Bytes(n)
         IN  /\ b \in Seq(Byte) /\ Len(b) = 9
             /\ b[1] = x
             /\ \A j \in 1..4 : b[2 + j - 1] = u32Bytes(m)[j]
             /\ \A j \in 1..4 : b[6 + j - 1] = u32Bytes(n)[j]
<1> DEFINE h == <<x>>
           s == u32Bytes(m)
           t == u32Bytes(n)
           c == h \o s
<1>1. s \in Seq(Byte) /\ Len(s) = 4 /\ t \in Seq(Byte) /\ Len(t) = 4
  BY u32BytesType
<1>2. h \in Seq(Byte) /\ Len(h) = 1 /\ h[1] = x
  OBVIOUS
<1> HIDE DEF h, s, t
<1>3. /\ c \in Seq(Byte) /\ Len(c) = 5 /\ c[1] = x
      /\ \A j \in 1..4 : c[1 + j] = s[j]
  <2>1. /\ c \in Seq(Byte) /\ Len(c) = Len(h) + Len(s)
        /\ \A j \in 1..Len(h) : c[j] = h[j]
        /\ \A j \in 1..Len(s) : c[Len(h) + j] = s[j]
    BY <1>1, <1>2, Concat
  <2> HIDE DEF c
  <2> QED
    BY <2>1, <1>1, <1>2
<1> HIDE DEF c
<1>4. /\ c \o t \in Seq(Byte) /\ Len(c \o t) = 9
      /\ \A j \in 1..5 : (c \o t)[j] = c[j]
      /\ \A j \in 1..4 : (c \o t)[5 + j] = t[j]
  <2>1. /\ c \o t \in Seq(Byte) /\ Len(c \o t) = Len(c) + Len(t)
        /\ \A j \in 1..Len(c) : (c \o t)[j] = c[j]
        /\ \A j \in 1..Len(t) : (c \o t)[Len(c) + j] = t[j]
    BY <1>1, <1>3, Concat
  <2> DEFINE u == c \o t
  <2> HIDE DEF u
  <2>2. /\ u \in Seq(Byte) /\ Len(u) = 9
        /\ \A j \in 1..5 : u[j] = c[j]
        /\ \A j \in 1..4 : u[5 + j] = t[j]
    BY <2>1, <1>1, <1>3 DEF u
  <2> QED
    BY <2>2 DEF u
<1>5. \A j \in 1..4 : 2 + j - 1 = 1 + j /\ 6 + j - 1 = 5 + j /\ 1 + j \in 1..5
  OBVIOUS
<1>6. /\ (c \o t)[1] = x
      /\ \A j \in 1..4 : (c \o t)[2 + j - 1] = s[j]
      /\ \A j \in 1..4 : (c \o t)[6 + j - 1] = t[j]
  <2> DEFINE d == c \o t
  <2>1. /\ \A j \in 1..5 : d[j] = c[j]
        /\ \A j \in 1..4 : d[5 + j] = t[j]
    BY <1>4
  <2> HIDE DEF d
  <2>2. d[1] = x
    BY <1>3, <2>1
  <2>3. \A j \in 1..4 : d[2 + j - 1] = s[j]
    BY <1>3, <1>5, <2>1
  <2>4. \A j \in 1..4 : d[6 + j - 1] = t[j]
    BY <1>5, <2>1
  <2> QED
    BY <2>2, <2>3, <2>4 DEF d
<1> QED
  BY <1>4, <1>6 DEF c, h, s, t

(* The layout of Argon2id's parameters: two words and a byte.              *)
LEMMA WordsThenLast ==
  ASSUME NEW x \in Byte, NEW m \in Word, NEW n \in Word
  PROVE  LET b == u32Bytes(m) \o u32Bytes(n) \o <<x>>
         IN  /\ b \in Seq(Byte) /\ Len(b) = 9
             /\ \A j \in 1..4 : b[1 + j - 1] = u32Bytes(m)[j]
             /\ \A j \in 1..4 : b[5 + j - 1] = u32Bytes(n)[j]
             /\ b[9] = x
<1> DEFINE h == <<x>>
           s == u32Bytes(m)
           t == u32Bytes(n)
           c == s \o t
<1>1. s \in Seq(Byte) /\ Len(s) = 4 /\ t \in Seq(Byte) /\ Len(t) = 4
  BY u32BytesType
<1>2. h \in Seq(Byte) /\ Len(h) = 1 /\ h[1] = x
  OBVIOUS
<1> HIDE DEF h, s, t
<1>3. /\ c \in Seq(Byte) /\ Len(c) = 8
      /\ \A j \in 1..4 : c[j] = s[j]
      /\ \A j \in 1..4 : c[4 + j] = t[j]
  <2>1. /\ c \in Seq(Byte) /\ Len(c) = Len(s) + Len(t)
        /\ \A j \in 1..Len(s) : c[j] = s[j]
        /\ \A j \in 1..Len(t) : c[Len(s) + j] = t[j]
    BY <1>1, Concat
  <2> HIDE DEF c
  <2> QED
    BY <2>1, <1>1
<1> HIDE DEF c
<1>4. /\ c \o h \in Seq(Byte) /\ Len(c \o h) = 9
      /\ \A j \in 1..8 : (c \o h)[j] = c[j]
      /\ (c \o h)[9] = x
  <2>1. /\ c \o h \in Seq(Byte) /\ Len(c \o h) = Len(c) + Len(h)
        /\ \A j \in 1..Len(c) : (c \o h)[j] = c[j]
        /\ \A j \in 1..Len(h) : (c \o h)[Len(c) + j] = h[j]
    BY <1>2, <1>3, Concat
  <2>2. (c \o h)[8 + 1] = h[1]
    BY <2>1, <1>2, <1>3
  <2> QED
    BY <2>1, <2>2, <1>2, <1>3
<1>5. \A j \in 1..4 : /\ 1 + j - 1 = j /\ 5 + j - 1 = 4 + j
                     /\ j \in 1..8 /\ 4 + j \in 1..8
  OBVIOUS
<1>6. /\ \A j \in 1..4 : (c \o h)[1 + j - 1] = s[j]
      /\ \A j \in 1..4 : (c \o h)[5 + j - 1] = t[j]
  <2> DEFINE d == c \o h
  <2>1. \A j \in 1..8 : d[j] = c[j]
    BY <1>4
  <2> HIDE DEF d
  <2>2. \A j \in 1..4 : d[1 + j - 1] = s[j]
    BY <1>3, <1>5, <2>1
  <2>3. \A j \in 1..4 : d[5 + j - 1] = t[j]
    BY <1>3, <1>5, <2>1
  <2> QED
    BY <2>2, <2>3 DEF d
<1> QED
  BY <1>4, <1>6 DEF c, h, s, t

(* Any nine bytes stand for one KDF, which marshals to them: what the      *)
(* bytes of a changed file are read as never hides a change.               *)
LEMMA Decodes ==
  ASSUME NEW b \in Seq(Byte), Len(b) = 9, NEW id \in {"argon2id", "scrypt"}
  PROVE  /\ Decoded(id, b) \in Argon2s \cup Scrypts
         /\ Decoded(id, b).id = id
         /\ MarshalParams(Decoded(id, b)) = b
<1>1. b[1] \in Byte /\ b[9] \in Byte
  <2>1. 1 \in 1..Len(b) /\ 9 \in 1..Len(b)
    OBVIOUS
  <2> QED
    BY <2>1, ByteAt
<1>2. \A i \in {1, 2, 5, 6} :
        /\ Uint32(b, i) \in Word
        /\ \A j \in 1..4 : u32Bytes(Uint32(b, i))[j] = b[i + j - 1]
  <2>1. \A i \in {1, 2, 5, 6} : i \in Nat \ {0} /\ i + 3 <= Len(b)
    OBVIOUS
  <2> QED
    BY <2>1, Uint32Type, WriteBackAt
<1>3. CASE id = "argon2id"
  <2> DEFINE m == Uint32(b, 1)
             n == Uint32(b, 5)
             c == u32Bytes(m) \o u32Bytes(n) \o <<b[9]>>
  <2>1. m \in Word /\ n \in Word
    BY <1>2
  <2>2. Decoded(id, b) = [id |-> "argon2id", time |-> m, memoryKiB |-> n,
                          threads |-> b[9]]
    BY <1>3 DEF Decoded, NewArgon2idKDF
  <2>3. MarshalParams(Decoded(id, b)) = c
    BY <2>2 DEF MarshalParams
  <2>4. /\ c \in Seq(Byte) /\ Len(c) = 9
        /\ \A j \in 1..4 : c[1 + j - 1] = b[1 + j - 1]
        /\ \A j \in 1..4 : c[5 + j - 1] = b[5 + j - 1]
        /\ c[9] = b[9]
    <3>1. /\ c \in Seq(Byte) /\ Len(c) = 9
          /\ \A j \in 1..4 : c[1 + j - 1] = u32Bytes(m)[j]
          /\ \A j \in 1..4 : c[5 + j - 1] = u32Bytes(n)[j]
          /\ c[9] = b[9]
      BY <1>1, <2>1, WordsThenLast
    <3> HIDE DEF c
    <3> QED
      BY <1>2, <3>1
  <2> HIDE DEF c, m, n
  <2>5. \A j \in 1..9 : c[j] = b[j]
    <3>1. \A j \in 1..4 : c[j] = b[j] /\ c[j + 4] = b[j + 4]
      <4>1. \A j \in 1..4 : 1 + j - 1 = j /\ 5 + j - 1 = j + 4
        OBVIOUS
      <4> QED
        BY <2>4, <4>1
    <3>2. \A j \in 1..9 : \/ j \in 1..4
                          \/ j = 9
                          \/ (j - 4 \in 1..4 /\ (j - 4) + 4 = j)
      OBVIOUS
    <3> QED
      BY <2>4, <3>1, <3>2
  <2>6. c = b
    BY <2>4, <2>5, SameBytes
  <2>7. Decoded(id, b) \in Argon2s /\ Decoded(id, b).id = id
    BY <1>1, <1>3, <2>1, <2>2 DEF Argon2s
  <2> QED
    BY <2>3, <2>6, <2>7
<1>4. CASE id = "scrypt"
  <2> DEFINE m == Uint32(b, 2)
             n == Uint32(b, 6)
             c == <<b[1]>> \o u32Bytes(m) \o u32Bytes(n)
  <2>1. m \in Word /\ n \in Word
    BY <1>2
  <2>2. Decoded(id, b) = [id |-> "scrypt", logN |-> b[1], r |-> m, p |-> n]
    BY <1>4 DEF Decoded, NewScryptKDF
  <2>3. MarshalParams(Decoded(id, b)) = c
    BY <2>2 DEF MarshalParams
  <2>4. /\ c \in Seq(Byte) /\ Len(c) = 9
        /\ c[1] = b[1]
        /\ \A j \in 1..4 : c[2 + j - 1] = b[2 + j - 1]
        /\ \A j \in 1..4 : c[6 + j - 1] = b[6 + j - 1]
    <3>1. /\ c \in Seq(Byte) /\ Len(c) = 9
          /\ c[1] = b[1]
          /\ \A j \in 1..4 : c[2 + j - 1] = u32Bytes(m)[j]
          /\ \A j \in 1..4 : c[6 + j - 1] = u32Bytes(n)[j]
      BY <1>1, <2>1, FirstThenWords
    <3> HIDE DEF c
    <3> QED
      BY <1>2, <3>1
  <2> HIDE DEF c, m, n
  <2>5. \A j \in 1..9 : c[j] = b[j]
    <3>1. \A j \in 1..4 : c[j + 1] = b[j + 1] /\ c[j + 5] = b[j + 5]
      <4>1. \A j \in 1..4 : 2 + j - 1 = j + 1 /\ 6 + j - 1 = j + 5
        OBVIOUS
      <4> QED
        BY <2>4, <4>1
    <3>2. \A j \in 1..9 : \/ j = 1
                          \/ j - 1 \in 1..4 /\ (j - 1) + 1 = j
                          \/ j - 5 \in 1..4 /\ (j - 5) + 5 = j
      OBVIOUS
    <3> QED
      BY <2>4, <3>1, <3>2
  <2>6. c = b
    BY <2>4, <2>5, SameBytes
  <2>7. Decoded(id, b) \in Scrypts /\ Decoded(id, b).id = id
    BY <1>1, <1>4, <2>1, <2>2 DEF Scrypts
  <2> QED
    BY <2>3, <2>6, <2>7
<1> QED
  BY <1>3, <1>4

(* MarshalParams makes nine bytes of any KDF, which stand for it alone.    *)
LEMMA Encodes ==
  ASSUME NEW f \in Argon2s \cup Scrypts
  PROVE  /\ MarshalParams(f) \in Seq(Byte)
         /\ Len(MarshalParams(f)) = 9
         /\ f.id \in {"argon2id", "scrypt"}
         /\ Decoded(f.id, MarshalParams(f)) = f
<1> DEFINE b == MarshalParams(f)
<1>1. CASE f \in Argon2s
  <2>1. /\ f.id = "argon2id" /\ f.time \in Word /\ f.memoryKiB \in Word
        /\ f.threads \in Byte
        /\ f = [id |-> "argon2id", time |-> f.time, memoryKiB |-> f.memoryKiB,
                threads |-> f.threads]
    BY <1>1 DEF Argon2s
  <2>2. b = u32Bytes(f.time) \o u32Bytes(f.memoryKiB) \o <<f.threads>>
    BY <2>1 DEF MarshalParams
  <2>3. /\ b \in Seq(Byte) /\ Len(b) = 9 /\ b[9] = f.threads
        /\ \A j \in 1..4 : b[1 + j - 1] = u32Bytes(f.time)[j]
        /\ \A j \in 1..4 : b[5 + j - 1] = u32Bytes(f.memoryKiB)[j]
    BY <2>1, <2>2, WordsThenLast
  <2> HIDE DEF b
  <2>4. Uint32(b, 1) = f.time /\ Uint32(b, 5) = f.memoryKiB
    <3>1. 1 \in Nat \ {0} /\ 5 \in Nat \ {0}
      OBVIOUS
    <3> QED
      BY <2>1, <2>3, <3>1, ReadBackAt
  <2> QED
    BY <2>1, <2>3, <2>4 DEF Decoded, NewArgon2idKDF, b
<1>2. CASE f \in Scrypts
  <2>1. /\ f.id = "scrypt" /\ f.r \in Word /\ f.p \in Word /\ f.logN \in Byte
        /\ f = [id |-> "scrypt", logN |-> f.logN, r |-> f.r, p |-> f.p]
    BY <1>2 DEF Scrypts
  <2>2. b = <<f.logN>> \o u32Bytes(f.r) \o u32Bytes(f.p)
    BY <2>1 DEF MarshalParams
  <2>3. /\ b \in Seq(Byte) /\ Len(b) = 9 /\ b[1] = f.logN
        /\ \A j \in 1..4 : b[2 + j - 1] = u32Bytes(f.r)[j]
        /\ \A j \in 1..4 : b[6 + j - 1] = u32Bytes(f.p)[j]
    BY <2>1, <2>2, FirstThenWords
  <2> HIDE DEF b
  <2>4. Uint32(b, 2) = f.r /\ Uint32(b, 6) = f.p
    <3>1. 2 \in Nat \ {0} /\ 6 \in Nat \ {0}
      OBVIOUS
    <3> QED
      BY <2>1, <2>3, <3>1, ReadBackAt
  <2> QED
    BY <2>1, <2>3, <2>4 DEF Decoded, NewScryptKDF, b
<1> QED
  BY <1>1, <1>2

-----------------------------------------------------------------------------
(* Bounds *)

(* The types of the bounds, from KDFAssumption.                            *)
LEMMA ParamTypes ==
  /\ KiB \in Nat \ {0}
  /\ Wide \in Nat /\ IntBits \in Nat /\ Block \in Nat /\ MaxKDFMemBytes \in Nat
  /\ MaxArgonTimeParam \in Nat /\ MaxArgonThreadsParam \in Nat
  /\ MinArgonMemKiB \in Nat /\ MinScryptLogN \in Nat /\ MaxScryptLogN \in Nat
  /\ MaxScryptR \in Nat /\ MaxScryptP \in Nat
  BY KDFAssumption

(* A number below the width is not wrapped.                                *)
LEMMA Fits ==
  ASSUME NEW w \in Nat, NEW n \in Nat, n < w
  PROVE  n % w = n
<1>1. w \in Nat \ {0} /\ n \in 0..(w - 1) /\ w * 0 = 0
  OBVIOUS
<1>2. (w * 0 + n) % w = n
  BY <1>1, QuotientIs
<1>3. w * 0 + n = n
  BY <1>1
<1> QED
  BY <1>2, <1>3

(* argonMem, a uint64 product, does not wrap for any uint32.               *)
LEMMA ArgonExact ==
  ASSUME NEW m \in Word
  PROVE  argonMem(m) = m * KiB /\ m * KiB \in Nat
<1> DEFINE top == Base * Base * Base * Base
<1>1. top \in Nat /\ m \in Nat /\ m + 1 <= top
  BY BaseType, Products DEF Word
<1>2. top * KiB <= Wide
  BY WidthAssumption
<1> HIDE DEF top
<1>3. (m + 1) * KiB <= top * KiB
  BY <1>1, ParamTypes, ProductOrder
<1>4. (m + 1) * KiB = m * KiB + KiB /\ m * KiB \in Nat /\ top * KiB \in Nat
  BY <1>1, ParamTypes, Products
<1>5. m * KiB < Wide
  BY <1>2, <1>3, <1>4, ParamTypes
<1> QED
  BY <1>4, <1>5, ParamTypes, Fits DEF argonMem

(* scryptMem does not wrap for parameters within the single bounds, which  *)
(* parseKDF checks first.                                                  *)
LEMMA ScryptExact ==
  ASSUME NEW n \in 0..MaxScryptLogN, NEW r \in 0..MaxScryptR
  PROVE  scryptMem(n, r) = Block * Pow2[n] * r /\ Block * Pow2[n] * r \in Nat
<1>1. Pow2[n] \in Nat
  BY KDFAssumption, WidthAssumption, ParamTypes
<1>2. Block * Pow2[n] \in Nat
  BY <1>1, ParamTypes, Products
<1>3. r \in Nat /\ Block * Pow2[n] * r \in Nat
  BY <1>2, ParamTypes, Products
<1>4. Block * Pow2[n] * r < Wide
  BY WidthAssumption
<1> HIDE DEF Word
<1> QED
  BY <1>3, <1>4, ParamTypes, Fits DEF scryptMem

(* parseKDF's fixed-width checks are the bounds in the natural numbers.    *)
LEMMA BoundsAreExact ==
  ASSUME NEW f \in Argon2s \cup Scrypts
  PROVE  /\ f.id = "argon2id" => (argonInBounds(f) <=> WithinBounds(f))
         /\ f.id # "argon2id" => (scryptInBounds(f) <=> WithinBounds(f))
<1>1. CASE f \in Argon2s
  <2>1. f.id = "argon2id" /\ argonMem(f.memoryKiB) = f.memoryKiB * KiB
    BY <1>1, ArgonExact DEF Argon2s
  <2> QED
    BY <2>1 DEF argonInBounds, WithinBounds
<1>2. CASE f \in Scrypts
  <2>1. f.id = "scrypt"
    BY <1>2 DEF Scrypts
  <2>2. ASSUME f.logN \in MinScryptLogN..MaxScryptLogN, f.r \in 1..MaxScryptR
        PROVE  scryptMem(f.logN, f.r) = Block * Pow2[f.logN] * f.r
    <3>1. f.logN \in 0..MaxScryptLogN /\ f.r \in 0..MaxScryptR
      BY <2>2, ParamTypes
    <3> QED
      BY <3>1, ScryptExact
  <2> QED
    BY <2>1, <2>2 DEF scryptInBounds, WithinBounds
<1> QED
  BY <1>1, <1>2

(* Within the bounds, what the derivation allocates is below the ceiling.  *)
LEMMA BoundedMemory ==
  ASSUME NEW f \in Argon2s \cup Scrypts, WithinBounds(f)
  PROVE  MemoryTaken(f) <= MaxKDFMemBytes
<1>1. CASE f \in Argon2s
  <2> DEFINE m == f.memoryKiB
             t == f.threads
             blocks == argon2Blocks(m, t)
  <2>1. /\ f.id = "argon2id" /\ m \in Nat /\ m \in Word
        /\ t \in 1..MaxArgonThreadsParam /\ m * KiB <= MaxKDFMemBytes
    BY <1>1 DEF Argon2s, WithinBounds, Word
  <2>2. t \in Nat \ {0} /\ t <= MaxArgonThreadsParam
    BY <2>1, ParamTypes
  <2>3. MemoryTaken(f) = blocks * KiB
    BY <2>1 DEF MemoryTaken
  <2> HIDE DEF m, t
  <2>4. CASE m < 8 * t
    <3>1. blocks = 8 * t
      BY <2>4 DEF argon2Blocks
    <3>2. 8 * t \in Nat /\ 8 * MaxArgonThreadsParam \in Nat
          /\ 8 * t <= 8 * MaxArgonThreadsParam
      BY <2>2, ParamTypes
    <3>3. (8 * t) * KiB <= (8 * MaxArgonThreadsParam) * KiB
      BY <3>2, ParamTypes, ProductOrder
    <3>4. (8 * t) * KiB \in Nat /\ (8 * MaxArgonThreadsParam) * KiB \in Nat
      BY <3>2, ParamTypes, Products
    <3> QED
      BY <2>3, <3>1, <3>3, <3>4, WidthAssumption, ParamTypes
  <2>5. CASE ~(m < 8 * t)
    <3>1. blocks = m - (m % (4 * t))
      BY <2>5 DEF argon2Blocks
    <3>2. 4 * t \in Nat \ {0}
      BY <2>2
    <3>3. m % (4 * t) \in Nat /\ m % (4 * t) < 4 * t
      BY <3>2, <2>1, Division
    <3>4. blocks \in Nat /\ blocks <= m
      BY <3>1, <3>3, <2>1, <2>2, <2>5
    <3> HIDE DEF blocks
    <3>5. blocks * KiB <= m * KiB
      BY <3>4, <2>1, ParamTypes, ProductOrder
    <3>6. blocks * KiB \in Nat /\ m * KiB \in Nat
      BY <3>4, <2>1, ParamTypes, Products
    <3> QED
      BY <2>3, <3>5, <3>6, <2>1, ParamTypes
  <2> QED
    BY <2>4, <2>5
<1>2. CASE f \in Scrypts
  <2>1. f.id = "scrypt"
    BY <1>2 DEF Scrypts
  <2> QED
    BY <2>1 DEF MemoryTaken, WithinBounds
<1> QED
  BY <1>1, <1>2

(* Within the bounds, neither KDF refuses or panics.                       *)
LEMMA DerivesKey ==
  ASSUME NEW f \in Argon2s \cup Scrypts, WithinBounds(f)
  PROVE  Outcome(f) = "key"
<1>1. CASE f \in Argon2s
  <2>1. f.id = "argon2id" /\ ~(f.time < 1) /\ ~(f.threads < 1)
    BY <1>1, ParamTypes DEF Argon2s, WithinBounds
  <2> QED
    BY <2>1 DEF Outcome
<1>2. CASE f \in Scrypts
  <2>1. /\ f.id = "scrypt" /\ f.r # 0 /\ f.p # 0
        /\ f.logN \in MinScryptLogN..MaxScryptLogN
    BY <1>2, ParamTypes DEF Scrypts, WithinBounds
  <2>2. /\ f.logN \in 0..(IntBits - 1) /\ 0 \in 0..(IntBits - 1)
        /\ 0 < f.logN /\ f.logN < IntBits
    BY <2>1, WidthAssumption, ParamTypes
  <2>3. /\ Pow2[0] < Pow2[f.logN]
        /\ Pow2[0] \in Nat \ {0} /\ Pow2[f.logN] \in Nat \ {0}
    BY <2>2, KDFAssumption
  <2>4. ~(shl(f.logN) <= 1)
    BY <2>2, <2>3 DEF shl
  <2> QED
    BY <2>1, <2>4 DEF Outcome
<1> QED
  BY <1>1, <1>2

(* What the slot stores is what the KDF marshals to if and only if nothing *)
(* changed at rest, and what was parsed is what parseKDF makes of it.      *)
IInv ==
  /\ TypeOK
  /\ stored.id = kdf.id
  /\ pc = "enroll" => stored.bytes = <<>> /\ intact
  /\ pc = "file" => intact
  /\ pc # "end" => parsed = Nothing
  /\ Len(stored.bytes) \in {0, 9}
  /\ Len(stored.bytes) = 9 => (intact <=> stored.bytes = MarshalParams(kdf))
  /\ parsed # Nothing =>
       /\ Len(stored.bytes) = 9
       /\ parsed = parseKDF(stored.id, stored.bytes)

-----------------------------------------------------------------------------
(* The specification *)

(* parseKDF returns a KDF or an error.                                     *)
LEMMA ParseType ==
  ASSUME NEW id \in {"argon2id", "scrypt"}, NEW b \in Seq(Byte), Len(b) = 9
  PROVE  parseKDF(id, b) \in Argon2s \cup Scrypts \cup {Refused}
  BY Decodes DEF parseKDF

(* Changing a byte of the file leaves a sequence of bytes as long.         *)
LEMMA ChangedByte ==
  ASSUME NEW s \in Seq(Byte), NEW i \in 1..Len(s), NEW c \in Byte
  PROVE  /\ [s EXCEPT ![i] = c] \in Seq(Byte)
         /\ Len([s EXCEPT ![i] = c]) = Len(s)
         /\ [s EXCEPT ![i] = c][i] = c
  OBVIOUS

(* The inductive invariant holds when an application configures a KDF.     *)
LEMMA InitIInv == Init => IInv
<1> SUFFICES ASSUME Init PROVE IInv
  OBVIOUS
<1>1. kdf \in Argon2s \cup Scrypts /\ kdf.id \in {"argon2id", "scrypt"}
  BY KDFAssumption, Encodes DEF Init
<1>2. stored.bytes = <<>> /\ Len(stored.bytes) = 0 /\ stored.id = kdf.id
  BY DEF Init
<1>3. stored \in [id : {"argon2id", "scrypt"}, bytes : Seq(Byte)]
  BY <1>1 DEF Init
<1> QED
  BY <1>2, <1>3 DEF Init, IInv, TypeOK

(* Enroll, damage at rest and parseKDF preserve it.                        *)
LEMMA NextIInv == IInv /\ [Next]_vars => IInv'
<1> SUFFICES ASSUME IInv, [Next]_vars PROVE IInv'
  OBVIOUS
<1> USE DEF IInv
<1>0. kdf \in Argon2s \cup Scrypts
  BY KDFAssumption DEF TypeOK
<1>1. CASE Enroll /\ Outcome(kdf) = "key"
  <2> DEFINE b == MarshalParams(kdf)
  <2>1. b \in Seq(Byte) /\ Len(b) = 9
    BY <1>0, Encodes
  <2>2. /\ stored' = [stored EXCEPT !.bytes = b]
        /\ pc' = "file" /\ UNCHANGED <<kdf, intact, parsed>>
        /\ intact /\ parsed = Nothing
    BY <1>1 DEF Enroll
  <2> HIDE DEF b
  <2>3. stored'.bytes = b /\ stored'.id = kdf.id
    BY <2>2 DEF TypeOK
  <2>4. TypeOK'
    BY <2>1, <2>2 DEF TypeOK
  <2> QED
    BY <2>1, <2>2, <2>3, <2>4 DEF b
<1>2. CASE Enroll /\ Outcome(kdf) # "key"
  BY <1>2 DEF Enroll, TypeOK
<1>3. CASE Damage
  <2>1. PICK i \in 1..9, c \in Byte : /\ c # stored.bytes[i]
                                    /\ stored' = [stored EXCEPT !.bytes[i] = c]
    BY <1>3 DEF Damage
  <2>2. /\ pc = "file" /\ pc' = "changed" /\ intact' = FALSE
        /\ UNCHANGED <<kdf, parsed>> /\ parsed = Nothing /\ intact
    BY <1>3 DEF Damage
  <2> DEFINE b == stored.bytes
             d == [b EXCEPT ![i] = c]
  <2>3. b \in Seq(Byte) /\ Len(b) = 9 /\ b = MarshalParams(kdf)
    BY <2>2 DEF TypeOK
  <2>4. stored' = [stored EXCEPT !.bytes = d]
    BY <2>1
  <2> HIDE DEF b
  <2>5. d \in Seq(Byte) /\ Len(d) = 9 /\ d[i] = c
    <3>1. b \in Seq(Byte) /\ i \in 1..Len(b) /\ Len(b) = 9
      BY <2>3
    <3>2. \A s \in Seq(Byte) : i \in 1..Len(s) =>
             /\ [s EXCEPT ![i] = c] \in Seq(Byte)
             /\ Len([s EXCEPT ![i] = c]) = Len(s)
             /\ [s EXCEPT ![i] = c][i] = c
      BY ChangedByte
    <3>3. /\ [b EXCEPT ![i] = c] \in Seq(Byte)
          /\ Len([b EXCEPT ![i] = c]) = Len(b)
          /\ [b EXCEPT ![i] = c][i] = c
      BY <3>1, <3>2, Zenon
    <3>4. d \in Seq(Byte) /\ Len(d) = Len(b) /\ d[i] = c
      BY <3>3
    <3> HIDE DEF d
    <3> QED
      BY <3>1, <3>4
  <2>6. d # b
    BY <2>1, <2>5 DEF b
  <2> HIDE DEF d
  <2>7. stored'.bytes = d /\ stored'.id = kdf.id
    BY <2>2, <2>4 DEF TypeOK
  <2>8. TypeOK'
    BY <2>2, <2>4, <2>5 DEF TypeOK
  <2> QED
    BY <2>2, <2>3, <2>5, <2>6, <2>7, <2>8
<1>4. CASE Parse
  <2>1. /\ parsed' = parseKDF(stored.id, stored.bytes) /\ pc' = "end"
        /\ UNCHANGED <<kdf, stored, intact>>
        /\ Len(stored.bytes) = 9
    BY <1>4 DEF Parse, TypeOK
  <2>2. parsed' \in Argon2s \cup Scrypts \cup {Refused}
    BY <2>1, ParseType DEF TypeOK
  <2>3. TypeOK'
    BY <2>1, <2>2 DEF TypeOK
  <2> QED
    BY <2>1, <2>3
<1>5. CASE UNCHANGED vars
  BY <1>5 DEF vars, TypeOK
<1> QED
  BY <1>1, <1>2, <1>3, <1>4, <1>5 DEF Next, End

(* It holds in every reachable state.                                      *)
LEMMA Invariance == Spec => []IInv
<1> QED
  BY InitIInv, NextIInv, PTL DEF Spec

(* Accepted parameters are what the stored bytes stand for and lie within  *)
(* the documented bounds.                                                  *)
LEMMA AcceptedIsWithin ==
  ASSUME IInv, Accepted
  PROVE  /\ parsed \in Argon2s \cup Scrypts
         /\ WithinBounds(parsed)
         /\ parsed = Decoded(stored.id, stored.bytes)
<1>1. /\ stored.bytes \in Seq(Byte) /\ Len(stored.bytes) = 9
      /\ stored.id \in {"argon2id", "scrypt"}
      /\ parsed = parseKDF(stored.id, stored.bytes) /\ parsed # Refused
  BY DEF IInv, TypeOK, Accepted
<1> DEFINE f == Decoded(stored.id, stored.bytes)
<1>2. f \in Argon2s \cup Scrypts /\ f.id = stored.id
  BY <1>1, Decodes
<1>3. /\ parsed = f
      /\ IF f.id = "argon2id" THEN argonInBounds(f) ELSE scryptInBounds(f)
  BY <1>1, <1>2 DEF parseKDF
<1> HIDE DEF f
<1>4. WithinBounds(f)
  BY <1>2, <1>3, BoundsAreExact
<1> QED
  BY <1>2, <1>3, <1>4 DEF f

(* kdf.go's ceiling: whatever the file says, the memory that deriving with *)
(* parameters parseKDF accepts takes is within MaxKDFMemBytes.             *)
THEOREM AcceptedParametersAreBounded == Spec => []AcceptedIsBounded
<1>1. IInv => AcceptedIsBounded
  BY AcceptedIsWithin, BoundedMemory DEF AcceptedIsBounded
<1> QED
  BY <1>1, Invariance, PTL

(* Whatever the file says, deriving with parameters parseKDF accepts yields *)
(* a key: no panic of argon2.IDKey or scrypt.Key.                          *)
THEOREM AcceptedParametersDerive == Spec => []AcceptedDerives
<1>1. IInv => AcceptedDerives
  BY AcceptedIsWithin, DerivesKey DEF AcceptedDerives
<1> QED
  BY <1>1, Invariance, PTL

(* parseKDF gives back the KDF that enrolled exactly when its bytes are as *)
(* written, and always if that KDF is within the bounds.                   *)
THEOREM ParametersAreKept == Spec => []ParametersSurvive
<1>1. ASSUME IInv, Accepted PROVE intact <=> parsed = kdf
  <2>1. /\ stored.bytes \in Seq(Byte) /\ Len(stored.bytes) = 9
        /\ stored.id = kdf.id /\ kdf \in Argon2s \cup Scrypts
        /\ intact <=> stored.bytes = MarshalParams(kdf)
        /\ stored.id \in {"argon2id", "scrypt"}
    BY <1>1, KDFAssumption DEF IInv, TypeOK, Accepted
  <2>2. parsed = Decoded(stored.id, stored.bytes)
    BY <1>1, AcceptedIsWithin
  <2>3. MarshalParams(parsed) = stored.bytes
    BY <2>1, <2>2, Decodes
  <2>4. Decoded(kdf.id, MarshalParams(kdf)) = kdf
    BY <2>1, Encodes
  <2> QED
    BY <2>1, <2>2, <2>3, <2>4
<1>2. ASSUME IInv, intact, parsed # Nothing, WithinBounds(kdf) PROVE Accepted
  <2>1. /\ kdf \in Argon2s \cup Scrypts /\ stored.id = kdf.id
        /\ stored.bytes = MarshalParams(kdf)
        /\ parsed = parseKDF(stored.id, stored.bytes)
    BY <1>2, KDFAssumption DEF IInv, TypeOK
  <2>2. Decoded(kdf.id, MarshalParams(kdf)) = kdf
        /\ kdf.id \in {"argon2id", "scrypt"}
    BY <2>1, Encodes
  <2>3. IF kdf.id = "argon2id" THEN argonInBounds(kdf) ELSE scryptInBounds(kdf)
    BY <1>2, <2>1, BoundsAreExact
  <2>4. parsed = kdf
    BY <2>1, <2>2, <2>3 DEF parseKDF
  <2> QED
    BY <1>2, <2>2, <2>4 DEF Accepted, Refused
<1>3. IInv => ParametersSurvive
  BY <1>1, <1>2 DEF ParametersSurvive
<1> QED
  BY <1>3, Invariance, PTL
=============================================================================
