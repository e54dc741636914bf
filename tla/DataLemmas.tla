------------------------------ MODULE DataLemmas ------------------------------
(***************************************************************************)
(* Lemmas about numbers and sequences that several proofs share: quotient  *)
(* and remainder, from which big-endian bytes are made; what lies where in *)
(* a sequence; FlattenSeq, which the library defines by recursion, one     *)
(* piece at a time; sequences made by replacing each element of another;   *)
(* and loops, as recursive functions of the number of rounds.              *)
(***************************************************************************)
EXTENDS Integers, SequencesExt, SequenceTheorems, WellFoundedInduction, TLAPS

-----------------------------------------------------------------------------
(* Arithmetic *)

(* Natural numbers are closed under products: the widths of kdf.go are.    *)
LEMMA Products == \A a, b \in Nat : a * b \in Nat
  OBVIOUS

(* A product grows with its first factor.                                  *)
LEMMA ProductOrder ==
  ASSUME NEW a \in Nat, NEW b \in Nat, NEW c \in Nat, a <= b
  PROVE  a * c <= b * c
  OBVIOUS

(* Quotient and remainder, as big-endian bytes are cut off a number.       *)
LEMMA Division ==
  ASSUME NEW n \in Nat, NEW d \in Nat \ {0}
  PROVE  /\ n \div d \in Nat
         /\ n % d \in 0..(d - 1)
         /\ n = d * (n \div d) + (n % d)
  OBVIOUS

(* The quotient of a number below c * d is below c: an upper byte.         *)
LEMMA QuotientBound ==
  ASSUME NEW n \in Nat, NEW d \in Nat \ {0}, NEW c \in Nat, n < c * d
  PROVE  n \div d < c
<1>1. SUFFICES ASSUME c <= n \div d PROVE FALSE
  BY Division
<1>2. c * d <= (n \div d) * d
  BY <1>1, Division, ProductOrder
<1>3. d * (n \div d) <= n
  BY Division
<1>4. d * (n \div d) = (n \div d) * d
  BY Division
<1> QED
  BY <1>2, <1>3, <1>4, Division, Products

(* Quotient and remainder are unique.                                      *)
LEMMA QuotientIs ==
  ASSUME NEW d \in Nat \ {0}, NEW q \in Nat, NEW r \in 0..(d - 1)
  PROVE  /\ (d * q + r) \div d = q
         /\ (d * q + r) % d = r
<1> DEFINE n == d * q + r
           e == n \div d
<1>1. /\ n \in Nat /\ e \in Nat
      /\ n % d \in 0..(d - 1)
      /\ n = d * e + (n % d)
  BY Products, Division
<1> HIDE DEF e
<1>2. d * q \in Nat /\ d * e \in Nat
  BY <1>1, Products
<1>3. ~(q + 1 <= e)
  <2>1. SUFFICES ASSUME q + 1 <= e PROVE FALSE
    OBVIOUS
  <2>2. (q + 1) * d <= e * d
    BY <2>1, <1>1, ProductOrder
  <2>3. (q + 1) * d = d * q + d /\ e * d = d * e
    BY <1>1
  <2> QED
    BY <2>2, <2>3, <1>1, <1>2
<1>4. ~(e + 1 <= q)
  <2>1. SUFFICES ASSUME e + 1 <= q PROVE FALSE
    OBVIOUS
  <2>2. (e + 1) * d <= q * d
    BY <2>1, <1>1, ProductOrder
  <2>3. (e + 1) * d = d * e + d /\ q * d = d * q
    BY <1>1
  <2> QED
    BY <2>2, <2>3, <1>1, <1>2
<1>5. e = q
  BY <1>1, <1>3, <1>4
<1> QED
  BY <1>1, <1>2, <1>5 DEF e

(* The same fact for a number given by its division.                       *)
LEMMA QuotientOf ==
  ASSUME NEW n, NEW d \in Nat \ {0}, NEW q \in Nat, NEW r \in 0..(d - 1),
         n = d * q + r
  PROVE  n \div d = q
<1>1. (d * q + r) \div d = q
  BY QuotientIs
<1> QED
  BY <1>1, Zenon

(* Dividing by a product is dividing twice: bytes from the right.          *)
LEMMA QuotientTwice ==
  ASSUME NEW n \in Nat, NEW a \in Nat \ {0}, NEW b \in Nat \ {0}
  PROVE  n \div (a * b) = (n \div a) \div b
<1> DEFINE m == n \div a
           q == m \div b
           r == a * (m % b) + (n % a)
<1>1. /\ m \in Nat /\ n = a * m + (n % a) /\ n % a \in 0..(a - 1)
  BY Division
<1> HIDE DEF m
<1>2. /\ q \in Nat /\ m = b * q + (m % b) /\ m % b \in 0..(b - 1)
  BY <1>1, Division
<1> HIDE DEF q
<1>3. a * b \in Nat \ {0}
  BY Products, ProductOrder
<1>4. r \in 0..(a * b - 1)
  <2>1. ((m % b) + 1) * a <= b * a
    BY <1>2, ProductOrder
  <2>2. ((m % b) + 1) * a = a * (m % b) + a /\ b * a = a * b
    BY <1>2
  <2>3. a * (m % b) \in Nat
    BY <1>2, Products
  <2> QED
    BY <2>1, <2>2, <2>3, <1>1, <1>3
<1>5. n = (a * b) * q + r
  <2>1. a * m = a * (b * q) + a * (m % b)
    BY <1>1, <1>2, Products
  <2>2. a * (b * q) = (a * b) * q
    BY <1>2
  <2>3. a * m \in Nat /\ a * (m % b) \in Nat /\ (a * b) * q \in Nat
    BY <1>1, <1>2, <1>3, Products
  <2> QED
    BY <1>1, <2>1, <2>2, <2>3
<1> HIDE DEF r
<1>6. q \in Nat
  BY <1>2
<1>7. n \div (a * b) = q
  <2> DEFINE d == a * b
  <2>1. /\ d \in Nat \ {0}
        /\ r \in 0..(d - 1)
        /\ n = d * q + r
    BY <1>3, <1>4, <1>5, Zenon
  <2> HIDE DEF d
  <2>2. n \div d = q
    BY <2>1, <1>6, QuotientOf
  <2> QED
    BY <2>2, Zenon DEF d
<1> QED
  BY <1>7, Zenon DEF q, m
(* Induction, for a set of numbers instead of a predicate on them.         *)
LEMMA Induction ==
  ASSUME NEW T \in SUBSET Nat, 0 \in T, \A n \in T : n + 1 \in T
  PROVE  T = Nat
<1> SUFFICES ASSUME T # Nat PROVE FALSE
  OBVIOUS
<1> DEFINE C == Nat \ T
           R == OpToRel(<, Nat)
<1>1. \E n \in C : \A m \in C : ~(<<m, n>> \in R)
  <2>1. C \subseteq Nat /\ C # {}
    OBVIOUS
  <2>2. IsWellFoundedOn(R, Nat)
    BY NatLessThanWellFounded
  <2> HIDE DEF C, R
  <2> QED
    BY <2>1, <2>2, WFMin, Zenon
<1>2. PICK n \in C : \A m \in C : ~(<<m, n>> \in R)
  BY <1>1
<1>3. \A m \in C : ~(m < n)
  BY <1>2 DEF OpToRel
<1>4. n - 1 \in Nat /\ n - 1 \notin C
  BY <1>3
<1> QED
  BY <1>4

-----------------------------------------------------------------------------
(* What lies where in a sequence *)

(* The part of ConcatProperties that types and lengths need.               *)
LEMMA ConcatLen ==
  ASSUME NEW S, NEW s \in Seq(S), NEW t \in Seq(S)
  PROVE  s \o t \in Seq(S) /\ Len(s \o t) = Len(s) + Len(t)
BY ConcatProperties

(* The sequence s is the part of f behind its first i elements.            *)
Lies(f, i, s) ==
  /\ i + Len(s) <= Len(f)
  /\ \A j \in 1..Len(s) : f[i + j] = s[j]

(* The parts of a sequence are read off it with SubSeq.                    *)
LEMMA LiesIsSubSeq ==
  ASSUME NEW S, NEW f \in Seq(S), NEW i \in Nat, NEW n \in Nat,
         i + n <= Len(f)
  PROVE  /\ SubSeq(f, i + 1, i + n) \in Seq(S)
         /\ Len(SubSeq(f, i + 1, i + n)) = n
         /\ Lies(f, i, SubSeq(f, i + 1, i + n))
<1> DEFINE s == SubSeq(f, i + 1, i + n)
<1>1. \A j \in (i + 1)..(i + n) : f[j] \in S
  OBVIOUS
<1>2. /\ s \in Seq(S)
      /\ Len(s) = IF i + 1 <= i + n THEN (i + n) - (i + 1) + 1 ELSE 0
      /\ \A j \in 1..((i + n) - (i + 1) + 1) : s[j] = f[(i + 1) + j - 1]
  BY <1>1, SubSeqProperties
<1> HIDE DEF s
<1>3. Len(s) = n
  BY <1>2
<1>4. ASSUME NEW j \in 1..n PROVE f[i + j] = s[j]
  <2>1. j \in 1..((i + n) - (i + 1) + 1) /\ (i + 1) + j - 1 = i + j
    OBVIOUS
  <2> QED
    BY <2>1, <1>2
<1>5. s \in Seq(S) /\ Len(s) = n /\ Lies(f, i, s)
  BY <1>2, <1>3, <1>4 DEF Lies
<1> QED
  BY <1>5 DEF s

(* Two sequences of one length that lie in one place are equal.            *)
LEMMA LiesOnce ==
  ASSUME NEW S, NEW f \in Seq(S), NEW s \in Seq(S), NEW t \in Seq(S),
         NEW i \in Nat, Lies(f, i, s), Lies(f, i, t), Len(s) = Len(t)
  PROVE  s = t
<1>1. \A j \in 1..Len(s) : s[j] = t[j]
  BY DEF Lies
<1> QED
  BY <1>1, SeqEqual

(* A concatenation lies where its halves lie one behind the other.         *)
LEMMA LiesConcat ==
  ASSUME NEW S, NEW f \in Seq(S), NEW s \in Seq(S), NEW t \in Seq(S),
         NEW i \in Nat
  PROVE  Lies(f, i, s \o t) <=> Lies(f, i, s) /\ Lies(f, i + Len(s), t)
<1> DEFINE u == s \o t
           m == Len(s)
           n == Len(t)
<1>1. /\ m \in Nat /\ n \in Nat /\ Len(u) = m + n /\ Len(f) \in Nat
      /\ \A j \in 1..(m + n) : u[j] = IF j <= m THEN s[j] ELSE t[j - m]
  BY ConcatProperties
<1> HIDE DEF u
<1>2. ASSUME Lies(f, i, u) PROVE Lies(f, i, s) /\ Lies(f, i + m, t)
  <2>1. \A j \in 1..m : f[i + j] = s[j]
    BY <1>1, <1>2 DEF Lies
  <2>2. ASSUME NEW j \in 1..n PROVE f[(i + m) + j] = t[j]
    <3>1. m + j \in 1..(m + n) /\ ~(m + j <= m) /\ (m + j) - m = j
          /\ i + (m + j) = (i + m) + j
      BY <1>1
    <3>2. f[i + (m + j)] = u[m + j]
      BY <3>1, <1>1, <1>2 DEF Lies
    <3> QED
      BY <3>1, <3>2, <1>1
  <2> QED
    BY <2>1, <2>2, <1>1, <1>2 DEF Lies
<1>3. ASSUME Lies(f, i, s), Lies(f, i + m, t) PROVE Lies(f, i, u)
  <2>1. ASSUME NEW j \in 1..(m + n) PROVE f[i + j] = u[j]
    <3>1. CASE j <= m
      <4>1. j \in 1..m /\ u[j] = s[j]
        BY <3>1, <1>1
      <4> QED
        BY <4>1, <1>3 DEF Lies
    <3>2. CASE ~(j <= m)
      <4>1. j - m \in 1..n /\ (i + m) + (j - m) = i + j
        BY <3>2, <1>1
      <4> QED
        BY <4>1, <3>2, <1>1, <1>3 DEF Lies
    <3> QED
      BY <3>1, <3>2
  <2> QED
    BY <2>1, <1>1, <1>3 DEF Lies
<1> QED
  BY <1>2, <1>3 DEF u

(* A part of a part.                                                       *)
LEMMA LiesWithin ==
  ASSUME NEW S, NEW f \in Seq(S), NEW s \in Seq(S), NEW t \in Seq(S),
         NEW i \in Nat, NEW j \in Nat, Lies(f, i, s), Lies(s, j, t)
  PROVE  Lies(f, i + j, t)
<1>1. Len(s) \in Nat /\ Len(t) \in Nat /\ Len(f) \in Nat
  OBVIOUS
<1>2. ASSUME NEW k \in 1..Len(t) PROVE f[(i + j) + k] = t[k]
  <2>1. j + k \in 1..Len(s) /\ i + (j + k) = (i + j) + k
    BY <1>1 DEF Lies
  <2> QED
    BY <2>1 DEF Lies
<1> QED
  BY <1>1, <1>2 DEF Lies

(* Concatenation associates.  The equation has a name so that a proof that *)
(* needs one instance does not carry the positions of three sequences      *)
(* along.                                                                  *)
Associates(s, t, u) == (s \o t) \o u = s \o (t \o u)

(* Any three sequences over one set do.                                    *)
LEMMA Associative ==
  ASSUME NEW S, NEW s \in Seq(S), NEW t \in Seq(S), NEW u \in Seq(S)
  PROVE  Associates(s, t, u)
  BY DEF Associates

-----------------------------------------------------------------------------
(* FlattenSeq *)

(* The equation of the function that FlattenSeq takes its value from.      *)
Flattens(q, f) ==
  \A i \in 1..Len(q) : f[i] = IF i = 1 THEN q[i] ELSE f[i - 1] \o q[i]

(* Such a function exists: it is built piece by piece.                     *)
LEMMA FlattenExists ==
  ASSUME NEW S, NEW q \in Seq(Seq(S))
  PROVE  \E f \in [1..Len(q) -> Seq(S)] : Flattens(q, f)
<1> DEFINE Piece(f, i) == IF i = 1 THEN q[i] ELSE f[i - 1] \o q[i]
           Built(n) == \E f \in [1..n -> Seq(S)] :
                         \A i \in 1..n : f[i] = Piece(f, i)
           T == {n \in Nat : n <= Len(q) => Built(n)}
<1>1. Len(q) \in Nat /\ \A i \in 1..Len(q) : q[i] \in Seq(S)
  OBVIOUS
<1>2. 0 \in T
  <2>1. Built(0)
    <3> WITNESS [i \in 1..0 |-> <<>>] \in [1..0 -> Seq(S)]
    <3> QED
      OBVIOUS
  <2> QED
    BY <2>1
<1>3. ASSUME NEW n \in T PROVE n + 1 \in T
  <2>1. SUFFICES ASSUME n + 1 <= Len(q) PROVE Built(n + 1)
    <3> HIDE DEF Built
    <3> QED
      OBVIOUS
  <2>2. Built(n)
    <3> HIDE DEF Built
    <3> QED
      BY <1>1, <2>1
  <2>3. PICK g \in [1..n -> Seq(S)] : \A i \in 1..n : g[i] = Piece(g, i)
    BY <2>2
  <2> DEFINE f == [i \in 1..(n + 1) |-> IF i = n + 1 THEN Piece(g, i) ELSE g[i]]
  <2>4. Piece(g, n + 1) \in Seq(S)
    <3>1. CASE n = 0
      BY <3>1, <1>1, <2>1
    <3>2. CASE n # 0
      <4>1. g[n] \in Seq(S) /\ q[n + 1] \in Seq(S) /\ (n + 1) - 1 = n
        BY <3>2, <1>1, <2>1
      <4>2. g[n] \o q[n + 1] \in Seq(S)
        BY <4>1, ConcatProperties
      <4> QED
        BY <3>2, <4>1, <4>2
    <3> QED
      BY <3>1, <3>2
  <2>5. f \in [1..(n + 1) -> Seq(S)]
    <3> HIDE DEF Piece
    <3> QED
      BY <2>4
  <2>6. ASSUME NEW i \in 1..(n + 1) PROVE f[i] = Piece(f, i)
    <3>1. i # 1 => f[i - 1] = g[i - 1]
      <4>1. i # 1 => i - 1 \in 1..(n + 1) /\ i - 1 # n + 1
        OBVIOUS
      <4> HIDE DEF Piece
      <4> QED
        BY <4>1
    <3>2. Piece(f, i) = Piece(g, i)
      <4> HIDE DEF f
      <4> QED
        BY <3>1, Zenon
    <3>3. f[i] = Piece(g, i)
      <4>1. CASE i = n + 1
        BY <4>1, Zenon
      <4>2. CASE i # n + 1
        <5>1. i \in 1..n /\ f[i] = g[i]
          BY <4>2
        <5> QED
          BY <5>1, <2>3, Zenon
      <4> QED
        BY <4>1, <4>2
    <3> QED
      BY <3>2, <3>3
  <2> HIDE DEF f, Piece
  <2> QED
    BY <2>5, <2>6
<1>4. Len(q) \in T
  <2>1. T = Nat
    <3>1. T \in SUBSET Nat /\ \A n \in T : n + 1 \in T
      BY <1>3
    <3> HIDE DEF T
    <3> QED
      BY <1>2, <3>1, Induction
  <2> QED
    BY <1>1, <2>1
<1> QED
  BY <1>1, <1>4 DEF Flattens

(* And it is determined by its equation.                                   *)
LEMMA FlattenUnique ==
  ASSUME NEW q, Len(q) \in Nat, NEW f, NEW g, Flattens(q, f), Flattens(q, g)
  PROVE  \A i \in 1..Len(q) : f[i] = g[i]
<1> DEFINE T == {n \in Nat : n + 1 <= Len(q) => f[n + 1] = g[n + 1]}
<1>1. 0 \in T
  BY DEF Flattens
<1>2. ASSUME NEW n \in T PROVE n + 1 \in T
  <2>1. SUFFICES ASSUME (n + 1) + 1 <= Len(q)
                 PROVE  f[(n + 1) + 1] = g[(n + 1) + 1]
    OBVIOUS
  <2>2. f[n + 1] = g[n + 1]
    BY <2>1
  <2>3. /\ f[(n + 1) + 1] = f[n + 1] \o q[(n + 1) + 1]
        /\ g[(n + 1) + 1] = g[n + 1] \o q[(n + 1) + 1]
    <3>1. /\ (n + 1) + 1 \in 1..Len(q)
          /\ (n + 1) + 1 # 1
          /\ ((n + 1) + 1) - 1 = n + 1
      BY <2>1
    <3> QED
      BY <3>1, Zenon DEF Flattens
  <2> QED
    BY <2>2, <2>3
<1>3. T = Nat
  <2>1. T \in SUBSET Nat /\ \A n \in T : n + 1 \in T
    BY <1>2
  <2> HIDE DEF T
  <2> QED
    BY <1>1, <2>1, Induction
<1>4. ASSUME NEW i \in 1..Len(q) PROVE f[i] = g[i]
  <2>1. i - 1 \in Nat /\ (i - 1) + 1 = i /\ i <= Len(q)
    OBVIOUS
  <2>2. i - 1 \in T
    BY <1>3, <2>1, Zenon
  <2> QED
    BY <2>1, <2>2
<1> QED
  BY <1>4

(* FlattenSeq is the last value of any function with that equation.        *)
LEMMA FlattenIs ==
  ASSUME NEW S, NEW q \in Seq(Seq(S)), Len(q) # 0, NEW f, Flattens(q, f)
  PROVE  FlattenSeq(q) = f[Len(q)]
<1> DEFINE Eq(g) == g = [i \in 1..Len(q) |->
                           IF i = 1 THEN q[i] ELSE g[i - 1] \o q[i]]
           h == CHOOSE g : Eq(g)
<1>1. FlattenSeq(q) = h[Len(q)]
  BY DEF FlattenSeq
<1>2. \E g : Eq(g)
  <2>1. PICK g \in [1..Len(q) -> Seq(S)] : Flattens(q, g)
    BY FlattenExists
  <2>2. Eq(g)
    BY <2>1 DEF Flattens
  <2> QED
    BY <2>2
<1>3. Eq(h)
  <2> HIDE DEF Eq
  <2> QED
    BY <1>2
<1>4. Flattens(q, h)
  <2> HIDE DEF h
  <2> QED
    BY <1>3 DEF Flattens
<1>5. Len(q) \in Nat
  OBVIOUS
<1> HIDE DEF h
<1>6. \A i \in 1..Len(q) : h[i] = f[i]
  BY <1>4, <1>5, FlattenUnique
<1> QED
  BY <1>1, <1>5, <1>6

(* The first i pieces of q.                                                *)
Flat(q, i) == FlattenSeq(SubSeq(q, 1, i))

(* The first elements of a sequence.                                       *)
LEMMA FirstElements ==
  ASSUME NEW S, NEW q \in Seq(S), NEW n \in 0..Len(q)
  PROVE  /\ SubSeq(q, 1, n) \in Seq(S)
         /\ Len(SubSeq(q, 1, n)) = n
         /\ \A i \in 1..n : SubSeq(q, 1, n)[i] = q[i]
<1>1. n \in Nat /\ 0 + n <= Len(q)
  OBVIOUS
<1>2. /\ SubSeq(q, 0 + 1, 0 + n) \in Seq(S)
      /\ Len(SubSeq(q, 0 + 1, 0 + n)) = n
      /\ Lies(q, 0, SubSeq(q, 0 + 1, 0 + n))
  BY <1>1, LiesIsSubSeq
<1>3. 0 + 1 = 1 /\ 0 + n = n /\ \A i \in 1..n : 0 + i = i
  OBVIOUS
<1> QED
  BY <1>2, <1>3 DEF Lies

(* FlattenSeq piece by piece.                                              *)
LEMMA Pieces ==
  ASSUME NEW S, NEW q \in Seq(Seq(S))
  PROVE  /\ FlattenSeq(q) \in Seq(S)
         /\ Flat(q, 0) = <<>>
         /\ Flat(q, Len(q)) = FlattenSeq(q)
         /\ \A i \in 0..Len(q) : Flat(q, i) \in Seq(S)
         /\ \A i \in 0..(Len(q) - 1) : Flat(q, i + 1) = Flat(q, i) \o q[i + 1]
<1>1. Len(q) \in Nat /\ \A i \in 1..Len(q) : q[i] \in Seq(S)
  OBVIOUS
<1>2. PICK f \in [1..Len(q) -> Seq(S)] : Flattens(q, f)
  BY FlattenExists
<1>3. ASSUME NEW i \in 1..Len(q) PROVE Flat(q, i) = f[i]
  <2> DEFINE p == SubSeq(q, 1, i)
  <2>1. p \in Seq(Seq(S)) /\ Len(p) = i /\ \A j \in 1..i : p[j] = q[j]
    BY FirstElements
  <2> HIDE DEF p
  <2>2. Flattens(p, f)
    <3>1. ASSUME NEW j \in 1..i
          PROVE  f[j] = IF j = 1 THEN p[j] ELSE f[j - 1] \o p[j]
      <4>1. j \in 1..Len(q) /\ p[j] = q[j]
        BY <1>1, <2>1
      <4> QED
        BY <4>1, <1>2, Zenon DEF Flattens
    <3> QED
      BY <3>1, <2>1 DEF Flattens
  <2>3. FlattenSeq(p) = f[Len(p)]
    BY <2>1, <2>2, FlattenIs
  <2> QED
    BY <2>1, <2>3 DEF Flat, p
<1>4. Flat(q, 0) = <<>>
  <2>1. SubSeq(q, 1, 0) = <<>>
    BY SubSeqEmpty
  <2> QED
    BY <2>1 DEF Flat, FlattenSeq
<1>5. Flat(q, Len(q)) = FlattenSeq(q)
  <2>1. SubSeq(q, 1, Len(q)) = q
    BY SubSeqFull
  <2> QED
    BY <2>1 DEF Flat
<1>6. ASSUME NEW i \in 0..Len(q) PROVE Flat(q, i) \in Seq(S)
  <2>1. CASE i = 0
    <3>1. <<>> \in Seq(S)
      BY EmptySeq
    <3> QED
      BY <2>1, <3>1, <1>4
  <2>2. CASE i # 0
    <3>1. i \in 1..Len(q)
      BY <2>2, <1>1
    <3>2. Flat(q, i) = f[i] /\ f[i] \in Seq(S)
      BY <3>1, <1>2, <1>3
    <3> QED
      BY <3>2
  <2> QED
    BY <2>1, <2>2
<1>7. ASSUME NEW i \in 0..(Len(q) - 1)
      PROVE  Flat(q, i + 1) = Flat(q, i) \o q[i + 1]
  <2>1. i + 1 \in 1..Len(q) /\ (i + 1) - 1 = i /\ (i + 1 = 1 <=> i = 0)
    BY <1>1
  <2>2. Flat(q, i + 1) = f[i + 1]
    BY <2>1, <1>3
  <2>3. f[i + 1] = IF i = 0 THEN q[i + 1] ELSE f[i] \o q[i + 1]
    BY <2>1, <1>2, Zenon DEF Flattens
  <2>4. CASE i = 0
    <3>1. Flat(q, i) \o q[i + 1] = q[i + 1]
      BY <2>4, <2>1, <1>1, <1>4, ConcatEmptySeq
    <3> QED
      BY <3>1, <2>2, <2>3, <2>4
  <2>5. CASE i # 0
    <3>1. Flat(q, i) = f[i]
      BY <2>5, <1>1, <1>3
    <3> QED
      BY <3>1, <2>2, <2>3, <2>5
  <2> QED
    BY <2>4, <2>5
<1>8. Flat(q, Len(q)) \in Seq(S)
  BY <1>1, <1>6
<1> QED
  BY <1>4, <1>5, <1>6, <1>7, <1>8

(* Each piece lies behind those before it.                                 *)
LEMMA PiecesLie ==
  ASSUME NEW S, NEW q \in Seq(Seq(S))
  PROVE  /\ \A i \in 0..Len(q) : Lies(FlattenSeq(q), 0, Flat(q, i))
         /\ \A i \in 0..(Len(q) - 1) :
              Lies(FlattenSeq(q), Len(Flat(q, i)), q[i + 1])
<1> DEFINE w == FlattenSeq(q)
           T == {n \in Nat : n <= Len(q) => Lies(w, 0, Flat(q, Len(q) - n))}
<1>1. /\ Len(q) \in Nat
      /\ w \in Seq(S)
      /\ \A i \in 1..Len(q) : q[i] \in Seq(S)
      /\ \A i \in 0..Len(q) : Flat(q, i) \in Seq(S)
  BY Pieces
<1>2. ASSUME NEW i \in 0..(Len(q) - 1), Lies(w, 0, Flat(q, i + 1))
      PROVE  Lies(w, 0, Flat(q, i)) /\ Lies(w, Len(Flat(q, i)), q[i + 1])
  <2>1. /\ Flat(q, i + 1) = Flat(q, i) \o q[i + 1]
        /\ Flat(q, i) \in Seq(S) /\ q[i + 1] \in Seq(S)
    <3>1. i \in 0..Len(q) /\ i + 1 \in 1..Len(q)
      BY <1>1
    <3>2. Flat(q, i + 1) = Flat(q, i) \o q[i + 1]
      BY Pieces
    <3> QED
      BY <1>1, <3>1, <3>2, Zenon
  <2>2. Lies(w, 0, Flat(q, i) \o q[i + 1])
    BY <1>2, <2>1
  <2>3. Lies(w, 0, Flat(q, i)) /\ Lies(w, 0 + Len(Flat(q, i)), q[i + 1])
    <3> DEFINE x == Flat(q, i)
               y == q[i + 1]
    <3>1. w \in Seq(S) /\ x \in Seq(S) /\ y \in Seq(S) /\ Lies(w, 0, x \o y)
      BY <1>1, <2>1, <2>2
    <3> HIDE DEF w, x, y
    <3>2. Lies(w, 0, x) /\ Lies(w, 0 + Len(x), y)
      BY <3>1, LiesConcat
    <3> QED
      BY <3>2 DEF x, y
  <2>4. Len(Flat(q, i)) \in Nat
    BY <2>1
  <2>5. 0 + Len(Flat(q, i)) = Len(Flat(q, i))
    <3> DEFINE n == Len(Flat(q, i))
    <3>1. n \in Nat
      BY <2>4
    <3> HIDE DEF n
    <3>2. 0 + n = n
      BY <3>1
    <3> QED
      BY <3>2 DEF n
  <2> QED
    BY <2>3, <2>5
<1>3. 0 \in T
  <2>1. Len(q) - 0 = Len(q) /\ Len(w) \in Nat /\ \A j \in 1..Len(w) : 0 + j = j
    BY <1>1
  <2>2. Flat(q, Len(q)) = w
    BY Pieces
  <2>3. Lies(w, 0, w)
    <3> HIDE DEF w
    <3> QED
      BY <2>1 DEF Lies
  <2>4. Lies(w, 0, Flat(q, Len(q) - 0))
    BY <2>1, <2>2, <2>3
  <2> QED
    BY <2>4
<1>4. ASSUME NEW n \in T PROVE n + 1 \in T
  <2>1. SUFFICES ASSUME n + 1 <= Len(q)
                 PROVE  Lies(w, 0, Flat(q, Len(q) - (n + 1)))
    <3> HIDE DEF w
    <3> QED
      OBVIOUS
  <2>2. Lies(w, 0, Flat(q, Len(q) - n))
    <3> HIDE DEF w
    <3> QED
      BY <2>1, <1>1
  <2>3. /\ Len(q) - (n + 1) \in 0..(Len(q) - 1)
        /\ (Len(q) - (n + 1)) + 1 = Len(q) - n
    BY <2>1, <1>1
  <2>4. Lies(w, 0, Flat(q, (Len(q) - (n + 1)) + 1))
    BY <2>2, <2>3
  <2> HIDE DEF w
  <2> QED
    BY <2>3, <2>4, <1>2
<1>5. T = Nat
  <2>1. T \in SUBSET Nat /\ \A n \in T : n + 1 \in T
    BY <1>4
  <2> HIDE DEF T
  <2> QED
    BY <1>3, <2>1, Induction
<1>6. ASSUME NEW i \in 0..Len(q) PROVE Lies(w, 0, Flat(q, i))
  <2>1. /\ Len(q) - i \in Nat
        /\ Len(q) - i <= Len(q)
        /\ Len(q) - (Len(q) - i) = i
    BY <1>1
  <2>2. Len(q) - i \in T
    BY <1>5, <2>1, Zenon
  <2>3. Lies(w, 0, Flat(q, Len(q) - (Len(q) - i)))
    <3> HIDE DEF w
    <3> QED
      BY <2>1, <2>2
  <2> QED
    BY <2>1, <2>3
<1>7. ASSUME NEW i \in 0..(Len(q) - 1)
      PROVE  Lies(w, Len(Flat(q, i)), q[i + 1])
  <2>1. i + 1 \in 0..Len(q)
    BY <1>1
  <2> HIDE DEF w
  <2> QED
    BY <2>1, <1>2, <1>6
<1> QED
  BY <1>6, <1>7

(* The first pieces are not affected by what comes behind them.            *)
LEMMA FlatOfPrefix ==
  ASSUME NEW S, NEW q \in Seq(S), NEW r \in Seq(S),
         NEW i \in Nat, i <= Len(q), i <= Len(r),
         \A j \in 1..i : q[j] = r[j]
  PROVE  Flat(q, i) = Flat(r, i)
<1>1. i \in 0..Len(q) /\ i \in 0..Len(r)
  OBVIOUS
<1>2. /\ SubSeq(q, 1, i) \in Seq(S) /\ Len(SubSeq(q, 1, i)) = i
      /\ SubSeq(r, 1, i) \in Seq(S) /\ Len(SubSeq(r, 1, i)) = i
      /\ \A j \in 1..i : SubSeq(q, 1, i)[j] = SubSeq(r, 1, i)[j]
  BY <1>1, FirstElements
<1>3. SubSeq(q, 1, i) = SubSeq(r, 1, i)
  BY <1>2, SeqEqual
<1> QED
  BY <1>3 DEF Flat

(* One more piece at the end.                                              *)
LEMMA FlattenAppend ==
  ASSUME NEW S, NEW q \in Seq(Seq(S)), NEW x \in Seq(S)
  PROVE  FlattenSeq(Append(q, x)) = FlattenSeq(q) \o x
<1> DEFINE r == Append(q, x)
           l == Len(q)
<1>1. /\ l \in Nat
      /\ r \in Seq(Seq(S))
      /\ Len(r) = l + 1
      /\ \A i \in 1..l : r[i] = q[i]
      /\ r[l + 1] = x
  BY AppendProperties
<1> HIDE DEF r
<1>2. Flat(q, l) = Flat(r, l)
  <2>1. l <= Len(q) /\ l <= Len(r)
    BY <1>1
  <2>2. \A i \in 1..l : q[i] = r[i]
    BY <1>1, Zenon
  <2> HIDE DEF l
  <2> QED
    BY <1>1, <2>1, <2>2, FlatOfPrefix
<1>3. Flat(q, l) = FlattenSeq(q)
  BY Pieces
<1>4. r \in Seq(Seq(S)) /\ Len(r) = l + 1 /\ l \in 0..(Len(r) - 1)
  BY <1>1
<1> HIDE DEF l
<1>5. Flat(r, Len(r)) = FlattenSeq(r)
  BY <1>4, Pieces
<1>6. Flat(r, l + 1) = Flat(r, l) \o r[l + 1]
  BY <1>4, Pieces
<1>7. FlattenSeq(r) = Flat(q, l) \o x
  BY <1>1, <1>2, <1>4, <1>5, <1>6
<1> QED
  BY <1>3, <1>7 DEF r, l


(* Two lists that differ from piece j on.                                  *)
LEMMA PiecesAgree ==
  ASSUME NEW S, NEW p \in Seq(Seq(S)), NEW q \in Seq(Seq(S)),
         NEW j \in 1..Len(p), j <= Len(q),
         \A i \in 1..(j - 1) : p[i] = q[i]
  PROVE  /\ Flat(p, j - 1) = Flat(q, j - 1)
         /\ Flat(p, j) = Flat(q, j - 1) \o p[j]
<1>1. /\ j - 1 \in Nat /\ j - 1 <= Len(p) /\ j - 1 <= Len(q)
      /\ j - 1 \in 0..(Len(p) - 1) /\ (j - 1) + 1 = j
  OBVIOUS
<1>2. Flat(p, j - 1) = Flat(q, j - 1)
  <2> DEFINE T == Seq(S)
  <2>1. p \in Seq(T) /\ q \in Seq(T)
    OBVIOUS
  <2> HIDE DEF T
  <2> QED
    BY <1>1, <2>1, FlatOfPrefix
<1>3. Flat(p, (j - 1) + 1) = Flat(p, j - 1) \o p[(j - 1) + 1]
  BY <1>1, Pieces
<1> QED
  BY <1>1, <1>2, <1>3

(* A sequence around one of its elements, and around a gap.                *)
LEMMA Around ==
  ASSUME NEW S, NEW s \in Seq(S)
  PROVE  /\ \A i \in 1..(Len(s) + 1) :
              /\ SubSeq(s, 1, i - 1) \in Seq(S)
              /\ SubSeq(s, i, Len(s)) \in Seq(S)
              /\ s = SubSeq(s, 1, i - 1) \o SubSeq(s, i, Len(s))
         /\ \A i \in 1..Len(s) :
              /\ s[i] \in S
              /\ SubSeq(s, i + 1, Len(s)) \in Seq(S)
              /\ SubSeq(s, i, Len(s)) = <<s[i]>> \o SubSeq(s, i + 1, Len(s))
<1>1. Len(s) \in Nat /\ \A i \in 1..Len(s) : s[i] \in S
  OBVIOUS
<1>2. ASSUME NEW i \in 1..(Len(s) + 1)
      PROVE  /\ SubSeq(s, 1, i - 1) \in Seq(S)
             /\ SubSeq(s, i, Len(s)) \in Seq(S)
             /\ s = SubSeq(s, 1, i - 1) \o SubSeq(s, i, Len(s))
  <2>1. SubSeq(s, 1, i - 1) \in Seq(S)
    <3>1. /\ 1 \in Int /\ i - 1 \in Int /\ \A j \in 1..(i - 1) : s[j] \in S
      BY <1>1
    <3> QED
      BY <3>1, SubSeqProperties
  <2>2. SubSeq(s, i, Len(s)) \in Seq(S)
    <3>1. /\ i \in Int /\ Len(s) \in Int /\ \A j \in i..Len(s) : s[j] \in S
      BY <1>1
    <3> QED
      BY <3>1, SubSeqProperties
  <2>3. SubSeq(s, 1, i - 1) \o SubSeq(s, i, Len(s)) = SubSeq(s, 1, Len(s))
    <3> DEFINE k == i - 1
    <3>1. /\ k + 1 = i /\ 1 \in 1..(Len(s) + 1) /\ k \in (1 - 1)..Len(s)
          /\ Len(s) \in k..Len(s)
      BY <1>1
    <3> HIDE DEF k
    <3>2. SubSeq(s, 1, k) \o SubSeq(s, k + 1, Len(s)) = SubSeq(s, 1, Len(s))
      BY <3>1, ConcatAdjacentSubSeq
    <3> QED
      BY <3>1, <3>2 DEF k
  <2>4. SubSeq(s, 1, Len(s)) = s
    BY SubSeqFull
  <2> QED
    BY <2>1, <2>2, <2>3, <2>4
<1>3. ASSUME NEW i \in 1..Len(s)
      PROVE  /\ s[i] \in S
             /\ SubSeq(s, i + 1, Len(s)) \in Seq(S)
             /\ SubSeq(s, i, Len(s)) = <<s[i]>> \o SubSeq(s, i + 1, Len(s))
  <2>1. i + 1 \in 1..(Len(s) + 1) /\ Len(s) \in i..Len(s)
    BY <1>1
  <2> QED
    BY <1>1, <1>2, <2>1, SubSeqRecursiveFirst
<1> QED
  BY <1>2, <1>3

(* Induction over sequences, for a set of them.                            *)
LEMMA SeqInduction ==
  ASSUME NEW S, NEW T \in SUBSET Seq(S), <<>> \in T,
         \A s \in T, e \in S : Append(s, e) \in T
  PROVE  T = Seq(S)
<1> DEFINE N == {n \in Nat : \A s \in Seq(S) : Len(s) = n => s \in T}
<1>1. 0 \in N
  BY EmptySeq
<1>2. ASSUME NEW n \in N PROVE n + 1 \in N
  <2>1. SUFFICES ASSUME NEW s \in Seq(S), Len(s) = n + 1 PROVE s \in T
    OBVIOUS
  <2>2. PICK t \in Seq(S), e \in S : s = Append(t, e)
    <3>1. s # <<>>
      BY <2>1, EmptySeq
    <3> QED
      BY <3>1, SequenceEmptyOrAppend
  <2>3. Len(t) = n
    <3>1. Len(s) = Len(t) + 1 /\ Len(t) \in Nat /\ n \in Nat
      BY <2>2, AppendProperties
    <3> QED
      BY <2>1, <3>1
  <2>4. t \in T
    BY <2>2, <2>3
  <2> QED
    BY <2>2, <2>4
<1>3. N = Nat
  <2>1. N \in SUBSET Nat /\ \A n \in N : n + 1 \in N
    BY <1>2
  <2> HIDE DEF N
  <2> QED
    BY <1>1, <2>1, Induction
<1>4. ASSUME NEW s \in Seq(S) PROVE s \in T
  <2>1. Len(s) \in Nat
    OBVIOUS
  <2>2. Len(s) \in N
    BY <1>3, <2>1, Zenon
  <2> QED
    BY <2>2
<1> QED
  BY <1>4

(* A sequence that is another one and an element more.                     *)
LEMMA SeqIsAppend ==
  ASSUME NEW S, NEW s \in Seq(S), NEW e \in S, NEW t \in Seq(S),
         Len(t) = Len(s) + 1, \A i \in 1..Len(s) : t[i] = s[i],
         t[Len(s) + 1] = e
  PROVE  t = Append(s, e)
<1>1. /\ Append(s, e) \in Seq(S)
      /\ Len(Append(s, e)) = Len(s) + 1
      /\ \A i \in 1..Len(s) : Append(s, e)[i] = s[i]
      /\ Append(s, e)[Len(s) + 1] = e
  BY AppendProperties
<1>2. \A i \in 1..Len(t) : i \in 1..Len(s) \/ i = Len(s) + 1
  OBVIOUS
<1>3. \A i \in 1..Len(t) : t[i] = Append(s, e)[i]
  BY <1>1, <1>2
<1> QED
  BY <1>1, <1>3, SeqEqual

(* No pieces, and a single one.                                            *)
LEMMA FlattenFew ==
  /\ FlattenSeq(<<>>) = <<>>
  /\ \A S : \A x \in Seq(S) : FlattenSeq(<<x>>) = x
<1>1. FlattenSeq(<<>>) = <<>>
  BY EmptySeq DEF FlattenSeq
<1>2. ASSUME NEW S, NEW x \in Seq(S) PROVE FlattenSeq(<<x>>) = x
  <2>1. <<>> \in Seq(Seq(S)) /\ Append(<<>>, x) = <<x>>
    OBVIOUS
  <2>2. FlattenSeq(Append(<<>>, x)) = FlattenSeq(<<>>) \o x
    BY <2>1, FlattenAppend
  <2>3. <<>> \o x = x
    BY ConcatEmptySeq
  <2> QED
    BY <1>1, <2>1, <2>2, <2>3
<1> QED
  BY <1>1, <1>2

(* The pieces of a concatenation.                                          *)
LEMMA FlattenConcat ==
  ASSUME NEW S, NEW p \in Seq(Seq(S)), NEW q \in Seq(Seq(S))
  PROVE  FlattenSeq(p \o q) = FlattenSeq(p) \o FlattenSeq(q)
<1> DEFINE U == Seq(S)
           T == {r \in Seq(U) :
                   FlattenSeq(p \o r) = FlattenSeq(p) \o FlattenSeq(r)}
<1>1. <<>> \in T
  <2>1. FlattenSeq(p) \in Seq(S) /\ p \o <<>> = p /\ <<>> \in Seq(U)
    BY Pieces, ConcatEmptySeq, EmptySeq
  <2>2. FlattenSeq(p) \o <<>> = FlattenSeq(p)
    BY <2>1, ConcatEmptySeq
  <2> QED
    BY <2>1, <2>2, FlattenFew
<1>2. ASSUME NEW r \in T, NEW x \in U PROVE Append(r, x) \in T
  <2>1. /\ r \in Seq(U) /\ p \in Seq(U) /\ x \in Seq(S)
        /\ FlattenSeq(p \o r) = FlattenSeq(p) \o FlattenSeq(r)
    OBVIOUS
  <2>2. Append(r, x) \in Seq(U) /\ p \o r \in Seq(U)
    BY <2>1, AppendProperties, ConcatProperties
  <2>3. p \o Append(r, x) = Append(p \o r, x)
    <3> HIDE DEF T, U
    <3>1. <<x>> \in Seq(U) /\ Append(r, x) = r \o <<x>>
          /\ Append(p \o r, x) = (p \o r) \o <<x>>
      BY <2>1, <2>2, AppendIsConcat
    <3> DEFINE y == <<x>>
    <3> HIDE DEF y
    <3>2. y \in Seq(U)
      BY <3>1 DEF y
    <3>3. Associates(p, r, y)
      BY <2>1, <3>2, Associative
    <3> QED
      BY <3>1, <3>3 DEF y, Associates
  <2>4. FlattenSeq(Append(p \o r, x)) = FlattenSeq(p \o r) \o x
    BY <2>1, <2>2, FlattenAppend
  <2>5. FlattenSeq(Append(r, x)) = FlattenSeq(r) \o x
    BY <2>1, FlattenAppend
  <2>6. (FlattenSeq(p) \o FlattenSeq(r)) \o x
           = FlattenSeq(p) \o (FlattenSeq(r) \o x)
    <3> DEFINE v == FlattenSeq(p)
               w == FlattenSeq(r)
    <3> HIDE DEF T
    <3>1. v \in Seq(S) /\ w \in Seq(S) /\ x \in Seq(S)
      BY <2>1, Pieces
    <3> HIDE DEF U, v, w
    <3>2. Associates(v, w, x)
      BY <3>1, Associative
    <3> QED
      BY <3>2 DEF v, w, Associates
  <2> QED
    BY <2>1, <2>2, <2>3, <2>4, <2>5, <2>6
<1>3. T = Seq(U)
  <2>1. T \in SUBSET Seq(U) /\ \A r \in T, x \in U : Append(r, x) \in T
    BY <1>2
  <2> HIDE DEF T, U
  <2> QED
    BY <1>1, <2>1, SeqInduction
<1> QED
  BY <1>3

(* Pieces of one element each.                                             *)
LEMMA FlattenSingles ==
  ASSUME NEW S, NEW s \in Seq(S)
  PROVE  FlattenSeq([i \in DOMAIN s |-> <<s[i]>>]) = s
<1> DEFINE Q(t) == [i \in DOMAIN t |-> <<t[i]>>]
           T == {t \in Seq(S) : FlattenSeq(Q(t)) = t}
<1>0. ASSUME NEW t \in Seq(S)
      PROVE  /\ Q(t) \in Seq(Seq(S)) /\ Len(Q(t)) = Len(t)
             /\ \A i \in 1..Len(t) : Q(t)[i] = <<t[i]>>
  <2>1. /\ Len(t) \in Nat /\ DOMAIN t = 1..Len(t)
        /\ \A i \in 1..Len(t) : <<t[i]>> \in Seq(S)
    OBVIOUS
  <2>2. Q(t) \in [1..Len(t) -> Seq(S)]
    BY <2>1
  <2> QED
    BY <2>1, <2>2
<1>1. <<>> \in T
  <2>1. Q(<<>>) = <<>>
    OBVIOUS
  <2> QED
    BY <2>1, FlattenFew, EmptySeq
<1>2. ASSUME NEW t \in T, NEW x \in S PROVE Append(t, x) \in T
  <2>1. t \in Seq(S) /\ FlattenSeq(Q(t)) = t /\ <<x>> \in Seq(S)
    OBVIOUS
  <2>2. Q(t) \in Seq(Seq(S)) /\ Q(Append(t, x)) = Append(Q(t), <<x>>)
    <3> DEFINE a == Append(t, x)
    <3>1. /\ a \in Seq(S) /\ Len(a) = Len(t) + 1 /\ Len(t) \in Nat
          /\ \A i \in 1..Len(t) : a[i] = t[i]
          /\ a[Len(t) + 1] = x
      BY <2>1, AppendProperties
    <3> HIDE DEF a
    <3>2. /\ Q(t) \in Seq(Seq(S)) /\ Len(Q(t)) = Len(t)
          /\ \A i \in 1..Len(t) : Q(t)[i] = <<t[i]>>
      BY <1>0, <2>1
    <3>3. /\ Q(a) \in Seq(Seq(S)) /\ Len(Q(a)) = Len(a)
          /\ \A i \in 1..Len(a) : Q(a)[i] = <<a[i]>>
      BY <1>0, <3>1
    <3> DEFINE U == Seq(S)
               p == Q(t)
               q == Q(a)
    <3>4. /\ p \in Seq(U) /\ q \in Seq(U) /\ <<x>> \in U
          /\ Len(q) = Len(p) + 1
          /\ \A i \in 1..Len(p) : q[i] = p[i]
          /\ q[Len(p) + 1] = <<x>>
      <4> HIDE DEF Q
      <4>1. Len(q) = Len(p) + 1
        BY <3>1, <3>2, <3>3
      <4>2. \A i \in 1..Len(p) : q[i] = p[i]
        <5>1. \A i \in 1..Len(t) : i \in 1..Len(a)
          BY <3>1
        <5> QED
          BY <5>1, <3>1, <3>2, <3>3
      <4>3. q[Len(p) + 1] = <<x>>
        <5>1. Len(t) + 1 \in 1..Len(a)
          BY <3>1
        <5> QED
          BY <5>1, <3>1, <3>2, <3>3
      <4> QED
        BY <2>1, <3>2, <3>3, <4>1, <4>2, <4>3, Zenon
    <3> HIDE DEF p, q, U
    <3>5. q = Append(p, <<x>>)
      BY <3>4, SeqIsAppend
    <3> QED
      BY <3>2, <3>5 DEF a, p, q
  <2>3. FlattenSeq(Append(Q(t), <<x>>)) = FlattenSeq(Q(t)) \o <<x>>
    <3> HIDE DEF Q
    <3> QED
      BY <2>1, <2>2, FlattenAppend
  <2>4. Append(t, x) \in Seq(S) /\ Append(t, x) = t \o <<x>>
    BY <2>1, AppendIsConcat, AppendProperties
  <2> HIDE DEF Q
  <2> QED
    BY <2>1, <2>2, <2>3, <2>4
<1>3. T = Seq(S)
  <2>1. T \in SUBSET Seq(S) /\ \A t \in T, x \in S : Append(t, x) \in T
    BY <1>2
  <2> HIDE DEF T
  <2> QED
    BY <1>1, <2>1, SeqInduction
<1> QED
  BY <1>3

(* Every element of s replaced by the sequence g has for it.               *)
Expand(g, s) == FlattenSeq([i \in DOMAIN s |-> g[s[i]]])

(* Nothing expands to nothing.                                             *)
LEMMA ExpandEmpty == \A g : Expand(g, <<>>) = <<>>
<1>1. \A g : [i \in DOMAIN <<>> |-> g[<<>>[i]]] = <<>>
  OBVIOUS
<1> QED
  BY <1>1, FlattenFew DEF Expand

(* An expansion is a sequence.                                             *)
LEMMA ExpandType ==
  ASSUME NEW S, NEW A, NEW g \in [S -> Seq(A)], NEW s \in Seq(S)
  PROVE  Expand(g, s) \in Seq(A)
<1> DEFINE Q == [i \in DOMAIN s |-> g[s[i]]]
<1>1. Q \in Seq(Seq(A))
  <2> DEFINE U == Seq(A)
  <2>1. g \in [S -> U] /\ Len(s) \in Nat /\ DOMAIN s = 1..Len(s)
        /\ \A i \in 1..Len(s) : s[i] \in S
    OBVIOUS
  <2> HIDE DEF U
  <2>2. Q \in [1..Len(s) -> U]
    BY <2>1
  <2>3. Q \in Seq(U)
    BY <2>1, <2>2
  <2> QED
    BY <2>3 DEF U
<1> HIDE DEF Q
<1>2. FlattenSeq(Q) \in Seq(A)
  BY <1>1, Pieces
<1> QED
  BY <1>2 DEF Expand, Q

(* An expansion element by element.                                        *)
LEMMA ExpandAppend ==
  ASSUME NEW S, NEW A, NEW g \in [S -> Seq(A)], NEW s \in Seq(S), NEW e \in S
  PROVE  Expand(g, Append(s, e)) = Expand(g, s) \o g[e]
<1> DEFINE U == Seq(A)
<1>0. g \in [S -> U]
  OBVIOUS
<1> HIDE DEF U
<1> DEFINE Q(t) == [i \in DOMAIN t |-> g[t[i]]]
<1>1. ASSUME NEW t \in Seq(S)
      PROVE  /\ Q(t) \in Seq(U) /\ Len(Q(t)) = Len(t)
             /\ \A i \in 1..Len(t) : Q(t)[i] = g[t[i]]
  <2>1. /\ Len(t) \in Nat /\ DOMAIN t = 1..Len(t)
        /\ \A i \in 1..Len(t) : t[i] \in S
    OBVIOUS
  <2>2. Q(t) \in [1..Len(t) -> U]
    BY <1>0, <2>1
  <2> QED
    BY <2>1, <2>2
<1>2. Q(Append(s, e)) = Append(Q(s), g[e])
  <2> DEFINE a == Append(s, e)
             p == Q(s)
             q == Q(a)
             x == g[e]
  <2>1. /\ a \in Seq(S) /\ Len(a) = Len(s) + 1 /\ Len(s) \in Nat
        /\ \A i \in 1..Len(s) : a[i] = s[i]
        /\ a[Len(s) + 1] = e
    BY AppendProperties
  <2> HIDE DEF a
  <2>2. /\ p \in Seq(U) /\ Len(p) = Len(s)
        /\ \A i \in 1..Len(s) : p[i] = g[s[i]]
    BY <1>1
  <2>3. /\ q \in Seq(U) /\ Len(q) = Len(a)
        /\ \A i \in 1..Len(a) : q[i] = g[a[i]]
    BY <1>1, <2>1
  <2>4. x \in U
    BY <1>0
  <2> HIDE DEF p, q, x
  <2>5. Len(q) = Len(p) + 1
    BY <2>1, <2>2, <2>3
  <2>6. \A i \in 1..Len(p) : q[i] = p[i]
    <3>1. \A i \in 1..Len(s) : i \in 1..Len(a)
      BY <2>1
    <3> QED
      BY <3>1, <2>1, <2>2, <2>3
  <2>7. q[Len(p) + 1] = x
    <3>1. Len(s) + 1 \in 1..Len(a)
      BY <2>1
    <3> QED
      BY <3>1, <2>1, <2>2, <2>3 DEF x
  <2>8. q = Append(p, x)
    BY <2>2, <2>3, <2>4, <2>5, <2>6, <2>7, SeqIsAppend
  <2> QED
    BY <2>8 DEF a, p, q, x
<1>3. Q(s) \in Seq(Seq(A)) /\ g[e] \in Seq(A)
  BY <1>0, <1>1 DEF U
<1>4. /\ Expand(g, s) = FlattenSeq(Q(s))
      /\ Expand(g, Append(s, e)) = FlattenSeq(Q(Append(s, e)))
  BY DEF Expand
<1> DEFINE q == Q(s)
<1> HIDE DEF q
<1>5. FlattenSeq(Append(q, g[e])) = FlattenSeq(q) \o g[e]
  BY <1>3, FlattenAppend DEF q
<1> QED
  BY <1>2, <1>4, <1>5 DEF q

(* An expansion part by part.                                              *)
LEMMA ExpandConcat ==
  ASSUME NEW S, NEW A, NEW g \in [S -> Seq(A)], NEW s \in Seq(S),
         NEW t \in Seq(S)
  PROVE  Expand(g, s \o t) = Expand(g, s) \o Expand(g, t)
<1> DEFINE T == {r \in Seq(S) :
                   Expand(g, s \o r) = Expand(g, s) \o Expand(g, r)}
<1>1. <<>> \in T
  <2>1. Expand(g, <<>>) = <<>> /\ Expand(g, s) \in Seq(A)
    BY ExpandEmpty, ExpandType
  <2>2. s \o <<>> = s /\ Expand(g, s) \o <<>> = Expand(g, s)
    BY <2>1, ConcatEmptySeq
  <2> QED
    BY <2>1, <2>2, EmptySeq
<1>2. ASSUME NEW r \in T, NEW e \in S PROVE Append(r, e) \in T
  <2>1. r \in Seq(S) /\ Expand(g, s \o r) = Expand(g, s) \o Expand(g, r)
    OBVIOUS
  <2>2. /\ Append(r, e) \in Seq(S) /\ s \o r \in Seq(S)
        /\ s \o Append(r, e) = Append(s \o r, e)
    <3> HIDE DEF T
    <3>1. Append(r, e) \in Seq(S) /\ s \o r \in Seq(S)
      BY <2>1, AppendProperties, ConcatProperties
    <3> DEFINE y == <<e>>
    <3>2. y \in Seq(S) /\ Append(r, e) = r \o y
      BY <2>1, AppendIsConcat
    <3>3. Append(s \o r, e) = (s \o r) \o y
      BY <3>1, AppendIsConcat
    <3> HIDE DEF y
    <3>4. Associates(s, r, y)
      BY <2>1, <3>2, Associative
    <3> QED
      BY <3>1, <3>2, <3>3, <3>4 DEF Associates
  <2>3. /\ Expand(g, s) \in Seq(A) /\ Expand(g, r) \in Seq(A)
        /\ g[e] \in Seq(A)
    BY <2>1, ExpandType
  <2>4. Expand(g, Append(r, e)) = Expand(g, r) \o g[e]
    BY <2>1, ExpandAppend
  <2>5. Expand(g, Append(s \o r, e)) = Expand(g, s \o r) \o g[e]
    BY <2>2, ExpandAppend
  <2>6. (Expand(g, s) \o Expand(g, r)) \o g[e]
          = Expand(g, s) \o (Expand(g, r) \o g[e])
    <3> DEFINE v == Expand(g, s)
               w == Expand(g, r)
               x == g[e]
    <3>1. v \in Seq(A) /\ w \in Seq(A) /\ x \in Seq(A)
      BY <2>3
    <3> HIDE DEF T, v, w, x
    <3>2. Associates(v, w, x)
      BY <3>1, Associative
    <3> QED
      BY <3>2 DEF v, w, x, Associates
  <2> QED
    BY <2>1, <2>2, <2>4, <2>5, <2>6
<1>3. T = Seq(S)
  <2>1. T \in SUBSET Seq(S) /\ \A r \in T, e \in S : Append(r, e) \in T
    BY <1>2
  <2> HIDE DEF T
  <2> QED
    BY <1>1, <2>1, SeqInduction
<1> QED
  BY <1>3

(* A sequence of one element.                                              *)
LEMMA ExpandOne ==
  ASSUME NEW S, NEW A, NEW g \in [S -> Seq(A)], NEW e \in S
  PROVE  Expand(g, <<e>>) = g[e]
<1>1. <<>> \in Seq(S) /\ Append(<<>>, e) = <<e>>
  BY EmptySeq
<1>2. Expand(g, Append(<<>>, e)) = Expand(g, <<>>) \o g[e]
  BY <1>1, ExpandAppend
<1>3. g[e] \in Seq(A) /\ <<>> \o g[e] = g[e]
  BY ConcatEmptySeq
<1> QED
  BY <1>1, <1>2, <1>3, ExpandEmpty

-----------------------------------------------------------------------------
(* Recursion *)

(* A function of the numbers up to n that takes each value from the one    *)
(* before: a loop.                                                         *)
Loops(f, n, a, step) ==
  f[0] = a /\ \A i \in 1..n : f[i] = step[<<i, f[i - 1]>>]

(* Every loop computes something.                                          *)
LEMMA LoopExists ==
  ASSUME NEW n \in Nat, NEW A, NEW a \in A, NEW step \in [(1..n) \X A -> A]
  PROVE  \E f \in [0..n -> A] : Loops(f, n, a, step)
<1> DEFINE Runs(f, m) ==
             f[0] = a /\ \A i \in 1..m : f[i] = step[<<i, f[i - 1]>>]
           T == {m \in Nat : m <= n => \E f \in [0..m -> A] : Runs(f, m)}
<1>1. 0 \in T
  <2>1. [i \in 0..0 |-> a] \in [0..0 -> A] /\ Runs([i \in 0..0 |-> a], 0)
    OBVIOUS
  <2> HIDE DEF Runs
  <2> QED
    BY <2>1
<1>2. ASSUME NEW m \in T PROVE m + 1 \in T
  <2>1. SUFFICES ASSUME m + 1 <= n
                 PROVE  \E f \in [0..(m + 1) -> A] : Runs(f, m + 1)
    <3> HIDE DEF Runs
    <3> QED
      OBVIOUS
  <2>2. m \in Nat /\ m <= n
    BY <2>1
  <2>3. PICK g \in [0..m -> A] : Runs(g, m)
    <3> HIDE DEF Runs
    <3> QED
      BY <2>2
  <2> DEFINE v == step[<<m + 1, g[m]>>]
             f == [i \in 0..(m + 1) |-> IF i = m + 1 THEN v ELSE g[i]]
  <2>4. v \in A
    <3>1. m + 1 \in 1..n /\ g[m] \in A
      BY <2>1, <2>2
    <3> QED
      BY <3>1
  <2>5. f \in [0..(m + 1) -> A] /\ f[m + 1] = v /\ \A i \in 0..m : f[i] = g[i]
    <3> HIDE DEF v
    <3> QED
      BY <2>2, <2>4
  <2> HIDE DEF f
  <2>6. f[0] = a
    BY <2>2, <2>3, <2>5
  <2>7. ASSUME NEW i \in 1..(m + 1) PROVE f[i] = step[<<i, f[i - 1]>>]
    <3>1. i - 1 \in 0..m /\ f[i - 1] = g[i - 1]
      BY <2>2, <2>5
    <3>2. CASE i = m + 1
      <4>1. i - 1 = m
        BY <2>2, <3>2
      <4> QED
        BY <2>5, <3>1, <3>2, <4>1
    <3>3. CASE i # m + 1
      <4>1. i \in 1..m /\ i \in 0..m
        BY <2>2, <3>3
      <4>2. g[i] = step[<<i, g[i - 1]>>]
        BY <2>3, <4>1
      <4> QED
        BY <2>5, <3>1, <4>1, <4>2
    <3> QED
      BY <3>2, <3>3
  <2>8. Runs(f, m + 1)
    BY <2>6, <2>7
  <2> HIDE DEF Runs
  <2> QED
    BY <2>5, <2>8
<1>3. T = Nat
  <2>1. T \in SUBSET Nat /\ \A m \in T : m + 1 \in T
    BY <1>2
  <2> HIDE DEF T
  <2> QED
    BY <1>1, <2>1, Induction
<1>4. n \in T
  BY <1>3, Zenon
<1> QED
  BY <1>4 DEF Loops
===============================================================================
