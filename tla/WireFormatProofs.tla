--------------------------- MODULE WireFormatProofs ---------------------------
(***************************************************************************)
(* Theorems about WireFormat for every value of its constants: the reader  *)
(* stays in the body at hand, a file that is accepted is the image of what *)
(* was read from it, and what was written is read back, unless the file    *)
(* has another length, which is always seen.                               *)
(*                                                                         *)
(* The reader's position is described twice.  Reader says that the file up *)
(* to the offset is the image of what was read so far, whatever the file   *)
(* is; Tracks says that it is what was read of the envelope that was       *)
(* written, when the file agrees with its image.                           *)
(***************************************************************************)
EXTENDS WireFormat, DataLemmas

-----------------------------------------------------------------------------
(* The inductive invariant *)

(* What marshalMeta, Body and Image concatenate.                           *)
Encoded(fields) ==
  [j \in DOMAIN Fields |-> EncodeField(Fields[j], fields[Fields[j].name])]

Bodies(ss) == [i \in DOMAIN ss |-> Body(ss[i])]

HeaderOf(hint, n) == Magic \o << FormatVersion, hint >> \o u16Bytes(n)

(* The image of the slots ss of which n are still to come, with the policy *)
(* hint of the file f.                                                     *)
Beginning(f, ss, n) == HeaderOf(f[Len(Magic) + 2], Len(ss) + n)
                         \o FlattenSeq(Bodies(ss))

ReadSoFar == Beginning(file, slots, left)

(* What the reader knows: where it is, and that what lies before it is what*)
(* it read.                                                                *)
AtSlot ==
  /\ off = Len(ReadSoFar)
  /\ Lies(file, 0, ReadSoFar)

(* Field j of the current slot was read, and its checks passed.            *)
FieldRead(j) ==
  LET f == Fields[j] IN
    /\ IF f.prefixed THEN Len(cur[f.name]) <= f.len
                     ELSE Len(cur[f.name]) = f.len
    /\ FieldError(f, cur[f.name]) = "none"

AtField ==
  /\ left > 0
  /\ start = Len(ReadSoFar) + 4
  /\ start <= off /\ off <= end /\ end <= Len(file)
  /\ Lies(file, 0, ReadSoFar)
  /\ Lies(file, Len(ReadSoFar), u32Bytes(end - start))
  /\ off = start + Len(Flat(Encoded(cur), k - 1))
  /\ Lies(file, start, Flat(Encoded(cur), k - 1))
  /\ \A j \in 1..(k - 1) : FieldRead(j)

Reader ==
  /\ pc \in {"slot", "field"} =>
       /\ Len(file) \in headerLen..MaxEnvelopeLen
       /\ Len(slots) + left \in 1..MaxSlotCount
       /\ \A i \in DOMAIN slots :
            /\ Sealed(slots[i]) /\ CostsInBounds(slots[i].fields)
            /\ Len(slots[i].Wrapped) <= MaxWrappedLen
  /\ pc = "slot" => AtSlot
  /\ pc = "field" => AtField
  /\ pc \in {"slot", "field", "stored", "marshal"} => err = "none"
  /\ pc \in {"stored", "marshal"} => slots = <<>>
  /\ pc = "marshal" => damage = "none"
  /\ ParsedIsCanonical

(* The file agrees with the image of an envelope with slots of the library,*)
(* as far as both go.                                                      *)
Agrees ==
  /\ \A i \in DOMAIN file :
       i <= Len(Image(written)) => file[i] = Image(written)[i]
  /\ damage = "none" => Len(file) = Len(Image(written))
  /\ damage = "cut" => Len(file) < Len(Image(written))
  /\ damage = "longer" => Len(file) > Len(Image(written))

Current == written.slots[Len(slots) + 1]

(* What was read so far is what was written.                               *)
Tracks ==
  OwnSlots(written) /\ damage # "changed" =>
    /\ pc \in {"stored", "slot", "field"} =>
         Marshalable(written) /\ Agrees
    /\ pc \in {"slot", "field"} =>
         /\ file[Len(Magic) + 2] = written.policyHint
         /\ Len(slots) + left = Len(written.slots)
         /\ \A i \in DOMAIN slots : slots[i] = written.slots[i]
    /\ pc = "field" =>
         /\ end - start = Len(MetaOf(Current)) + Len(Current.Wrapped)
         /\ \A j \in 1..(k - 1) :
              cur[Fields[j].name] = Current.fields[Fields[j].name]
    /\ pc = "done" /\ damage = "none" /\ err # "unwritten" =>
         IF InBounds(written)
         THEN err = "ok" /\ Parsed = written
         ELSE err = "ErrKDFParams"
    /\ pc = "done" /\ damage = "cut" =>
         err = "ErrShortData" \/ (err = "ErrKDFParams" /\ ~InBounds(written))
    /\ pc = "done" /\ damage = "longer" =>
         err = "ErrMalformed" \/ (err = "ErrKDFParams" /\ ~InBounds(written))

IInv == TypeOK /\ Reader /\ Tracks

-----------------------------------------------------------------------------
(* Numbers and bytes *)

(* A byte has some values, and so have two.                                *)
LEMMA BaseIs ==
  /\ Base \in Nat \ {0, 1}
  /\ Base * Base \in Nat \ {0}
  /\ 0 \in Byte
<1>1. Base \in Nat \ {0, 1}
  BY WireAssumption
<1>2. Base * Base \in Nat /\ 1 * Base <= Base * Base
  BY <1>1, Products, ProductOrder
<1> QED
  BY <1>1, <1>2 DEF Byte

(* The lengths the format fixes and bounds are numbers.                    *)
LEMMA ConstantsAre ==
  /\ Magic \in Seq(Byte) /\ Len(Magic) \in Nat
  /\ headerLen = Len(Magic) + 4 /\ headerLen \in Nat
  /\ IDLen \in Nat /\ slotFixedLen = 5 + IDLen /\ slotFixedLen \in Nat
  /\ MaxSlotCount \in Nat /\ MaxEnvelopeLen \in Nat
  /\ WrappedOverhead \in Nat /\ MaxWrappedLen \in Nat
<1>1. /\ Magic \in Seq(Byte) /\ IDLen \in Nat
      /\ MaxSlotCount \in Nat /\ MaxEnvelopeLen \in Nat
      /\ WrappedOverhead \in Nat /\ MaxWrappedLen \in Nat
  BY WireAssumption
<1>2. Len(Magic) \in Nat
  BY <1>1
<1> QED
  BY <1>1, <1>2 DEF headerLen, slotFixedLen

(* Two bytes of any number.                                                *)
LEMMA u16Is ==
  ASSUME NEW n \in Nat
  PROVE  /\ u16Bytes(n) \in Seq(Byte)
         /\ Len(u16Bytes(n)) = 2
         /\ u16Bytes(n)[1] = (n \div Base) % Base
         /\ u16Bytes(n)[2] = n % Base
<1>1. n \div Base \in Nat /\ Base \in Nat \ {0}
  BY BaseIs, Division
<1>2. (n \div Base) % Base \in Byte /\ n % Base \in Byte
  BY <1>1, Division DEF Byte
<1> QED
  BY <1>2 DEF u16Bytes

(* Uint16 reads the count or length that u16Bytes wrote.                   *)
LEMMA u16ReadBack ==
  ASSUME NEW n \in Nat, n < Base * Base
  PROVE  ((n \div Base) % Base) * Base + (n % Base) = n
<1>1. Base \in Nat \ {0}
  BY BaseIs
<1>2. n \div Base \in Nat /\ n \div Base < Base
  BY <1>1, Division, QuotientBound
<1>3. (n \div Base) % Base = n \div Base
  <2> DEFINE q == n \div Base
  <2>1. q \in Nat /\ q < Base
    BY <1>2
  <2>2. q \in 0..(Base - 1) /\ Base * 0 + q = q
    BY <1>1, <2>1
  <2> HIDE DEF q
  <2>3. (Base * 0 + q) % Base = q
    BY <1>1, <2>2, QuotientIs
  <2>4. q % Base = q
    BY <2>2, <2>3
  <2> QED
    BY <2>4 DEF q
<1>4. n % Base \in Nat /\ n = Base * (n \div Base) + (n % Base)
  BY <1>1, Division
<1>5. (n \div Base) * Base = Base * (n \div Base)
  BY <1>1, <1>2
<1> QED
  BY <1>3, <1>4, <1>5

(* u16Bytes writes the bytes that Uint16 read.                             *)
LEMMA u16WriteBack ==
  ASSUME NEW a \in Byte, NEW b \in Byte
  PROVE  /\ a * Base + b \in 0..(Base * Base - 1)
         /\ u16Bytes(a * Base + b) = <<a, b>>
<1>1. Base \in Nat \ {0} /\ a \in Nat /\ a < Base /\ b \in 0..(Base - 1)
  BY BaseIs DEF Byte
<1>2. a * Base = Base * a /\ a * Base \in Nat
  BY <1>1, Products
<1>3. (a * Base + b) \div Base = a /\ (a * Base + b) % Base = b
  BY <1>1, <1>2, QuotientIs
<1>4. a % Base = a
  <2>1. a \in 0..(Base - 1) /\ Base * 0 + a = a
    BY <1>1
  <2>2. (Base * 0 + a) % Base = a
    BY <1>1, <2>1, QuotientIs
  <2> QED
    BY <2>1, <2>2
<1>5. (a + 1) * Base <= Base * Base /\ (a + 1) * Base = a * Base + Base
  BY <1>1, ProductOrder
<1>6. a * Base + b \in 0..(Base * Base - 1)
  BY <1>1, <1>2, <1>5, BaseIs
<1> QED
  BY <1>3, <1>4, <1>6 DEF u16Bytes

(* Dividing undoes one step of Uint32.                                     *)
LEMMA HornerInverse ==
  ASSUME NEW a \in Nat, NEW b \in Byte
  PROVE  /\ a * Base + b \in Nat
         /\ (a * Base + b) \div Base = a
         /\ (a * Base + b) % Base = b
<1>1. Base \in Nat \ {0} /\ b \in 0..(Base - 1)
  BY BaseIs DEF Byte
<1>2. a * Base = Base * a /\ a * Base \in Nat
  BY <1>1, Products
<1> QED
  BY <1>1, <1>2, QuotientIs

(* Four bytes of any number.                                               *)
LEMMA u32Is ==
  ASSUME NEW n \in Nat
  PROVE  /\ u32Bytes(n) \in Seq(Byte)
         /\ Len(u32Bytes(n)) = 4
         /\ u32Bytes(n)[1] = ((n \div (Base * Base)) \div Base) % Base
         /\ u32Bytes(n)[2] = (n \div (Base * Base)) % Base
         /\ u32Bytes(n)[3] = (n \div Base) % Base
         /\ u32Bytes(n)[4] = n % Base
<1> DEFINE h == n \div (Base * Base)
<1>1. h \in Nat
  BY BaseIs, Division
<1> HIDE DEF h
<1>2. /\ u16Bytes(h) \in Seq(Byte) /\ Len(u16Bytes(h)) = 2
      /\ u16Bytes(h)[1] = (h \div Base) % Base /\ u16Bytes(h)[2] = h % Base
      /\ u16Bytes(n) \in Seq(Byte) /\ Len(u16Bytes(n)) = 2
      /\ u16Bytes(n)[1] = (n \div Base) % Base /\ u16Bytes(n)[2] = n % Base
  BY <1>1, u16Is
<1> DEFINE a == u16Bytes(h)
           b == u16Bytes(n)
<1>3. u32Bytes(n) = a \o b
  BY DEF u32Bytes, h
<1>4. a \in Seq(Byte) /\ b \in Seq(Byte) /\ Len(a) = 2 /\ Len(b) = 2
  BY <1>2
<1> HIDE DEF a, b
<1>5. /\ a \o b \in Seq(Byte)
      /\ Len(a \o b) = 4
      /\ (a \o b)[1] = a[1] /\ (a \o b)[2] = a[2]
      /\ (a \o b)[3] = b[1] /\ (a \o b)[4] = b[2]
  <2> DEFINE u == a \o b
  <2>1. /\ u \in Seq(Byte)
        /\ Len(u) = Len(a) + Len(b)
        /\ \A i \in 1..(Len(a) + Len(b)) :
             u[i] = IF i <= Len(a) THEN a[i] ELSE b[i - Len(a)]
    BY <1>4, ConcatProperties
  <2> HIDE DEF u
  <2>2. /\ Len(u) = 4
        /\ u[1] = a[1] /\ u[2] = a[2] /\ u[3] = b[3 - 2] /\ u[4] = b[4 - 2]
    BY <1>4, <2>1
  <2> QED
    BY <2>1, <2>2 DEF u
<1> QED
  BY <1>2, <1>3, <1>5 DEF a, b, h

(* The number that four bytes stand for.                                   *)
Number(a, b, c, d) == ((a * Base + b) * Base + c) * Base + d

(* Uint32 reads the length that u32Bytes wrote.                            *)
LEMMA u32ReadBack ==
  ASSUME NEW n \in Nat, n < Base * Base * Base * Base
  PROVE  Number(u32Bytes(n)[1], u32Bytes(n)[2], u32Bytes(n)[3], u32Bytes(n)[4])
           = n
<1> DEFINE m == n \div Base
           h == n \div (Base * Base)
<1>1. Base \in Nat \ {0} /\ Base * Base \in Nat \ {0}
  BY BaseIs
<1>2. h \in Nat /\ h < Base * Base
  <2>1. Base * Base * Base * Base = (Base * Base) * (Base * Base)
    BY <1>1
  <2> QED
    BY <1>1, <2>1, Division, QuotientBound
<1>3. h = m \div Base
  BY <1>1, QuotientTwice
<1>4. m \in Nat /\ n = Base * m + (n % Base) /\ n % Base \in Nat
  BY <1>1, Division
<1> HIDE DEF h, m
<1>5. ((h \div Base) % Base) * Base + (h % Base) = h
  BY <1>2, u16ReadBack
<1>6. m = Base * h + (m % Base) /\ m % Base \in Nat
  BY <1>1, <1>3, <1>4, Division
<1>7. h * Base = Base * h /\ m * Base = Base * m
  BY <1>1, <1>2, <1>4
<1>8. (h * Base + (m % Base)) * Base + (n % Base) = n
  BY <1>4, <1>6, <1>7
<1>9. /\ u32Bytes(n)[1] = (h \div Base) % Base
      /\ u32Bytes(n)[2] = h % Base
      /\ u32Bytes(n)[3] = m % Base
      /\ u32Bytes(n)[4] = n % Base
  BY u32Is DEF h, m
<1> QED
  BY <1>5, <1>8, <1>9 DEF Number

(* u32Bytes writes the bytes that Uint32 read.                             *)
LEMMA u32WriteBack ==
  ASSUME NEW a \in Byte, NEW b \in Byte, NEW c \in Byte, NEW d \in Byte
  PROVE  /\ Number(a, b, c, d) \in Nat
         /\ LET s == u32Bytes(Number(a, b, c, d))
            IN  s[1] = a /\ s[2] = b /\ s[3] = c /\ s[4] = d
<1> DEFINE h == a * Base + b
           m == h * Base + c
           n == m * Base + d
<1>1. Base \in Nat \ {0} /\ c \in 0..(Base - 1) /\ d \in 0..(Base - 1)
  BY BaseIs DEF Byte
<1>2. h \in Nat /\ (h \div Base) % Base = a /\ h % Base = b
  <2>1. h \in Nat /\ u16Bytes(h) = <<a, b>>
    BY u16WriteBack, BaseIs
  <2> HIDE DEF h
  <2>2. u16Bytes(h)[1] = a /\ u16Bytes(h)[2] = b
    BY <2>1
  <2> QED
    BY <2>1, <2>2, u16Is
<1> HIDE DEF h
<1>3. m \in Nat /\ m \div Base = h /\ m % Base = c
  BY <1>2, HornerInverse
<1> HIDE DEF m
<1>4. n \in Nat /\ n \div Base = m /\ n % Base = d
  BY <1>3, HornerInverse
<1> HIDE DEF n
<1>5. n \div (Base * Base) = h
  BY <1>1, <1>3, <1>4, QuotientTwice
<1>6. /\ u32Bytes(n)[1] = ((n \div (Base * Base)) \div Base) % Base
      /\ u32Bytes(n)[2] = (n \div (Base * Base)) % Base
      /\ u32Bytes(n)[3] = (n \div Base) % Base
      /\ u32Bytes(n)[4] = n % Base
  BY <1>4, u32Is
<1>7. Number(a, b, c, d) = n
  BY DEF Number, n, m, h
<1> QED
  BY <1>2, <1>3, <1>4, <1>5, <1>6, <1>7

-----------------------------------------------------------------------------
(* Fields *)

(* The layout: thirteen fields, each with its own name.                    *)
LEMMA FieldsAre ==
  /\ Fields \in Seq([name : FieldNames, prefixed : BOOLEAN, len : Nat])
  /\ Len(Fields) = 13 /\ DOMAIN Fields = 1..13
  /\ \A j \in 1..13 : /\ Fields[j].name \in FieldNames
                      /\ Fields[j].prefixed \in BOOLEAN
                      /\ Fields[j].len \in Nat
  /\ \A i, j \in 1..13 : Fields[i].name = Fields[j].name => i = j
  /\ FieldNames = {Fields[j].name : j \in 1..13}
<1>1. Len(Fields) = 13 /\ DOMAIN Fields = 1..13
  BY DEF Fields
<1>2. FieldNames = {Fields[j].name : j \in 1..13}
  BY <1>1 DEF FieldNames
<1>3. \A j \in 1..13 : /\ Fields[j].name \in FieldNames
                       /\ Fields[j].prefixed \in BOOLEAN
                       /\ Fields[j].len \in Nat
  <2>3. /\ IDLen \in Nat /\ HKDFSaltLen \in Nat /\ NonceLen \in Nat
        /\ MaxKDFParamsLen \in Nat /\ MaxSaltLen \in Nat
        /\ MaxChallengeLen \in Nat /\ MaxLabelLen \in Nat
    BY WireAssumption
  <2>1. ASSUME NEW j \in 1..13 PROVE Fields[j].prefixed \in BOOLEAN
    <3>1. \E n, l : Fields[j] = Fixed(n, l) \/ Fields[j] = Prefixed(n, l)
      <4> HIDE DEF Fixed, Prefixed
      <4> QED
        BY DEF Fields
    <3>2. PICK n, l : Fields[j] = Fixed(n, l) \/ Fields[j] = Prefixed(n, l)
      BY <3>1
    <3>3. Fixed(n, l).prefixed = FALSE /\ Prefixed(n, l).prefixed = TRUE
      BY DEF Fixed, Prefixed
    <3>4. Fields[j].prefixed = FALSE \/ Fields[j].prefixed = TRUE
      <4> HIDE DEF Fixed, Prefixed
      <4> QED
        BY <3>2, <3>3, Zenon
    <3> QED
      BY <3>4, Zenon
  <2>2. \A j \in 1..13 : Fields[j].len \in Nat
    BY <2>3 DEF Fields, Fixed, Prefixed
  <2> QED
    BY <1>2, <2>1, <2>2
<1>4. \A i, j \in 1..13 : Fields[i].name = Fields[j].name => i = j
  BY DEF Fields, Fixed, Prefixed
<1>5. Fields \in Seq([name : FieldNames, prefixed : BOOLEAN, len : Nat])
  <2>1. \A j \in 1..13 : Fields[j] = [name |-> Fields[j].name,
                                      prefixed |-> Fields[j].prefixed,
                                      len |-> Fields[j].len]
    BY DEF Fields, Fixed, Prefixed
  <2>2. \A j \in 1..13 :
          Fields[j] \in [name : FieldNames, prefixed : BOOLEAN, len : Nat]
    BY <1>3, <2>1
  <2> QED
    BY <1>1, <2>2 DEF Fields
<1> QED
  BY <1>1, <1>2, <1>3, <1>4, <1>5

-----------------------------------------------------------------------------
(* What Marshal concatenates *)

(* A field in the file: its bytes, behind their number if there is one.    *)
LEMMA EncodeFieldIs ==
  ASSUME NEW j \in 1..13, NEW bytes \in Seq(Byte)
  PROVE  /\ EncodeField(Fields[j], bytes) \in Seq(Byte)
         /\ Len(EncodeField(Fields[j], bytes)) =
              IF Fields[j].prefixed THEN 2 + Len(bytes) ELSE Len(bytes)
<1>1. Len(bytes) \in Nat
  OBVIOUS
<1>2. /\ u16Bytes(Len(bytes)) \in Seq(Byte)
      /\ Len(u16Bytes(Len(bytes))) = 2
  BY <1>1, u16Is
<1>3. /\ u16Bytes(Len(bytes)) \o bytes \in Seq(Byte)
      /\ Len(u16Bytes(Len(bytes)) \o bytes) = 2 + Len(bytes)
  BY <1>2, ConcatLen
<1>4. CASE Fields[j].prefixed
  BY <1>3, <1>4 DEF EncodeField
<1>5. CASE ~Fields[j].prefixed
  BY <1>5 DEF EncodeField
<1> QED
  BY <1>4, <1>5

(* The metadata is made of the thirteen fields.                            *)
LEMMA EncodedIs ==
  ASSUME NEW fields \in [FieldNames -> Seq(Byte)]
  PROVE  /\ Encoded(fields) \in Seq(Seq(Byte))
         /\ Len(Encoded(fields)) = 13
         /\ \A j \in 1..13 : Encoded(fields)[j] =
              EncodeField(Fields[j], fields[Fields[j].name])
         /\ marshalMeta(fields) = FlattenSeq(Encoded(fields))
         /\ marshalMeta(fields) \in Seq(Byte)
<1> DEFINE e == Encoded(fields)
<1>1. DOMAIN Fields = 1..13 /\ \A j \in 1..13 : Fields[j].name \in FieldNames
  BY FieldsAre
<1>2. \A j \in 1..13 :
        EncodeField(Fields[j], fields[Fields[j].name]) \in Seq(Byte)
  BY <1>1, EncodeFieldIs
<1>3. e = [j \in 1..13 |-> EncodeField(Fields[j], fields[Fields[j].name])]
  BY <1>1 DEF Encoded
<1>4. /\ e \in Seq(Seq(Byte))
      /\ Len(e) = 13
      /\ \A j \in 1..13 : e[j] = EncodeField(Fields[j], fields[Fields[j].name])
  BY <1>2, <1>3
<1>5. marshalMeta(fields) = FlattenSeq(e)
  BY DEF marshalMeta, Encoded
<1> HIDE DEF e
<1>6. FlattenSeq(e) \in Seq(Byte)
  BY <1>4, Pieces
<1> QED
  BY <1>4, <1>5, <1>6 DEF e

(* The body of a slot.                                                     *)
LEMMA BodyIs ==
  ASSUME NEW s \in Slots
  PROVE  /\ s.fields \in [FieldNames -> Seq(Byte)]
         /\ s.Wrapped \in Seq(Byte) /\ Len(s.Wrapped) \in Nat
         /\ MetaOf(s) \in Seq(Byte) /\ Len(MetaOf(s)) \in Nat
         /\ Body(s) \in Seq(Byte)
         /\ Len(Body(s)) = 4 + Len(MetaOf(s)) + Len(s.Wrapped)
         /\ \A f \in Seq(Byte), i \in Nat :
              Lies(f, i, Body(s)) <=>
                /\ Lies(f, i, u32Bytes(Len(MetaOf(s)) + Len(s.Wrapped)))
                /\ Lies(f, i + 4, MetaOf(s))
                /\ Lies(f, i + 4 + Len(MetaOf(s)), s.Wrapped)
<1> DEFINE m == MetaOf(s)
           w == s.Wrapped
           n == u32Bytes(Len(m) + Len(w))
<1>1. /\ s.fields \in [FieldNames -> Seq(Byte)]
      /\ w \in Seq(Byte) /\ s.meta \in Seq(Byte)
  BY DEF Slots
<1>2. m \in Seq(Byte)
  BY <1>1, EncodedIs DEF MetaOf
<1> HIDE DEF m, w
<1>3. Len(m) \in Nat /\ Len(w) \in Nat
  BY <1>1, <1>2
<1>4. n \in Seq(Byte) /\ Len(n) = 4
  BY <1>3, u32Is
<1>5. Body(s) = (n \o m) \o w
  BY DEF Body, m, w
<1> HIDE DEF n
<1>6. n \o m \in Seq(Byte) /\ Len(n \o m) = 4 + Len(m)
  BY <1>2, <1>4, ConcatLen
<1>7. Body(s) \in Seq(Byte) /\ Len(Body(s)) = 4 + Len(m) + Len(w)
  <2> DEFINE nm == n \o m
  <2>1. nm \in Seq(Byte) /\ Len(nm) = 4 + Len(m) /\ Body(s) = nm \o w
    BY <1>5, <1>6
  <2> HIDE DEF nm
  <2> QED
    BY <1>1, <2>1, ConcatLen
<1>8. ASSUME NEW f \in Seq(Byte), NEW i \in Nat
      PROVE  Lies(f, i, Body(s)) <=>
               /\ Lies(f, i, n)
               /\ Lies(f, i + 4, m)
               /\ Lies(f, i + 4 + Len(m), w)
  <2> DEFINE nm == n \o m
  <2>1. Lies(f, i, nm) <=> Lies(f, i, n) /\ Lies(f, i + Len(n), m)
    BY <1>2, <1>4, LiesConcat
  <2>2. nm \in Seq(Byte) /\ Len(nm) = 4 + Len(m) /\ Body(s) = nm \o w
    BY <1>5, <1>6
  <2> HIDE DEF nm
  <2>3. Lies(f, i, nm \o w) <=> Lies(f, i, nm) /\ Lies(f, i + Len(nm), w)
    BY <1>1, <2>2, LiesConcat
  <2>4. i + Len(nm) = i + 4 + Len(m) /\ i + Len(n) = i + 4
    BY <1>3, <1>4, <2>2
  <2> QED
    BY <2>1, <2>2, <2>3, <2>4
<1> QED
  BY <1>1, <1>2, <1>3, <1>7, <1>8 DEF m, w, n

(* The header.                                                             *)
LEMMA HeaderIs ==
  ASSUME NEW hint \in Byte, NEW n \in Nat
  PROVE  /\ Len(Magic) \in Nat
         /\ headerLen = Len(Magic) + 4
         /\ HeaderOf(hint, n) \in Seq(Byte)
         /\ Len(HeaderOf(hint, n)) = headerLen
         /\ \A f \in Seq(Byte) :
              Lies(f, 0, HeaderOf(hint, n)) <=>
                /\ headerLen <= Len(f)
                /\ Lies(f, 0, Magic)
                /\ f[Len(Magic) + 1] = FormatVersion
                /\ f[Len(Magic) + 2] = hint
                /\ f[Len(Magic) + 3] = (n \div Base) % Base
                /\ f[Len(Magic) + 4] = n % Base
<1> DEFINE m == Len(Magic)
           v == << FormatVersion, hint >>
           u == u16Bytes(n)
           mv == Magic \o v
<1>1. /\ Magic \in Seq(Byte) /\ m \in Nat
      /\ v \in Seq(Byte) /\ Len(v) = 2 /\ v[1] = FormatVersion /\ v[2] = hint
      /\ headerLen = m + 4
  BY ConstantsAre, WireAssumption
<1>2. /\ u \in Seq(Byte) /\ Len(u) = 2
      /\ u[1] = (n \div Base) % Base /\ u[2] = n % Base
  BY u16Is
<1>3. HeaderOf(hint, n) = mv \o u
  BY DEF HeaderOf
<1> HIDE DEF u, v
<1>4. mv \in Seq(Byte) /\ Len(mv) = m + 2
  BY <1>1, ConcatLen
<1>5. \A f \in Seq(Byte) :
        Lies(f, 0, mv) <=> Lies(f, 0, Magic) /\ Lies(f, 0 + m, v)
  BY <1>1, LiesConcat
<1> HIDE DEF mv
<1>6. mv \o u \in Seq(Byte) /\ Len(mv \o u) = m + 4
  <2>1. mv \o u \in Seq(Byte) /\ Len(mv \o u) = Len(mv) + Len(u)
    BY <1>2, <1>4, ConcatLen
  <2> QED
    BY <1>1, <1>2, <1>4, <2>1
<1>7. ASSUME NEW f \in Seq(Byte)
      PROVE  Lies(f, 0, mv \o u) <=>
                /\ m + 4 <= Len(f)
                /\ Lies(f, 0, Magic)
                /\ f[m + 1] = FormatVersion
                /\ f[m + 2] = hint
                /\ f[m + 3] = (n \div Base) % Base
                /\ f[m + 4] = n % Base
  <2>1. Lies(f, 0, mv \o u) <=> Lies(f, 0, mv) /\ Lies(f, 0 + Len(mv), u)
    BY <1>2, <1>4, LiesConcat
  <2>2. 0 + Len(mv) = m + 2 /\ 0 + m = m
    BY <1>1, <1>4
  <2>3. Lies(f, m + 2, u) <=>
          m + 4 <= Len(f) /\ f[m + 3] = u[1] /\ f[m + 4] = u[2]
    BY <1>1, <1>2 DEF Lies
  <2>4. Lies(f, m, v) <=>
          m + 2 <= Len(f) /\ f[m + 1] = v[1] /\ f[m + 2] = v[2]
    BY <1>1 DEF Lies
  <2>5. m + 4 <= Len(f) => m + 2 <= Len(f)
    BY <1>1
  <2> QED
    BY <1>1, <1>2, <1>5, <2>1, <2>2, <2>3, <2>4, <2>5
<1> QED
  BY <1>1, <1>3, <1>6, <1>7

(* The bodies of a list of slots.                                          *)
LEMMA BodiesAre ==
  ASSUME NEW ss \in Seq(Slots)
  PROVE  /\ Bodies(ss) \in Seq(Seq(Byte))
         /\ Len(Bodies(ss)) = Len(ss)
         /\ \A i \in 1..Len(ss) : ss[i] \in Slots /\ Bodies(ss)[i] = Body(ss[i])
         /\ FlattenSeq(Bodies(ss)) \in Seq(Byte)
<1>1. /\ DOMAIN ss = 1..Len(ss) /\ Len(ss) \in Nat
      /\ \A i \in 1..Len(ss) : ss[i] \in Slots
  OBVIOUS
<1>2. \A i \in 1..Len(ss) : Body(ss[i]) \in Seq(Byte)
  BY <1>1, BodyIs
<1>3. Bodies(ss) = [i \in 1..Len(ss) |-> Body(ss[i])]
  BY <1>1 DEF Bodies
<1>4. /\ Bodies(ss) \in Seq(Seq(Byte))
      /\ Len(Bodies(ss)) = Len(ss)
      /\ \A i \in 1..Len(ss) : Bodies(ss)[i] = Body(ss[i])
  BY <1>1, <1>2, <1>3
<1>5. FlattenSeq(Bodies(ss)) \in Seq(Byte)
  BY <1>4, Pieces
<1> QED
  BY <1>1, <1>4, <1>5

(* The image is the header and the bodies.                                 *)
LEMMA ImageIs ==
  ASSUME NEW e \in Envelopes
  PROVE  /\ e.policyHint \in Byte /\ e.slots \in Seq(Slots)
         /\ Len(e.slots) \in Nat
         /\ Image(e) = HeaderOf(e.policyHint, Len(e.slots))
                         \o FlattenSeq(Bodies(e.slots))
         /\ Image(e) \in Seq(Byte)
         /\ Len(Image(e)) = headerLen + Len(FlattenSeq(Bodies(e.slots)))
<1> DEFINE h == HeaderOf(e.policyHint, Len(e.slots))
           b == FlattenSeq(Bodies(e.slots))
<1>1. e.policyHint \in Byte /\ e.slots \in Seq(Slots)
  BY DEF Envelopes
<1>2. Len(e.slots) \in Nat
  BY <1>1
<1>3. h \in Seq(Byte) /\ Len(h) = headerLen
  BY <1>1, <1>2, HeaderIs
<1>4. b \in Seq(Byte)
  BY <1>1, BodiesAre
<1>5. Image(e) = h \o b
  BY DEF Image, HeaderOf, Bodies
<1> HIDE DEF h, b
<1>6. h \o b \in Seq(Byte) /\ Len(h \o b) = headerLen + Len(b)
  BY <1>3, <1>4, ConcatLen
<1> QED
  BY <1>1, <1>2, <1>5, <1>6 DEF h, b

-----------------------------------------------------------------------------
(* What the reader reads *)

(* The bytes of the file at an offset.                                     *)
LEMMA AtIs ==
  ASSUME file \in Seq(Byte), NEW i \in Nat, NEW n \in Nat, i + n <= Len(file)
  PROVE  /\ At(i, n) \in Seq(Byte)
         /\ Len(At(i, n)) = n
         /\ Lies(file, i, At(i, n))
         /\ \A j \in 1..n : At(i, n)[j] = file[i + j] /\ file[i + j] \in Byte
<1>1. /\ At(i, n) \in Seq(Byte)
      /\ Len(At(i, n)) = n
      /\ Lies(file, i, At(i, n))
  BY LiesIsSubSeq DEF At
<1>2. \A j \in 1..n : At(i, n)[j] = file[i + j]
  BY <1>1 DEF Lies
<1>3. \A j \in 1..n : file[i + j] \in Byte
  OBVIOUS
<1> QED
  BY <1>1, <1>2, <1>3

(* The u16 at an offset is the number whose bytes lie there.               *)
LEMMA Uint16Is ==
  ASSUME file \in Seq(Byte), NEW i \in Nat, i + 2 <= Len(file)
  PROVE  /\ Uint16(At(i, 2)) = file[i + 1] * Base + file[i + 2]
         /\ Uint16(At(i, 2)) \in 0..(Base * Base - 1)
         /\ Lies(file, i, u16Bytes(Uint16(At(i, 2))))
<1> DEFINE a == file[i + 1]
           b == file[i + 2]
           n == a * Base + b
<1>1. /\ At(i, 2)[1] = a /\ At(i, 2)[2] = b
      /\ a \in Byte /\ b \in Byte
  <2>1. \A j \in 1..2 : At(i, 2)[j] = file[i + j] /\ file[i + j] \in Byte
    BY AtIs
  <2> QED
    BY <2>1
<1>2. Uint16(At(i, 2)) = n
  BY <1>1 DEF Uint16
<1> HIDE DEF a, b
<1>3. n \in 0..(Base * Base - 1) /\ u16Bytes(n) = <<a, b>>
  BY <1>1, u16WriteBack
<1> HIDE DEF n
<1>4. Lies(file, i, u16Bytes(n))
  <2>1. Len(u16Bytes(n)) = 2 /\ u16Bytes(n)[1] = a /\ u16Bytes(n)[2] = b
    BY <1>3
  <2>2. \A j \in 1..2 : file[i + j] = u16Bytes(n)[j]
    BY <2>1 DEF a, b
  <2> QED
    BY <2>1, <2>2 DEF Lies
<1> QED
  BY <1>2, <1>3, <1>4 DEF n, a, b

(* The u32 at an offset is the number whose bytes lie there.               *)
LEMMA Uint32Is ==
  ASSUME file \in Seq(Byte), NEW i \in Nat, i + 4 <= Len(file)
  PROVE  /\ Uint32(At(i, 4)) =
              Number(file[i + 1], file[i + 2], file[i + 3], file[i + 4])
         /\ Uint32(At(i, 4)) \in Nat
         /\ Lies(file, i, u32Bytes(Uint32(At(i, 4))))
<1> DEFINE a == file[i + 1]
           b == file[i + 2]
           c == file[i + 3]
           d == file[i + 4]
           n == Number(a, b, c, d)
<1>1. /\ At(i, 4)[1] = a /\ At(i, 4)[2] = b
      /\ At(i, 4)[3] = c /\ At(i, 4)[4] = d
      /\ a \in Byte /\ b \in Byte /\ c \in Byte /\ d \in Byte
  <2>1. \A j \in 1..4 : At(i, 4)[j] = file[i + j] /\ file[i + j] \in Byte
    BY AtIs
  <2> QED
    BY <2>1
<1>2. Uint32(At(i, 4)) = n
  BY <1>1 DEF Uint32, Uint16, Number
<1> HIDE DEF a, b, c, d
<1>3. /\ n \in Nat
      /\ u32Bytes(n)[1] = a /\ u32Bytes(n)[2] = b
      /\ u32Bytes(n)[3] = c /\ u32Bytes(n)[4] = d
  BY <1>1, u32WriteBack
<1> HIDE DEF n
<1>4. Lies(file, i, u32Bytes(n))
  <2>1. Len(u32Bytes(n)) = 4
    BY <1>3, u32Is
  <2>2. \A j \in 1..4 : file[i + j] = u32Bytes(n)[j]
    <3>1. \A j \in 1..4 : j = 1 \/ j = 2 \/ j = 3 \/ j = 4
      OBVIOUS
    <3> QED
      BY <1>3, <3>1 DEF a, b, c, d
  <2> QED
    BY <2>1, <2>2 DEF Lies
<1> QED
  BY <1>2, <1>3, <1>4 DEF n, a, b, c, d

(* Nothing is read before the first slot but the header.                   *)
LEMMA BeginningOfNone ==
  ASSUME NEW f, f[Len(Magic) + 2] \in Byte, NEW n \in Nat
  PROVE  Beginning(f, <<>>, n) = HeaderOf(f[Len(Magic) + 2], n)
<1> DEFINE h == HeaderOf(f[Len(Magic) + 2], n)
<1>1. h \in Seq(Byte)
  BY HeaderIs
<1>2. Bodies(<<>>) = <<>>
  BY DEF Bodies
<1>3. FlattenSeq(<<>>) = <<>>
  BY DEF FlattenSeq
<1>4. Len(<<>>) + n = n
  OBVIOUS
<1>5. Beginning(f, <<>>, n) = h \o <<>>
  BY <1>2, <1>3, <1>4 DEF Beginning
<1> HIDE DEF h
<1>6. h \o <<>> = h
  BY <1>1, ConcatEmptySeq
<1> QED
  BY <1>5, <1>6 DEF h

(* What was read so far is a sequence of bytes, the header at least.       *)
LEMMA BeginningType ==
  ASSUME NEW f, f[Len(Magic) + 2] \in Byte, NEW ss \in Seq(Slots), NEW n \in Nat
  PROVE  /\ Beginning(f, ss, n) \in Seq(Byte)
         /\ Len(Beginning(f, ss, n)) = headerLen + Len(FlattenSeq(Bodies(ss)))
<1> DEFINE h == HeaderOf(f[Len(Magic) + 2], Len(ss) + n)
           b == FlattenSeq(Bodies(ss))
<1>1. Len(ss) + n \in Nat
  OBVIOUS
<1>2. h \in Seq(Byte) /\ Len(h) = headerLen
  BY <1>1, HeaderIs
<1>3. b \in Seq(Byte)
  BY BodiesAre
<1>4. Beginning(f, ss, n) = h \o b
  BY DEF Beginning
<1> HIDE DEF h, b
<1>5. h \o b \in Seq(Byte) /\ Len(h \o b) = Len(h) + Len(b)
  BY <1>2, <1>3, ConcatLen
<1> QED
  BY <1>2, <1>4, <1>5 DEF b

(* The bodies of a list with one more slot.                                *)
LEMMA BodiesAppend ==
  ASSUME NEW ss \in Seq(Slots), NEW s \in Slots
  PROVE  Bodies(Append(ss, s)) = Append(Bodies(ss), Body(s))
<1> DEFINE new == Append(ss, s)
           q == Bodies(ss)
           l == Bodies(new)
           r == Append(q, Body(s))
           n == Len(ss)
<1>1. /\ new \in Seq(Slots) /\ Len(new) = n + 1 /\ n \in Nat
      /\ \A i \in 1..n : new[i] = ss[i]
      /\ new[n + 1] = s
  BY AppendProperties
<1>2. /\ q \in Seq(Seq(Byte)) /\ Len(q) = n
      /\ \A i \in 1..n : q[i] = Body(ss[i])
  BY BodiesAre
<1> HIDE DEF new, q
<1>3. Body(s) \in Seq(Byte)
  BY BodyIs
<1>4. /\ l \in Seq(Seq(Byte)) /\ Len(l) = n + 1
      /\ \A i \in 1..(n + 1) : l[i] = Body(new[i])
  BY <1>1, BodiesAre
<1>5. /\ r \in Seq(Seq(Byte)) /\ Len(r) = n + 1
      /\ \A i \in 1..n : r[i] = q[i]
      /\ r[n + 1] = Body(s)
  BY <1>2, <1>3, AppendProperties
<1> HIDE DEF l, r, n
<1>6. ASSUME NEW i \in 1..(n + 1) PROVE l[i] = r[i]
  <2>1. l[i] = Body(new[i])
    BY <1>4
  <2>2. CASE i = n + 1
    BY <1>1, <1>5, <2>1, <2>2
  <2>3. CASE i # n + 1
    <3>1. i \in 1..n
      BY <2>3, <1>1
    <3> QED
      BY <3>1, <1>1, <1>2, <1>5, <2>1
  <2> QED
    BY <2>2, <2>3
<1>7. l = r
  BY <1>1, <1>4, <1>5, <1>6, SeqEqual
<1> QED
  BY <1>7 DEF l, r, new, q

(* One more slot is one more body.                                         *)
LEMMA BeginningAppend ==
  ASSUME NEW f, f[Len(Magic) + 2] \in Byte, NEW ss \in Seq(Slots),
         NEW n \in Nat \ {0}, NEW s \in Slots
  PROVE  Beginning(f, Append(ss, s), n - 1) = Beginning(f, ss, n) \o Body(s)
<1> DEFINE h == HeaderOf(f[Len(Magic) + 2], Len(ss) + n)
           q == Bodies(ss)
           b == FlattenSeq(q)
           new == Append(ss, s)
<1>1. Len(ss) \in Nat /\ Len(ss) + n \in Nat
  OBVIOUS
<1>2. h \in Seq(Byte)
  BY <1>1, HeaderIs
<1>3. q \in Seq(Seq(Byte)) /\ Len(q) = Len(ss)
      /\ \A i \in 1..Len(ss) : q[i] = Body(ss[i])
  BY BodiesAre
<1>4. /\ new \in Seq(Slots) /\ Len(new) = Len(ss) + 1
      /\ \A i \in 1..Len(ss) : new[i] = ss[i]
      /\ new[Len(ss) + 1] = s
  BY AppendProperties
<1>5. Body(s) \in Seq(Byte)
  BY BodyIs
<1>6. Bodies(new) = Append(q, Body(s))
  BY BodiesAppend
<1>7. FlattenSeq(Append(q, Body(s))) = b \o Body(s) /\ b \in Seq(Byte)
  BY <1>3, <1>5, FlattenAppend, Pieces
<1>8. Len(new) + (n - 1) = Len(ss) + n
  BY <1>1, <1>4
<1>9. Beginning(f, new, n - 1) = h \o (b \o Body(s))
  <2> HIDE DEF new
  <2> QED
    BY <1>6, <1>7, <1>8 DEF Beginning
<1>10. Beginning(f, ss, n) = h \o b
  BY DEF Beginning
<1> HIDE DEF h, b
<1>11. Associates(h, b, Body(s))
  BY <1>2, <1>5, <1>7, Associative
<1> QED
  BY <1>9, <1>10, <1>11 DEF Associates

-----------------------------------------------------------------------------
(* The reader *)

Errors == {"ErrShortData", "ErrMalformed", "ErrBadMagic", "ErrBadVersion",
           "ErrUnsupportedAEAD", "ErrUnsupportedKDF", "ErrKDFParams"}

(* A parser that gives up leaves nothing but its error.                    *)
LEMMA FailStep ==
  ASSUME TypeOK, NEW code \in Errors, Fail(code),
         UNCHANGED <<written, damage, file>>
  PROVE  TypeOK' /\ Reader'
BY DEF TypeOK, Reader, Fail, Errors, position, ParsedIsCanonical

(* Marshal writes bytes.                                                   *)
LEMMA MarshalStep ==
  ASSUME TypeOK, Reader, Marshal
  PROVE  TypeOK' /\ Reader'
<1>1. Image(written) \in Seq(Byte)
  BY WrittenAssumption, ImageIs DEF TypeOK
<1>2. <<>> \in Seq(Byte)
  BY EmptySeq
<1> HIDE DEF WrittenAssumption
<1>3. CASE Marshalable(written)
  BY <1>1, <1>3 DEF TypeOK, Reader, Marshal, position, ParsedIsCanonical
<1>4. CASE ~Marshalable(written)
  BY <1>2, <1>4 DEF TypeOK, Reader, Marshal, position, ParsedIsCanonical
<1> QED
  BY <1>3, <1>4

(* A damaged file is still a file.                                         *)
LEMMA DamageStep ==
  ASSUME TypeOK, Reader, Damage
  PROVE  TypeOK' /\ Reader'
<1>1. file \in Seq(Byte) /\ Len(file) \in Nat
  BY DEF TypeOK
<1>2. file' \in Seq(Byte)
  <2>1. ASSUME NEW n \in 0..(Len(file) - 1) PROVE At(0, n) \in Seq(Byte)
    <3>1. n \in Nat /\ 0 + n <= Len(file)
      BY <1>1
    <3> QED
      BY <1>1, <3>1, AtIs
  <2>2. ASSUME NEW s \in Stray PROVE file \o s \in Seq(Byte)
    <3>1. s \in Seq(Byte)
      BY WireAssumption
    <3> QED
      BY <1>1, <3>1, ConcatLen
  <2>3. ASSUME NEW i \in DOMAIN file, NEW b \in Byte
        PROVE  [file EXCEPT ![i] = b] \in Seq(Byte)
    BY <1>1, ExceptSeq
  <2> QED
    BY <2>1, <2>2, <2>3 DEF Damage
<1>3. damage' \in {"none", "cut", "longer", "changed"}
  BY DEF Damage
<1> QED
  BY <1>2, <1>3 DEF TypeOK, Reader, Damage, position, ParsedIsCanonical

(* The header is the image of nothing read yet.                            *)
LEMMA HeaderStep ==
  ASSUME TypeOK, Reader, Header
  PROVE  TypeOK' /\ Reader'
<1> DEFINE m == Len(Magic)
           count == Uint16(At(m + 2, 2))
<1>1. /\ file \in Seq(Byte) /\ Len(file) \in Nat
      /\ m \in Nat /\ headerLen = m + 4 /\ Magic \in Seq(Byte)
      /\ MaxEnvelopeLen \in Nat
  BY ConstantsAre DEF TypeOK
<1>2. CASE \E code \in Errors : Fail(code)
  BY <1>2, FailStep DEF Header
<1>3. CASE ~ \E code \in Errors : Fail(code)
  <2>1. /\ Len(file) <= MaxEnvelopeLen
        /\ Len(file) >= headerLen
        /\ At(0, m) = Magic
        /\ file[m + 1] = FormatVersion
        /\ slotCountValid(count)
        /\ left' = count
        /\ off' = headerLen
        /\ pc' = "slot"
        /\ UNCHANGED <<end, start, k, cur, slots, err, written, damage, file>>
    <3>1. /\ ~Fail("ErrMalformed") /\ ~Fail("ErrShortData")
          /\ ~Fail("ErrBadMagic") /\ ~Fail("ErrBadVersion")
      BY <1>3 DEF Errors
    <3> QED
      BY <1>1, <3>1 DEF Header
  <2> HIDE DEF count
  <2>2. pc = "stored" /\ slots = <<>> /\ err = "none"
    BY DEF Header, Reader
  <2>3. count \in 1..MaxSlotCount /\ MaxSlotCount \in Nat /\ count \in Nat
    BY <2>1, ConstantsAre DEF slotCountValid
  <2>4. /\ (m + 2) + 2 <= Len(file)
        /\ m + 2 \in Nat
        /\ file[m + 2] \in Byte
    BY <1>1, <2>1
  <2>5. Lies(file, m + 2, u16Bytes(count))
    BY <1>1, <2>4, Uint16Is DEF count
  <2>6. /\ u16Bytes(count)[1] = (count \div Base) % Base
        /\ u16Bytes(count)[2] = count % Base
        /\ Len(u16Bytes(count)) = 2
    BY <2>3, u16Is
  <2>7. /\ file[m + 3] = (count \div Base) % Base
        /\ file[m + 4] = count % Base
    <3>1. /\ file[(m + 2) + 1] = u16Bytes(count)[1]
          /\ file[(m + 2) + 2] = u16Bytes(count)[2]
      BY <2>5, <2>6 DEF Lies
    <3>2. (m + 2) + 1 = m + 3 /\ (m + 2) + 2 = m + 4
      BY <1>1
    <3> QED
      BY <2>6, <3>1, <3>2
  <2>8. Lies(file, 0, Magic)
    <3>1. Lies(file, 0, At(0, m))
      <4>1. 0 + m <= Len(file)
        BY <1>1, <2>1
      <4> QED
        BY <1>1, <4>1, AtIs
    <3> QED
      BY <2>1, <3>1
  <2>9. /\ Lies(file, 0, HeaderOf(file[m + 2], count))
        /\ Len(HeaderOf(file[m + 2], count)) = headerLen
    BY <1>1, <2>1, <2>3, <2>4, <2>7, <2>8, HeaderIs
  <2>10. Beginning(file, <<>>, count) = HeaderOf(file[m + 2], count)
    BY <2>3, <2>4, BeginningOfNone
  <2>11. TypeOK'
    BY <1>1, <2>1, <2>3 DEF TypeOK
  <2>12. AtSlot'
    BY <2>1, <2>2, <2>9, <2>10 DEF AtSlot, ReadSoFar
  <2>13. (Len(slots) + left)' \in 1..MaxSlotCount
    BY <2>1, <2>2, <2>3
  <2> QED
    BY <2>1, <2>2, <2>11, <2>12, <2>13 DEF Reader, ParsedIsCanonical
<1> QED
  BY <1>2, <1>3

(* The length of a body announces it.                                      *)
LEMMA SlotLenStep ==
  ASSUME TypeOK, Reader, SlotLen
  PROVE  TypeOK' /\ Reader'
<1> DEFINE n == Uint32(At(off, 4))
<1>1. /\ file \in Seq(Byte) /\ Len(file) \in Nat /\ off \in Nat
      /\ pc = "slot" /\ left > 0 /\ err = "none" /\ left \in Nat
      /\ AtSlot
  BY DEF TypeOK, SlotLen, Reader
<1>2. CASE \E code \in Errors : Fail(code)
  BY <1>2, FailStep DEF SlotLen
<1>3. CASE ~ \E code \in Errors : Fail(code)
  <2>1. /\ off + 4 <= Len(file)
        /\ off + 4 + n <= Len(file)
        /\ off' = off + 4
        /\ start' = off + 4
        /\ end' = off + 4 + n
        /\ k' = 1
        /\ cur' = [f \in FieldNames |-> <<>>]
        /\ pc' = "field"
        /\ UNCHANGED <<left, slots, err, written, damage, file>>
        /\ n \in Nat
        /\ Lies(file, off, u32Bytes(n))
    <3>1. off + 4 <= Len(file)
      BY <1>1, <1>3 DEF SlotLen, Errors
    <3>2. n \in Nat /\ Lies(file, off, u32Bytes(n))
      BY <1>1, <3>1, Uint32Is
    <3> HIDE DEF n
    <3>3. off + 4 + n <= Len(file)
      BY <1>1, <1>3, <3>1, <3>2 DEF SlotLen, Errors, n
    <3> QED
      BY <1>3, <3>1, <3>2, <3>3 DEF SlotLen, Errors, n
  <2> HIDE DEF n
  <2>2. cur' \in [FieldNames -> Seq(Byte)]
    <3>1. <<>> \in Seq(Byte)
      BY EmptySeq
    <3> QED
      BY <2>1, <3>1
  <2>3. TypeOK'
    <3>1. off + 4 \in Nat /\ off + 4 + n \in Nat
      BY <1>1, <2>1
    <3>2. 1 \in 1..(Len(Fields) + 1)
      BY FieldsAre
    <3> QED
      BY <2>1, <2>2, <3>1, <3>2 DEF TypeOK
  <2>4. AtField'
    <3>1. ReadSoFar' = ReadSoFar
      BY <2>1 DEF ReadSoFar
    <3>2. off = Len(ReadSoFar) /\ Lies(file, 0, ReadSoFar)
      BY <1>1 DEF AtSlot
    <3>3. Flat(Encoded(cur'), 0) = <<>>
      <4>1. Encoded(cur') \in Seq(Seq(Byte))
        BY <2>2, EncodedIs
      <4> QED
        BY <4>1, Pieces
    <3>4. Len(<<>>) = 0 /\ Lies(file, off + 4, <<>>)
      <4>1. Len(<<>>) = 0
        OBVIOUS
      <4>2. off + 4 + 0 <= Len(file) /\ \A j \in 1..0 : FALSE
        BY <1>1, <2>1
      <4> QED
        BY <4>1, <4>2 DEF Lies
    <3>5. /\ (off + 4 + n) - (off + 4) = n
          /\ off + 4 <= off + 4 + n
          /\ off + 4 = off + 4 + 0
      BY <1>1, <2>1
    <3>6. (Flat(Encoded(cur), k - 1))' = <<>>
      <4>1. 1 - 1 = 0
        OBVIOUS
      <4> QED
        BY <2>1, <3>3, <4>1
    <3>7. \A j \in 1..0 : FieldRead(j)'
      OBVIOUS
    <3>8. (\A j \in 1..(k - 1) : FieldRead(j))'
      <4>1. k' - 1 = 0
        BY <2>1
      <4> QED
        BY <3>7, <4>1
    <3> QED
      BY <1>1, <2>1, <3>1, <3>2, <3>4, <3>5, <3>6, <3>8 DEF AtField
  <2> QED
    BY <1>1, <2>1, <2>3, <2>4 DEF Reader, ParsedIsCanonical
<1> QED
  BY <1>2, <1>3

(* take gives the next n bytes of the body, or fails.                      *)
LEMMA TakeIs ==
  ASSUME file \in Seq(Byte), end \in Nat, end <= Len(file),
         NEW i \in Nat, NEW n \in Nat
  PROVE  /\ take(i, n).err \in {"none", "ErrShortData"}
         /\ i + n <= end => take(i, n).err = "none"
         /\ take(i, n).err = "none" =>
              /\ i + n <= end
              /\ take(i, n).bytes = At(i, n)
              /\ take(i, n).next = i + n
              /\ At(i, n) \in Seq(Byte)
              /\ Len(At(i, n)) = n
              /\ Lies(file, i, At(i, n))
<1>1. Len(file) \in Nat
  OBVIOUS
<1>2. CASE i + n > end
  BY <1>2 DEF take, Not
<1>3. CASE ~(i + n > end)
  <2>1. i + n <= end /\ i + n <= Len(file)
    BY <1>1, <1>3
  <2>2. At(i, n) \in Seq(Byte) /\ Len(At(i, n)) = n /\ Lies(file, i, At(i, n))
    BY <2>1, AtIs
  <2>3. take(i, n) = Got(At(i, n), i + n)
    BY <1>3 DEF take
  <2> QED
    BY <2>1, <2>2, <2>3 DEF Got
<1> QED
  BY <1>2, <1>3

(* A field that was read is the one whose encoding lies at the offset, and *)
(* it is within its bound.                                                 *)
LEMMA ReadIs ==
  ASSUME file \in Seq(Byte), off \in Nat, end \in Nat, end <= Len(file),
         NEW j \in 1..13
  PROVE  LET f == Fields[j]
             got == Read(f)
             code == EncodeField(f, got.bytes)
         IN  /\ got.err \in {"none", "ErrShortData", "ErrMalformed"}
             /\ got.err = "none" =>
                  /\ got.bytes \in Seq(Byte)
                  /\ got.next = off + Len(code)
                  /\ got.next \in Nat /\ off <= got.next /\ got.next <= end
                  /\ Lies(file, off, code)
                  /\ IF f.prefixed THEN Len(got.bytes) <= f.len
                                   ELSE Len(got.bytes) = f.len
<1> DEFINE f == Fields[j]
           got == Read(f)
           n == Uint16(At(off, 2))
<1>1. f.prefixed \in BOOLEAN /\ f.len \in Nat /\ Len(file) \in Nat
  <2>1. \A i \in 1..13 : Fields[i].prefixed \in BOOLEAN /\ Fields[i].len \in Nat
    BY FieldsAre
  <2>2. Fields[j].prefixed \in BOOLEAN /\ Fields[j].len \in Nat
    BY <2>1, Zenon
  <2>3. Len(file) \in Nat
    OBVIOUS
  <2> QED
    BY <2>2, <2>3, Zenon
<1> HIDE DEF f
<1>2. CASE ~f.prefixed
  <2>1. got = take(off, f.len)
    BY <1>2 DEF Read
  <2>2. got.err = "none" => EncodeField(f, got.bytes) = At(off, f.len)
    BY <1>1, <1>2, <2>1, TakeIs DEF EncodeField
  <2> HIDE DEF got
  <2> QED
    <3>1. /\ got.err \in {"none", "ErrShortData"}
          /\ got.err = "none" =>
               /\ off + f.len <= end
               /\ got.bytes = At(off, f.len)
               /\ got.next = off + f.len
               /\ At(off, f.len) \in Seq(Byte)
               /\ Len(At(off, f.len)) = f.len
               /\ Lies(file, off, At(off, f.len))
      BY <1>1, <2>1, TakeIs
    <3>2. off <= off + f.len /\ off + f.len \in Nat
      BY <1>1
    <3>3. got.err = "none" =>
            /\ got.bytes \in Seq(Byte)
            /\ got.next = off + Len(EncodeField(f, got.bytes))
            /\ got.next \in Nat /\ off <= got.next /\ got.next <= end
            /\ Lies(file, off, EncodeField(f, got.bytes))
            /\ Len(got.bytes) = f.len
      BY <2>2, <3>1, <3>2
    <3> QED
      BY <1>2, <3>1, <3>3 DEF got, f
<1>3. CASE f.prefixed
  <2>1. got = takeU16(f.len)
    BY <1>3 DEF Read
  <2>2. CASE off + 2 > end
    BY <2>1, <2>2 DEF takeU16, Not, f
  <2>3. CASE ~(off + 2 > end)
    <3>1. off + 2 <= Len(file) /\ off + 2 <= end
      BY <1>1, <2>3
    <3>2. n \in Nat /\ Lies(file, off, u16Bytes(n))
      BY <3>1, BaseIs, Uint16Is
    <3>3. CASE n > f.len
      BY <2>1, <2>3, <3>3 DEF takeU16, Not, f
    <3>4. CASE ~(n > f.len)
      <4> HIDE DEF n
      <4>1. n <= f.len /\ off + 2 \in Nat
        BY <1>1, <3>2, <3>4
      <4>2. got = take(off + 2, n)
        BY <2>1, <2>3, <3>4 DEF takeU16, n
      <4> HIDE DEF got
      <4>3. /\ got.err \in {"none", "ErrShortData"}
            /\ got.err = "none" =>
                 /\ (off + 2) + n <= end
                 /\ got.bytes = At(off + 2, n)
                 /\ got.next = (off + 2) + n
                 /\ At(off + 2, n) \in Seq(Byte)
                 /\ Len(At(off + 2, n)) = n
                 /\ Lies(file, off + 2, At(off + 2, n))
        BY <3>2, <4>1, <4>2, TakeIs
      <4>4. ASSUME got.err = "none"
            PROVE  /\ got.bytes \in Seq(Byte) /\ Len(got.bytes) = n
                   /\ Lies(file, off, EncodeField(f, got.bytes))
                   /\ Len(EncodeField(f, got.bytes)) = 2 + n
        <5> DEFINE b == got.bytes
        <5>1. b \in Seq(Byte) /\ Len(b) = n /\ Lies(file, off + 2, b)
          BY <4>3, <4>4
        <5>2. u16Bytes(n) \in Seq(Byte) /\ Len(u16Bytes(n)) = 2
          BY <3>2, u16Is
        <5> HIDE DEF b
        <5>3. EncodeField(f, b) = u16Bytes(n) \o b
          BY <1>3, <5>1 DEF EncodeField
        <5>4. Lies(file, off, u16Bytes(n) \o b)
          BY <3>2, <5>1, <5>2, LiesConcat
        <5>5. Len(u16Bytes(n) \o b) = 2 + n
          BY <5>1, <5>2, ConcatLen
        <5> QED
          BY <5>1, <5>3, <5>4, <5>5 DEF b
      <4>5. (off + 2) + n = off + (2 + n) /\ off <= off + (2 + n)
            /\ off + (2 + n) \in Nat
        BY <3>2
      <4> QED
        BY <1>1, <1>3, <4>1, <4>3, <4>4, <4>5 DEF got, f
    <3> QED
      BY <3>3, <3>4
  <2> QED
    BY <2>2, <2>3
<1> QED
  BY <1>1, <1>2, <1>3

(* What parseSlot finds wrong with a field is a malformed envelope or an   *)
(* AEAD it does not know.                                                  *)
LEMMA FieldErrorIs ==
  ASSUME NEW f, NEW bytes
  PROVE  FieldError(f, bytes) \in {"none", "ErrMalformed", "ErrUnsupportedAEAD"}
BY DEF FieldError

(* A field that passes extends what was read of the body.                  *)
LEMMA ReadFieldStep ==
  ASSUME TypeOK, Reader, ReadField
  PROVE  TypeOK' /\ Reader'
<1> DEFINE f == Fields[k]
           got == Read(f)
           code == EncodeField(f, got.bytes)
<1>1. /\ file \in Seq(Byte) /\ Len(file) \in Nat
      /\ off \in Nat /\ end \in Nat /\ start \in Nat
      /\ cur \in [FieldNames -> Seq(Byte)]
      /\ pc = "field" /\ err = "none" /\ k \in 1..13
      /\ AtField /\ end <= Len(file)
  <2>1. DOMAIN Fields = 1..13
    BY FieldsAre, Zenon
  <2> QED
    BY <2>1 DEF TypeOK, ReadField, Reader, AtField
<1>2. /\ got.err \in {"none", "ErrShortData", "ErrMalformed"}
      /\ got.err = "none" =>
           /\ got.bytes \in Seq(Byte)
           /\ got.next = off + Len(code)
           /\ got.next \in Nat /\ off <= got.next /\ got.next <= end
           /\ Lies(file, off, code)
           /\ IF f.prefixed THEN Len(got.bytes) <= f.len
                            ELSE Len(got.bytes) = f.len
  BY <1>1, ReadIs
<1>3. FieldError(f, got.bytes)
        \in {"none", "ErrMalformed", "ErrUnsupportedAEAD"}
  BY FieldErrorIs
<1>4. CASE got.err # "none"
  <2>1. Fail(got.err) /\ UNCHANGED <<written, damage, file>>
    BY <1>4 DEF ReadField
  <2>2. got.err \in Errors
    BY <1>2, <1>4 DEF Errors
  <2> HIDE DEF got
  <2> QED
    BY <2>1, <2>2, FailStep
<1>5. CASE got.err = "none" /\ FieldError(f, got.bytes) # "none"
  <2>1. Fail(FieldError(f, got.bytes)) /\ UNCHANGED <<written, damage, file>>
    BY <1>5 DEF ReadField
  <2>2. FieldError(f, got.bytes) \in Errors
    BY <1>3, <1>5 DEF Errors
  <2> HIDE DEF got, f
  <2> QED
    BY <2>1, <2>2, FailStep
<1>6. CASE got.err = "none" /\ FieldError(f, got.bytes) = "none"
  <2>1. /\ cur' = [cur EXCEPT ![f.name] = got.bytes]
        /\ off' = got.next
        /\ k' = k + 1
        /\ UNCHANGED <<pc, end, start, left, slots, err, written, damage, file>>
    BY <1>6 DEF ReadField
  <2>2. /\ got.bytes \in Seq(Byte)
        /\ got.next = off + Len(code)
        /\ got.next \in Nat /\ off <= got.next /\ got.next <= end
        /\ Lies(file, off, code)
        /\ IF f.prefixed THEN Len(got.bytes) <= f.len
                         ELSE Len(got.bytes) = f.len
        /\ FieldError(f, got.bytes) = "none"
    BY <1>2, <1>6
  <2> HIDE DEF got
  <2>3. /\ cur' \in [FieldNames -> Seq(Byte)]
        /\ cur'[f.name] = got.bytes
        /\ \A i \in 1..13 : i # k => cur'[Fields[i].name] = cur[Fields[i].name]
        /\ Flat(Encoded(cur'), k - 1) = Flat(Encoded(cur), k - 1)
        /\ Flat(Encoded(cur'), k) = Flat(Encoded(cur), k - 1) \o code
    <3> DEFINE b == got.bytes
    <3>1. b \in Seq(Byte) /\ cur' = [cur EXCEPT ![Fields[k].name] = b]
      BY <2>1, <2>2
    <3> HIDE DEF b
    <3>2. k \in 1..13 /\ cur \in [FieldNames -> Seq(Byte)]
      BY <1>1
    <3>3. /\ cur' \in [FieldNames -> Seq(Byte)]
          /\ cur'[Fields[k].name] = b
          /\ \A i \in 1..13 : i # k =>
               cur'[Fields[i].name] = cur[Fields[i].name]
      BY <3>1, <3>2, FieldsAre
    <3>4. /\ Flat(Encoded(cur'), k - 1) = Flat(Encoded(cur), k - 1)
          /\ Flat(Encoded(cur'), k) =
               Flat(Encoded(cur), k - 1) \o EncodeField(Fields[k], b)
      <4> DEFINE p == Encoded(cur')
                 q == Encoded(cur)
      <4>1. /\ p \in Seq(Seq(Byte)) /\ Len(p) = 13
            /\ \A j \in 1..13 :
                 p[j] = EncodeField(Fields[j], cur'[Fields[j].name])
        BY <3>3, EncodedIs
      <4>2. /\ q \in Seq(Seq(Byte)) /\ Len(q) = 13
            /\ \A j \in 1..13 :
                 q[j] = EncodeField(Fields[j], cur[Fields[j].name])
        BY <3>2, EncodedIs
      <4> HIDE DEF p, q
      <4>3. \A j \in 1..(k - 1) : p[j] = q[j]
        <5> TAKE j \in 1..(k - 1)
        <5>1. j \in 1..13 /\ j # k
          BY <3>2
        <5>2. cur'[Fields[j].name] = cur[Fields[j].name]
          BY <3>3, <5>1, Zenon
        <5> QED
          BY <4>1, <4>2, <5>1, <5>2, Zenon
      <4>4. p[k] = EncodeField(Fields[k], b)
        <5>1. p[k] = EncodeField(Fields[k], cur'[Fields[k].name])
          BY <3>2, <4>1, Zenon
        <5> QED
          BY <3>3, <5>1, Zenon
      <4>5. p \in Seq(Seq(Byte)) /\ q \in Seq(Seq(Byte))
            /\ k \in 1..Len(p) /\ k <= Len(q)
        BY <3>2, <4>1, <4>2
      <4>6. /\ Flat(p, k - 1) = Flat(q, k - 1)
            /\ Flat(p, k) = Flat(q, k - 1) \o p[k]
        BY <4>3, <4>5, PiecesAgree
      <4> QED
        BY <4>4, <4>6, Zenon DEF p, q
    <3> QED
      BY <3>3, <3>4, Zenon DEF b, f, code
  <2>4. TypeOK'
    <3>1. k + 1 \in 1..(Len(Fields) + 1)
      BY <1>1, FieldsAre
    <3> QED
      BY <1>1, <2>1, <2>2, <2>3, <3>1 DEF TypeOK
  <2>5. AtField'
    <3> DEFINE p == Flat(Encoded(cur), k - 1)
    <3>1. /\ off = start + Len(p) /\ Lies(file, start, p)
          /\ start <= off /\ end <= Len(file)
      BY <1>1 DEF AtField
    <3>2. p \in Seq(Byte)
      <4> DEFINE q == Encoded(cur)
      <4>1. q \in Seq(Seq(Byte)) /\ Len(q) = 13
        BY <1>1, EncodedIs
      <4> HIDE DEF q
      <4>2. k - 1 \in 0..Len(q)
        BY <1>1, <4>1
      <4>3. Flat(q, k - 1) \in Seq(Byte)
        BY <4>1, <4>2, Pieces
      <4> QED
        BY <4>3 DEF q
    <3>3. code \in Seq(Byte) /\ Len(code) \in Nat
      <4>1. got.bytes \in Seq(Byte)
        BY <2>2
      <4> HIDE DEF got
      <4>2. code \in Seq(Byte)
        BY <1>1, <4>1, EncodeFieldIs
      <4> HIDE DEF code
      <4> QED
        BY <4>2
    <3> HIDE DEF p, code
    <3>4. Lies(file, start, p \o code) /\ Len(p \o code) = Len(p) + Len(code)
      BY <1>1, <2>2, <3>1, <3>2, <3>3, LiesConcat, ConcatLen
    <3>5. start + (Len(p) + Len(code)) = off + Len(code) /\ start <= got.next
      BY <1>1, <2>2, <3>1, <3>2, <3>3
    <3>6. k' - 1 = k /\ Flat(Encoded(cur'), k' - 1) = p \o code
      <4>1. k' - 1 = k
        BY <1>1, <2>1
      <4> QED
        BY <2>3, <4>1 DEF p
    <3>7. \A i \in 1..k : FieldRead(i)'
      <4> TAKE i \in 1..k
      <4>1. CASE i = k
        BY <2>2, <2>3, <4>1 DEF FieldRead, f
      <4>2. CASE i # k
        <5>1. i \in 1..13 /\ i \in 1..(k - 1)
          BY <1>1, <4>2
        <5>2. FieldRead(i) /\ cur'[Fields[i].name] = cur[Fields[i].name]
          BY <1>1, <2>3, <4>2, <5>1 DEF AtField
        <5> QED
          BY <5>2 DEF FieldRead
      <4> QED
        BY <4>1, <4>2
    <3>8. (\A i \in 1..(k - 1) : FieldRead(i))'
      BY <3>6, <3>7
    <3>9. /\ left' > 0 /\ start' = Len(ReadSoFar') + 4
          /\ Lies(file, 0, ReadSoFar)'
          /\ Lies(file, Len(ReadSoFar), u32Bytes(end - start))'
      <4>1. ReadSoFar' = ReadSoFar
        BY <2>1 DEF ReadSoFar
      <4> QED
        BY <1>1, <2>1, <4>1 DEF AtField
    <3> QED
      BY <2>1, <2>2, <3>1, <3>4, <3>5, <3>6, <3>8, <3>9 DEF AtField
  <2> QED
    BY <1>1, <2>1, <2>4, <2>5 DEF Reader, ParsedIsCanonical
<1> QED
  BY <1>4, <1>5, <1>6

(* Fields that all passed are fields that marshalMeta accepts.             *)
LEMMA FieldsFit ==
  ASSUME \A j \in 1..13 : FieldRead(j)
  PROVE  /\ MetaFits(cur)
         /\ \A j \in DOMAIN Fields :
              Fields[j].prefixed \/ Len(cur[Fields[j].name]) = Fields[j].len
<1>1. Fields[1].name = "Type" /\ Fields[4].name = "AEADID"
  BY DEF Fields, Fixed, Prefixed
<1>2. DOMAIN Fields = 1..13
  BY FieldsAre, Zenon
<1>3. typeValid(cur["Type"][1])
  <2>1. FieldError(Fields[1], cur[Fields[1].name]) = "none"
    <3>1. 1 \in 1..13
      OBVIOUS
    <3> QED
      BY <3>1 DEF FieldRead
  <2> QED
    BY <1>1, <2>1 DEF FieldError
<1>4. cur["AEADID"][1] = AEADChaCha20Poly1305
  <2>1. FieldError(Fields[4], cur[Fields[4].name]) = "none"
    <3>1. 4 \in 1..13
      OBVIOUS
    <3> QED
      BY <3>1 DEF FieldRead
  <2> QED
    BY <1>1, <2>1 DEF FieldError
<1>5. \A j \in 1..13 : IF Fields[j].prefixed
                       THEN Len(cur[Fields[j].name]) <= Fields[j].len
                       ELSE Len(cur[Fields[j].name]) = Fields[j].len
  BY DEF FieldRead
<1>6. \A j \in 1..13 :
        Fields[j].prefixed => Len(cur[Fields[j].name]) <= Fields[j].len
  BY <1>5
<1>7. \A j \in 1..13 :
        Fields[j].prefixed \/ Len(cur[Fields[j].name]) = Fields[j].len
  BY <1>5
<1> QED
  BY <1>2, <1>3, <1>4, <1>6, <1>7 DEF MetaFits

(* A file that shows its header shows a byte for the policy.               *)
LEMMA HintIsByte ==
  ASSUME file \in Seq(Byte), headerLen <= Len(file)
  PROVE  file[Len(Magic) + 2] \in Byte /\ headerLen = Len(Magic) + 4
<1>1. Len(Magic) \in Nat /\ Len(file) \in Nat
  BY WireAssumption
<1>2. headerLen = Len(Magic) + 4
  BY DEF headerLen
<1>3. Len(Magic) + 2 \in 1..Len(file)
  BY <1>1, <1>2
<1> QED
  BY <1>2, <1>3

(* The checks of validateSlotShape, one by one.                            *)
LEMMA ShapeIs ==
  ASSUME NEW fields, typeValid(fields["Type"][1])
  PROVE  /\ validateSlotShape(fields) = "ok"
              <=> Shaped(fields) /\ CostsInBounds(fields)
         /\ Shaped(fields) /\ ~CostsInBounds(fields)
              => validateSlotShape(fields) = "ErrKDFParams"
<1> DEFINE t == fields["Type"][1]
           kdf == fields["KDFID"][1]
           n == Len(fields["KDFParams"])
           c == CostsInBounds(fields)
<1>1. t \in 1..4
  BY DEF typeValid
<1>2. validateSlotShape(fields) =
        CASE t \in {1, 3} /\ kdf = KDFNone         -> "ErrMalformed"
          [] t \in {2, 4} /\ kdf # KDFNone         -> "ErrMalformed"
          [] kdf \notin {KDFNone} \cup BuiltInKDFs -> "ErrUnsupportedKDF"
          [] n # (IF kdf = KDFNone THEN 0 ELSE ParamsLen) -> "ErrKDFParams"
          [] OTHER -> IF c THEN "ok" ELSE "ErrKDFParams"
  BY Zenon DEF validateSlotShape
<1>3. Shaped(fields) <=>
        /\ t \in {1, 3} => kdf \in BuiltInKDFs /\ n = ParamsLen
        /\ t \in {2, 4} => kdf = KDFNone /\ n = 0
  BY Zenon DEF Shaped
<1>4. c \in BOOLEAN
  BY DEF CostsInBounds
<1>5. kdf = KDFNone => c
  BY DEF CostsInBounds, KDFNone, BuiltInKDFs
<1>6. (kdf \in BuiltInKDFs => kdf # KDFNone) /\ KDFNone \in {KDFNone} \cup BuiltInKDFs
  BY DEF KDFNone, BuiltInKDFs
<1> HIDE DEF t, kdf, n, c
<1>7. CASE t \in {1, 3}
  <2>1. t \notin {2, 4}
    BY <1>7
  <2>2. CASE kdf = KDFNone
    BY <1>2, <1>3, <1>6, <1>7, <2>1, <2>2
  <2>3. CASE kdf # KDFNone /\ kdf \notin BuiltInKDFs
    BY <1>2, <1>3, <1>6, <1>7, <2>1, <2>3
  <2>4. CASE kdf # KDFNone /\ kdf \in BuiltInKDFs
    <3>1. validateSlotShape(fields) =
            IF n # ParamsLen THEN "ErrKDFParams"
            ELSE IF c THEN "ok" ELSE "ErrKDFParams"
      BY <1>2, <2>1, <2>4
    <3>2. Shaped(fields) <=> n = ParamsLen
      BY <1>3, <1>7, <2>1, <2>4
    <3> QED
      BY <1>4, <3>1, <3>2 DEF c
  <2> QED
    BY <2>2, <2>3, <2>4
<1>8. CASE t \in {2, 4}
  <2>1. t \notin {1, 3}
    BY <1>8
  <2>2. CASE kdf # KDFNone
    BY <1>2, <1>3, <1>8, <2>1, <2>2
  <2>3. CASE kdf = KDFNone
    <3>1. validateSlotShape(fields) =
            IF n # 0 THEN "ErrKDFParams"
            ELSE IF c THEN "ok" ELSE "ErrKDFParams"
      BY <1>2, <1>6, <2>1, <2>3
    <3>2. Shaped(fields) <=> n = 0
      BY <1>3, <1>8, <2>1, <2>3
    <3> QED
      BY <1>4, <1>5, <2>3, <3>1, <3>2 DEF c
  <2> QED
    BY <2>2, <2>3
<1>9. t \in {1, 3} \/ t \in {2, 4}
  BY <1>1
<1> QED
  BY <1>7, <1>8, <1>9 DEF c

(* The slot that EndOfSlot appends when its checks pass.                   *)
NewSlot == [fields  |-> cur,
            Wrapped |-> At(off, end - off),
            meta    |-> At(start, off - start)]

(* It is one that the library could have sealed, and its body is what was  *)
(* read.                                                                   *)
LEMMA NewSlotIs ==
  ASSUME TypeOK, Reader, pc = "field", k = Len(Fields) + 1,
         end - off \in WrappedOverhead..MaxWrappedLen,
         validateSlotShape(cur) = "ok"
  PROVE  /\ NewSlot \in Slots
         /\ Sealed(NewSlot) /\ CostsInBounds(NewSlot.fields)
         /\ Len(NewSlot.Wrapped) <= MaxWrappedLen
         /\ MetaOf(NewSlot) = marshalMeta(cur)
         /\ Lies(file, Len(ReadSoFar), Body(NewSlot))
         /\ Len(ReadSoFar) + Len(Body(NewSlot)) = end
<1> DEFINE m == marshalMeta(cur)
           w == At(off, end - off)
           i == Len(ReadSoFar)
<1>1. /\ file \in Seq(Byte) /\ Len(file) \in Nat
      /\ off \in Nat /\ end \in Nat /\ start \in Nat
      /\ cur \in [FieldNames -> Seq(Byte)]
      /\ WrappedOverhead \in Nat /\ MaxWrappedLen \in Nat
  BY ConstantsAre DEF TypeOK
<1>2. k - 1 = 13
  BY FieldsAre
<1>3. /\ start = i + 4 /\ start <= off /\ off <= end /\ end <= Len(file)
      /\ Lies(file, i, u32Bytes(end - start))
      /\ off = start + Len(Flat(Encoded(cur), 13))
      /\ Lies(file, start, Flat(Encoded(cur), 13))
      /\ \A j \in 1..13 : FieldRead(j)
  BY <1>2 DEF Reader, AtField
<1>4. m \in Seq(Byte) /\ Flat(Encoded(cur), 13) = m
  <2> DEFINE q == Encoded(cur)
  <2>1. q \in Seq(Seq(Byte)) /\ Len(q) = 13
        /\ m = FlattenSeq(q) /\ m \in Seq(Byte)
    BY <1>1, EncodedIs
  <2> HIDE DEF q
  <2>2. Flat(q, Len(q)) = FlattenSeq(q)
    BY <2>1, Pieces
  <2> QED
    BY <2>1, <2>2 DEF q
<1>5. MetaFits(cur) /\ \A j \in DOMAIN Fields :
        Fields[j].prefixed \/ Len(cur[Fields[j].name]) = Fields[j].len
  BY <1>3, FieldsFit
<1> HIDE DEF m, i
<1>6. Len(m) \in Nat /\ off - start = Len(m) /\ off - start \in Nat
      /\ start + Len(m) = off /\ Lies(file, start, m)
  <2>1. Len(m) \in Nat
    BY <1>4
  <2>2. off = start + Len(m) /\ Lies(file, start, m)
    BY <1>3, <1>4, Zenon
  <2>3. start \in Nat /\ off \in Nat
    BY <1>1
  <2> QED
    BY <2>1, <2>2, <2>3
<1>7. At(start, off - start) = m
  <2>1. off - start \in Nat /\ start + (off - start) <= Len(file)
    <3>1. off <= end /\ end <= Len(file) /\ start <= off
      BY <1>3
    <3> QED
      BY <1>1, <3>1
  <2>2. /\ At(start, off - start) \in Seq(Byte)
        /\ Len(At(start, off - start)) = off - start
        /\ Lies(file, start, At(start, off - start))
    BY <1>1, <2>1, AtIs
  <2>3. Len(At(start, off - start)) = Len(m)
    BY <1>6, <2>2
  <2> DEFINE a == At(start, off - start)
  <2>4. a \in Seq(Byte) /\ Len(a) = Len(m) /\ Lies(file, start, a)
    BY <2>2, <2>3
  <2> HIDE DEF a
  <2>5. Lies(file, start, m) /\ start \in Nat
    BY <1>1, <1>6
  <2>6. a = m
    BY <1>1, <1>4, <2>4, <2>5, LiesOnce
  <2> QED
    BY <2>6, Zenon DEF a
<1>8. w \in Seq(Byte) /\ Len(w) = end - off /\ Lies(file, off, w)
  <2>1. end - off \in Nat /\ off + (end - off) <= Len(file)
    <3>1. off <= end /\ end <= Len(file)
      BY <1>3
    <3>2. off \in Nat /\ end \in Nat /\ Len(file) \in Nat
      BY <1>1
    <3> QED
      BY <3>1, <3>2
  <2> QED
    BY <1>1, <2>1, AtIs
<1> HIDE DEF w
<1>9. /\ NewSlot = [fields |-> cur, Wrapped |-> w, meta |-> m]
      /\ NewSlot.fields = cur /\ NewSlot.Wrapped = w /\ NewSlot.meta = m
  BY <1>7 DEF NewSlot, w
<1>10. NewSlot \in Slots
  BY <1>1, <1>4, <1>8, <1>9 DEF Slots
<1>11. MetaOf(NewSlot) = m
  BY <1>9 DEF MetaOf, m
<1>12. /\ Sealed(NewSlot) /\ CostsInBounds(NewSlot.fields)
       /\ Len(NewSlot.Wrapped) <= MaxWrappedLen
  <2>1. Len(w) >= WrappedOverhead /\ Len(w) <= MaxWrappedLen
    BY <1>1, <1>8
  <2>2. MetaFits(NewSlot.fields) /\ \A j \in DOMAIN Fields :
          \/ Fields[j].prefixed
          \/ Len(NewSlot.fields[Fields[j].name]) = Fields[j].len
    BY <1>5, <1>9, Zenon
  <2>3. NewSlot.meta = marshalMeta(NewSlot.fields)
    BY <1>9, Zenon DEF m
  <2>4. Shaped(NewSlot.fields) /\ CostsInBounds(NewSlot.fields)
    <3>1. typeValid(cur["Type"][1])
      BY <1>5, Zenon DEF MetaFits
    <3>2. Shaped(cur) /\ CostsInBounds(cur)
      BY <3>1, ShapeIs
    <3> QED
      BY <1>9, <3>2, Zenon
  <2>5. Len(NewSlot.Wrapped) >= WrappedOverhead
        /\ Len(NewSlot.Wrapped) <= MaxWrappedLen
    BY <1>9, <2>1, Zenon
  <2> QED
    BY <2>2, <2>3, <2>4, <2>5, Zenon DEF Sealed
<1> HIDE DEF NewSlot
<1>13. i \in Nat
  <2>1. file[Len(Magic) + 2] \in Byte
    BY HintIsByte DEF TypeOK, Reader
  <2>2. slots \in Seq(Slots) /\ left \in Nat
    BY DEF TypeOK
  <2>3. ReadSoFar \in Seq(Byte)
    BY <2>1, <2>2, BeginningType DEF ReadSoFar
  <2> QED
    BY <2>3 DEF i
<1>14. /\ end - start = Len(m) + Len(w) /\ i + 4 + Len(m) = off
       /\ i + (4 + Len(m) + Len(w)) = end
  <2>1. start = i + 4 /\ Len(w) = end - off /\ off = start + Len(m)
    BY <1>3, <1>6, <1>8
  <2>2. Len(m) \in Nat /\ off \in Nat /\ end \in Nat /\ start \in Nat
    BY <1>1, <1>6
  <2> QED
    BY <1>13, <2>1, <2>2
<1>15. Lies(file, i, Body(NewSlot))
  <2>1. /\ Lies(file, i, u32Bytes(Len(m) + Len(w)))
        /\ Lies(file, i + 4, m)
        /\ Lies(file, i + 4 + Len(m), w)
    BY <1>3, <1>6, <1>8, <1>14
  <2> QED
    BY <1>1, <1>9, <1>10, <1>11, <1>13, <2>1, BodyIs
<1>16. i + Len(Body(NewSlot)) = end
  <2>1. Len(Body(NewSlot)) = 4 + Len(m) + Len(w)
    BY <1>9, <1>10, <1>11, BodyIs
  <2> QED
    BY <1>14, <2>1
<1> QED
  BY <1>10, <1>11, <1>12, <1>15, <1>16 DEF i, m

(* A body that passes adds its slot to what was read.                      *)
LEMMA EndOfSlotStep ==
  ASSUME TypeOK, Reader, EndOfSlot
  PROVE  TypeOK' /\ Reader'
<1>1. /\ file \in Seq(Byte) /\ Len(file) \in Nat
      /\ off \in Nat /\ end \in Nat /\ left \in Nat
      /\ slots \in Seq(Slots)
      /\ pc = "field" /\ err = "none" /\ k = Len(Fields) + 1
      /\ AtField
  BY DEF TypeOK, EndOfSlot, Reader
<1>2. CASE end - off \notin WrappedOverhead..MaxWrappedLen
  <2>1. Fail("ErrMalformed") /\ UNCHANGED <<written, damage, file>>
    BY <1>2 DEF EndOfSlot
  <2>2. "ErrMalformed" \in Errors
    BY DEF Errors
  <2> QED
    BY <2>1, <2>2, FailStep
<1>3. CASE /\ end - off \in WrappedOverhead..MaxWrappedLen
           /\ validateSlotShape(cur) # "ok"
  <2>1. Fail(validateSlotShape(cur)) /\ UNCHANGED <<written, damage, file>>
    BY <1>3 DEF EndOfSlot
  <2>2. validateSlotShape(cur) \in Errors
    BY <1>3 DEF validateSlotShape, Errors
  <2> QED
    BY <2>1, <2>2, FailStep
<1>4. CASE /\ end - off \in WrappedOverhead..MaxWrappedLen
           /\ validateSlotShape(cur) = "ok"
  <2>1. /\ slots' = Append(slots, NewSlot)
        /\ off' = end /\ left' = left - 1 /\ pc' = "slot"
        /\ UNCHANGED <<end, start, k, cur, err, written, damage, file>>
    BY <1>4 DEF EndOfSlot, NewSlot
  <2>2. /\ NewSlot \in Slots
        /\ Sealed(NewSlot) /\ CostsInBounds(NewSlot.fields)
        /\ Len(NewSlot.Wrapped) <= MaxWrappedLen
        /\ Lies(file, Len(ReadSoFar), Body(NewSlot))
        /\ Len(ReadSoFar) + Len(Body(NewSlot)) = end
    BY <1>1, <1>4, NewSlotIs
  <2>3. left > 0 /\ Lies(file, 0, ReadSoFar)
    BY <1>1 DEF AtField
  <2>4. file[Len(Magic) + 2] \in Byte
    BY <1>1, HintIsByte DEF Reader
  <2> HIDE DEF NewSlot
  <2>5. /\ slots' \in Seq(Slots) /\ Len(slots) \in Nat
        /\ Len(slots') = Len(slots) + 1
        /\ \A i \in 1..Len(slots) : slots'[i] = slots[i]
        /\ slots'[Len(slots) + 1] = NewSlot
    BY <1>1, <2>1, <2>2, AppendProperties
  <2>6. Len(slots') + left' = Len(slots) + left
    BY <1>1, <2>1, <2>5
  <2>7. ReadSoFar' = ReadSoFar \o Body(NewSlot)
    <3>1. left \in Nat \ {0}
      BY <1>1, <2>3
    <3>2. Beginning(file, Append(slots, NewSlot), left - 1)
            = Beginning(file, slots, left) \o Body(NewSlot)
      BY <1>1, <2>2, <2>4, <3>1, BeginningAppend
    <3> QED
      BY <2>1, <3>2 DEF ReadSoFar
  <2>8. ReadSoFar \in Seq(Byte) /\ Len(ReadSoFar) \in Nat
    <3>1. ReadSoFar \in Seq(Byte)
      BY <1>1, <2>4, BeginningType DEF ReadSoFar
    <3> QED
      BY <3>1
  <2>9. Body(NewSlot) \in Seq(Byte)
    BY <2>2, BodyIs
  <2>10. AtSlot'
    <3> DEFINE r == ReadSoFar
               b == Body(NewSlot)
    <3>1. r \in Seq(Byte) /\ b \in Seq(Byte) /\ file \in Seq(Byte)
          /\ Len(r) \in Nat
          /\ Lies(file, 0, r) /\ Lies(file, Len(r), b) /\ Len(r) + Len(b) = end
      BY <1>1, <2>2, <2>3, <2>8, <2>9
    <3> HIDE DEF r, b
    <3>2. Len(r \o b) = end
      BY <3>1, ConcatLen
    <3>3. 0 + Len(r) = Len(r)
      BY <3>1
    <3>4. Lies(file, 0 + Len(r), b)
      BY <3>1, <3>3, Zenon
    <3>5. Lies(file, 0, r \o b)
      BY <3>1, <3>4, LiesConcat
    <3>6. ReadSoFar' = r \o b
      BY <2>7, Zenon DEF r, b
    <3> QED
      BY <2>1, <3>2, <3>5, <3>6, Zenon DEF AtSlot
  <2>11. \A i \in DOMAIN slots' :
           /\ Sealed(slots'[i]) /\ CostsInBounds(slots'[i].fields)
           /\ Len(slots'[i].Wrapped) <= MaxWrappedLen
    <3> TAKE i \in DOMAIN slots'
    <3>1. i \in 1..(Len(slots) + 1)
      BY <2>5
    <3>2. CASE i \in 1..Len(slots)
      <4>1. slots'[i] = slots[i] /\ i \in DOMAIN slots
        BY <1>1, <2>5, <3>2
      <4>2. /\ Sealed(slots[i]) /\ CostsInBounds(slots[i].fields)
            /\ Len(slots[i].Wrapped) <= MaxWrappedLen
        BY <1>1, <4>1 DEF Reader
      <4> QED
        BY <4>1, <4>2, Zenon
    <3>3. CASE i = Len(slots) + 1
      BY <2>2, <2>5, <3>3, Zenon
    <3> QED
      BY <2>5, <3>1, <3>2, <3>3
  <2>12. TypeOK'
    <3>1. left' \in 0..MaxSlotCount
      <4>1. left \in 0..MaxSlotCount /\ MaxSlotCount \in Nat
        BY ConstantsAre DEF TypeOK
      <4> QED
        BY <2>1, <2>3, <4>1
    <3> QED
      BY <1>1, <2>1, <2>5, <3>1 DEF TypeOK
  <2>13. /\ Len(file') \in headerLen..MaxEnvelopeLen
         /\ Len(slots') + left' \in 1..MaxSlotCount
    BY <1>1, <2>1, <2>6 DEF Reader
  <2> QED
    BY <1>1, <2>1, <2>10, <2>11, <2>12, <2>13, Zenon
       DEF Reader, ParsedIsCanonical
<1> QED
  BY <1>2, <1>3, <1>4

(* A file whose announced slots fill it is the image of what was read.     *)
LEMMA EndOfEnvelopeStep ==
  ASSUME TypeOK, Reader, EndOfEnvelope
  PROVE  TypeOK' /\ Reader'
<1>1. /\ file \in Seq(Byte) /\ Len(file) \in Nat
      /\ slots \in Seq(Slots) /\ Len(slots) \in Nat
      /\ pc = "slot" /\ left = 0
      /\ Len(file) \in headerLen..MaxEnvelopeLen
      /\ Len(slots) + left \in 1..MaxSlotCount
      /\ AtSlot
      /\ \A i \in DOMAIN slots :
           Sealed(slots[i]) /\ Len(slots[i].Wrapped) <= MaxWrappedLen
  BY DEF TypeOK, Reader, EndOfEnvelope
<1>2. /\ pc' = "done" /\ err' \in {"ok", "ErrMalformed"}
      /\ err' = "ok" => off = Len(file)
      /\ UNCHANGED <<written, damage, file, off, end, start, left, k, cur>>
      /\ UNCHANGED slots
  BY DEF EndOfEnvelope, position
<1>3. TypeOK'
  BY <1>2 DEF TypeOK
<1>4. file[Len(Magic) + 2] \in Byte
  BY <1>1, HintIsByte
<1>5. ASSUME err' = "ok"
      PROVE  ParsedIsCanonical'
  <2>1. Parsed \in Envelopes
    BY <1>1, <1>4 DEF Parsed, Envelopes
  <2>2. Len(slots) + 0 = Len(slots) /\ Len(slots) \in 1..MaxSlotCount
    BY <1>1
  <2>3. Parsed.policyHint = file[Len(Magic) + 2] /\ Parsed.slots = slots
    BY DEF Parsed
  <2>4. Image(Parsed) = ReadSoFar
    <3>1. Image(Parsed) = HeaderOf(file[Len(Magic) + 2], Len(slots))
                            \o FlattenSeq(Bodies(slots))
      BY <2>1, <2>3, ImageIs
    <3> QED
      BY <1>1, <2>2, <3>1, Zenon DEF ReadSoFar, Beginning
  <2>5. Image(Parsed) \in Seq(Byte)
    BY <2>1, ImageIs
  <2>6. Image(Parsed) = file
    <3> DEFINE r == Image(Parsed)
    <3>1. r \in Seq(Byte) /\ Len(r) = Len(file) /\ Lies(file, 0, r)
      BY <1>1, <1>2, <1>5, <2>4, <2>5 DEF AtSlot
    <3> HIDE DEF r
    <3>2. \A i \in 1..Len(file) : r[i] = file[i]
      <4>1. \A i \in 1..Len(r) : file[0 + i] = r[i]
        BY <3>1 DEF Lies
      <4> QED
        BY <1>1, <3>1, <4>1
    <3>3. r = file
      BY <1>1, <3>1, <3>2, SeqEqual
    <3> QED
      BY <3>3 DEF r
  <2>7. Marshalable(Parsed)
    <3>1. Len(Image(Parsed)) <= MaxEnvelopeLen
      BY <1>1, <2>6
    <3>2. \A i \in DOMAIN slots :
            /\ Len(slots[i].Wrapped) \in 1..MaxWrappedLen
            /\ slots[i].meta = <<>> => MetaFits(slots[i].fields)
      <4> TAKE i \in DOMAIN slots
      <4>1. slots[i] \in Slots /\ Sealed(slots[i])
            /\ Len(slots[i].Wrapped) <= MaxWrappedLen
        BY <1>1
      <4>2. Len(slots[i].Wrapped) \in Nat
        BY <4>1, BodyIs
      <4>3. /\ Len(slots[i].Wrapped) >= WrappedOverhead
            /\ MetaFits(slots[i].fields)
        BY <4>1 DEF Sealed
      <4>4. /\ WrappedOverhead \in Nat /\ WrappedOverhead >= 1
            /\ MaxWrappedLen \in Nat
        BY ConstantsAre, WidthAssumption
      <4>5. Len(slots[i].Wrapped) \in 1..MaxWrappedLen
        BY <4>1, <4>2, <4>3, <4>4
      <4> QED
        BY <4>3, <4>5
    <3> QED
      BY <2>2, <2>3, <3>1, <3>2 DEF Marshalable
  <2>8. \A i \in DOMAIN slots : slots[i].meta = marshalMeta(slots[i].fields)
    BY <1>1 DEF Sealed
  <2>9. Parsed' = Parsed
    BY <1>2 DEF Parsed
  <2> QED
    BY <1>2, <2>6, <2>7, <2>8, <2>9 DEF ParsedIsCanonical
<1>6. ParsedIsCanonical'
  BY <1>5 DEF ParsedIsCanonical
<1> QED
  BY <1>2, <1>3, <1>6 DEF Reader

-----------------------------------------------------------------------------
(* The reader's part of the invariant *)

(* Every step of the program keeps the reader's part of the invariant.     *)
LEMMA ReaderNext ==
  ASSUME TypeOK, Reader, [Next]_vars
  PROVE  TypeOK' /\ Reader'
<1>1. CASE UNCHANGED vars
  <2>1. /\ UNCHANGED <<written, damage, file, pc, off, end, start, left>>
        /\ UNCHANGED <<k, cur, slots, err>>
    BY <1>1 DEF vars
  <2>2. TypeOK' <=> TypeOK
    BY <2>1 DEF TypeOK
  <2>3. ReadSoFar' = ReadSoFar
    BY <2>1 DEF ReadSoFar
  <2>4. AtSlot' <=> AtSlot
    BY <2>1, <2>3 DEF AtSlot
  <2>5. AtField' <=> AtField
    BY <2>1, <2>3 DEF AtField, FieldRead
  <2>6. ParsedIsCanonical' <=> ParsedIsCanonical
    BY <2>1 DEF ParsedIsCanonical, Parsed
  <2> QED
    BY <2>1, <2>2, <2>4, <2>5, <2>6 DEF Reader
<1>2. CASE Done
  <2> QED
    BY <1>1, <1>2 DEF Done
<1> QED
  BY <1>1, <1>2, MarshalStep, DamageStep, HeaderStep, SlotLenStep,
     ReadFieldStep, EndOfSlotStep, EndOfEnvelopeStep DEF Next

(* Before Marshal nothing was read.                                        *)
LEMMA ReaderInit ==
  ASSUME Init
  PROVE  TypeOK /\ Reader
<1>1. <<>> \in Seq(Byte) /\ <<>> \in Seq(Slots) /\ 0 \in 0..MaxSlotCount
      /\ 1 \in 1..(Len(Fields) + 1)
  BY ConstantsAre, EmptySeq, FieldsAre
<1>2. [f \in FieldNames |-> <<>>] \in [FieldNames -> Seq(Byte)]
  BY <1>1
<1> QED
  BY <1>1, <1>2 DEF Init, TypeOK, Reader, ParsedIsCanonical

-----------------------------------------------------------------------------
(* What was written *)

(* The part of Tracks that does not depend on where the parser is.         *)
OwnFile ==
  OwnSlots(written) /\ damage # "changed" /\ Marshalable(written) /\ Agrees

(* A slot of the library is one that wrapDEK sealed.                       *)
LEMMA OwnSlotIs ==
  ASSUME written \in Written, OwnSlots(written), Marshalable(written),
         NEW i \in 1..Len(written.slots)
  PROVE  LET s == written.slots[i]
         IN  /\ s \in Slots /\ Sealed(s)
             /\ MetaOf(s) = marshalMeta(s.fields)
             /\ Len(s.Wrapped) \in WrappedOverhead..MaxWrappedLen
<1> DEFINE s == written.slots[i]
<1>1. written \in Envelopes
  BY WrittenAssumption
<1>2. written.slots \in Seq(Slots)
  BY <1>1, ImageIs
<1>3. i \in DOMAIN written.slots /\ s \in Slots
  BY <1>2
<1>4. s.meta # <<>>
  BY <1>3 DEF OwnSlots
<1>5. Sealed(s)
  BY <1>3, <1>4, OwnAssumption
<1>6. Len(s.Wrapped) \in 1..MaxWrappedLen
  BY <1>3 DEF Marshalable
<1> HIDE DEF s
<1>7. Len(s.Wrapped) >= WrappedOverhead /\ s.meta = marshalMeta(s.fields)
  BY <1>5 DEF Sealed
<1>8. WrappedOverhead \in Nat /\ MaxWrappedLen \in Nat
  BY ConstantsAre
<1>9. Len(s.Wrapped) \in WrappedOverhead..MaxWrappedLen
  BY <1>6, <1>7, <1>8
<1>10. MetaOf(s) = marshalMeta(s.fields)
  BY <1>7 DEF MetaOf
<1> QED
  BY <1>3, <1>5, <1>9, <1>10 DEF s

(* What lies in the image lies in the file, as far as the file goes.       *)
LEMMA AgreesReads ==
  ASSUME Agrees, file \in Seq(Byte), Image(written) \in Seq(Byte),
         NEW s \in Seq(Byte), NEW i \in Nat,
         Lies(Image(written), i, s), i + Len(s) <= Len(file)
  PROVE  Lies(file, i, s)
<1> DEFINE f == Image(written)
<1>1. Len(file) \in Nat /\ Len(f) \in Nat /\ Len(s) \in Nat
  OBVIOUS
<1>2. \A j \in DOMAIN file : j <= Len(f) => file[j] = f[j]
  BY DEF Agrees
<1>3. i + Len(s) <= Len(f) /\ \A j \in 1..Len(s) : f[i + j] = s[j]
  BY DEF Lies
<1> HIDE DEF f
<1>4. ASSUME NEW j \in 1..Len(s)
      PROVE  file[i + j] = s[j]
  <2>1. i + j \in 1..Len(file) /\ i + j <= Len(f)
    BY <1>1, <1>3
  <2>2. i + j \in DOMAIN file
    BY <2>1
  <2> QED
    BY <1>2, <1>3, <2>1, <2>2
<1> QED
  BY <1>4 DEF Lies

(* Where the lengths of the file and of the image stand to each other.     *)
LEMMA OwnImage ==
  ASSUME TypeOK, OwnFile
  PROVE  /\ written \in Envelopes
         /\ Image(written) \in Seq(Byte) /\ Len(Image(written)) \in Nat
         /\ headerLen \in Nat /\ headerLen <= Len(Image(written))
         /\ Len(Image(written)) <= MaxEnvelopeLen
         /\ Len(file) < Len(Image(written)) => damage = "cut"
         /\ Len(file) > Len(Image(written)) => damage = "longer"
         /\ Len(file) = Len(Image(written)) => damage = "none"
<1> DEFINE n == Len(Image(written))
<1>1. written \in Envelopes
  BY WrittenAssumption DEF TypeOK
<1>2. Image(written) \in Seq(Byte) /\ written.slots \in Seq(Slots)
      /\ n = headerLen + Len(FlattenSeq(Bodies(written.slots)))
  BY <1>1, ImageIs
<1>3. n \in Nat
  BY <1>2
<1>4. Len(FlattenSeq(Bodies(written.slots))) \in Nat
  <2>1. FlattenSeq(Bodies(written.slots)) \in Seq(Byte)
    BY <1>2, BodiesAre
  <2> QED
    BY <2>1
<1>5. headerLen \in Nat
  BY ConstantsAre
<1>6. headerLen <= n
  BY <1>2, <1>4, <1>5
<1>7. n <= MaxEnvelopeLen
  BY DEF OwnFile, Marshalable
<1>8. Len(file) \in Nat
  BY DEF TypeOK
<1>9. /\ damage = "none" => Len(file) = n
      /\ damage = "cut" => Len(file) < n
      /\ damage = "longer" => Len(file) > n
      /\ damage \in {"none", "cut", "longer"}
  BY DEF OwnFile, Agrees, TypeOK
<1> HIDE DEF n
<1>10. /\ Len(file) < n => damage = "cut"
       /\ Len(file) > n => damage = "longer"
       /\ Len(file) = n => damage = "none"
  BY <1>3, <1>8, <1>9
<1> QED
  BY <1>1, <1>2, <1>3, <1>5, <1>6, <1>7, <1>10 DEF n

(* A parser that gives up does so for the reason the damage gives it.      *)
LEMMA TracksFail ==
  ASSUME NEW code, Fail(code), UNCHANGED <<written, damage, file>>,
         OwnSlots(written) /\ damage # "changed" =>
           \/ damage = "cut" /\ code = "ErrShortData"
           \/ damage = "longer" /\ code = "ErrMalformed"
           \/ code = "ErrKDFParams" /\ ~InBounds(written)
  PROVE  Tracks'
<1>1. /\ pc' = "done" /\ err' = code /\ written' = written /\ damage' = damage
  BY DEF Fail
<1>2. InBounds(written)' <=> InBounds(written)
  BY <1>1
<1> QED
  BY <1>1, <1>2 DEF Tracks

(* What Marshal writes is the image.                                       *)
LEMMA TracksMarshal ==
  ASSUME TypeOK, Reader, Marshal
  PROVE  Tracks'
<1>1. damage = "none" /\ damage' = "none" /\ written' = written
  BY DEF Reader, Marshal
<1>2. CASE Marshalable(written)
  <2>1. file' = Image(written) /\ pc' = "stored"
    BY <1>2 DEF Marshal
  <2>2. Agrees'
    BY <1>1, <2>1 DEF Agrees
  <2> QED
    BY <1>1, <1>2, <2>1, <2>2 DEF Tracks
<1>3. CASE ~Marshalable(written)
  BY <1>1, <1>3 DEF Tracks, Marshal
<1> QED
  BY <1>2, <1>3

(* A file that lost its end, or was appended to, still agrees with the     *)
(* image as far as both go.                                                *)
LEMMA TracksDamage ==
  ASSUME TypeOK, Reader, Tracks, Damage
  PROVE  Tracks'
<1> SUFFICES ASSUME OwnSlots(written), damage' # "changed"
             PROVE  Agrees' /\ Marshalable(written)
  BY DEF Tracks, Damage
<1> DEFINE f == Image(written)
<1>1. /\ pc = "stored" /\ damage = "none" /\ written' = written
      /\ damage # "changed"
  BY DEF Damage
<1>2. Marshalable(written) /\ Agrees
  BY <1>1 DEF Tracks
<1>3. file \in Seq(Byte) /\ Len(file) \in Nat
  BY DEF TypeOK
<1>4. Len(file) = Len(f) /\ \A i \in DOMAIN file : file[i] = f[i]
  BY <1>1, <1>2, <1>3 DEF Agrees
<1>5. f' = f
  BY <1>1
<1> HIDE DEF f
<1>6. ASSUME damage' = "cut", NEW n \in 0..(Len(file) - 1), file' = At(0, n)
      PROVE  Agrees'
  <2>1. n \in Nat /\ 0 + n <= Len(file)
    BY <1>3
  <2>2. Len(file') = n /\ file' \in Seq(Byte)
        /\ \A j \in 1..n : file'[j] = file[0 + j]
    BY <1>3, <1>6, <2>1, AtIs
  <2>3. \A j \in DOMAIN file' : j <= Len(f') => file'[j] = f'[j]
    <3> TAKE j \in DOMAIN file'
    <3>1. j \in 1..n /\ j \in DOMAIN file /\ 0 + j = j
      BY <1>3, <2>2
    <3> QED
      BY <1>4, <1>5, <2>2, <3>1
  <2>4. Len(file') < Len(f')
    BY <1>3, <1>4, <1>5, <2>2
  <2> QED
    BY <1>6, <2>3, <2>4 DEF Agrees, f
<1>7. ASSUME damage' = "longer", NEW s \in Stray, file' = file \o s
      PROVE  Agrees'
  <2>1. s \in Seq(Byte) /\ s # <<>>
    BY WireAssumption
  <2>2. Len(s) \in Nat /\ Len(s) # 0
    BY <2>1, EmptySeq
  <2>3. file' \in Seq(Byte) /\ Len(file') = Len(file) + Len(s)
    BY <1>3, <1>7, <2>1, ConcatLen
  <2>4. \A j \in DOMAIN file' : j <= Len(f') => file'[j] = f'[j]
    <3> TAKE j \in DOMAIN file'
    <3> HAVE j <= Len(f')
    <3>1. j \in 1..Len(file) /\ j \in DOMAIN file
      BY <1>3, <1>4, <1>5, <2>3
    <3>2. (file \o s)[j] = file[j]
      BY <1>3, <2>1, <3>1, ConcatProperties
    <3> QED
      BY <1>4, <1>5, <1>7, <3>1, <3>2
  <2>5. Len(file') > Len(f')
    BY <1>3, <1>4, <1>5, <2>2, <2>3
  <2> QED
    BY <1>7, <2>4, <2>5 DEF Agrees, f
<1> QED
  BY <1>2, <1>6, <1>7 DEF Damage

(* A file of the library is well formed up to its damage.                  *)
LEMMA TracksOwn ==
  ASSUME Tracks, OwnSlots(written), damage # "changed",
         pc \in {"stored", "slot", "field"}
  PROVE  OwnFile
BY DEF Tracks, OwnFile

(* A sequence lies at its own start.                                       *)
LEMMA LiesInItself ==
  ASSUME NEW S, NEW f \in Seq(S)
  PROVE  Lies(f, 0, f)
<1>1. Len(f) \in Nat /\ 0 + Len(f) <= Len(f)
  OBVIOUS
<1>2. \A j \in 1..Len(f) : f[0 + j] = f[j]
  OBVIOUS
<1> QED
  BY <1>1, <1>2 DEF Lies

(* What was read so far is the beginning of the image, and what comes next *)
(* there is the body of the next slot.                                     *)
LEMMA PositionIs ==
  ASSUME TypeOK, Reader, Tracks, OwnSlots(written), damage # "changed",
         pc \in {"slot", "field"}
  PROVE  /\ ReadSoFar \in Seq(Byte) /\ Len(ReadSoFar) \in Nat
         /\ left > 0 =>
              /\ Len(slots) + 1 \in 1..Len(written.slots)
              /\ Lies(Image(written), Len(ReadSoFar), Body(Current))
         /\ left = 0 => ReadSoFar = Image(written)
<1> DEFINE ws == written.slots
           n == Len(slots)
           h == HeaderOf(written.policyHint, Len(ws))
           p == Bodies(slots)
           q == Bodies(ws)
           img == Image(written)
<1>1. /\ file[Len(Magic) + 2] = written.policyHint
      /\ n + left = Len(ws)
      /\ \A i \in DOMAIN slots : slots[i] = ws[i]
  BY DEF Tracks
<1>2. /\ written.policyHint \in Byte /\ ws \in Seq(Slots)
      /\ slots \in Seq(Slots) /\ left \in Nat
      /\ n \in Nat /\ Len(ws) \in Nat
      /\ img = h \o FlattenSeq(q) /\ img \in Seq(Byte)
  <2>1. written \in Envelopes
    BY WrittenAssumption DEF TypeOK
  <2>2. slots \in Seq(Slots) /\ left \in Nat
    BY DEF TypeOK
  <2> QED
    BY <2>1, <2>2, ImageIs
<1>3. h \in Seq(Byte) /\ Len(h) \in Nat
  <2>1. h \in Seq(Byte)
    BY <1>2, HeaderIs
  <2> HIDE DEF h
  <2> QED
    BY <2>1
<1>4. /\ p \in Seq(Seq(Byte)) /\ Len(p) = n
      /\ q \in Seq(Seq(Byte)) /\ Len(q) = Len(ws)
      /\ \A i \in 1..n : p[i] = Body(slots[i])
      /\ \A i \in 1..Len(ws) : q[i] = Body(ws[i])
  BY <1>2, BodiesAre
<1>5. ReadSoFar = h \o FlattenSeq(p)
  BY <1>1, Zenon DEF ReadSoFar, Beginning
<1>6. n <= Len(ws)
  BY <1>1, <1>2
<1>7. \A i \in 1..n : p[i] = q[i]
  <2> TAKE i \in 1..n
  <2>1. i \in 1..Len(ws) /\ i \in DOMAIN slots
    BY <1>2, <1>6
  <2>2. slots[i] = ws[i]
    BY <1>1, <2>1, Zenon
  <2> QED
    BY <1>4, <2>1, <2>2, Zenon
<1> DEFINE c == Current
<1>8. c = ws[n + 1]
  BY DEF Current
<1> HIDE DEF ws, n, h, p, q, img, c
<1>9. Flat(p, n) = Flat(q, n)
  <2> DEFINE S == Seq(Byte)
  <2>1. p \in Seq(S) /\ q \in Seq(S) /\ n \in Nat /\ n <= Len(p) /\ n <= Len(q)
    BY <1>2, <1>4, <1>6
  <2> HIDE DEF S
  <2> QED
    BY <1>7, <2>1, FlatOfPrefix
<1>10. FlattenSeq(p) = Flat(q, n) /\ Flat(q, n) \in Seq(Byte)
  <2>1. Flat(p, Len(p)) = FlattenSeq(p)
    BY <1>4, Pieces
  <2>2. n \in 0..Len(q)
    BY <1>2, <1>4, <1>6
  <2>3. Flat(q, n) \in Seq(Byte)
    BY <1>4, <2>2, Pieces
  <2> QED
    BY <1>4, <1>9, <2>1, <2>3, Zenon
<1>11. /\ ReadSoFar \in Seq(Byte)
       /\ Len(ReadSoFar) = Len(h) + Len(Flat(q, n))
       /\ Len(Flat(q, n)) \in Nat
  <2> DEFINE x == Flat(q, n)
  <2>1. x \in Seq(Byte) /\ ReadSoFar = h \o x
    BY <1>5, <1>10
  <2> HIDE DEF x
  <2>2. h \o x \in Seq(Byte) /\ Len(h \o x) = Len(h) + Len(x) /\ Len(x) \in Nat
    BY <1>3, <2>1, ConcatLen
  <2> QED
    BY <2>1, <2>2 DEF x
<1>12. ASSUME left > 0
       PROVE  /\ n + 1 \in 1..Len(ws)
              /\ Lies(img, Len(ReadSoFar), Body(c))
  <2> DEFINE x == Flat(q, n)
             y == FlattenSeq(q)
  <2>1. n + 1 \in 1..Len(ws) /\ n \in 0..(Len(q) - 1)
    BY <1>1, <1>2, <1>4, <1>12
  <2>2. Lies(y, Len(x), q[n + 1]) /\ y \in Seq(Byte)
    BY <1>4, <2>1, Pieces, PiecesLie
  <2>3. q[n + 1] = Body(c) /\ q[n + 1] \in Seq(Byte)
    <3>1. n + 1 \in 1..Len(q)
      BY <1>4, <2>1
    <3> QED
      BY <1>4, <1>8, <2>1, <3>1
  <2>4. Len(x) \in Nat
    BY <1>11
  <2> HIDE DEF x, y
  <2>5. Lies(img, 0, h \o y)
    <3>1. Lies(img, 0, img)
      BY <1>2, LiesInItself
    <3> QED
      BY <1>2, <3>1 DEF y
  <2>6. Lies(img, Len(h), y)
    <3>1. Lies(img, 0 + Len(h), y)
      BY <1>2, <1>3, <2>2, <2>5, LiesConcat
    <3> QED
      BY <1>3, <3>1
  <2>7. Lies(img, Len(h) + Len(x), q[n + 1])
    BY <1>2, <1>3, <2>2, <2>3, <2>4, <2>6, LiesWithin
  <2> QED
    BY <1>11, <2>1, <2>3, <2>7 DEF x
<1>13. ASSUME left = 0
       PROVE  ReadSoFar = img
  <2>1. n = Len(q)
    BY <1>1, <1>2, <1>4, <1>13
  <2>2. Flat(q, n) = FlattenSeq(q)
    BY <1>4, <2>1, Pieces
  <2> QED
    BY <1>2, <1>5, <1>10, <2>2
<1>14. Len(ReadSoFar) \in Nat
  BY <1>11
<1> QED
  BY <1>11, <1>12, <1>13, <1>14 DEF ws, n, img, c

(* The header of a file that shows one is that of what was written.        *)
LEMMA OwnHeader ==
  ASSUME TypeOK, OwnFile, headerLen <= Len(file)
  PROVE  /\ At(0, Len(Magic)) = Magic
         /\ file[Len(Magic) + 1] = FormatVersion
         /\ file[Len(Magic) + 2] = written.policyHint
         /\ Uint16(At(Len(Magic) + 2, 2)) = Len(written.slots)
         /\ slotCountValid(Len(written.slots))
<1> DEFINE m == Len(Magic)
           n == Len(written.slots)
           h == HeaderOf(written.policyHint, n)
           img == Image(written)
<1>1. /\ file \in Seq(Byte) /\ Len(file) \in Nat
      /\ Magic \in Seq(Byte) /\ m \in Nat /\ headerLen = m + 4
  BY ConstantsAre DEF TypeOK
<1>2. written \in Envelopes
  BY WrittenAssumption DEF TypeOK
<1>3. /\ written.policyHint \in Byte /\ written.slots \in Seq(Slots)
      /\ n \in Nat /\ img \in Seq(Byte)
      /\ img = h \o FlattenSeq(Bodies(written.slots))
      /\ FlattenSeq(Bodies(written.slots)) \in Seq(Byte)
  BY <1>2, ImageIs, BodiesAre
<1>4. n \in 1..MaxSlotCount /\ Agrees
  BY DEF OwnFile, Marshalable
<1>5. h \in Seq(Byte) /\ Len(h) = headerLen
  BY <1>3, HeaderIs
<1>6. Lies(img, 0, h)
  <2> DEFINE b == FlattenSeq(Bodies(written.slots))
  <2>1. Lies(img, 0, img) /\ b \in Seq(Byte) /\ img = h \o b
    BY <1>3, LiesInItself
  <2> HIDE DEF img, h, b
  <2>2. Lies(img, 0, h \o b)
    BY <2>1
  <2> QED
    BY <1>3, <1>5, <2>1, <2>2, LiesConcat
<1>7. Lies(file, 0, h)
  <2>1. 0 + Len(h) <= Len(file)
    BY <1>1, <1>5
  <2> HIDE DEF h
  <2> QED
    BY <1>1, <1>3, <1>4, <1>5, <1>6, <2>1, AgreesReads
<1>8. /\ Lies(file, 0, Magic)
      /\ file[m + 1] = FormatVersion
      /\ file[m + 2] = written.policyHint
      /\ file[m + 3] = (n \div Base) % Base
      /\ file[m + 4] = n % Base
  <2>1. written.policyHint \in Byte /\ n \in Nat
    BY <1>3
  <2>2. Lies(file, 0, HeaderOf(written.policyHint, n)) /\ file \in Seq(Byte)
    BY <1>1, <1>7
  <2> HIDE DEF n
  <2> DEFINE hint == written.policyHint
  <2> HIDE DEF hint
  <2>3. \A f \in Seq(Byte) :
          Lies(f, 0, HeaderOf(hint, n)) <=>
            /\ headerLen <= Len(f)
            /\ Lies(f, 0, Magic)
            /\ f[m + 1] = FormatVersion
            /\ f[m + 2] = hint
            /\ f[m + 3] = (n \div Base) % Base
            /\ f[m + 4] = n % Base
    BY <2>1, HeaderIs DEF hint
  <2> HIDE DEF m
  <2> QED
    BY <2>2, <2>3, Zenon DEF hint, m
<1> HIDE DEF m, n, h, img
<1>9. At(0, m) = Magic
  <2> DEFINE a == At(0, m)
  <2>1. 0 + m <= Len(file)
    BY <1>1
  <2>2. a \in Seq(Byte) /\ Len(a) = m /\ Lies(file, 0, a)
    BY <1>1, <2>1, AtIs
  <2> HIDE DEF a
  <2>3. a = Magic
    BY <1>1, <1>8, <2>2, LiesOnce DEF m
  <2> QED
    BY <2>3, Zenon DEF a
<1>10. Uint16(At(m + 2, 2)) = n
  <2>1. m + 2 \in Nat /\ (m + 2) + 2 <= Len(file)
        /\ (m + 2) + 1 = m + 3 /\ (m + 2) + 2 = m + 4
    BY <1>1
  <2>2. Uint16(At(m + 2, 2)) = file[(m + 2) + 1] * Base + file[(m + 2) + 2]
    BY <1>1, <2>1, Uint16Is
  <2>3. file[(m + 2) + 1] = (n \div Base) % Base /\ file[(m + 2) + 2] = n % Base
    BY <1>8, <2>1, Zenon
  <2>4. n < Base * Base
    <3>1. MaxSlotCount \in 0..(Base * Base - 1)
      BY WidthAssumption
    <3>2. Base * Base \in Nat
      BY BaseIs
    <3> DEFINE w == Base * Base
    <3>3. w \in Nat /\ MaxSlotCount \in 0..(w - 1)
      BY <3>1, <3>2
    <3> HIDE DEF w
    <3>4. n < w
      BY <1>4, <3>3 DEF n
    <3> QED
      BY <3>4 DEF w
  <2>5. ((n \div Base) % Base) * Base + (n % Base) = n
    BY <1>3, <2>4, u16ReadBack DEF n
  <2> QED
    BY <2>2, <2>3, <2>5, Zenon
<1>11. slotCountValid(n)
  BY <1>4 DEF slotCountValid, n
<1> QED
  BY <1>8, <1>9, <1>10, <1>11 DEF m, n

(* The header is refused only when it is cut, or for the length of the     *)
(* whole file.                                                             *)
LEMMA TracksHeader ==
  ASSUME TypeOK, Reader, Tracks, Header
  PROVE  Tracks'
<1> SUFFICES ASSUME OwnSlots(written), damage # "changed"
             PROVE  Tracks'
  BY DEF Tracks, Header
<1>1. pc = "stored" /\ slots = <<>> /\ UNCHANGED <<written, damage, file>>
  BY DEF Header, Reader
<1>2. OwnFile
  BY <1>1, TracksOwn
<1> DEFINE img == Len(Image(written))
<1>3. /\ img \in Nat /\ headerLen \in Nat /\ headerLen <= img
      /\ img <= MaxEnvelopeLen /\ MaxEnvelopeLen \in Nat
      /\ Len(file) \in Nat
      /\ Len(file) < img => damage = "cut"
      /\ Len(file) > img => damage = "longer"
  BY <1>2, OwnImage, ConstantsAre DEF TypeOK
<1> HIDE DEF img
<1>4. CASE Len(file) > MaxEnvelopeLen
  <2>1. Fail("ErrMalformed")
    BY <1>4 DEF Header
  <2>2. damage = "longer"
    BY <1>3, <1>4
  <2> QED
    BY <1>1, <2>1, <2>2, TracksFail
<1>5. CASE Len(file) <= MaxEnvelopeLen /\ Len(file) < headerLen
  <2>1. ~(Len(file) > MaxEnvelopeLen)
    BY <1>3, <1>5
  <2>2. Fail("ErrShortData")
    BY <1>5, <2>1 DEF Header
  <2>3. damage = "cut"
    BY <1>3, <1>5
  <2> QED
    BY <1>1, <2>2, <2>3, TracksFail
<1>6. CASE Len(file) <= MaxEnvelopeLen /\ headerLen <= Len(file)
  <2> DEFINE m == Len(Magic)
             n == Len(written.slots)
  <2>1. /\ At(0, m) = Magic
        /\ file[m + 1] = FormatVersion
        /\ file[m + 2] = written.policyHint
        /\ Uint16(At(m + 2, 2)) = n
        /\ slotCountValid(n)
    BY <1>2, <1>6, OwnHeader
  <2>2. ~(Len(file) > MaxEnvelopeLen) /\ ~(Len(file) < headerLen)
    BY <1>3, <1>6
  <2>3. /\ left' = n /\ pc' = "slot" /\ slots' = slots
    BY <2>1, <2>2 DEF Header
  <2>4. n \in Nat
    <3>1. written \in Envelopes
      BY WrittenAssumption DEF TypeOK
    <3> QED
      BY <3>1, ImageIs
  <2> HIDE DEF n
  <2>5. Len(slots') + left' = n
    BY <1>1, <2>3, <2>4
  <2>6. \A i \in DOMAIN slots' : slots'[i] = written'.slots[i]
    BY <1>1, <2>3
  <2>7. Agrees' /\ Marshalable(written)'
    BY <1>1, <1>2 DEF OwnFile, Agrees
  <2> QED
    BY <1>1, <2>1, <2>3, <2>5, <2>6, <2>7 DEF Tracks, n
<1> QED
  BY <1>3, <1>4, <1>5, <1>6

(* A body is never shorter than the fields of fixed length at its start.   *)
LEMMA MetaLength ==
  ASSUME NEW s \in Slots, Sealed(s)
  PROVE  Len(marshalMeta(s.fields)) >= slotFixedLen
<1> DEFINE q == Encoded(s.fields)
           n(j) == Len(Flat(q, j))
<1>1. s.fields \in [FieldNames -> Seq(Byte)]
  BY BodyIs
<1>2. /\ q \in Seq(Seq(Byte)) /\ Len(q) = 13
      /\ \A j \in 1..13 :
           q[j] = EncodeField(Fields[j], s.fields[Fields[j].name])
      /\ marshalMeta(s.fields) = FlattenSeq(q)
      /\ marshalMeta(s.fields) \in Seq(Byte)
  BY <1>1, EncodedIs
<1>3. \A j \in 1..6 : Len(q[j]) = Fields[j].len
  <2> TAKE j \in 1..6
  <2>1. j \in 1..13 /\ j \in DOMAIN Fields
    BY FieldsAre
  <2>2. ~Fields[j].prefixed
    BY DEF Fields, Fixed, Prefixed
  <2>3. Len(s.fields[Fields[j].name]) = Fields[j].len
    BY <2>1, <2>2 DEF Sealed
  <2>4. q[j] = s.fields[Fields[j].name]
    <3>1. q[j] = EncodeField(Fields[j], s.fields[Fields[j].name])
      BY <1>2, <2>1, Zenon
    <3> QED
      BY <2>2, <3>1 DEF EncodeField
  <2> QED
    BY <2>3, <2>4, Zenon
<1>4. /\ Fields[1].len = 1 /\ Fields[2].len = IDLen /\ Fields[3].len = 1
      /\ Fields[4].len = 1 /\ Fields[5].len = 1 /\ Fields[6].len = 1
  BY DEF Fields, Fixed, Prefixed
<1> HIDE DEF q
<1>5. \A j \in 0..12 : Flat(q, j) \in Seq(Byte)
                       /\ Flat(q, j + 1) = Flat(q, j) \o q[j + 1]
                       /\ q[j + 1] \in Seq(Byte)
  <2> TAKE j \in 0..12
  <2>1. j \in 0..Len(q) /\ j \in 0..(Len(q) - 1) /\ j + 1 \in 1..Len(q)
    BY <1>2
  <2>2. Flat(q, j) \in Seq(Byte) /\ Flat(q, j + 1) = Flat(q, j) \o q[j + 1]
    BY <1>2, <2>1, Pieces
  <2>3. q[j + 1] \in Seq(Byte)
    <3> DEFINE S == Seq(Byte)
    <3>1. q \in Seq(S)
      BY <1>2
    <3> HIDE DEF S
    <3>2. q[j + 1] \in S
      BY <2>1, <3>1, ElementOfSeq
    <3> QED
      BY <3>2 DEF S
  <2> QED
    BY <2>2, <2>3
<1>6. \A j \in 0..5 : n(j) \in Nat /\ n(j + 1) = n(j) + Fields[j + 1].len
  <2> TAKE j \in 0..5
  <2> DEFINE x == Flat(q, j)
             y == q[j + 1]
  <2>1. x \in Seq(Byte) /\ y \in Seq(Byte) /\ Flat(q, j + 1) = x \o y
    <3>1. j \in 0..12
      OBVIOUS
    <3> QED
      BY <1>5, <3>1, Zenon
  <2>2. Len(y) = Fields[j + 1].len
    <3>1. j + 1 \in 1..6
      OBVIOUS
    <3> QED
      BY <1>3, <3>1, Zenon
  <2> HIDE DEF x, y
  <2>3. Len(x \o y) = Len(x) + Len(y) /\ Len(x) \in Nat
    BY <2>1, ConcatLen
  <2> QED
    BY <2>1, <2>2, <2>3 DEF x
<1>7. Flat(q, 0) = <<>>
  BY <1>2, Pieces
<1>8. n(0) = 0
  BY <1>7
<1> HIDE DEF n
<1>9. n(6) = slotFixedLen
  <2>1. IDLen \in Nat
    BY ConstantsAre
  <2>2. n(0 + 1) = 0 + 1 /\ n(1 + 1) = n(1) + IDLen /\ n(2 + 1) = n(2) + 1
        /\ n(3 + 1) = n(3) + 1 /\ n(4 + 1) = n(4) + 1 /\ n(5 + 1) = n(5) + 1
    <3>1. 0 + 1 = 1 /\ 1 + 1 = 2 /\ 2 + 1 = 3 /\ 3 + 1 = 4 /\ 4 + 1 = 5
          /\ 5 + 1 = 6
      OBVIOUS
    <3>2. 0 \in 0..5 /\ 1 \in 0..5 /\ 2 \in 0..5 /\ 3 \in 0..5 /\ 4 \in 0..5
          /\ 5 \in 0..5
      OBVIOUS
    <3> QED
      BY <1>4, <1>6, <1>8, <3>1, <3>2, Zenon
  <2>3. n(1) = 1 /\ n(2) = 1 + IDLen /\ n(3) = 2 + IDLen /\ n(4) = 3 + IDLen
        /\ n(5) = 4 + IDLen /\ n(6) = 5 + IDLen
    BY <2>1, <2>2
  <2> QED
    BY <2>3 DEF slotFixedLen
<1>10. n(6) <= Len(marshalMeta(s.fields))
  <2>1. 6 \in 0..Len(q)
    BY <1>2
  <2>2. Lies(FlattenSeq(q), 0, Flat(q, 6))
    BY <1>2, <2>1, PiecesLie
  <2>3. 0 + n(6) <= Len(FlattenSeq(q))
    BY <2>2 DEF Lies, n
  <2>4. n(6) \in Nat
    BY <1>9, ConstantsAre
  <2> QED
    BY <1>2, <2>3, <2>4
<1> QED
  BY <1>9, <1>10

(* A length of four bytes that lies in the file is the one that was meant. *)
LEMMA LengthIsMeant ==
  ASSUME file \in Seq(Byte), NEW i \in Nat, NEW n \in Nat,
         n < Base * Base * Base * Base, Lies(file, i, u32Bytes(n))
  PROVE  i + 4 <= Len(file) /\ Uint32(At(i, 4)) = n
<1> DEFINE b == u32Bytes(n)
<1>1. Len(b) = 4
  BY u32Is
<1>2. Number(b[1], b[2], b[3], b[4]) = n
  BY u32ReadBack
<1> HIDE DEF b
<1>3. i + 4 <= Len(file) /\ \A j \in 1..4 : file[i + j] = b[j]
  BY <1>1 DEF Lies, b
<1>4. Uint32(At(i, 4)) =
        Number(file[i + 1], file[i + 2], file[i + 3], file[i + 4])
  BY <1>3, Uint32Is
<1>5. file[i + 1] = b[1] /\ file[i + 2] = b[2]
      /\ file[i + 3] = b[3] /\ file[i + 4] = b[4]
  BY <1>3
<1> QED
  BY <1>2, <1>3, <1>4, <1>5, Zenon

(* Where the current slot lies in the image, and that it is one of the     *)
(* library's.                                                              *)
LEMMA CurrentIs ==
  ASSUME TypeOK, Reader, Tracks, OwnSlots(written), damage # "changed",
         pc \in {"slot", "field"}, left > 0
  PROVE  LET i == Len(ReadSoFar)
             m == marshalMeta(Current.fields)
             w == Current.Wrapped
             f == Image(written)
         IN  /\ Current \in Slots /\ Sealed(Current)
             /\ m \in Seq(Byte) /\ Len(m) \in Nat /\ Len(m) >= slotFixedLen
             /\ w \in Seq(Byte) /\ Len(w) \in WrappedOverhead..MaxWrappedLen
             /\ MetaOf(Current) = m
             /\ i \in Nat /\ i + 4 + Len(m) + Len(w) <= Len(f)
             /\ Lies(f, i, u32Bytes(Len(m) + Len(w)))
             /\ Lies(f, i + 4, m)
             /\ Lies(f, i + 4 + Len(m), w)
<1> DEFINE i == Len(ReadSoFar)
           s == Current
           m == marshalMeta(s.fields)
           w == s.Wrapped
           f == Image(written)
<1>1. OwnFile /\ written \in Written
  BY TracksOwn DEF TypeOK
<1>2. /\ i \in Nat /\ Lies(f, i, Body(s))
      /\ Len(slots) + 1 \in 1..Len(written.slots)
  BY PositionIs
<1>3. /\ s \in Slots /\ Sealed(s) /\ MetaOf(s) = m
      /\ Len(w) \in WrappedOverhead..MaxWrappedLen
  <2>1. OwnSlots(written) /\ Marshalable(written)
    BY <1>1 DEF OwnFile
  <2> QED
    BY <1>1, <1>2, <2>1, OwnSlotIs DEF Current
<1>4. f \in Seq(Byte)
  BY <1>1, OwnImage
<1> HIDE DEF i, s, f
<1>5. m \in Seq(Byte) /\ Len(m) \in Nat /\ w \in Seq(Byte) /\ Len(w) \in Nat
  BY <1>3, BodyIs
<1>6. Len(m) >= slotFixedLen
  BY <1>3, MetaLength
<1>7. /\ Lies(f, i, u32Bytes(Len(MetaOf(s)) + Len(s.Wrapped)))
      /\ Lies(f, i + 4, MetaOf(s))
      /\ Lies(f, i + 4 + Len(MetaOf(s)), s.Wrapped)
  BY <1>2, <1>3, <1>4, BodyIs
<1>8. /\ Lies(f, i, u32Bytes(Len(m) + Len(w)))
      /\ Lies(f, i + 4, m)
      /\ Lies(f, i + 4 + Len(m), w)
  BY <1>3, <1>7, Zenon
<1>9. i + 4 + Len(m) + Len(w) <= Len(f)
  BY <1>8 DEF Lies
<1> QED
  BY <1>2, <1>3, <1>5, <1>6, <1>8, <1>9, Zenon DEF i, s, f

(* The length of a body is read as it was written, or cut off.             *)
LEMMA TracksSlotLen ==
  ASSUME TypeOK, Reader, Tracks, SlotLen
  PROVE  Tracks'
<1> SUFFICES ASSUME OwnSlots(written), damage # "changed"
             PROVE  Tracks'
  BY DEF Tracks, SlotLen
<1> DEFINE m == marshalMeta(Current.fields)
           w == Current.Wrapped
           n == Len(m) + Len(w)
           f == Image(written)
<1>1. /\ pc = "slot" /\ left > 0 /\ off = Len(ReadSoFar)
      /\ UNCHANGED <<written, damage, file>>
      /\ file \in Seq(Byte) /\ off \in Nat
  BY DEF SlotLen, Reader, AtSlot, TypeOK
<1>2. OwnFile
  BY <1>1, TracksOwn
<1>3. /\ Len(m) \in Nat /\ Len(m) >= slotFixedLen
      /\ Len(w) \in WrappedOverhead..MaxWrappedLen
      /\ MetaOf(Current) = m
      /\ off + 4 + Len(m) + Len(w) <= Len(f)
      /\ Lies(f, off, u32Bytes(n))
  BY <1>1, CurrentIs
<1>4. /\ f \in Seq(Byte) /\ Len(f) \in Nat /\ Len(f) <= MaxEnvelopeLen
      /\ Len(file) \in Nat /\ MaxEnvelopeLen \in Nat
      /\ Len(file) < Len(f) => damage = "cut"
  BY <1>2, OwnImage, ConstantsAre DEF TypeOK
<1> HIDE DEF m, w, f
<1>5. n \in Nat /\ n >= slotFixedLen /\ n <= MaxEnvelopeLen
      /\ off + 4 + n <= Len(f) /\ slotFixedLen \in Nat
  <2>1. Len(w) \in Nat /\ slotFixedLen \in Nat
    BY <1>3, ConstantsAre
  <2>2. off + 4 + Len(m) + Len(w) = off + 4 + n
    BY <1>1, <1>3, <2>1
  <2> QED
    BY <1>1, <1>3, <1>4, <2>1, <2>2
<1>6. n < Base * Base * Base * Base
  <2> DEFINE top == Base * Base * Base * Base
  <2>1. MaxEnvelopeLen < top
    BY WidthAssumption
  <2>2. top \in Nat
    <3>1. Base \in Nat
      BY BaseIs
    <3> QED
      BY <3>1
  <2> HIDE DEF top
  <2>3. n < top
    BY <1>4, <1>5, <2>1, <2>2
  <2> QED
    BY <2>3 DEF top
<1>7. CASE off + 4 > Len(file)
  <2>1. Fail("ErrShortData")
    BY <1>7 DEF SlotLen
  <2>2. damage = "cut"
    BY <1>1, <1>4, <1>5, <1>7
  <2> QED
    BY <1>1, <2>1, <2>2, TracksFail
<1>8. CASE off + 4 <= Len(file)
  <2>1. Uint32(At(off, 4)) = n
    <3>1. u32Bytes(n) \in Seq(Byte) /\ Len(u32Bytes(n)) = 4
      BY <1>5, u32Is
    <3>2. Lies(file, off, u32Bytes(n))
      <4>1. Agrees
        BY <1>2 DEF OwnFile
      <4> DEFINE b == u32Bytes(n)
      <4>2. b \in Seq(Byte) /\ off + Len(b) <= Len(file) /\ Lies(f, off, b)
        BY <1>3, <1>8, <3>1
      <4> HIDE DEF b
      <4>3. Lies(file, off, b)
        BY <1>1, <1>4, <4>1, <4>2, AgreesReads DEF f
      <4> QED
        BY <4>3 DEF b
    <3> HIDE DEF n
    <3> QED
      BY <1>1, <1>5, <1>6, <3>2, LengthIsMeant
  <2> HIDE DEF n
  <2>2. ~(off + 4 > Len(file)) /\ ~(n \notin slotFixedLen..MaxEnvelopeLen)
    BY <1>1, <1>4, <1>5, <1>8
  <2>3. CASE off + 4 + n > Len(file)
    <3>1. Fail("ErrShortData")
      BY <2>1, <2>2, <2>3 DEF SlotLen
    <3>2. damage = "cut"
      BY <1>1, <1>4, <1>5, <2>3
    <3> QED
      BY <1>1, <3>1, <3>2, TracksFail
  <2>4. CASE ~(off + 4 + n > Len(file))
    <3>1. /\ start' = off + 4 /\ end' = off + 4 + n /\ k' = 1 /\ pc' = "field"
          /\ UNCHANGED <<left, slots, err>>
      BY <2>1, <2>2, <2>4 DEF SlotLen
    <3>2. end' - start' = n
      BY <1>1, <1>5, <3>1
    <3>3. Current' = Current
      BY <1>1, <3>1 DEF Current
    <3>4. end' - start' = Len(MetaOf(Current)) + Len(Current.Wrapped)
      BY <1>3, <3>2 DEF n, w
    <3>5. Agrees' /\ Marshalable(written)
      BY <1>1, <1>2 DEF OwnFile, Agrees
    <3>6. k' - 1 = 0
      BY <3>1
    <3>7. /\ file'[Len(Magic) + 2] = written'.policyHint
          /\ Len(slots') + left' = Len(written'.slots)
          /\ \A i \in DOMAIN slots' : slots'[i] = written'.slots[i]
      BY <1>1, <3>1 DEF Tracks
    <3>8. \A j \in 1..(k' - 1) :
            cur'[Fields[j].name] = Current'.fields[Fields[j].name]
      BY <3>6
    <3> QED
      BY <1>1, <3>1, <3>3, <3>4, <3>5, <3>7, <3>8 DEF Tracks
  <2> QED
    BY <2>3, <2>4
<1> QED
  BY <1>1, <1>4, <1>7, <1>8

(* A field whose encoding lies at the offset is read as it was encoded.    *)
LEMMA ReadBack ==
  ASSUME file \in Seq(Byte), off \in Nat, end \in Nat, end <= Len(file),
         NEW j \in 1..13, NEW b \in Seq(Byte),
         IF Fields[j].prefixed THEN Len(b) <= Fields[j].len
                               ELSE Len(b) = Fields[j].len,
         Lies(file, off, EncodeField(Fields[j], b)),
         off + Len(EncodeField(Fields[j], b)) <= end
  PROVE  Read(Fields[j]).err = "none" /\ Read(Fields[j]).bytes = b
<1> DEFINE f == Fields[j]
<1>1. f.prefixed \in BOOLEAN /\ f.len \in Nat
  <2>1. \A i \in 1..13 : Fields[i].prefixed \in BOOLEAN /\ Fields[i].len \in Nat
    BY FieldsAre
  <2> QED
    BY <2>1, Zenon
<1>2. Len(b) \in Nat /\ Len(file) \in Nat
  OBVIOUS
<1>3. ASSUME NEW i \in Nat, i + Len(b) <= end, Lies(file, i, b)
      PROVE  take(i, Len(b)).err = "none" /\ take(i, Len(b)).bytes = b
  <2> DEFINE got == take(i, Len(b))
  <2>1. /\ got.err = "none" /\ got.bytes = At(i, Len(b))
        /\ got.bytes \in Seq(Byte) /\ Len(got.bytes) = Len(b)
        /\ Lies(file, i, got.bytes)
    BY <1>2, <1>3, TakeIs
  <2> DEFINE a == got.bytes
  <2>2. a \in Seq(Byte) /\ Len(a) = Len(b) /\ Lies(file, i, a)
    BY <2>1
  <2> HIDE DEF a
  <2>3. a = b
    BY <1>3, <2>2, LiesOnce
  <2> QED
    BY <2>1, <2>3, Zenon DEF a
<1>4. CASE ~f.prefixed
  <2>1. EncodeField(f, b) = b /\ Len(b) = f.len
    BY <1>4 DEF EncodeField
  <2>2. Read(f) = take(off, Len(b))
    BY <1>4, <2>1 DEF Read
  <2>3. off + Len(b) <= end /\ Lies(file, off, b)
    BY <2>1
  <2> QED
    BY <1>3, <2>2, <2>3
<1>5. CASE f.prefixed
  <2> DEFINE n == Len(b)
             u == u16Bytes(n)
  <2>1. EncodeField(f, b) = u \o b /\ n <= f.len
    BY <1>5 DEF EncodeField
  <2>2. u \in Seq(Byte) /\ Len(u) = 2 /\ u[1] = (n \div Base) % Base
        /\ u[2] = n % Base
    BY <1>2, u16Is
  <2>3. n < Base * Base
    <3>1. f.len \in 0..(Base * Base - 1)
      <4>1. f.len \in
              {MaxKDFParamsLen, MaxSaltLen, MaxChallengeLen, MaxLabelLen}
        <5>1. j \in {7, 8, 9, 11, 12}
          BY <1>5 DEF Fields, Fixed, Prefixed
        <5> QED
          BY <5>1 DEF Fields, Fixed, Prefixed
      <4> QED
        BY <4>1, WidthAssumption
    <3> DEFINE w == Base * Base
    <3>2. w \in Nat /\ f.len \in 0..(w - 1)
      BY <3>1, BaseIs
    <3> HIDE DEF w
    <3>3. n < w
      BY <1>2, <2>1, <3>2
    <3> QED
      BY <3>3 DEF w
  <2>4. ((n \div Base) % Base) * Base + (n % Base) = n
    BY <1>2, <2>3, u16ReadBack
  <2> HIDE DEF n, u
  <2>5. Lies(file, off, u \o b) /\ off + Len(u \o b) <= end
    BY <2>1
  <2>6. Lies(file, off, u) /\ Lies(file, off + 2, b)
    <3>1. Lies(file, off, u) /\ Lies(file, off + Len(u), b)
      BY <2>2, <2>5, LiesConcat
    <3> QED
      BY <2>2, <3>1
  <2>7. Len(u \o b) = 2 + n /\ n \in Nat
    <3>1. Len(u \o b) = Len(u) + Len(b)
      BY <2>2, ConcatLen
    <3> QED
      BY <1>2, <2>2, <3>1 DEF n
  <2>8. off + 2 <= end /\ (off + 2) + n <= end /\ off + 2 \in Nat
        /\ off + 2 <= Len(file)
    BY <1>2, <2>5, <2>7
  <2>9. Uint16(At(off, 2)) = n
    <3>1. Uint16(At(off, 2)) = file[off + 1] * Base + file[off + 2]
      BY <2>8, Uint16Is
    <3>2. file[off + 1] = u[1] /\ file[off + 2] = u[2]
      BY <2>2, <2>6 DEF Lies
    <3> QED
      BY <2>2, <2>4, <3>1, <3>2, Zenon
  <2>10. Read(f) = take(off + 2, n)
    <3>1. ~(off + 2 > end) /\ ~(n > f.len)
      BY <1>1, <2>1, <2>7, <2>8
    <3> QED
      BY <1>5, <2>9, <3>1 DEF Read, takeU16
  <2> QED
    BY <1>3, <2>6, <2>8, <2>10 DEF n
<1> QED
  BY <1>4, <1>5

(* The field that lies at the offset of an undamaged body.                 *)
LEMMA OwnField ==
  ASSUME TypeOK, Reader, Tracks, OwnSlots(written), damage # "changed",
         pc = "field", k \in 1..13
  PROVE  /\ Read(Fields[k]).err = "none"
         /\ Read(Fields[k]).bytes = Current.fields[Fields[k].name]
         /\ FieldError(Fields[k], Current.fields[Fields[k].name]) = "none"
<1> DEFINE s == Current
           b == s.fields[Fields[k].name]
           c == EncodeField(Fields[k], b)
           q == Encoded(s.fields)
           p == Encoded(cur)
           m == marshalMeta(s.fields)
           f == Image(written)
           i == Len(ReadSoFar)
<1>1. /\ file \in Seq(Byte) /\ Len(file) \in Nat
      /\ off \in Nat /\ end \in Nat /\ start \in Nat
      /\ cur \in [FieldNames -> Seq(Byte)]
      /\ AtField
  BY DEF TypeOK, Reader
<1>2. OwnFile /\ f \in Seq(Byte) /\ Agrees
  BY TracksOwn, OwnImage DEF OwnFile
<1>3. /\ s \in Slots /\ Sealed(s)
      /\ m \in Seq(Byte) /\ Len(m) \in Nat
      /\ s.Wrapped \in Seq(Byte)
      /\ MetaOf(s) = m
      /\ i \in Nat
      /\ Lies(f, i + 4, m)
  BY <1>1, CurrentIs DEF AtField
<1>4. /\ end - start = Len(m) + Len(s.Wrapped)
      /\ \A j \in 1..(k - 1) : cur[Fields[j].name] = s.fields[Fields[j].name]
  BY <1>3 DEF Tracks
<1>5. /\ start = i + 4 /\ end <= Len(file)
      /\ off = start + Len(Flat(p, k - 1))
  BY <1>1 DEF AtField
<1> HIDE DEF s, f, i
<1>6. s.fields \in [FieldNames -> Seq(Byte)]
  BY <1>3, BodyIs
<1>7. /\ q \in Seq(Seq(Byte)) /\ Len(q) = 13
      /\ \A j \in 1..13 :
           q[j] = EncodeField(Fields[j], s.fields[Fields[j].name])
      /\ m = FlattenSeq(q)
  BY <1>6, EncodedIs
<1>8. /\ p \in Seq(Seq(Byte)) /\ Len(p) = 13
      /\ \A j \in 1..13 : p[j] = EncodeField(Fields[j], cur[Fields[j].name])
  BY <1>1, EncodedIs
<1>9. b \in Seq(Byte)
  BY <1>6, FieldsAre
<1>10. q[k] = c
  BY <1>7, Zenon
<1> HIDE DEF q, p, m
<1>11. Flat(p, k - 1) = Flat(q, k - 1)
  <2>1. \A j \in 1..(k - 1) : p[j] = q[j]
    <3> TAKE j \in 1..(k - 1)
    <3>1. j \in 1..13
      OBVIOUS
    <3>2. cur[Fields[j].name] = s.fields[Fields[j].name]
      BY <1>4, Zenon
    <3> QED
      BY <1>7, <1>8, <3>1, <3>2, Zenon
  <2>2. /\ p \in Seq(Seq(Byte)) /\ q \in Seq(Seq(Byte))
        /\ k \in 1..Len(p) /\ k <= Len(q)
    BY <1>7, <1>8
  <2> QED
    BY <2>1, <2>2, PiecesAgree
<1> DEFINE n == Len(Flat(q, k - 1))
<1>12. n \in Nat /\ Lies(m, n, c) /\ c \in Seq(Byte) /\ Len(c) \in Nat
  <2>1. k - 1 \in 0..(Len(q) - 1) /\ k - 1 \in 0..Len(q) /\ (k - 1) + 1 = k
    BY <1>7
  <2> DEFINE x == Flat(q, k - 1)
  <2>2. x \in Seq(Byte)
    BY <1>7, <2>1, Pieces
  <2>3. Lies(FlattenSeq(q), Len(x), q[(k - 1) + 1])
    BY <1>7, <2>1, PiecesLie
  <2>4. Lies(m, Len(x), c)
    BY <1>7, <1>10, <2>1, <2>3
  <2>5. c \in Seq(Byte)
    BY <1>9, EncodeFieldIs
  <2> HIDE DEF x, c
  <2>6. Len(x) \in Nat /\ Len(c) \in Nat
    BY <2>2, <2>5
  <2> QED
    BY <2>4, <2>5, <2>6 DEF x
<1>13. off = start + n
  BY <1>5, <1>11, Zenon
<1> HIDE DEF n, c, b
<1>14. Lies(f, off, c)
  <2>1. i + 4 \in Nat /\ off = (i + 4) + n
    BY <1>3, <1>5, <1>13
  <2>2. Lies(f, (i + 4) + n, c)
    BY <1>2, <1>3, <1>12, <2>1, LiesWithin
  <2> QED
    BY <2>1, <2>2, Zenon
<1>15. off + Len(c) <= end
  <2>1. n + Len(c) <= Len(m)
    BY <1>12 DEF Lies
  <2>2. Len(s.Wrapped) \in Nat
    BY <1>3
  <2>3. end = start + (Len(m) + Len(s.Wrapped))
    BY <1>1, <1>3, <1>4, <2>2
  <2> QED
    BY <1>1, <1>3, <1>12, <1>13, <2>1, <2>2, <2>3
<1>16. Lies(file, off, c)
  <2>1. off + Len(c) <= Len(file)
    BY <1>1, <1>5, <1>12, <1>15
  <2> QED
    BY <1>1, <1>2, <1>12, <1>14, <2>1, AgreesReads DEF f
<1>17. IF Fields[k].prefixed THEN Len(b) <= Fields[k].len
                             ELSE Len(b) = Fields[k].len
  <2>1. k \in DOMAIN Fields
    BY FieldsAre, Zenon
  <2>2. MetaFits(s.fields) /\ (Fields[k].prefixed \/ Len(b) = Fields[k].len)
    BY <1>3, <2>1 DEF Sealed, b
  <2>3. Fields[k].prefixed => Len(b) <= Fields[k].len
    BY <2>1, <2>2 DEF MetaFits, b
  <2> QED
    BY <2>2, <2>3
<1>18. FieldError(Fields[k], b) = "none"
  <2>1. /\ typeValid(s.fields["Type"][1])
        /\ s.fields["AEADID"][1] = AEADChaCha20Poly1305
    BY <1>3 DEF Sealed, MetaFits
  <2>2. Fields[k].name = "Type" => typeValid(b[1])
    BY <2>1 DEF b
  <2>3. Fields[k].name = "AEADID" => b[1] = AEADChaCha20Poly1305
    BY <2>1 DEF b
  <2> QED
    BY <2>2, <2>3 DEF FieldError
<1>19. Read(Fields[k]).err = "none" /\ Read(Fields[k]).bytes = b
  BY <1>1, <1>5, <1>9, <1>15, <1>16, <1>17, ReadBack DEF c
<1> QED
  BY <1>18, <1>19 DEF b, s

(* A field of an undamaged body is read as it was written.                 *)
LEMMA TracksReadField ==
  ASSUME TypeOK, Reader, Tracks, ReadField
  PROVE  Tracks'
<1> SUFFICES ASSUME OwnSlots(written), damage # "changed"
             PROVE  Tracks'
  BY DEF Tracks, ReadField
<1> DEFINE f == Fields[k]
           b == Current.fields[f.name]
<1>1. /\ pc = "field" /\ k \in 1..13 /\ UNCHANGED <<written, damage, file>>
      /\ cur \in [FieldNames -> Seq(Byte)]
  <2>1. DOMAIN Fields = 1..13
    BY FieldsAre, Zenon
  <2> QED
    BY <2>1 DEF ReadField, TypeOK
<1>2. Read(f).err = "none" /\ Read(f).bytes = b /\ FieldError(f, b) = "none"
  BY <1>1, OwnField
<1>3. /\ cur' = [cur EXCEPT ![f.name] = b]
      /\ k' = k + 1
      /\ UNCHANGED <<pc, end, start, left, slots, err>>
  BY <1>2 DEF ReadField
<1>4. Current' = Current
  BY <1>1, <1>3 DEF Current
<1>5. OwnFile
  BY <1>1, TracksOwn
<1>6. /\ Agrees' /\ Marshalable(written)
      /\ file'[Len(Magic) + 2] = written'.policyHint
      /\ Len(slots') + left' = Len(written'.slots)
      /\ \A i \in DOMAIN slots' : slots'[i] = written'.slots[i]
      /\ end' - start' = Len(MetaOf(Current)) + Len(Current.Wrapped)
  BY <1>1, <1>3, <1>5 DEF Tracks, OwnFile, Agrees
<1>7. \A j \in 1..(k - 1) :
        cur[Fields[j].name] = Current.fields[Fields[j].name]
  BY <1>1 DEF Tracks
<1>8. k' - 1 = k
  BY <1>1, <1>3
<1>9. \A j \in 1..k : cur'[Fields[j].name] = Current.fields[Fields[j].name]
  <2> TAKE j \in 1..k
  <2>1. CASE j = k
    <3>1. f.name \in FieldNames
      BY <1>1, FieldsAre
    <3>2. cur'[f.name] = b
      BY <1>1, <1>3, <3>1
    <3> QED
      BY <2>1, <3>2
  <2>2. CASE j # k
    <3>1. j \in 1..(k - 1) /\ j \in 1..13
      BY <1>1, <2>2
    <3>2. Fields[j].name # f.name /\ Fields[j].name \in FieldNames
      BY <1>1, <2>2, <3>1, FieldsAre
    <3>3. cur'[Fields[j].name] = cur[Fields[j].name]
      BY <1>1, <1>3, <3>2
    <3> QED
      BY <1>7, <3>1, <3>3
  <2> QED
    BY <2>1, <2>2
<1>10. \A j \in 1..(k' - 1) :
         cur'[Fields[j].name] = Current'.fields[Fields[j].name]
  BY <1>4, <1>8, <1>9
<1> QED
  BY <1>1, <1>3, <1>4, <1>6, <1>10 DEF Tracks

(* The slot that was read is the one that was written.                     *)
LEMMA TracksEndOfSlot ==
  ASSUME TypeOK, Reader, Tracks, EndOfSlot
  PROVE  Tracks'
<1> SUFFICES ASSUME OwnSlots(written), damage # "changed"
             PROVE  Tracks'
  BY DEF Tracks, EndOfSlot
<1> DEFINE s == Current
           m == marshalMeta(s.fields)
           w == s.Wrapped
           f == Image(written)
           i == Len(ReadSoFar)
<1>1. /\ pc = "field" /\ k = Len(Fields) + 1
      /\ UNCHANGED <<written, damage, file>>
      /\ file \in Seq(Byte) /\ Len(file) \in Nat
      /\ off \in Nat /\ end \in Nat /\ start \in Nat
      /\ cur \in [FieldNames -> Seq(Byte)]
      /\ slots \in Seq(Slots) /\ left \in Nat
      /\ AtField
  BY DEF EndOfSlot, TypeOK, Reader
<1>fields. k - 1 = 13
  <2>1. Len(Fields) = 13
    BY FieldsAre, Zenon
  <2> QED
    BY <1>1, <2>1
<1>2. /\ left > 0 /\ start = i + 4 /\ end <= Len(file)
      /\ off = start + Len(Flat(Encoded(cur), 13))
  BY <1>1, <1>fields DEF AtField
<1>3. OwnFile /\ f \in Seq(Byte) /\ Agrees
  BY <1>1, TracksOwn, OwnImage DEF OwnFile
<1>4. /\ s \in Slots /\ Sealed(s)
      /\ m \in Seq(Byte) /\ Len(m) \in Nat
      /\ w \in Seq(Byte) /\ Len(w) \in WrappedOverhead..MaxWrappedLen
      /\ MetaOf(s) = m
      /\ i \in Nat
      /\ Lies(f, i + 4 + Len(m), w)
  BY <1>1, <1>2, CurrentIs
<1>5. /\ end - start = Len(MetaOf(s)) + Len(w)
      /\ \A j \in 1..13 : cur[Fields[j].name] = s.fields[Fields[j].name]
      /\ Len(slots) + left = Len(written.slots)
      /\ \A j \in DOMAIN slots : slots[j] = written.slots[j]
      /\ file[Len(Magic) + 2] = written.policyHint
  BY <1>1, <1>fields DEF Tracks
<1> HIDE DEF s, f, i
<1>6. s.fields \in [FieldNames -> Seq(Byte)]
  BY <1>4, BodyIs
<1>7. cur = s.fields
  <2>1. FieldNames = {Fields[j].name : j \in 1..13}
    BY FieldsAre, Zenon
  <2>2. \A g \in FieldNames : cur[g] = s.fields[g]
    <3> TAKE g \in FieldNames
    <3>1. PICK j \in 1..13 : g = Fields[j].name
      BY <2>1
    <3> QED
      BY <1>5, <3>1
  <2> QED
    BY <1>1, <1>6, <2>2
<1>8. off = start + Len(m)
  <2> DEFINE q == Encoded(cur)
  <2>1. q \in Seq(Seq(Byte)) /\ Len(q) = 13 /\ m = FlattenSeq(q)
    BY <1>1, <1>7, EncodedIs
  <2> HIDE DEF q
  <2>2. Flat(q, Len(q)) = FlattenSeq(q)
    BY <2>1, Pieces
  <2>3. Flat(q, 13) = m
    BY <2>1, <2>2, Zenon
  <2> HIDE DEF m
  <2> QED
    BY <1>2, <2>3 DEF q
<1> HIDE DEF m, w
<1>9. /\ end - off = Len(w) /\ off = i + 4 + Len(m) /\ Len(w) \in Nat
      /\ off + Len(w) = end
  <2>1. Len(w) \in Nat
    BY <1>4
  <2>2. end - start = Len(m) + Len(w) /\ off = start + Len(m) /\ start = i + 4
    BY <1>2, <1>4, <1>5, <1>8
  <2>3. Len(m) \in Nat /\ i \in Nat /\ start \in Nat /\ end \in Nat
    BY <1>1, <1>4
  <2> QED
    BY <2>1, <2>2, <2>3
<1>10. end - off \in WrappedOverhead..MaxWrappedLen
  BY <1>4, <1>9
<1>11. typeValid(cur["Type"][1]) /\ Shaped(cur)
  <2>1. MetaFits(s.fields) /\ Shaped(s.fields)
    BY <1>4 DEF Sealed
  <2>2. typeValid(s.fields["Type"][1])
    BY <2>1, Zenon DEF MetaFits
  <2> QED
    BY <1>7, <2>1, <2>2, Zenon
<1>refused. CASE ~CostsInBounds(cur)
  <2>1. validateSlotShape(cur) = "ErrKDFParams"
    BY <1>11, <1>refused, ShapeIs
  <2>2. /\ Fail("ErrKDFParams") /\ UNCHANGED <<written, damage, file>>
    BY <1>10, <2>1 DEF EndOfSlot
  <2>3. ~InBounds(written)
    <3>1. Len(slots) + 1 \in DOMAIN written.slots
      <4>1. Len(slots) + 1 \in 1..Len(written.slots)
        BY <1>1, <1>2, PositionIs
      <4>2. written.slots \in Seq(Slots)
        BY <1>3, OwnImage DEF Envelopes
      <4>3. DOMAIN written.slots = 1..Len(written.slots)
        BY <4>2
      <4> QED
        BY <4>1, <4>3, Zenon
    <3>2. written.slots[Len(slots) + 1].fields = cur
      BY <1>7 DEF s, Current
    <3> QED
      BY <1>refused, <3>1, <3>2, Zenon DEF InBounds
  <2> QED
    BY <2>2, <2>3, TracksFail
<1> SUFFICES ASSUME CostsInBounds(cur)
             PROVE  Tracks'
  BY <1>refused
<1>shape. validateSlotShape(cur) = "ok"
  BY <1>11, ShapeIs
<1>12. /\ slots' = Append(slots, NewSlot)
       /\ left' = left - 1 /\ pc' = "slot"
       /\ UNCHANGED <<end, start, k, cur, err>>
  <2>1. ~(end - off \notin WrappedOverhead..MaxWrappedLen)
    BY <1>10
  <2>2. ~(validateSlotShape(cur) # "ok")
    BY <1>shape
  <2> QED
    BY <2>1, <2>2 DEF EndOfSlot, NewSlot
<1>13. NewSlot \in Slots /\ Sealed(NewSlot)
  BY <1>1, <1>10, <1>shape, NewSlotIs
<1>14. At(off, end - off) = w
  <2> DEFINE a == At(off, Len(w))
  <2>1. off + Len(w) <= Len(file)
    BY <1>2, <1>9
  <2>2. a \in Seq(Byte) /\ Len(a) = Len(w) /\ Lies(file, off, a)
    BY <1>1, <1>9, <2>1, AtIs
  <2>3. Lies(f, off, w)
    BY <1>4, <1>9, Zenon
  <2>4. Lies(file, off, w)
    BY <1>1, <1>3, <1>4, <2>1, <2>3, AgreesReads DEF f
  <2> HIDE DEF a
  <2>5. a = w
    BY <1>1, <1>4, <2>2, <2>4, LiesOnce
  <2> QED
    BY <1>9, <2>5, Zenon DEF a
<1>15. NewSlot = s
  <2>1. NewSlot.fields = s.fields /\ NewSlot.Wrapped = s.Wrapped
    BY <1>7, <1>14, Zenon DEF NewSlot, w
  <2>2. NewSlot.meta = s.meta
    BY <1>4, <1>13, <2>1 DEF Sealed
  <2> DEFINE t == NewSlot
  <2>3. t \in Slots
    BY <1>13
  <2> HIDE DEF t
  <2>4. t.fields = s.fields /\ t.Wrapped = s.Wrapped /\ t.meta = s.meta
    BY <2>1, <2>2 DEF t
  <2>5. \A x \in Slots :
          x = [fields |-> x.fields, Wrapped |-> x.Wrapped, meta |-> x.meta]
    BY DEF Slots
  <2>6. t = [fields |-> s.fields, Wrapped |-> s.Wrapped, meta |-> s.meta]
    BY <2>3, <2>4, <2>5, Zenon
  <2>7. s = [fields |-> s.fields, Wrapped |-> s.Wrapped, meta |-> s.meta]
    BY <1>4, <2>5, Zenon
  <2> QED
    BY <2>6, <2>7, Zenon DEF t
<1>16. Len(slots') + left' = Len(written.slots)
  <2>1. Len(slots') = Len(slots) + 1 /\ Len(slots) \in Nat
    BY <1>1, <1>12, <1>13, AppendProperties
  <2>2. /\ left' = left - 1 /\ left \in Nat
        /\ Len(slots) + left = Len(written.slots)
    BY <1>1, <1>5, <1>12
  <2> QED
    BY <2>1, <2>2
<1>17. \A j \in DOMAIN slots' : slots'[j] = written.slots[j]
  <2> TAKE j \in DOMAIN slots'
  <2>1. /\ Len(slots') = Len(slots) + 1 /\ slots' \in Seq(Slots)
        /\ \A h \in 1..Len(slots) : slots'[h] = slots[h]
        /\ slots'[Len(slots) + 1] = NewSlot
    BY <1>1, <1>12, <1>13, AppendProperties
  <2>2. j \in 1..(Len(slots) + 1) /\ Len(slots) \in Nat
    BY <1>1, <2>1
  <2>3. CASE j \in 1..Len(slots)
    <3>1. j \in DOMAIN slots
      BY <1>1, <2>3
    <3> QED
      BY <1>5, <2>1, <2>3, <3>1, Zenon
  <2>4. CASE j = Len(slots) + 1
    <3>1. s = written.slots[Len(slots) + 1]
      BY DEF s, Current
    <3> QED
      BY <1>15, <2>1, <2>4, <3>1, Zenon
  <2> QED
    BY <2>2, <2>3, <2>4
<1>18. Agrees' /\ Marshalable(written)
  BY <1>1, <1>3 DEF OwnFile, Agrees
<1> QED
  BY <1>1, <1>5, <1>12, <1>16, <1>17, <1>18 DEF Tracks

(* Behind the last slot of an undamaged file there is nothing.             *)
LEMMA TracksEndOfEnvelope ==
  ASSUME TypeOK, Reader, Tracks, EndOfEnvelope
  PROVE  Tracks'
<1> SUFFICES ASSUME OwnSlots(written), damage # "changed"
             PROVE  Tracks'
  BY DEF Tracks, EndOfEnvelope
<1>1. /\ pc = "slot" /\ left = 0 /\ AtSlot
      /\ pc' = "done" /\ err' = IF off = Len(file) THEN "ok" ELSE "ErrMalformed"
      /\ UNCHANGED <<written, damage, file, slots>>
      /\ slots \in Seq(Slots) /\ Len(file) \in Nat
  BY DEF EndOfEnvelope, Reader, TypeOK, position
<1> DEFINE f == Image(written)
<1>2. off = Len(f) /\ Len(f) <= Len(file)
  <2>1. ReadSoFar = f
    BY <1>1, PositionIs
  <2>2. off = Len(f) /\ Lies(file, 0, f)
    BY <1>1, <2>1 DEF AtSlot
  <2>3. 0 + Len(f) <= Len(file)
    BY <2>2 DEF Lies
  <2>4. OwnFile
    BY <1>1, TracksOwn
  <2>5. Len(f) \in Nat
    BY <2>4, OwnImage
  <2> QED
    BY <2>2, <2>3, <2>5
<1>3. OwnFile /\ Agrees /\ written \in Envelopes /\ Len(f) \in Nat
  BY <1>1, TracksOwn, OwnImage DEF OwnFile
<1>4. damage \in {"none", "longer"}
  BY <1>1, <1>2, <1>3 DEF Agrees, TypeOK
<1>5. CASE damage = "none"
  <2>1. err' = "ok"
    BY <1>1, <1>2, <1>3, <1>5 DEF Agrees
  <2>2. /\ file[Len(Magic) + 2] = written.policyHint
        /\ Len(slots) + left = Len(written.slots)
        /\ \A i \in DOMAIN slots : slots[i] = written.slots[i]
    BY <1>1 DEF Tracks
  <2>3. slots = written.slots
    <3>1. written.slots \in Seq(Slots)
      BY <1>3, ImageIs
    <3>2. Len(slots) = Len(written.slots)
      BY <1>1, <2>2
    <3>3. \A i \in 1..Len(slots) : slots[i] = written.slots[i]
      BY <1>1, <2>2
    <3> QED
      BY <1>1, <3>1, <3>2, <3>3, SeqEqual
  <2>4. Parsed = written
    <3>1. written = [policyHint |-> written.policyHint, slots |-> written.slots]
      BY <1>3 DEF Envelopes
    <3> QED
      BY <2>2, <2>3, <3>1, Zenon DEF Parsed
  <2>5. Parsed' = written'
    BY <1>1, <2>4 DEF Parsed
  <2>6. InBounds(written')
    <3>1. \A i \in DOMAIN slots : CostsInBounds(slots[i].fields)
      BY <1>1 DEF Reader
    <3>2. InBounds(written)
      BY <2>3, <3>1, Zenon DEF InBounds
    <3> QED
      BY <1>1, <3>2
  <2> QED
    BY <1>1, <1>5, <2>1, <2>5, <2>6 DEF Tracks
<1>6. CASE damage = "longer"
  <2>1. off # Len(file)
    BY <1>1, <1>2, <1>3, <1>6 DEF Agrees
  <2>2. err' = "ErrMalformed"
    BY <1>1, <2>1
  <2> QED
    BY <1>1, <1>6, <2>2 DEF Tracks
<1> QED
  BY <1>4, <1>5, <1>6

-----------------------------------------------------------------------------
(* The invariant *)

(* It holds of an envelope that was not yet written.                       *)
LEMMA InitIInv == Init => IInv
<1> SUFFICES ASSUME Init PROVE IInv
  OBVIOUS
<1>1. pc = "marshal"
  BY DEF Init
<1> QED
  BY <1>1, ReaderInit DEF IInv, Tracks

(* Every step of Marshal, of the damage and of ParseEnvelope keeps it.     *)
LEMMA NextIInv == IInv /\ [Next]_vars => IInv'
<1> SUFFICES ASSUME IInv, [Next]_vars PROVE IInv'
  OBVIOUS
<1>1. TypeOK /\ Reader /\ Tracks
  BY DEF IInv
<1>2. TypeOK' /\ Reader'
  BY <1>1, ReaderNext
<1>3. Tracks'
  <2>1. CASE UNCHANGED vars
    <3>1. /\ UNCHANGED <<written, damage, file, pc, off, end, start, left, k>>
          /\ UNCHANGED <<cur, slots, err>>
      BY <2>1 DEF vars
    <3>2. Agrees' <=> Agrees
      BY <3>1 DEF Agrees
    <3>3. Current' = Current /\ Parsed' = Parsed
      BY <3>1 DEF Current, Parsed
    <3> QED
      BY <1>1, <3>1, <3>2, <3>3 DEF Tracks
  <2>2. CASE Done
    BY <2>1, <2>2 DEF Done
  <2> QED
    BY <1>1, <2>1, <2>2, TracksMarshal, TracksDamage, TracksHeader,
       TracksSlotLen, TracksReadField, TracksEndOfSlot, TracksEndOfEnvelope
       DEF Next
<1> QED
  BY <1>2, <1>3 DEF IInv

(* The invariant on which the theorems rest.                               *)
THEOREM Invariant == Spec => []IInv
BY InitIInv, NextIInv, PTL DEF Spec

-----------------------------------------------------------------------------
(* The theorems *)

(* The parser keeps bytes, offsets, slots and errors of their types.       *)
THEOREM TypeCorrect == Spec => []TypeOK
<1>1. IInv => TypeOK
  BY DEF IInv
<1> QED
  BY <1>1, Invariant, PTL

(* ParseEnvelope never reads behind the buffer, and what it reads for a    *)
(* slot lies in the body that the slot's length announced.                 *)
THEOREM ReaderIsBounded == Spec => []ReaderStaysInBody
<1>1. IInv => ReaderStaysInBody
  <2> SUFFICES ASSUME IInv PROVE ReaderStaysInBody
    OBVIOUS
  <2>1. /\ file \in Seq(Byte)
        /\ pc = "slot" => off = Len(ReadSoFar) /\ Lies(file, 0, ReadSoFar)
        /\ pc = "field" => start <= off /\ off <= end /\ end <= Len(file)
    BY DEF IInv, TypeOK, Reader, AtSlot, AtField
  <2>2. ASSUME pc = "slot" PROVE off <= Len(file)
    <3>1. 0 + Len(ReadSoFar) <= Len(file) /\ off = Len(ReadSoFar)
      BY <2>1, <2>2 DEF Lies
    <3>2. off \in Nat
      BY DEF IInv, TypeOK
    <3> QED
      BY <3>1, <3>2
  <2> QED
    BY <2>1, <2>2 DEF ReaderStaysInBody
<1> QED
  BY <1>1, Invariant, PTL

(* A file that ParseEnvelope accepts, whatever it is, is the image of what *)
(* was read from it: no two files stand for one envelope.                  *)
THEOREM OneFilePerEnvelope == Spec => []ParsedIsCanonical
<1>1. IInv => ParsedIsCanonical
  BY DEF IInv, Reader
<1> QED
  BY <1>1, Invariant, PTL

(* What Marshal wrote of the library's own slots is read back as it was if *)
(* the file did not change and the KDF parameters of all slots are ones    *)
(* parseKDF accepts, and is refused for those parameters if not.           *)
THEOREM RoundTrip == Spec => []WrittenIsRead
<1>1. IInv => WrittenIsRead
  BY DEF IInv, Tracks, WrittenIsRead
<1> QED
  BY <1>1, Invariant, PTL

(* Such a file is short data when it was cut, wherever, and malformed when *)
(* something was appended to it, whatever, unless it has KDF parameters    *)
(* for which the whole file would be refused too.                          *)
THEOREM LengthIsSeen == Spec => []DamagedLengthIsRefused
<1>1. IInv => DamagedLengthIsRefused
  BY DEF IInv, Tracks, DamagedLengthIsRefused
<1> QED
  BY <1>1, Invariant, PTL
=============================================================================
