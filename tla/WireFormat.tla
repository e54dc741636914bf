------------------------------ MODULE WireFormat ------------------------------
(***************************************************************************)
(* The versioned wire form of an envelope (envelope.go): Marshal, and      *)
(* ParseEnvelope step by step, each step one access of the bounds-checked  *)
(* reader.  Between the two the bytes lie in a file, where they may be cut *)
(* short, lengthened or changed.                                           *)
(*                                                                         *)
(* Bytes are numbers below Base and lengths are big-endian numbers of two  *)
(* and four of them, as in the code; Base and the field bounds are         *)
(* parameters, so that small ones can be checked.                          *)
(***************************************************************************)
EXTENDS Integers, Sequences, SequencesExt

CONSTANTS
  Base,            \* values of a byte (256)
  Magic,           \* the file signature
  FormatVersion,
  IDLen, HKDFSaltLen, NonceLen,                        \* fixed lengths
  MaxKDFParamsLen, MaxSaltLen, MaxChallengeLen, MaxLabelLen,
  WrappedOverhead, MaxWrappedLen,                      \* of the sealed key
  MaxSlotCount,
  MaxEnvelopeLen,
  ParamsLen,       \* kdfParamsLenArgon2 and kdfParamsLenScrypt
  Affordable,      \* for each KDF, the parameter bytes parseKDF accepts
  Written,         \* the envelopes in memory that Marshal is called on
  Stray            \* bound: what may be appended to a file

Byte == 0..(Base - 1)

KDFNone == 0
BuiltInKDFs == {1, 2}

ASSUME WireAssumption ==
  /\ Base \in Nat \ {0, 1}
  /\ Magic \in Seq(Byte)
  /\ FormatVersion \in Byte
  /\ {IDLen, HKDFSaltLen, NonceLen, MaxKDFParamsLen, MaxSaltLen,
      MaxChallengeLen, MaxLabelLen, WrappedOverhead, MaxWrappedLen,
      MaxSlotCount, MaxEnvelopeLen, ParamsLen} \subseteq Nat
  /\ Stray \subseteq Seq(Byte) \ {<<>>}
  /\ Affordable \in [BuiltInKDFs -> SUBSET Seq(Byte)]

(* Counts and lengths fit the numbers they are written as; a sealed key is *)
(* never empty.                                                            *)
ASSUME WidthAssumption ==
  /\ {MaxKDFParamsLen, MaxSaltLen, MaxChallengeLen, MaxLabelLen, MaxSlotCount}
       \subseteq 0..(Base * Base - 1)
  /\ MaxEnvelopeLen < Base * Base * Base * Base
  /\ WrappedOverhead >= 1

-----------------------------------------------------------------------------
(* Layout *)

(* The authenticated metadata in file order: every field has either a      *)
(* fixed length or a u16 length prefix and a bound.                        *)
Fixed(name, n) == [name |-> name, prefixed |-> FALSE, len |-> n]
Prefixed(name, max) == [name |-> name, prefixed |-> TRUE, len |-> max]

Fields ==
  << Fixed("Type", 1), Fixed("ID", IDLen), Fixed("Flags", 1),
     Fixed("AEADID", 1), Fixed("KDFID", 1), Fixed("YKSlot", 1),
     Prefixed("KDFParams", MaxKDFParamsLen), Prefixed("KDFSalt", MaxSaltLen),
     Prefixed("ChalSalt", MaxSaltLen), Fixed("HKDFSalt", HKDFSaltLen),
     Prefixed("Challenge", MaxChallengeLen), Prefixed("Label", MaxLabelLen),
     Fixed("Nonce", NonceLen) >>

FieldNames == {Fields[k].name : k \in DOMAIN Fields}

slotFixedLen == 5 + IDLen
headerLen == Len(Magic) + 4

(* A Slot: its fields, its sealed data key, and the metadata bytes it was  *)
(* parsed from (empty for one that was not parsed).                        *)
Slots == [fields : [FieldNames -> Seq(Byte)], Wrapped : Seq(Byte),
          meta : Seq(Byte)]

Envelopes == [policyHint : Byte, slots : Seq(Slots)]

ASSUME WrittenAssumption == Written \subseteq Envelopes

(* binary.BigEndian, for the two widths the format uses.                   *)
u16Bytes(n) == << (n \div Base) % Base, n % Base >>
u32Bytes(n) == u16Bytes(n \div (Base * Base)) \o u16Bytes(n)

Uint16(b) == b[1] * Base + b[2]
Uint32(b) == (Uint16(b) * Base + b[3]) * Base + b[4]

-----------------------------------------------------------------------------
(* Marshal *)

typeValid(t) == t \in 1..4
AEADChaCha20Poly1305 == 1

EncodeField(f, bytes) ==
  IF f.prefixed THEN u16Bytes(Len(bytes)) \o bytes ELSE bytes

marshalMeta(fields) ==
  FlattenSeq([k \in DOMAIN Fields |->
                EncodeField(Fields[k], fields[Fields[k].name])])

(* The lengths and ids marshalMeta checks.                                 *)
MetaFits(fields) ==
  /\ typeValid(fields["Type"][1])
  /\ fields["AEADID"][1] = AEADChaCha20Poly1305
  /\ \A k \in DOMAIN Fields :
       Fields[k].prefixed => Len(fields[Fields[k].name]) <= Fields[k].len

MetaOf(s) == IF s.meta = <<>> THEN marshalMeta(s.fields) ELSE s.meta

Body(s) == u32Bytes(Len(MetaOf(s)) + Len(s.Wrapped)) \o MetaOf(s) \o s.Wrapped

Image(e) ==
  Magic \o << FormatVersion, e.policyHint >> \o u16Bytes(Len(e.slots))
        \o FlattenSeq([i \in DOMAIN e.slots |-> Body(e.slots[i])])

Marshalable(e) ==
  /\ Len(e.slots) \in 1..MaxSlotCount
  /\ \A i \in DOMAIN e.slots :
       /\ Len(e.slots[i].Wrapped) \in 1..MaxWrappedLen
       /\ e.slots[i].meta = <<>> => MetaFits(e.slots[i].fields)
  /\ Len(Image(e)) <= MaxEnvelopeLen

(* The bounds of parseKDF on the parameters of a built-in KDF: its time,    *)
(* memory and threads (their arithmetic is KDFParams' subject).            *)
CostsInBounds(fields) ==
  fields["KDFID"][1] \in BuiltInKDFs =>
    fields["KDFParams"] \in Affordable[fields["KDFID"][1]]

(* validateSlotShape and the parseKDF it calls.                            *)
validateSlotShape(fields) ==
  LET t == fields["Type"][1]
      kdf == fields["KDFID"][1]
      n == Len(fields["KDFParams"])
  IN  CASE t \in {1, 3} /\ kdf = KDFNone         -> "ErrMalformed"
        [] t \in {2, 4} /\ kdf # KDFNone         -> "ErrMalformed"
        [] kdf \notin {KDFNone} \cup BuiltInKDFs -> "ErrUnsupportedKDF"
        [] n # (IF kdf = KDFNone THEN 0 ELSE ParamsLen) -> "ErrKDFParams"
        [] OTHER -> IF CostsInBounds(fields) THEN "ok" ELSE "ErrKDFParams"

(* What holds of the type, the id and the length of a slot's KDF when a    *)
(* built-in method made it.  Nothing bounds the parameters there: the      *)
(* parameters of a WithPassword option go into the slot as they are.       *)
Shaped(fields) ==
  LET t == fields["Type"][1]
      kdf == fields["KDFID"][1]
      n == Len(fields["KDFParams"])
  IN  /\ t \in {1, 3} => kdf \in BuiltInKDFs /\ n = ParamsLen
      /\ t \in {2, 4} => kdf = KDFNone /\ n = 0

(* A slot as wrapDEK seals it for a built-in method.                       *)
Sealed(s) ==
  /\ s.meta = marshalMeta(s.fields)
  /\ MetaFits(s.fields)
  /\ \A k \in DOMAIN Fields :
       Fields[k].prefixed \/ Len(s.fields[Fields[k].name]) = Fields[k].len
  /\ Shaped(s.fields)
  /\ Len(s.Wrapped) >= WrappedOverhead

(* Only a slot of a foreign Method comes without its metadata.             *)
ASSUME OwnAssumption ==
  \A e \in Written : \A i \in DOMAIN e.slots :
    e.slots[i].meta = <<>> \/ Sealed(e.slots[i])

-----------------------------------------------------------------------------
(* Parse *)

VARIABLES
  written,   \* the envelope that was saved
  damage,    \* what became of its file: "none", "cut", "longer", "changed"
  file,      \* the bytes
  pc,        \* where the parser is
  off,       \* the reader's offset
  end,       \* where the body of the current slot ends
  start,     \* where it began
  left,      \* slots still to be read
  k,         \* the next field of the current slot
  cur,       \* its fields so far
  slots,     \* the slots read so far
  err        \* "none" until the end, then "ok" or the sentinel

position == <<off, end, start, left, k, cur, slots>>
vars == <<written, damage, file, pc, off, end, start, left, k, cur, slots, err>>

At(i, n) == SubSeq(file, i + 1, i + n)

Fail(code) ==
  /\ pc' = "done"
  /\ err' = code
  /\ UNCHANGED position

(* Marshal, and a write of its bytes.                                      *)
Marshal ==
  /\ pc = "marshal"
  /\ IF Marshalable(written)
     THEN file' = Image(written) /\ pc' = "stored" /\ UNCHANGED err
     ELSE file' = <<>> /\ pc' = "done" /\ err' = "unwritten"
  /\ UNCHANGED <<written, damage, position>>

(* The file is cut short, lengthened, or one of its bytes is changed.      *)
Damage ==
  /\ pc = "stored"
  /\ damage = "none"
  /\ \/ damage' = "cut" /\ \E n \in 0..(Len(file) - 1) : file' = At(0, n)
     \/ damage' = "longer" /\ \E s \in Stray : file' = file \o s
     \/ /\ damage' = "changed"
        /\ \E i \in DOMAIN file, b \in Byte :
             b # file[i] /\ file' = [file EXCEPT ![i] = b]
  /\ UNCHANGED <<written, pc, position, err>>

(* Mutant: only an empty envelope is refused.                              *)
slotCountPositive(n) == n >= 1

slotCountValid(n) == n \in 1..MaxSlotCount

(* The checks of ParseEnvelope on the header.                              *)
Header ==
  /\ pc = "stored"
  /\ LET m == Len(Magic)
         count == Uint16(At(m + 2, 2))
     IN  IF Len(file) > MaxEnvelopeLen THEN Fail("ErrMalformed")
         ELSE IF Len(file) < headerLen THEN Fail("ErrShortData")
         ELSE IF At(0, m) # Magic THEN Fail("ErrBadMagic")
         ELSE IF file[m + 1] # FormatVersion THEN Fail("ErrBadVersion")
         ELSE IF ~slotCountValid(count) THEN Fail("ErrMalformed")
         ELSE /\ left' = count
              /\ off' = headerLen
              /\ pc' = "slot"
              /\ UNCHANGED <<end, start, k, cur, slots, err>>
  /\ UNCHANGED <<written, damage, file>>

(* The u32 length of a body, which must lie within the file.               *)
SlotLen ==
  /\ pc = "slot"
  /\ left > 0
  /\ LET n == Uint32(At(off, 4))
     IN  IF off + 4 > Len(file) THEN Fail("ErrShortData")
         ELSE IF n \notin slotFixedLen..MaxEnvelopeLen THEN Fail("ErrMalformed")
         ELSE IF off + 4 + n > Len(file) THEN Fail("ErrShortData")
         ELSE /\ off' = off + 4
              /\ start' = off + 4
              /\ end' = off + 4 + n
              /\ k' = 1
              /\ cur' = [f \in FieldNames |-> <<>>]
              /\ pc' = "field"
              /\ UNCHANGED <<left, slots, err>>
  /\ UNCHANGED <<written, damage, file>>

(* The value of field f at off and the offset behind it, or an error.      *)
Got(bytes, next) == [err |-> "none", bytes |-> bytes, next |-> next]
Not(code) == [err |-> code, bytes |-> <<>>, next |-> off]

(* Mutant: the bound of the whole file for that of the body.               *)
takeFromFile(from, n) ==
  IF from + n > Len(file) THEN Not("ErrShortData")
  ELSE Got(At(from, n), from + n)

take(from, n) ==
  IF from + n > end THEN Not("ErrShortData") ELSE Got(At(from, n), from + n)

(* Mutants: the bound is excluded; the upper byte of the length is ignored.*)
takeU16Below(max) ==
  LET n == Uint16(At(off, 2))
  IN  IF off + 2 > end THEN Not("ErrShortData")
      ELSE IF n >= max THEN Not("ErrMalformed")
      ELSE take(off + 2, n)

takeU16Low(max) ==
  LET n == Uint16(At(off, 2)) % Base
  IN  IF off + 2 > end THEN Not("ErrShortData")
      ELSE IF n > max THEN Not("ErrMalformed")
      ELSE take(off + 2, n)

takeU16(max) ==
  LET n == Uint16(At(off, 2))
  IN  IF off + 2 > end THEN Not("ErrShortData")
      ELSE IF n > max THEN Not("ErrMalformed")
      ELSE take(off + 2, n)

Read(f) == IF f.prefixed THEN takeU16(f.len) ELSE take(off, f.len)

(* What parseSlot checks of a field as soon as it has read it.             *)
FieldError(f, bytes) ==
  CASE f.name = "Type" /\ ~typeValid(bytes[1]) -> "ErrMalformed"
    [] f.name = "AEADID" /\ bytes[1] # AEADChaCha20Poly1305
                                               -> "ErrUnsupportedAEAD"
    [] OTHER                                   -> "none"

ReadField ==
  /\ pc = "field"
  /\ k \in DOMAIN Fields
  /\ LET f == Fields[k]
         got == Read(f)
     IN  IF got.err # "none" THEN Fail(got.err)
         ELSE IF FieldError(f, got.bytes) # "none"
         THEN Fail(FieldError(f, got.bytes))
         ELSE /\ cur' = [cur EXCEPT ![f.name] = got.bytes]
              /\ off' = got.next
              /\ k' = k + 1
              /\ UNCHANGED <<pc, end, start, left, slots, err>>
  /\ UNCHANGED <<written, damage, file>>

(* The rest of the body is the sealed data key; what was read of it before *)
(* is the associated data.                                                 *)
EndOfSlot ==
  /\ pc = "field"
  /\ k = Len(Fields) + 1
  /\ IF end - off \notin WrappedOverhead..MaxWrappedLen
     THEN Fail("ErrMalformed")
     ELSE IF validateSlotShape(cur) # "ok" THEN Fail(validateSlotShape(cur))
     ELSE /\ slots' = Append(slots, [fields  |-> cur,
                                     Wrapped |-> At(off, end - off),
                                     meta    |-> At(start, off - start)])
          /\ off' = end
          /\ left' = left - 1
          /\ pc' = "slot"
          /\ UNCHANGED <<end, start, k, cur, err>>
  /\ UNCHANGED <<written, damage, file>>

(* Mutant: trailing bytes are ignored.                                     *)
EndOfSlots ==
  /\ pc = "slot"
  /\ left = 0
  /\ pc' = "done"
  /\ err' = "ok"
  /\ UNCHANGED <<written, damage, file, position>>

EndOfEnvelope ==
  /\ pc = "slot"
  /\ left = 0
  /\ pc' = "done"
  /\ err' = IF off = Len(file) THEN "ok" ELSE "ErrMalformed"
  /\ UNCHANGED <<written, damage, file, position>>

Done == pc = "done" /\ UNCHANGED vars

Init ==
  /\ written \in Written
  /\ damage = "none"
  /\ file = <<>>
  /\ pc = "marshal"
  /\ off = 0 /\ end = 0 /\ start = 0 /\ left = 0 /\ k = 1
  /\ cur = [f \in FieldNames |-> <<>>]
  /\ slots = <<>>
  /\ err = "none"

Next ==
  \/ Marshal
  \/ Damage
  \/ Header
  \/ SlotLen
  \/ ReadField
  \/ EndOfSlot
  \/ EndOfEnvelope
  \/ Done

Spec == Init /\ [][Next]_vars

-----------------------------------------------------------------------------
(* Properties *)

TypeOK ==
  /\ written \in Written
  /\ damage \in {"none", "cut", "longer", "changed"}
  /\ file \in Seq(Byte)
  /\ pc \in {"marshal", "stored", "slot", "field", "done"}
  /\ off \in Nat /\ end \in Nat /\ start \in Nat
  /\ left \in 0..MaxSlotCount
  /\ k \in 1..(Len(Fields) + 1)
  /\ cur \in [FieldNames -> Seq(Byte)]
  /\ slots \in Seq(Slots)
  /\ err \in {"none", "ok", "unwritten", "ErrShortData", "ErrMalformed",
              "ErrBadMagic", "ErrBadVersion", "ErrUnsupportedAEAD",
              "ErrUnsupportedKDF", "ErrKDFParams"}

(* "Nothing ever indexes past the buffer": what is read for a slot lies in *)
(* the body its length announced, and every body lies in the file.         *)
ReaderStaysInBody ==
  /\ pc = "slot" => off <= Len(file)
  /\ pc = "field" => start <= off /\ off <= end /\ end <= Len(file)

(* The envelope ParseEnvelope returns.                                     *)
Parsed == [policyHint |-> file[Len(Magic) + 2], slots |-> slots]

(* "A parsed envelope must re-marshal ... to identical bytes" (fuzz_test): *)
(* a file that is accepted is the image of what was read from it, and the  *)
(* associated data of each slot is what its fields marshal to, so that no  *)
(* two files stand for one envelope.                                       *)
ParsedIsCanonical ==
  err = "ok" =>
    /\ Marshalable(Parsed)
    /\ Image(Parsed) = file
    /\ \A i \in DOMAIN slots : slots[i].meta = marshalMeta(slots[i].fields)

(* The library's own slots carry their metadata; only a foreign Method can *)
(* return one without.                                                     *)
OwnSlots(e) == \A i \in DOMAIN e.slots : e.slots[i].meta # <<>>

(* The KDF parameters of every slot are ones parseKDF accepts.             *)
InBounds(e) == \A i \in DOMAIN e.slots : CostsInBounds(e.slots[i].fields)

(* What Marshal wrote is read back as it was, at every length its bounds   *)
(* allow, if the KDF parameters of all its slots are in bounds; if one has *)
(* others, which nothing refused at enrollment, ParseEnvelope refuses the  *)
(* whole file for them, and for nothing else.                              *)
WrittenIsRead ==
  pc = "done" /\ damage = "none" /\ err # "unwritten" /\ OwnSlots(written)
    => IF InBounds(written)
       THEN err = "ok" /\ Parsed = written
       ELSE err = "ErrKDFParams"

(* A torn write leaves a prefix of the file, which is always recognised as *)
(* short; a file with anything behind its last slot is malformed.  Only    *)
(* parameters that are refused in the whole file too may be met first.     *)
DamagedLengthIsRefused ==
  pc = "done" /\ OwnSlots(written) =>
    /\ damage = "cut" =>
         err = "ErrShortData" \/ (err = "ErrKDFParams" /\ ~InBounds(written))
    /\ damage = "longer" =>
         err = "ErrMalformed" \/ (err = "ErrKDFParams" /\ ~InBounds(written))
=============================================================================
