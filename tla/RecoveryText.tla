----------------------------- MODULE RecoveryText -----------------------------
(***************************************************************************)
(* The printed form of a recovery code (recovery.go): grouped base32 out,  *)
(* whatever a person types back in.                                        *)
(*                                                                         *)
(* A character is a number: a symbol of the base32 alphabet below 32, the  *)
(* same letter in lower case LowerCase higher, a digit that is not in the  *)
(* alphabet, or a separator, which stands for every rune that is neither a *)
(* letter nor a digit.  encoding/base32 is external.                       *)
(***************************************************************************)
EXTENDS Integers, Sequences, SequencesExt

CONSTANTS
  RecoveryCodeLen,  \* bytes of a code (32)
  Codes,            \* generated codes
  Wrong,            \* symbols that are written for another one
  MaxSlips          \* bound: slips and liberties of the person who types

ASSUME RecoveryAssumption ==
  /\ RecoveryCodeLen \in Nat \ {0}
  /\ MaxSlips \in Nat

Symbol == 0..31
Letter == 0..25
LowerCase == 64
Digit == 32
Separator == 33

Characters ==
  Symbol \cup {Digit, Separator} \cup {LowerCase + l : l \in Letter}

ASSUME CodesAssumption ==
  /\ Codes \subseteq [1..RecoveryCodeLen -> 0..255]
  /\ Wrong \subseteq Symbol \cup {Digit}

(* The last base32 group of a code is not full: 32 bytes are six groups    *)
(* and four symbols.  Behind a full one the decoder would drop a symbol.   *)
ASSUME LengthAssumption == RecoveryCodeLen % 5 # 0

-----------------------------------------------------------------------------
(* base32 without padding *)

(* Bit n of a sequence of w-bit numbers, most significant first, and zero  *)
(* behind its end.                                                         *)
Bit(seq, w, n) ==
  LET i == n \div w
  IN  IF i >= Len(seq) THEN 0 ELSE (seq[i + 1] \div 2^(w - 1 - (n % w))) % 2

(* The number with these binary digits.                                    *)
Number(bits) ==
  LET value[j \in 0..Len(bits)] ==
        IF j = 0 THEN 0 ELSE 2 * value[j - 1] + bits[j]
  IN  value[Len(bits)]

(* n numbers of w bits from the bits of a sequence of v-bit numbers.       *)
Regroup(seq, v, w, n) ==
  [i \in 1..n |->
     Number([j \in 1..w |-> Bit(seq, v, w * (i - 1) + j - 1)])]

EncodeToString(code) == Regroup(code, 8, 5, (8 * Len(code) + 4) \div 5)

(* A last group of one, three or six symbols yields nothing; bits behind   *)
(* the last byte are not looked at.                                        *)
DecodedLen(n) ==
  5 * (n \div 8) + (CASE n % 8 = 2 -> 1 [] n % 8 = 4 -> 2 [] n % 8 = 5 -> 3
                      [] n % 8 = 7 -> 4 [] OTHER -> 0)

DecodeString(symbols) == Regroup(symbols, 5, 8, DecodedLen(Len(symbols)))

-----------------------------------------------------------------------------
(* FormatRecoveryCode and ParseRecoveryCode *)

(* A hyphen in front of every n-th character but the first.                *)
groupString(s, n) ==
  FlattenSeq([i \in DOMAIN s |->
                IF i > 1 /\ (i - 1) % n = 0 THEN <<Separator, s[i]>>
                ELSE <<s[i]>>])

FormatRecoveryCode(code) == groupString(EncodeToString(code), 4)

(* Mutants: letters keep their case; digits outside the alphabet are       *)
(* dropped like separators.                                                *)
MappedCase(ch) == IF ch = Separator THEN <<>> ELSE <<ch>>

MappedDigits(ch) ==
  IF ch \in {Separator, Digit} THEN <<>>
  ELSE <<IF ch >= LowerCase THEN ch - LowerCase ELSE ch>>

(* strings.Map drops a separator, as it does every rune that is neither a  *)
(* letter nor a digit, and puts letters in upper case.                     *)
Mapped(ch) ==
  IF ch = Separator THEN <<>>
  ELSE <<IF ch >= LowerCase THEN ch - LowerCase ELSE ch>>

cleaned(text) == FlattenSeq([i \in DOMAIN text |-> Mapped(text[i])])

Refused == <<>>

(* Mutant: a longer text is cut to size.                                   *)
lengthEnough(raw) == Len(raw) >= RecoveryCodeLen

lengthValid(raw) == Len(raw) = RecoveryCodeLen

ParseRecoveryCode(text) ==
  LET symbols == cleaned(text)
  IN  IF \E i \in DOMAIN symbols : symbols[i] \notin Symbol THEN Refused
      ELSE IF ~lengthValid(DecodeString(symbols)) THEN Refused
      ELSE SubSeq(DecodeString(symbols), 1, RecoveryCodeLen)

-----------------------------------------------------------------------------
VARIABLES
  code,    \* the generated code
  text,    \* what is on the paper, and then what is being typed
  slips,   \* what was typed otherwise than printed, in order
  read,    \* what ParseRecoveryCode made of it
  pc

vars == <<code, text, slips, read, pc>>

Init ==
  /\ code \in Codes
  /\ text = <<>>
  /\ slips = <<>>
  /\ read = Refused
  /\ pc = "print"

Show ==
  /\ pc = "print"
  /\ text' = FormatRecoveryCode(code)
  /\ pc' = "type"
  /\ UNCHANGED <<code, slips, read>>

Slip(kind, typed) ==
  /\ pc = "type"
  /\ Len(slips) < MaxSlips
  /\ text' = typed
  /\ slips' = Append(slips, kind)
  /\ UNCHANGED <<code, read, pc>>

LowerOne ==
  \E i \in DOMAIN text :
    text[i] \in Letter /\ Slip("case", [text EXCEPT ![i] = @ + LowerCase])

(* Every letter in lower case.                                             *)
LowerAll ==
  Slip("case", [i \in DOMAIN text |->
                  IF text[i] \in Letter THEN text[i] + LowerCase ELSE text[i]])

DropSeparators ==
  Slip("separator",
       FlattenSeq([i \in DOMAIN text |->
                     IF text[i] = Separator THEN <<>> ELSE <<text[i]>>]))

AddSeparator ==
  \E i \in 1..(Len(text) + 1) : Slip("separator", InsertAt(text, i, Separator))

DropOne ==
  \E i \in DOMAIN text :
    text[i] # Separator /\ Slip("lost", RemoveAt(text, i))

DoubleOne ==
  \E i \in DOMAIN text :
    text[i] # Separator /\ Slip("double", InsertAt(text, i, text[i]))

Mistype ==
  \E i \in DOMAIN text, ch \in Wrong :
    /\ text[i] \notin {ch, Separator}
    /\ Slip("wrong", [text EXCEPT ![i] = ch])

SwapTwo ==
  \E i \in 1..(Len(text) - 1) :
    /\ text[i] # text[i + 1]
    /\ Slip("swap", [text EXCEPT ![i] = text[i + 1], ![i + 1] = text[i]])

Enter ==
  /\ pc = "type"
  /\ read' = ParseRecoveryCode(text)
  /\ pc' = "end"
  /\ UNCHANGED <<code, text, slips>>

End == pc = "end" /\ UNCHANGED vars

Next ==
  \/ Show
  \/ LowerOne
  \/ LowerAll
  \/ DropSeparators
  \/ AddSeparator
  \/ DropOne
  \/ DoubleOne
  \/ Mistype
  \/ SwapTwo
  \/ Enter
  \/ End

Spec == Init /\ [][Next]_vars

-----------------------------------------------------------------------------
(* Properties *)

Harmless == {"case", "separator"}
Harm ==
  FlattenSeq([i \in DOMAIN slips |->
                IF slips[i] \in Harmless THEN <<>> ELSE <<slips[i]>>])

(* "Any casing, with or without grouping separators": a code typed as it   *)
(* was printed, up to these, is the code.                                  *)
EnteredAsPrinted == pc = "end" /\ Harm = <<>> => read = code

(* One symbol lost, doubled or outside the alphabet is noticed: the length *)
(* of a code is such that no other length decodes to it.                   *)
LostSymbolIsRefused ==
  pc = "end" =>
    /\ Harm \in {<<"lost">>, <<"double">>} => read = Refused
    /\ (\E i \in DOMAIN text : text[i] = Digit) => read = Refused

(* Whatever was typed, it is read as the printed code only if it agrees    *)
(* with it in every bit that carries the code.                             *)
ReadAsItselfOnly ==
  pc = "end" /\ read = code =>
    LET typed == cleaned(text)
        printed == EncodeToString(code)
        spare == 2^(5 * Len(printed) - 8 * RecoveryCodeLen)
    IN  /\ Len(typed) = Len(printed)
        /\ \A i \in 1..(Len(printed) - 1) : typed[i] = printed[i]
        /\ typed[Len(printed)] \div spare = printed[Len(printed)] \div spare
=============================================================================
