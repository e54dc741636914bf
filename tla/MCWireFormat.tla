---------------------------- MODULE MCWireFormat ----------------------------
(* A small instance of WireFormat for TLC: bytes below 6, so that a label   *)
(* of the longest length needs the upper byte of its prefix, as 256 does.   *)
EXTENDS WireFormat

Meta(type, kdf, yk, params, kdfSalt, chalSalt, challenge, label) ==
  [Type |-> <<type>>, ID |-> <<2>>, Flags |-> <<0>>, AEADID |-> <<1>>,
   KDFID |-> <<kdf>>, YKSlot |-> <<yk>>, KDFParams |-> params,
   KDFSalt |-> kdfSalt, ChalSalt |-> chalSalt, HKDFSalt |-> <<5>>,
   Challenge |-> challenge, Label |-> label, Nonce |-> <<3>>]

(* A slot as wrapDEK returns it, and one of a foreign Method.               *)
Own(fields, wrapped) ==
  [fields |-> fields, Wrapped |-> wrapped, meta |-> marshalMeta(fields)]
Foreign(fields, wrapped) ==
  [fields |-> fields, Wrapped |-> wrapped, meta |-> <<>>]

LongLabel == <<1, 2, 3, 4, 5, 0>>

PwMeta  == Meta(1, 1, 0, <<3>>, <<4>>, <<>>, <<>>, <<1>>)
YkMeta  == Meta(2, 0, 2, <<>>, <<>>, <<>>, <<3>>, LongLabel)
TwoMeta == Meta(3, 2, 1, <<3>>, <<4>>, <<5>>, <<>>, <<>>)
RecMeta == Meta(4, 0, 0, <<>>, <<>>, <<>>, <<>>, <<2>>)

Saved(hint, ss) == [policyHint |-> hint, slots |-> ss]

Pw  == Own(PwMeta, <<3, 4>>)
Yk  == Own(YkMeta, <<3, 4, 5>>)
Two == Own(TwoMeta, <<0, 0>>)
Rec == Own(RecMeta, <<5, 5>>)

(* A password enrolled with parameters that parseKDF refuses.               *)
Weak  == Own([PwMeta EXCEPT !.KDFParams = <<0>>], <<3, 4>>)
Weak2 == Own([TwoMeta EXCEPT !.KDFParams = <<5>>], <<0, 0>>)

Bounds == [kdf \in BuiltInKDFs |-> IF kdf = 1 THEN {<<2>>, <<3>>} ELSE {<<3>>}]

(* Slots of a foreign Method, of which some break a bound.                  *)
Odd ==
  {Foreign(PwMeta, <<3, 4>>),
   Foreign(PwMeta, <<>>),
   Foreign(PwMeta, <<1, 2, 3, 4>>),
   Foreign([PwMeta EXCEPT !.Type = <<5>>], <<3, 4>>),
   Foreign([PwMeta EXCEPT !.AEADID = <<2>>], <<3, 4>>),
   Foreign([PwMeta EXCEPT !.Label = Append(LongLabel, 1)], <<3, 4>>),
   Foreign([PwMeta EXCEPT !.KDFSalt = <<1, 1>>], <<3, 4>>),
   Foreign([PwMeta EXCEPT !.KDFID = <<3>>], <<3, 4>>),
   Foreign([PwMeta EXCEPT !.KDFParams = <<1>>], <<3, 4>>),
   Foreign([RecMeta EXCEPT !.KDFID = <<1>>], <<3, 4>>)}

SomeEnvelopes ==
  {Saved(1, ss) : ss \in {<<>>, <<Pw>>, <<Yk>>, <<Two>>, <<Rec>>, <<Pw, Rec>>,
                         <<Yk, Two>>, <<Pw, Rec, Rec>>, <<Weak>>, <<Rec, Weak2>>,
                         <<Weak, Pw>>}}
    \cup {Saved(1, <<o>>) : o \in Odd}

Signature == <<4>>
SomeStray == {<<0>>, <<5, 0, 1>>, [i \in 1..90 |-> 0]}
=============================================================================
