------------------------------- MODULE Keyslot -------------------------------
(***************************************************************************)
(* The constant-level part of the model: method types and policies         *)
(* (tumbler.go), one keyslot and the two operations on it, wrapping and    *)
(* unwrapping the data key (method.go, combine.go), and the checks a slot  *)
(* passes when a file is parsed (envelope.go).                             *)
(*                                                                         *)
(* Cryptography is ideal: HKDF and the KDFs are injective, random slot IDs *)
(* never repeat, and a box opens only with the key and the associated data *)
(* it was sealed with.  Bytes are abstracted to what the checks tell apart.*)
(***************************************************************************)
EXTENDS Integers, Sequences, FiniteSets

CONSTANTS
  Passwords,   \* contents of password containers
  Devices,     \* YubiKeys (an HMAC secret per OTP slot)
  Codes,       \* 32-byte recovery codes
  DataKeys,    \* data keys (DEKs)
  None         \* the absent value: nil factor, no key, no envelope

ASSUME NoneAssumption ==
  None \notin Passwords \cup Devices \cup Codes \cup DataKeys

-----------------------------------------------------------------------------
(* Method types and policies *)

MethodTypes == {"password", "yubikey", "password+yubikey", "recovery"}

Policies == {"password-only", "password-and-yubikey", "yubikey-only"}

PolicyInvalid == "invalid"

policyForMethod(t) ==
  CASE t = "password"         -> "password-only"
    [] t = "yubikey"          -> "yubikey-only"
    [] t = "password+yubikey" -> "password-and-yubikey"
    [] OTHER                  -> PolicyInvalid

NeedsPassword(t) == t \in {"password", "password+yubikey"}
NeedsYubiKey(t)  == t \in {"yubikey", "password+yubikey"}

(* A configured Method: its type, the secrets it borrows, and for the      *)
(* enrollment of password and YubiKey methods the KDF and the OTP slot.    *)
(* kdf is "nil", "ok" (parameters parseKDF accepts) or "refused"           *)
(* (parameters parseKDF refuses); rc is None for a code of another length  *)
(* than 32; yk 3 stands for every byte above 2.                            *)
Methods ==
  {m \in [type : MethodTypes,
          pw   : Passwords \cup {None},
          dev  : Devices \cup {None},
          rc   : Codes \cup {None},
          kdf  : {"nil", "ok", "refused"},
          yk   : 0..3] :
     /\ NeedsPassword(m.type) => m.pw # None
     /\ NeedsYubiKey(m.type) => m.dev # None}

slotValid(yk) == yk \in {1, 2}

-----------------------------------------------------------------------------
(* Keyslots *)

KDFs == {"none", "ok", "ok2", "refused"}
Rests == {"enrolled", "changed"}

(* The authenticated metadata of a slot.  kdf is KDFNone ("none"), an id   *)
(* with in-bounds parameters ("ok", or "ok2" for other in-bounds ones) or  *)
(* something parseKDF refuses.  rest is the salts, nonce, stored           *)
(* challenge, flags and label: as enrolled, or with a byte changed since.  *)
Metas == [type : MethodTypes, id : Nat, yk : 0..3, kdf : KDFs, rest : Rests]

(* The factors as they enter the key material: the stretched password, the *)
(* challenge sent to the YubiKey and its HMAC response.                    *)
PasswordKeys == [pw : Passwords, kdf : KDFs, salt : Rests]

(* A nil container is no key.                                              *)
ASSUME NilAssumption == None \notin PasswordKeys

PasswordKey(pw, meta) == [pw |-> pw, kdf |-> meta.kdf, salt |-> meta.rest]

(* Stored in a yubikey slot, derived from the password key in a 2FA one.   *)
Challenges == [secret : PasswordKeys \cup {None}, salt : Rests]

deriveChallenge(pk, meta) == [secret |-> pk, salt |-> meta.rest]

Responses == [dev : Devices, slot : 0..3, challenge : Challenges]

Response(dev, yk, challenge) ==
  [dev |-> dev, slot |-> yk, challenge |-> challenge]

(* Three roles in a fixed order with explicit presence: two configurations *)
(* never share key material.                                               *)
IKMs == [password : PasswordKeys \cup {None},
         yubiResp : Responses \cup {None},
         recovery : Codes \cup {None}]

buildIKM(pk, yr, rc) == [password |-> pk, yubiResp |-> yr, recovery |-> rc]

KEKs == [ikm : IKMs, type : MethodTypes, id : Nat, salt : Rests]

deriveKEK(ikm, meta) ==
  [ikm |-> ikm, type |-> meta.type, id |-> meta.id, salt |-> meta.rest]

(* The key material method m brings to a slot with this metadata.          *)
FactorsOf(m, meta) ==
  LET pk == IF NeedsPassword(m.type) THEN PasswordKey(m.pw, meta) ELSE None
      yr == IF NeedsYubiKey(m.type)
            THEN Response(m.dev, meta.yk, deriveChallenge(pk, meta)) ELSE None
      rc == IF m.type = "recovery" THEN m.rc ELSE None
  IN  buildIKM(pk, yr, rc)

(* Sealing a data key under kek, with the metadata as associated data.     *)
Boxes == [kek : KEKs, aad : Metas, dek : DataKeys, intact : BOOLEAN]

seal(kek, dek, meta) ==
  [kek |-> kek, aad |-> meta, dek |-> dek, intact |-> TRUE]

(* Mutant: the metadata is not passed to Open as associated data.          *)
VerifiesWithoutAAD(box, kek, meta) == box.intact /\ box.kek = kek

(* aead.Open succeeds exactly on an intact box, with its key and its       *)
(* associated data.                                                        *)
Verifies(box, kek, meta) ==
  /\ box.intact
  /\ box.kek = kek
  /\ box.aad = meta

EnrolledMeta(m, id) ==
  [type |-> m.type,
   id   |-> id,
   yk   |-> IF NeedsYubiKey(m.type) THEN m.yk ELSE 0,
   kdf  |-> IF NeedsPassword(m.type) THEN m.kdf ELSE "none",
   rest |-> "enrolled"]

SlotRecords == [meta : Metas, box : Boxes]

(* Mutant: the key is derived before the random slot ID is drawn.          *)
wrapDEKBeforeID(m, id, dek) ==
  LET meta == EnrolledMeta(m, id)
      kek  == deriveKEK(FactorsOf(m, meta), [meta EXCEPT !.id = 0])
  IN  [meta |-> meta, box |-> seal(kek, dek, meta)]

(* The slot Enroll returns for data key dek under the fresh random id.     *)
wrapDEK(m, id, dek) ==
  LET meta == EnrolledMeta(m, id)
  IN  [meta |-> meta,
       box  |-> seal(deriveKEK(FactorsOf(m, meta), meta), dek, meta)]

(* parseKDF accepts the KDF id and parameters of a password slot.          *)
KDFAccepted(meta) == NeedsPassword(meta.type) => meta.kdf \in {"ok", "ok2"}

(* The OTP slot of a YubiKey slot is one a YubiKey has.                    *)
OTPSlotAccepted(meta) == NeedsYubiKey(meta.type) => slotValid(meta.yk)

(* What the methods' Unlock checks of a slot before deriving from it.      *)
Derivable(meta) == KDFAccepted(meta) /\ OTPSlotAccepted(meta)

(* Method m opens slot s: the types match and the tag verifies.            *)
Opens(m, s) ==
  /\ m.type = s.meta.type
  /\ Derivable(s.meta)
  /\ Verifies(s.box, deriveKEK(FactorsOf(m, s.meta), s.meta), s.meta)

(* No byte of the slot has changed since wrapDEK sealed it.                *)
Unchanged(s) == s.box.intact /\ s.box.aad = s.meta

OpenedBy(ms, s) == \E k \in DOMAIN ms : Opens(ms[k], s)

TriedBy(ms, s) == \E k \in DOMAIN ms : ms[k].type = s.meta.type

(* The outcome of a whole call of Unlock by a caller who had the key       *)
(* before, if any: a slot is skipped when no method opens it, an           *)
(* operational error may end the call at any slot some method is tried on, *)
(* and the first slot a method opens yields its key.                       *)
UnlockReturns(ms, slots, code, key, before) ==
  \/ ms = <<>> /\ code = "ErrNoMethods" /\ key = before
  \/ \E i \in DOMAIN slots :
       /\ OpenedBy(ms, slots[i])
       /\ \A j \in 1..(i - 1) : ~OpenedBy(ms, slots[j])
       /\ key = slots[i].box.dek
       /\ code = "unlocked"
  \/ /\ \E i \in DOMAIN slots : TriedBy(ms, slots[i])
     /\ code = "system"
     /\ key = before
  \/ /\ ms # <<>>
     /\ \A i \in DOMAIN slots : ~OpenedBy(ms, slots[i])
     /\ code = "ErrAuthFailed"
     /\ key = before

(* Why Enroll refuses a method before it does any work, or "ok".           *)
EnrollCheck(m) ==
  IF NeedsYubiKey(m.type) /\ ~slotValid(m.yk) THEN "ErrMalformed"
  ELSE IF NeedsPassword(m.type) /\ m.kdf = "nil" THEN "ErrUnsupportedKDF"
  ELSE IF m.type = "recovery" /\ m.rc = None THEN "ErrInvalidRecoveryCode"
  ELSE "ok"

-----------------------------------------------------------------------------
(* Sets of slots *)

Primaries(slots) == {i \in DOMAIN slots : slots[i].meta.type # "recovery"}

primarySlotCount(slots) == Cardinality(Primaries(slots))

(* The policy all primary slots share, or PolicyInvalid.                   *)
EffectivePolicy(slots) ==
  LET implied == {policyForMethod(slots[i].meta.type) : i \in Primaries(slots)}
  IN  IF \E p \in Policies : implied = {p}
      THEN CHOOSE p \in Policies : implied = {p}
      ELSE PolicyInvalid

(* Mutant: no return and no seen, an invalid policy taken for none yet.    *)
PolicyRoundGoesOn(acc, s) ==
  LET p == policyForMethod(s.meta.type)
  IN  IF s.meta.type = "recovery" THEN acc
      ELSE IF acc.derived = PolicyInvalid THEN [acc EXCEPT !.derived = p]
      ELSE IF p # acc.derived THEN [acc EXCEPT !.derived = PolicyInvalid]
      ELSE acc

(* One round of the loop of EffectivePolicy: the first primary slot sets   *)
(* derived, and the first that disagrees returns.                          *)
PolicyRound(acc, s) ==
  IF acc.returned \/ s.meta.type = "recovery" THEN acc
  ELSE LET p == policyForMethod(s.meta.type)
       IN  IF ~acc.seen THEN [acc EXCEPT !.derived = p, !.seen = TRUE]
           ELSE IF p # acc.derived
           THEN [acc EXCEPT !.derived = PolicyInvalid, !.returned = TRUE]
           ELSE acc

(* EffectivePolicy as the code computes it, round by round.                *)
EffectivePolicyLoop(slots) ==
  LET after[n \in 0..Len(slots)] ==
        IF n = 0
        THEN [derived |-> PolicyInvalid, seen |-> FALSE, returned |-> FALSE]
        ELSE PolicyRound(after[n - 1], slots[n])
  IN  after[Len(slots)].derived

(* What ParseEnvelope demands of a slot's type and KDF.                    *)
validateSlotShape(meta) ==
  /\ NeedsPassword(meta.type) <=> meta.kdf # "none"
  /\ meta.kdf # "refused"
=============================================================================
