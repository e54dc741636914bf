--------------------------- MODULE EnvelopeProofs ---------------------------
(***************************************************************************)
(* Theorems about Envelope for every value of its constants: type          *)
(* correctness, the policy an envelope keeps and the loop that computes    *)
(* it; and about the life of an envelope: slot IDs stay unique, siblings   *)
(* stay untouched, a call that fails changes nothing, what was saved       *)
(* opens, and the whole is the abstract KeyslotStore.                      *)
(***************************************************************************)
EXTENDS Envelope, FiniteSetTheorems, DataLemmas

-----------------------------------------------------------------------------
(* Keyslots *)

(* Enroll of a well-formed method that passes its checks returns a         *)
(* well-formed slot of the method's type.                                  *)
LEMMA WrapDEKType ==
  ASSUME NEW m \in Methods, EnrollCheck(m) = "ok",
         NEW id \in Nat, NEW d \in DataKeys
  PROVE  wrapDEK(m, id, d) \in SlotRecords /\ wrapDEK(m, id, d).meta.type = m.type
<1> DEFINE meta == EnrolledMeta(m, id)
           ikm  == FactorsOf(m, meta)
           kek  == deriveKEK(ikm, meta)
<1>1. m.type \in MethodTypes /\ m.yk \in 0..3 /\ m.rc \in Codes \cup {None}
  BY DEF Methods
<1>2. NeedsPassword(m.type) => m.pw \in Passwords
  BY DEF Methods
<1>3. NeedsYubiKey(m.type) => m.dev \in Devices
  BY DEF Methods
<1>4. NeedsPassword(m.type) => m.kdf \in KDFs
  BY DEF EnrollCheck, Methods, KDFs, NeedsPassword, NeedsYubiKey
<1>5. meta \in Metas /\ meta.type = m.type
  BY <1>1, <1>4 DEF EnrolledMeta, Metas, KDFs, Rests
<1> HIDE DEF meta
<1>6. ikm \in IKMs
  <2> DEFINE pk == IF NeedsPassword(m.type) THEN PasswordKey(m.pw, meta) ELSE None
             yr == IF NeedsYubiKey(m.type)
                   THEN Response(m.dev, meta.yk, deriveChallenge(pk, meta))
                   ELSE None
  <2>1. pk \in PasswordKeys \cup {None}
    BY <1>2, <1>5 DEF PasswordKey, PasswordKeys, Metas
  <2> HIDE DEF pk
  <2>2. deriveChallenge(pk, meta) \in Challenges
    BY <2>1, <1>5 DEF deriveChallenge, Challenges, Metas
  <2>3. yr \in Responses \cup {None}
    BY <2>2, <1>3, <1>5 DEF Response, Responses, Metas
  <2> HIDE DEF yr
  <2>4. ikm = buildIKM(pk, yr, IF m.type = "recovery" THEN m.rc ELSE None)
    BY DEF FactorsOf, pk, yr
  <2> QED
    BY <2>1, <2>3, <2>4, <1>1 DEF buildIKM, IKMs
<1> HIDE DEF ikm
<1>7. kek \in KEKs
  BY <1>5, <1>6 DEF deriveKEK, KEKs, Metas
<1> HIDE DEF kek
<1>8. seal(kek, d, meta) \in Boxes
  BY <1>5, <1>7 DEF seal, Boxes
<1> QED
  BY <1>5, <1>8 DEF wrapDEK, SlotRecords, meta, kek, ikm

(* The envelope has policy p exactly if it has a primary slot and all its  *)
(* primary slots imply p.                                                  *)
LEMMA EffectivePolicyIs ==
  ASSUME NEW slots, NEW p \in Policies
  PROVE  EffectivePolicy(slots) = p <=>
           /\ Primaries(slots) # {}
           /\ \A i \in Primaries(slots) : policyForMethod(slots[i].meta.type) = p
<1> DEFINE implied == {policyForMethod(slots[i].meta.type) : i \in Primaries(slots)}
<1>1. PolicyInvalid \notin Policies
  BY DEF PolicyInvalid, Policies
<1>2. EffectivePolicy(slots) = p <=> implied = {p}
  <2>1. CASE \E q \in Policies : implied = {q}
    <3>1. PICK q \in Policies : implied = {q}
      BY <2>1
    <3>2. \A r \in Policies : implied = {r} <=> r = q
      BY <3>1
    <3>3. (CHOOSE r \in Policies : implied = {r}) = q
      BY <3>1, <3>2
    <3> QED
      BY <3>1, <3>2, <3>3 DEF EffectivePolicy
  <2>2. CASE ~ \E q \in Policies : implied = {q}
    BY <2>2, <1>1 DEF EffectivePolicy
  <2> QED
    BY <2>1, <2>2
<1>3. implied = {p} <=>
        /\ Primaries(slots) # {}
        /\ \A i \in Primaries(slots) : policyForMethod(slots[i].meta.type) = p
  OBVIOUS
<1> QED
  BY <1>2, <1>3

(* A slot that is a recovery slot or implies the policy may be appended.   *)
LEMMA AppendKeepsPolicy ==
  ASSUME NEW slots \in Seq(SlotRecords), NEW s \in SlotRecords,
         NEW p \in Policies, EffectivePolicy(slots) = p,
         s.meta.type = "recovery" \/ policyForMethod(s.meta.type) = p
  PROVE  EffectivePolicy(Append(slots, s)) = p
<1> DEFINE new == Append(slots, s)
<1>1. /\ Primaries(slots) # {}
      /\ \A i \in Primaries(slots) : policyForMethod(slots[i].meta.type) = p
  BY EffectivePolicyIs
<1>2. /\ DOMAIN new = 1..(Len(slots) + 1)
      /\ DOMAIN slots = 1..Len(slots)
      /\ Len(slots) \in Nat
      /\ new[Len(slots) + 1] = s
      /\ \A i \in 1..Len(slots) : new[i] = slots[i]
  OBVIOUS
<1> HIDE DEF new
<1>3. Primaries(new) # {}
  BY <1>1, <1>2 DEF Primaries
<1>4. \A i \in Primaries(new) : policyForMethod(new[i].meta.type) = p
  BY <1>1, <1>2 DEF Primaries
<1> QED
  BY <1>3, <1>4, EffectivePolicyIs DEF new

(* Removing an element of a sequence of slots leaves a shorter one.        *)
LEMMA WithoutType ==
  ASSUME NEW slots \in Seq(SlotRecords), NEW idx \in DOMAIN slots
  PROVE  /\ Without(slots, idx) \in Seq(SlotRecords)
         /\ Len(Without(slots, idx)) = Len(slots) - 1
         /\ \A i \in 1..(Len(slots) - 1) :
              Without(slots, idx)[i] = IF i < idx THEN slots[i] ELSE slots[i + 1]
<1> DEFINE n == Len(slots) - 1
           new == [i \in 1..n |-> IF i < idx THEN slots[i] ELSE slots[i + 1]]
<1>1. n \in Nat /\ DOMAIN slots = 1..(n + 1) /\ idx \in 1..(n + 1)
  OBVIOUS
<1>2. \A i \in 1..n : new[i] \in SlotRecords
  BY <1>1
<1>3. new \in [1..n -> SlotRecords]
  BY <1>2
<1>4. new \in Seq(SlotRecords) /\ Len(new) = n
  BY <1>1, <1>3
<1> QED
  BY <1>4 DEF Without

(* What remains when RemoveSlot's checks pass is a sequence of slots with  *)
(* the same policy: another primary slot is left whenever one goes.        *)
LEMMA WithoutKeepsPolicy ==
  ASSUME NEW slots \in Seq(SlotRecords), NEW idx \in DOMAIN slots,
         NEW p \in Policies, EffectivePolicy(slots) = p,
         RemoveSlotCheck(slots, idx) = "ok"
  PROVE  EffectivePolicy(Without(slots, idx)) = p
<1> DEFINE new == Without(slots, idx)
           n == Len(slots)
           P == Primaries(slots)
<1>1. P # {} /\ \A i \in P : policyForMethod(slots[i].meta.type) = p
  BY EffectivePolicyIs
<1>2. /\ n \in Nat /\ DOMAIN slots = 1..n /\ DOMAIN new = 1..(n - 1)
      /\ \A i \in 1..(n - 1) : new[i] = IF i < idx THEN slots[i] ELSE slots[i + 1]
      /\ idx \in 1..n
  BY WithoutType
<1>3. PICK k \in P : k # idx
  <2>1. CASE slots[idx].meta.type = "recovery"
    BY <2>1, <1>1 DEF Primaries
  <2>2. CASE slots[idx].meta.type # "recovery"
    <3>1. IsFiniteSet(P) /\ Cardinality(P) \in Nat
      <4>1. P \subseteq 1..n /\ IsFiniteSet(1..n)
        BY <1>2, FS_Interval DEF Primaries
      <4> QED
        BY <4>1, FS_Subset, FS_CardinalityType
    <3>2. idx \in P
      BY <2>2, <1>2 DEF Primaries
    <3>3. Cardinality(P) > 1
      BY <2>2, <3>1 DEF RemoveSlotCheck, primarySlotCount
    <3>4. Cardinality({idx}) = 1
      BY FS_Singleton
    <3> HIDE DEF P
    <3>5. Cardinality(P) # 1
      BY <3>1, <3>3
    <3>6. P # {idx}
      BY <3>4, <3>5, Zenon
    <3> QED
      BY <3>2, <3>6
  <2> QED
    BY <2>1, <2>2
<1> HIDE DEF new
<1>4. k \in 1..n /\ slots[k].meta.type # "recovery"
  BY <1>2, <1>3 DEF Primaries
<1>5. Primaries(new) # {}
  <2> DEFINE j == IF k < idx THEN k ELSE k - 1
  <2>1. j \in 1..(n - 1) /\ new[j] = slots[k]
    BY <1>2, <1>3, <1>4
  <2> QED
    BY <2>1, <1>2, <1>4 DEF Primaries
<1>6. \A i \in Primaries(new) : policyForMethod(new[i].meta.type) = p
  <2> SUFFICES ASSUME NEW i \in Primaries(new)
               PROVE  policyForMethod(new[i].meta.type) = p
    OBVIOUS
  <2>1. i \in 1..(n - 1) /\ new[i].meta.type # "recovery"
    BY <1>2 DEF Primaries
  <2>2. PICK j \in 1..n : new[i] = slots[j]
    BY <2>1, <1>2
  <2> QED
    BY <2>1, <2>2, <1>1, <1>2 DEF Primaries
<1> QED
  BY <1>5, <1>6, EffectivePolicyIs DEF new

(* The first slot with an ID is a slot, and has that ID.                   *)
LEMMA IndexOfType ==
  ASSUME NEW slots \in Seq(SlotRecords), NEW id \in Nat
  PROVE  /\ IndexOf(slots, id) \in DOMAIN slots \cup {0}
         /\ IndexOf(slots, id) # 0 =>
              slots[IndexOf(slots, id)].meta.id = id
<1> DEFINE First(i) == /\ slots[i].meta.id = id
                       /\ \A j \in 1..(i - 1) : slots[j].meta.id # id
<1>1. CASE \E i \in DOMAIN slots : slots[i].meta.id = id
  <2> DEFINE T == {i \in DOMAIN slots : slots[i].meta.id = id}
             R == OpToRel(<, Nat)
  <2>1. T \subseteq Nat /\ T # {}
    BY <1>1
  <2>2. PICK i \in T : \A j \in T : <<j, i>> \notin R
    <3> HIDE DEF T, R
    <3>1. IsWellFoundedOn(R, Nat)
      BY NatLessThanWellFounded DEF R
    <3> QED
      BY <2>1, <3>1, WFMin
  <2>3. \A j \in T : ~(j < i)
    BY <2>1, <2>2 DEF OpToRel
  <2>4. First(i)
    BY <2>3
  <2> DEFINE k == CHOOSE j \in DOMAIN slots : First(j)
  <2>5. k \in DOMAIN slots /\ First(k)
    <3> HIDE DEF First
    <3> QED
      BY <2>4
  <2>6. IndexOf(slots, id) = k
    BY <1>1 DEF IndexOf
  <2> QED
    BY <2>5, <2>6
<1>2. CASE ~ \E i \in DOMAIN slots : slots[i].meta.id = id
  BY <1>2 DEF IndexOf
<1> QED
  BY <1>1, <1>2

-----------------------------------------------------------------------------
(* Type correctness *)

LEMMA NoneIsNothing == None \notin DataKeys
BY NoneAssumption

LEMMA EnrolledSlotType ==
  ASSUME TypeOK, NEW m \in Callers, EnrollSucceeds(m)
  PROVE  /\ wrapDEK(m, nextId, held) \in SlotRecords
         /\ wrapDEK(m, nextId, held).meta.type = m.type
<1>1. m \in Methods
  BY EnvelopeAssumption
<1>2. EnrollCheck(m) = "ok" /\ held \in DataKeys /\ nextId \in Nat
  BY DEF EnrollSucceeds, TypeOK
<1> QED
  BY <1>1, <1>2, WrapDEKType

(* A slot that was changed at rest is still a slot.                        *)
LEMMA DamagedType ==
  ASSUME NEW s \in SlotRecords
  PROVE  Damaged(s) \subseteq SlotRecords
<1>1. s.meta \in Metas /\ s.box \in Boxes
  BY DEF SlotRecords
<1>2. \A mt \in Metas : [s EXCEPT !.meta = mt] \in SlotRecords
  BY DEF SlotRecords
<1>3. \A b \in Boxes : [s EXCEPT !.box = b] \in SlotRecords
  BY DEF SlotRecords
<1>4. \A t \in MethodTypes : [s EXCEPT !.meta.type = t] \in SlotRecords
  <2>1. \A t \in MethodTypes : [s.meta EXCEPT !.type = t] \in Metas
    BY <1>1 DEF Metas
  <2> QED
    BY <1>2, <2>1
<1>5. [s EXCEPT !.meta.id = 0] \in SlotRecords
  <2>1. [s.meta EXCEPT !.id = 0] \in Metas
    BY <1>1 DEF Metas
  <2> QED
    BY <1>2, <2>1
<1>6. \A y \in {0, 3} : [s EXCEPT !.meta.yk = y] \in SlotRecords
  <2>1. \A y \in {0, 3} : [s.meta EXCEPT !.yk = y] \in Metas
    BY <1>1 DEF Metas
  <2> QED
    BY <1>2, <2>1
<1>7. \A k \in {"none", "ok2", "refused"} :
        [s EXCEPT !.meta.kdf = k] \in SlotRecords
  <2>1. \A k \in {"none", "ok2", "refused"} : [s.meta EXCEPT !.kdf = k] \in Metas
    BY <1>1 DEF Metas, KDFs
  <2> QED
    BY <1>2, <2>1
<1>8. [s EXCEPT !.meta.rest = "changed"] \in SlotRecords
  <2>1. [s.meta EXCEPT !.rest = "changed"] \in Metas
    BY <1>1 DEF Metas, Rests
  <2> QED
    BY <1>2, <2>1
<1>9. [s EXCEPT !.box.intact = FALSE] \in SlotRecords
  <2>1. [s.box EXCEPT !.intact = FALSE] \in Boxes
    BY <1>1 DEF Boxes
  <2> QED
    BY <1>3, <2>1
<1> QED
  BY <1>4, <1>5, <1>6, <1>7, <1>8, <1>9 DEF Damaged

(* A call that returns leaves no call in flight.                           *)
LEMMA ReturnType ==
  ASSUME NEW code \in Errors \cup Successes \cup {"none"}, Return(code)
  PROVE  /\ op' = NoOp /\ op'.name = "none"
         /\ ctxDone' \in BOOLEAN
         /\ ret' \in Errors \cup Successes \cup {"none"}
BY DEF Return, NoOp

(* A call in flight is one of NewEnvelope's or AddSlot's.                  *)
LEMMA InFlight ==
  ASSUME TypeOK
  PROVE  op = NoOp \/ (op \in CallsInFlight /\ op # NoOp)
BY DEF TypeOK, NoOp, CallsInFlight

(* The callback's calls change only what AddSlot finds when it goes on.    *)
LEMMA CallbackNotes ==
  ASSUME op \in CallsInFlight, NEW e \in Envelopes
  PROVE  /\ [op EXCEPT !.before = e] \in CallsInFlight
         /\ [op EXCEPT !.before = e].before = e
         /\ [op EXCEPT !.before = e].name = op.name
         /\ [op EXCEPT !.before = e].policy = op.policy
         /\ [op EXCEPT !.before = e].methods = op.methods
         /\ [op EXCEPT !.before = e].dek = op.dek
         /\ [op EXCEPT !.before = e].slots = op.slots
BY DEF CallsInFlight

LEMMA AnnouncingIs ==
  ASSUME TypeOK, Announcing
  PROVE  /\ op \in CallsInFlight
         /\ op.name = "AddSlot" /\ op.slots = <<>>
         /\ env \in Envelopes /\ env # None
         /\ env.slots \in Seq(SlotRecords)
         /\ Len(op.methods) = 1
BY InFlight DEF Announcing, TypeOK, NoOp, Envelopes

(* The slot that the callback of a touch adds.                             *)
LEMMA CallbackAdds ==
  ASSUME TypeOK, NEW m \in Callers, AddSlotInCallback(m)
  PROVE  /\ wrapDEK(m, nextId, held) \in SlotRecords
         /\ wrapDEK(m, nextId, held).meta.type = m.type
         /\ env' \in Envelopes
         /\ env'.slots = Append(env.slots, wrapDEK(m, nextId, held))
         /\ env'.hint = env.hint
         /\ op' \in CallsInFlight
         /\ op'.name = "AddSlot" /\ op'.slots = <<>> /\ op'.before = env'
         /\ op'.methods = op.methods /\ op'.dek = op.dek
         /\ held \in DataKeys
<1>1. /\ op \in CallsInFlight /\ op.name = "AddSlot" /\ op.slots = <<>>
      /\ env \in Envelopes /\ env.slots \in Seq(SlotRecords)
  BY AnnouncingIs DEF AddSlotInCallback
<1>2. m \in Methods /\ EnrollCheck(m) = "ok" /\ nextId \in Nat
  BY EnvelopeAssumption DEF AddSlotInCallback, TypeOK
<1>3. held \in DataKeys
  BY DEF AddSlotInCallback, AddSlotCheck, TypeOK
<1> DEFINE s == wrapDEK(m, nextId, held)
<1>4. s \in SlotRecords /\ s.meta.type = m.type
  BY <1>2, <1>3, WrapDEKType
<1>5. /\ env' = [env EXCEPT !.slots = Append(@, s)]
      /\ op' = [op EXCEPT !.before = env']
  BY DEF AddSlotInCallback
<1> HIDE DEF s
<1>6. Append(env.slots, s) \in Seq(SlotRecords)
  BY <1>1, <1>4
<1>7. /\ env' \in Envelopes /\ env'.slots = Append(env.slots, s)
      /\ env'.hint = env.hint
  BY <1>1, <1>5, <1>6 DEF Envelopes
<1>8. /\ op' \in CallsInFlight /\ op'.before = env'
      /\ op'.name = op.name /\ op'.methods = op.methods
      /\ op'.dek = op.dek /\ op'.slots = op.slots
  BY <1>1, <1>5, <1>7, CallbackNotes
<1> QED
  BY <1>1, <1>3, <1>4, <1>7, <1>8 DEF s

LEMMA TypeOKInit == Init => TypeOK
<1> SUFFICES ASSUME Init PROVE TypeOK
  OBVIOUS
<1>1. op = NoOp /\ op.name = "none"
  BY DEF Init, NoOp
<1>2. damage \in 0..MaxDamage /\ nextId \in Nat
  BY EnvelopeAssumption DEF Init
<1> QED
  BY <1>1, <1>2 DEF Init, TypeOK

LEMMA TypeOKNext == TypeOK /\ [Next]_vars => TypeOK'
<1> SUFFICES ASSUME TypeOK, [Next]_vars
             PROVE  TypeOK'
  OBVIOUS
<1>1. ASSUME NEW d \in DataKeys, GenerateDEK(d)
      PROVE  TypeOK'
  <2>1. op.name = "none"
    BY <1>1 DEF GenerateDEK, NoOp
  <2> QED
    BY <1>1, <2>1 DEF TypeOK, GenerateDEK, Successes
<1>2. CASE DestroyDEK
  BY <1>2 DEF TypeOK, DestroyDEK
<1>3. CASE Cancel
  BY <1>3 DEF TypeOK, Cancel
<1>4. ASSUME NEW p \in Policies \cup {PolicyInvalid}, NEW ms \in MethodLists,
             NewEnvelope(p, ms)
      PROVE  TypeOK'
  <2>1. CASE NewEnvelopeCheck(p, ms) = "ok"
    <3>1. op' = [name |-> "NewEnvelope", policy |-> p, methods |-> ms,
                 dek |-> held, slots |-> <<>>, before |-> env]
      BY <1>4, <2>1 DEF NewEnvelope
    <3>2. /\ ms \in Seq(Callers) /\ Len(ms) \in Nat /\ Len(<<>>) = 0
          /\ held \in DataKeys /\ env \in Envelopes \cup {None}
      BY <2>1, EnvelopeAssumption DEF NewEnvelopeCheck, TypeOK
    <3>3. op' \in CallsInFlight /\ op'.name = "NewEnvelope"
      BY <3>1, <3>2 DEF CallsInFlight
    <3>4. Len(op'.slots) <= Len(op'.methods)
      BY <3>1, <3>2
    <3> QED
      BY <1>4, <2>1, <3>3, <3>4 DEF TypeOK, NewEnvelope
  <2>2. CASE NewEnvelopeCheck(p, ms) # "ok"
    <3>1. NewEnvelopeCheck(p, ms) \in Errors
      BY <2>2 DEF NewEnvelopeCheck, Errors
    <3> QED
      BY <1>4, <2>2, <3>1, ReturnType DEF TypeOK, NewEnvelope
  <2> QED
    BY <2>1, <2>2
<1>5. CASE EnrollNext
  <2> DEFINE m == op.methods[Len(op.slots) + 1]
  <2>1. op \in CallsInFlight /\ op.name = "NewEnvelope"
    BY <1>5, InFlight DEF EnrollNext, NoOp
  <2>2. Len(op.slots) < Len(op.methods) /\ m \in Callers
    BY <1>5, <2>1 DEF EnrollNext, CallsInFlight
  <2> HIDE DEF m
  <2>3. CASE /\ EnrollSucceeds(m)
             /\ op' = [op EXCEPT !.slots = Append(@, wrapDEK(m, nextId, held))]
             /\ nextId' = nextId + 1
             /\ UNCHANGED <<ctxDone, ret>>
    <3> DEFINE s == wrapDEK(m, nextId, held)
    <3>1. s \in SlotRecords
      BY <2>2, <2>3, EnrolledSlotType
    <3> HIDE DEF s
    <3> DEFINE new == Append(op.slots, s)
    <3>2. op' = [op EXCEPT !.slots = new]
      BY <2>3 DEF s
    <3>3. new \in Seq(SlotRecords) /\ Len(new) = Len(op.slots) + 1
      BY <2>1, <3>1 DEF CallsInFlight
    <3> HIDE DEF new
    <3>4. /\ op' \in CallsInFlight
          /\ op'.name = "NewEnvelope"
          /\ op'.methods = op.methods
          /\ Len(op'.slots) = Len(op.slots) + 1
      BY <2>1, <3>2, <3>3 DEF CallsInFlight
    <3>5. Len(op'.slots) <= Len(op'.methods)
      BY <2>1, <2>2, <3>4 DEF CallsInFlight
    <3> QED
      BY <1>5, <2>3, <3>4, <3>5 DEF TypeOK, EnrollNext
  <2>4. CASE \E code \in Errors :
               EnrollError(m, code) /\ Return(code) /\ UNCHANGED nextId
    BY <1>5, <2>4, ReturnType DEF TypeOK, EnrollNext
  <2> QED
    BY <1>5, <2>3, <2>4 DEF EnrollNext, m
<1>6. CASE FinishNewEnvelope
  <2>1. op.policy \in Policies \cup {PolicyInvalid} /\ op.slots \in Seq(SlotRecords)
    <3>1. op # NoOp
      BY <1>6 DEF FinishNewEnvelope, NoOp
    <3> QED
      BY <3>1, InFlight DEF CallsInFlight
  <2>2. [hint |-> op.policy, slots |-> op.slots] \in Envelopes
    BY <2>1 DEF Envelopes
  <2>3. env' \in Envelopes \cup {None}
    BY <1>6, <2>2 DEF TypeOK, FinishNewEnvelope
  <2>4. PICK code \in Errors \cup Successes : Return(code)
    BY <1>6 DEF FinishNewEnvelope, Errors, Successes
  <2> QED
    BY <1>6, <2>3, <2>4, ReturnType DEF TypeOK, FinishNewEnvelope
<1>7. ASSUME NEW m \in Callers, AddSlot(m)
      PROVE  TypeOK'
  <2>1. CASE AddSlotCheck(m) = "ok"
    <3>1. op' = [NoOp EXCEPT !.name = "AddSlot", !.methods = <<m>>,
                             !.dek = held, !.before = env]
      BY <1>7, <2>1 DEF AddSlot
    <3>2. op' = [name |-> "AddSlot", policy |-> PolicyInvalid,
                 methods |-> <<m>>, dek |-> held, slots |-> <<>>,
                 before |-> env]
      BY <3>1 DEF NoOp
    <3>3. <<m>> \in Seq(Callers) /\ Len(<<m>>) = 1
      OBVIOUS
    <3>4. held \in DataKeys /\ env \in Envelopes \cup {None}
      BY <2>1 DEF AddSlotCheck, TypeOK
    <3>5. /\ op' \in CallsInFlight /\ op'.name = "AddSlot"
          /\ Len(op'.methods) = 1 /\ op'.slots = <<>>
      BY <3>2, <3>3, <3>4 DEF CallsInFlight
    <3> QED
      BY <1>7, <2>1, <3>5 DEF TypeOK, AddSlot
  <2>2. CASE AddSlotCheck(m) # "ok"
    <3>1. AddSlotCheck(m) \in Errors
      BY <2>2 DEF AddSlotCheck, Errors
    <3> QED
      BY <1>7, <2>2, <3>1, ReturnType DEF TypeOK, AddSlot
  <2> QED
    BY <2>1, <2>2
<1>8. CASE EnrollAdded
  <2> DEFINE m == op.methods[1]
  <2>1. env \in Envelopes /\ m \in Callers
    BY <1>8, InFlight DEF TypeOK, EnrollAdded, CallsInFlight, NoOp
  <2> HIDE DEF m
  <2>2. CASE /\ EnrollSucceeds(m)
             /\ env' = [env EXCEPT !.slots = Append(@, wrapDEK(m, nextId, held))]
             /\ nextId' = nextId + 1
             /\ Return("added")
    <3>1. wrapDEK(m, nextId, held) \in SlotRecords
      BY <2>1, <2>2, EnrolledSlotType
    <3>2. env' \in Envelopes
      <4>1. Append(env.slots, wrapDEK(m, nextId, held)) \in Seq(SlotRecords)
        BY <2>1, <3>1 DEF Envelopes
      <4>2. env' = [env EXCEPT
                      !.slots = Append(env.slots, wrapDEK(m, nextId, held))]
        BY <2>2
      <4> QED
        BY <2>1, <4>1, <4>2 DEF Envelopes
    <3> QED
      BY <1>8, <2>2, <3>2, ReturnType DEF TypeOK, EnrollAdded, Successes
  <2>3. CASE \E code \in Errors :
               EnrollError(m, code) /\ Return(code) /\ UNCHANGED <<env, nextId>>
    BY <1>8, <2>3, ReturnType DEF TypeOK, EnrollAdded
  <2> QED
    BY <1>8, <2>2, <2>3 DEF EnrollAdded, m
<1>9. ASSUME NEW id \in 0..MaxIds, RemoveSlot(id)
      PROVE  TypeOK'
  <2> DEFINE idx == IndexOf(env.slots, id)
  <2>1. env \in Envelopes /\ env.slots \in Seq(SlotRecords)
    BY <1>9 DEF TypeOK, RemoveSlot, Envelopes
  <2>a. ASSUME env' \in Envelopes
        PROVE  /\ op' \in {NoOp} \cup CallsInFlight
               /\ op'.name = "AddSlot" =>
                    env' # None /\ Len(op'.methods) = 1 /\ op'.slots = <<>>
               /\ op'.name = "NewEnvelope" => Len(op'.slots) <= Len(op'.methods)
    <3>1. CASE op = NoOp
      <4>1. op' = NoOp /\ op'.name = "none"
        BY <1>9, <3>1 DEF RemoveSlot, NoOp
      <4> QED
        BY <4>1
    <3>2. CASE op # NoOp
      <4>1. Announcing /\ op' = [op EXCEPT !.before = env']
        BY <1>9, <3>2 DEF RemoveSlot
      <4>2. /\ op \in CallsInFlight /\ op.name = "AddSlot" /\ op.slots = <<>>
            /\ Len(op.methods) = 1
        BY <4>1, AnnouncingIs
      <4>3. /\ op' \in CallsInFlight /\ op'.name = op.name
            /\ op'.slots = op.slots /\ op'.methods = op.methods
        BY <2>a, <4>1, <4>2, CallbackNotes
      <4> QED
        BY <2>a, <4>2, <4>3, NoEnvelopeAssumption
    <3> QED
      BY <3>1, <3>2
  <2>2. CASE RemoveSlotCheck(env.slots, idx) = "ok"
    <3>1. idx \in DOMAIN env.slots
      BY <2>1, <2>2, IndexOfType, EnvelopeAssumption DEF RemoveSlotCheck
    <3>2. Without(env.slots, idx) \in Seq(SlotRecords)
      BY <2>1, <3>1, WithoutType
    <3>3. env' \in Envelopes
      BY <1>9, <2>1, <2>2, <3>2 DEF RemoveSlot, Envelopes
    <3> QED
      BY <1>9, <2>2, <2>a, <3>3 DEF TypeOK, RemoveSlot, Successes
  <2>3. CASE RemoveSlotCheck(env.slots, idx) # "ok"
    <3>1. RemoveSlotCheck(env.slots, idx) \in Errors
      BY <2>3 DEF RemoveSlotCheck, Errors
    <3> QED
      BY <1>9, <2>1, <2>3, <2>a, <3>1 DEF TypeOK, RemoveSlot
  <2> QED
    BY <2>2, <2>3
<1>10. CASE Save
  <2>1. op.name = "none" /\ file' \in Envelopes \cup {None}
    BY <1>10 DEF TypeOK, Save, NoOp
  <2> QED
    BY <1>10, <2>1 DEF TypeOK, Save, Errors, Successes
<1>11. CASE Parse
  <2>1. op.name = "none" /\ env' \in Envelopes \cup {None}
    BY <1>11 DEF TypeOK, Parse, NoOp
  <2> QED
    BY <1>11, <2>1 DEF TypeOK, Parse, Errors, Successes
<1>12. ASSUME NEW ms \in MethodLists, Unlock(ms)
       PROVE  TypeOK'
  <2>1. op.name = "none" /\ env.slots \in Seq(SlotRecords)
    BY <1>12 DEF TypeOK, Unlock, UnlockReturns, NoOp, Envelopes
  <2>2. held' \in DataKeys \cup {None}
    <3>1. \A i \in DOMAIN env.slots : env.slots[i].box.dek \in DataKeys
      <4>1. \A i \in DOMAIN env.slots : env.slots[i] \in SlotRecords
        BY <2>1
      <4> QED
        BY <4>1 DEF SlotRecords, Boxes
    <3> QED
      BY <1>12, <3>1 DEF TypeOK, Unlock, UnlockReturns
  <2> QED
    BY <1>12, <2>1, <2>2 DEF TypeOK, Unlock, UnlockReturns, Errors, Successes
<1>13. CASE Crash
  BY <1>13, ReturnType DEF TypeOK, Crash
<1>14. CASE Damage
  <2>1. file \in Envelopes /\ damage' \in 0..MaxDamage
    BY <1>14, EnvelopeAssumption DEF TypeOK, Damage
  <2>2. ASSUME NEW i \in DOMAIN file.slots,
               NEW s \in Damaged(file.slots[i]),
               file' = [file EXCEPT !.slots[i] = s]
        PROVE  file' \in Envelopes
    <3>1. s \in SlotRecords
      BY <2>1, DamagedType DEF Envelopes
    <3> DEFINE new == [file.slots EXCEPT ![i] = s]
    <3>2. new \in Seq(SlotRecords)
      BY <2>1, <3>1 DEF Envelopes
    <3>3. file' = [file EXCEPT !.slots = new]
      BY <2>1, <2>2 DEF Envelopes
    <3> HIDE DEF new
    <3> QED
      BY <2>1, <3>2, <3>3 DEF Envelopes
  <2>3. ASSUME NEW p \in Policies \cup {PolicyInvalid},
               file' = [file EXCEPT !.hint = p]
        PROVE  file' \in Envelopes
    BY <2>1, <2>3 DEF Envelopes
  <2> QED
    BY <1>14, <2>1, <2>2, <2>3 DEF TypeOK, Damage
<1>15. CASE UNCHANGED vars
  BY <1>15 DEF TypeOK, vars
<1>16. ASSUME NEW m \in Callers, AddSlotInCallback(m)
       PROVE  TypeOK'
  <2>1. /\ env' \in Envelopes /\ op' \in CallsInFlight
        /\ op'.name = "AddSlot" /\ op'.slots = <<>> /\ op'.methods = op.methods
    BY <1>16, CallbackAdds
  <2>2. Len(op'.methods) = 1 /\ env' # None
    BY <1>16, <2>1, AnnouncingIs, NoEnvelopeAssumption DEF AddSlotInCallback
  <2> QED
    BY <1>16, <2>1, <2>2 DEF TypeOK, AddSlotInCallback, Successes
<1> QED
  BY <1>1, <1>2, <1>3, <1>4, <1>5, <1>6, <1>7, <1>8, <1>9, <1>10, <1>11,
     <1>12, <1>13, <1>14, <1>15, <1>16 DEF Next

(* Every variable keeps its type, whatever the methods, the data keys and  *)
(* the bounds: no slot ever wraps anything but a data key.                 *)
THEOREM TypeCorrect == Spec => []TypeOK
BY TypeOKInit, TypeOKNext, PTL DEF Spec

-----------------------------------------------------------------------------
(* Policies *)

(* A call in flight has published nothing, and its key is the caller's or  *)
(* destroyed.                                                              *)
NothingPublished ==
  op # NoOp => env = op.before /\ held \in {op.dek, None}

(* The inductive invariant: PolicyHolds, and that what the checks at the   *)
(* start of the call in flight established is still so when it ends.       *)
IInv == TypeOK /\ PolicyHolds /\ ChecksStillHold /\ NothingPublished

LEMMA IInvInit == Init => IInv
<1> SUFFICES ASSUME Init PROVE IInv
  OBVIOUS
<1>1. op.name = "none"
  BY DEF Init, NoOp
<1>2. PolicyHolds
  BY DEF Init, PolicyHolds, Known
<1> QED
  BY <1>1, <1>2, TypeOKInit DEF Init, IInv, ChecksStillHold, NothingPublished

(* A step that leaves the envelope and the file alone, or forgets the      *)
(* envelope, and changes nothing at rest.                                  *)
LEMMA PolicyHoldsUnlessWritten ==
  ASSUME PolicyHolds, Known' \subseteq Known, damage' = damage
  PROVE  PolicyHolds'
BY DEF PolicyHolds

LEMMA NoCallNoChecks ==
  ASSUME op'.name = "none"
  PROVE  ChecksStillHold'
BY DEF ChecksStillHold

LEMMA ReturnNoChecks ==
  ASSUME NEW code, Return(code)
  PROVE  ChecksStillHold'
BY DEF Return, NoOp, ChecksStillHold

(* What a call in flight started with: only DestroyDEK, the touch callback *)
(* and the end of the call come in between.                                *)
LEMMA NothingPublishedNext ==
  TypeOK /\ NothingPublished /\ [Next]_vars => NothingPublished'
<1> SUFFICES ASSUME TypeOK, NothingPublished, [Next]_vars
             PROVE  NothingPublished'
  OBVIOUS
<1>1. ASSUME op' = NoOp PROVE NothingPublished'
  BY <1>1 DEF NothingPublished
<1>2. ASSUME UNCHANGED <<env, op>>, held' \in {held, None}
      PROVE  NothingPublished'
  BY <1>2 DEF NothingPublished
<1>3. ASSUME NEW d \in DataKeys, GenerateDEK(d) PROVE NothingPublished'
  BY <1>1, <1>3 DEF GenerateDEK
<1>4. CASE DestroyDEK \/ Cancel \/ Save \/ Parse \/ Damage
  <2>1. op' = NoOp \/ (UNCHANGED <<env, op>> /\ held' \in {held, None})
    BY <1>4 DEF DestroyDEK, Cancel, Save, Parse, Damage
  <2> QED
    BY <1>1, <1>2, <2>1
<1>5. ASSUME NEW p, NEW ms, NewEnvelope(p, ms) PROVE NothingPublished'
  <2>1. CASE NewEnvelopeCheck(p, ms) = "ok"
    <3>1. op' = [name |-> "NewEnvelope", policy |-> p, methods |-> ms,
                 dek |-> held, slots |-> <<>>, before |-> env]
      BY <1>5, <2>1 DEF NewEnvelope
    <3>2. op'.dek = held /\ op'.before = env
      BY <3>1
    <3> QED
      BY <1>5, <3>2 DEF NewEnvelope, NothingPublished
  <2>2. CASE NewEnvelopeCheck(p, ms) # "ok"
    BY <1>1, <1>5, <2>2 DEF NewEnvelope, Return
  <2> QED
    BY <2>1, <2>2
<1>6. CASE EnrollNext
  <2>1. CASE op' = NoOp
    BY <1>1, <2>1
  <2>2. CASE op' # NoOp
    <3>1. PICK sl : op' = [op EXCEPT !.slots = sl]
      BY <1>6, <2>2 DEF EnrollNext, Return
    <3>2. op \in CallsInFlight /\ op # NoOp
      BY <1>6, InFlight DEF EnrollNext, NoOp
    <3>3. op'.dek = op.dek /\ op'.before = op.before
      BY <3>1, <3>2 DEF CallsInFlight
    <3> QED
      BY <1>6, <3>2, <3>3 DEF EnrollNext, NothingPublished
  <2> QED
    BY <2>1, <2>2
<1>7. CASE FinishNewEnvelope \/ EnrollAdded \/ Crash
  BY <1>1, <1>7 DEF FinishNewEnvelope, EnrollAdded, Crash, Return
<1>8. ASSUME NEW m, AddSlot(m) PROVE NothingPublished'
  <2>1. CASE AddSlotCheck(m) = "ok"
    <3>1. op' = [NoOp EXCEPT !.name = "AddSlot", !.methods = <<m>>,
                             !.dek = held, !.before = env]
      BY <1>8, <2>1 DEF AddSlot
    <3>2. op'.dek = held /\ op'.before = env
      BY <3>1 DEF NoOp
    <3> QED
      BY <1>8, <3>2 DEF AddSlot, NothingPublished
  <2>2. CASE AddSlotCheck(m) # "ok"
    BY <1>1, <1>8, <2>2 DEF AddSlot, Return
  <2> QED
    BY <2>1, <2>2
<1>9. ASSUME NEW m \in Callers, AddSlotInCallback(m) PROVE NothingPublished'
  <2>1. op'.before = env' /\ op'.dek = op.dek
    BY <1>9, CallbackAdds
  <2>2. op # NoOp /\ held' = held
    BY <1>9 DEF AddSlotInCallback, Announcing, NoOp
  <2> QED
    BY <2>1, <2>2 DEF NothingPublished
<1>10. ASSUME NEW id \in 0..MaxIds, RemoveSlot(id) PROVE NothingPublished'
  <2>1. CASE op = NoOp
    BY <1>1, <1>10, <2>1 DEF RemoveSlot
  <2>2. CASE op # NoOp
    <3>1. op' = [op EXCEPT !.before = env'] /\ held' = held
      BY <1>10, <2>2 DEF RemoveSlot
    <3>2. op \in CallsInFlight
      BY <2>2, InFlight
    <3>3. op'.before = env' /\ op'.dek = op.dek
      BY <3>1, <3>2 DEF CallsInFlight
    <3> QED
      BY <2>2, <3>1, <3>3 DEF NothingPublished
  <2> QED
    BY <2>1, <2>2
<1>11. ASSUME NEW ms, Unlock(ms) PROVE NothingPublished'
  BY <1>1, <1>11 DEF Unlock
<1>12. CASE UNCHANGED vars
  BY <1>2, <1>12 DEF vars
<1> QED
  BY <1>3, <1>4, <1>5, <1>6, <1>7, <1>8, <1>9, <1>10, <1>11, <1>12 DEF Next

(* Removing a slot keeps the policy that a call in flight counts on, also  *)
(* when the call's own touch callback removes it.                          *)
LEMMA RemoveKeepsChecks ==
  ASSUME TypeOK, ChecksStillHold, NEW id \in 0..MaxIds, RemoveSlot(id)
  PROVE  ChecksStillHold'
<1>1. CASE op = NoOp
  BY <1>1 DEF RemoveSlot, NoOp, ChecksStillHold
<1>2. CASE op # NoOp
  <2> DEFINE m == op.methods[1]
             idx == IndexOf(env.slots, id)
  <2>1. /\ op \in CallsInFlight /\ op.name = "AddSlot"
        /\ env \in Envelopes /\ env.slots \in Seq(SlotRecords)
        /\ Len(op.methods) = 1
    BY <1>2, AnnouncingIs DEF RemoveSlot
  <2>2. op' = [op EXCEPT !.before = env']
    BY <1>2 DEF RemoveSlot
  <2>3. op'.name = "AddSlot" /\ op'.methods = op.methods
    BY <2>1, <2>2 DEF CallsInFlight
  <2>4. m \in Methods
    BY <2>1, EnvelopeAssumption DEF CallsInFlight
  <2>5. m.type = "recovery" \/ policyForMethod(m.type) = EffectivePolicy(env.slots)
    BY <2>1 DEF ChecksStillHold
  <2> HIDE DEF m
  <2>6. CASE m.type = "recovery"
    BY <2>3, <2>6 DEF ChecksStillHold, m
  <2>7. CASE m.type # "recovery" /\ env' = env
    BY <2>3, <2>5, <2>7 DEF ChecksStillHold, m
  <2>8. CASE m.type # "recovery" /\ env' # env
    <3>1. policyForMethod(m.type) \in Policies
      BY <2>4, <2>8 DEF Methods, MethodTypes, policyForMethod, Policies
    <3>2. RemoveSlotCheck(env.slots, idx) = "ok" /\ idx \in DOMAIN env.slots
      BY <2>1, <2>8, IndexOfType, EnvelopeAssumption
      DEF RemoveSlot, RemoveSlotCheck
    <3>3. env'.slots = Without(env.slots, idx)
      BY <2>1, <3>2 DEF RemoveSlot, Envelopes
    <3> HIDE DEF idx
    <3>4. EffectivePolicy(Without(env.slots, idx)) = EffectivePolicy(env.slots)
      BY <2>1, <2>5, <2>8, <3>1, <3>2, WithoutKeepsPolicy
    <3>5. policyForMethod(m.type) = EffectivePolicy(env'.slots)
      BY <2>5, <2>8, <3>3, <3>4
    <3> QED
      BY <2>3, <3>5 DEF ChecksStillHold, m
  <2> QED
    BY <2>6, <2>7, <2>8
<1> QED
  BY <1>1, <1>2

(* So does a slot that the callback adds.                                  *)
LEMMA CallbackKeepsChecks ==
  ASSUME TypeOK, ChecksStillHold, NEW n \in Callers, AddSlotInCallback(n)
  PROVE  /\ ChecksStillHold'
         /\ n.type = "recovery"
              \/ policyForMethod(n.type) = EffectivePolicy(env.slots)
<1> DEFINE m == op.methods[1]
           s == wrapDEK(n, nextId, held)
<1>1. /\ op \in CallsInFlight /\ op.name = "AddSlot"
      /\ env.slots \in Seq(SlotRecords) /\ Len(op.methods) = 1
  BY AnnouncingIs DEF AddSlotInCallback
<1>2. /\ s \in SlotRecords /\ s.meta.type = n.type
      /\ env'.slots = Append(env.slots, s)
      /\ op'.name = "AddSlot" /\ op'.methods = op.methods
  BY CallbackAdds
<1>3. m \in Methods
  BY <1>1, EnvelopeAssumption DEF CallsInFlight
<1>4. m.type = "recovery" \/ policyForMethod(m.type) = EffectivePolicy(env.slots)
  BY <1>1 DEF ChecksStillHold
<1>5. n.type = "recovery" \/ policyForMethod(n.type) = EffectivePolicy(env.slots)
  BY DEF AddSlotInCallback, AddSlotCheck
<1> HIDE DEF m, s
<1>6. CASE m.type = "recovery"
  BY <1>2, <1>5, <1>6 DEF ChecksStillHold, m
<1>7. CASE m.type # "recovery"
  <2>1. policyForMethod(m.type) \in Policies
    BY <1>3, <1>7 DEF Methods, MethodTypes, policyForMethod, Policies
  <2>2. EffectivePolicy(Append(env.slots, s)) = EffectivePolicy(env.slots)
    BY <1>1, <1>2, <1>4, <1>5, <1>7, <2>1, AppendKeepsPolicy
  <2>3. policyForMethod(m.type) = EffectivePolicy(env'.slots)
    BY <1>2, <1>4, <1>7, <2>2
  <2> QED
    BY <1>2, <1>5, <2>3 DEF ChecksStillHold, m
<1> QED
  BY <1>6, <1>7

LEMMA IInvNext == IInv /\ [Next]_vars => IInv'
<1> SUFFICES ASSUME IInv, [Next]_vars
             PROVE  PolicyHolds' /\ ChecksStillHold'
  BY TypeOKNext, NothingPublishedNext DEF IInv
<1> USE DEF IInv
<1>1. ASSUME NEW d \in DataKeys, GenerateDEK(d)
      PROVE  PolicyHolds' /\ ChecksStillHold'
  <2>1. op'.name = "none" /\ Known' \subseteq Known /\ damage' = damage
    BY <1>1 DEF GenerateDEK, NoOp, Known
  <2> QED
    BY <2>1, PolicyHoldsUnlessWritten, NoCallNoChecks
<1>2. CASE DestroyDEK
  <2>1. UNCHANGED <<env, file, op, damage>>
    BY <1>2 DEF DestroyDEK
  <2> QED
    BY <2>1 DEF PolicyHolds, ChecksStillHold, Known
<1>3. CASE Cancel
  <2>1. UNCHANGED <<env, file, op, damage>>
    BY <1>3 DEF Cancel
  <2> QED
    BY <2>1 DEF PolicyHolds, ChecksStillHold, Known
<1>4. ASSUME NEW p \in Policies \cup {PolicyInvalid}, NEW ms \in MethodLists,
             NewEnvelope(p, ms)
      PROVE  PolicyHolds' /\ ChecksStillHold'
  <2>1. PolicyHolds'
    BY <1>4, PolicyHoldsUnlessWritten DEF NewEnvelope, Known
  <2>2. CASE NewEnvelopeCheck(p, ms) = "ok"
    <3>1. p \in Policies
      BY <2>2 DEF NewEnvelopeCheck
    <3>2. op' = [name |-> "NewEnvelope", policy |-> p, methods |-> ms,
                 dek |-> held, slots |-> <<>>, before |-> env]
      BY <1>4, <2>2 DEF NewEnvelope
    <3> QED
      BY <2>1, <3>1, <3>2 DEF ChecksStillHold
  <2>3. CASE NewEnvelopeCheck(p, ms) # "ok"
    BY <1>4, <2>1, <2>3, ReturnNoChecks DEF NewEnvelope
  <2> QED
    BY <2>2, <2>3
<1>5. CASE EnrollNext
  <2>1. PolicyHolds'
    BY <1>5, PolicyHoldsUnlessWritten DEF EnrollNext, Known
  <2>2. CASE \E code \in Errors : Return(code)
    BY <2>1, <2>2, ReturnNoChecks
  <2>3. CASE ~ \E code \in Errors : Return(code)
    <3>1. PICK sl : op' = [op EXCEPT !.slots = sl]
      BY <1>5, <2>3 DEF EnrollNext
    <3>2. op'.name = "NewEnvelope" /\ op'.policy = op.policy
      BY <1>5, <3>1, InFlight DEF EnrollNext, CallsInFlight, NoOp
    <3> QED
      BY <1>5, <2>1, <3>2 DEF EnrollNext, ChecksStillHold
  <2> QED
    BY <2>2, <2>3
<1>6. CASE FinishNewEnvelope
  <2>1. ChecksStillHold'
    BY <1>6, ReturnNoChecks DEF FinishNewEnvelope
  <2>2. CASE EffectivePolicy(op.slots) = op.policy
    <3>1. op.policy \in Policies
      BY <1>6 DEF FinishNewEnvelope, ChecksStillHold
    <3> DEFINE new == [hint |-> op.policy, slots |-> op.slots]
    <3>2. Known' \subseteq Known \cup {new} /\ damage' = damage
      BY <1>6, <2>2 DEF FinishNewEnvelope, Known
    <3>3. new.hint \in Policies /\ EffectivePolicy(new.slots) = new.hint
      BY <2>2, <3>1
    <3> QED
      BY <2>1, <3>2, <3>3 DEF PolicyHolds
  <2>3. CASE EffectivePolicy(op.slots) # op.policy
    BY <1>6, <2>1, <2>3, PolicyHoldsUnlessWritten DEF FinishNewEnvelope, Known
  <2> QED
    BY <2>2, <2>3
<1>7. ASSUME NEW m \in Callers, AddSlot(m)
      PROVE  PolicyHolds' /\ ChecksStillHold'
  <2>1. PolicyHolds'
    BY <1>7, PolicyHoldsUnlessWritten DEF AddSlot, Known
  <2>2. CASE AddSlotCheck(m) = "ok"
    <3>1. op'.name = "AddSlot" /\ op'.methods[1] = m /\ env' = env
      <4>1. op' = [name |-> "AddSlot", policy |-> PolicyInvalid,
                   methods |-> <<m>>, dek |-> held, slots |-> <<>>,
                   before |-> env]
        BY <1>7, <2>2 DEF AddSlot, NoOp
      <4> QED
        BY <1>7, <2>2, <4>1 DEF AddSlot
    <3>2. m.type = "recovery"
            \/ policyForMethod(m.type) = EffectivePolicy(env.slots)
      BY <2>2 DEF AddSlotCheck
    <3> QED
      BY <2>1, <3>1, <3>2 DEF ChecksStillHold
  <2>3. CASE AddSlotCheck(m) # "ok"
    BY <1>7, <2>1, <2>3, ReturnNoChecks DEF AddSlot
  <2> QED
    BY <2>2, <2>3
<1>8. CASE EnrollAdded
  <2> DEFINE m == op.methods[1]
             s == wrapDEK(m, nextId, held)
  <2>1. env \in Envelopes /\ m \in Callers
    BY <1>8, InFlight DEF TypeOK, EnrollAdded, CallsInFlight, NoOp
  <2>2. ChecksStillHold'
    BY <1>8, ReturnNoChecks DEF EnrollAdded
  <2>3. CASE EnrollSucceeds(m) /\ env' = [env EXCEPT !.slots = Append(@, s)]
    <3>1. s \in SlotRecords /\ s.meta.type = m.type
      BY <2>1, <2>3, EnrolledSlotType
    <3>2. s.meta.type = "recovery"
            \/ policyForMethod(s.meta.type) = EffectivePolicy(env.slots)
      BY <1>8, <3>1 DEF EnrollAdded, ChecksStillHold
    <3> HIDE DEF m, s
    <3>3. SUFFICES ASSUME damage = 0
                   PROVE  env'.hint \in Policies
                          /\ EffectivePolicy(env'.slots) = env'.hint
      BY <1>8, <2>2 DEF EnrollAdded, PolicyHolds, Known
    <3>4. env.hint \in Policies /\ EffectivePolicy(env.slots) = env.hint
      <4>1. env \in Known
        BY <1>8 DEF EnrollAdded, TypeOK, Known
      <4> QED
        BY <3>3, <4>1 DEF PolicyHolds
    <3>5. env.slots \in Seq(SlotRecords)
      BY <2>1 DEF Envelopes
    <3>6. EffectivePolicy(Append(env.slots, s)) = env.hint
      BY <3>1, <3>2, <3>4, <3>5, AppendKeepsPolicy
    <3>7. env'.hint = env.hint /\ env'.slots = Append(env.slots, s)
      BY <2>1, <2>3 DEF Envelopes
    <3> QED
      BY <3>4, <3>6, <3>7
  <2>4. CASE UNCHANGED env
    BY <1>8, <2>2, <2>4, PolicyHoldsUnlessWritten DEF EnrollAdded, Known
  <2> QED
    BY <1>8, <2>3, <2>4 DEF EnrollAdded
<1>9. ASSUME NEW id \in 0..MaxIds, RemoveSlot(id)
      PROVE  PolicyHolds' /\ ChecksStillHold'
  <2> DEFINE idx == IndexOf(env.slots, id)
  <2>1. /\ env \in Envelopes /\ env \in Known /\ env.slots \in Seq(SlotRecords)
        /\ ChecksStillHold'
    BY <1>9, RemoveKeepsChecks DEF TypeOK, RemoveSlot, Envelopes, Known
  <2>2. CASE RemoveSlotCheck(env.slots, idx) = "ok"
    <3>1. idx \in DOMAIN env.slots
      BY <2>1, <2>2, IndexOfType, EnvelopeAssumption DEF RemoveSlotCheck
    <3>2. env'.hint = env.hint /\ env'.slots = Without(env.slots, idx)
      BY <1>9, <2>1, <2>2 DEF RemoveSlot, Envelopes
    <3>3. SUFFICES ASSUME damage = 0
                   PROVE  env'.hint \in Policies
                          /\ EffectivePolicy(env'.slots) = env'.hint
      BY <1>9, <2>1 DEF RemoveSlot, PolicyHolds, Known
    <3>4. env.hint \in Policies /\ EffectivePolicy(env.slots) = env.hint
      BY <2>1, <3>3 DEF PolicyHolds
    <3> HIDE DEF idx
    <3>5. EffectivePolicy(Without(env.slots, idx)) = env.hint
      BY <2>1, <2>2, <3>1, <3>4, WithoutKeepsPolicy
    <3> QED
      BY <3>2, <3>4, <3>5
  <2>3. CASE RemoveSlotCheck(env.slots, idx) # "ok"
    BY <1>9, <2>1, <2>3, PolicyHoldsUnlessWritten DEF RemoveSlot, Known
  <2> QED
    BY <2>2, <2>3
<1>10. CASE Save
  <2>1. op'.name = "none" /\ Known' \subseteq Known /\ damage' = damage
    BY <1>10 DEF Save, NoOp, Known
  <2> QED
    BY <2>1, PolicyHoldsUnlessWritten, NoCallNoChecks
<1>11. CASE Parse
  <2>1. op'.name = "none" /\ Known' \subseteq Known /\ damage' = damage
    BY <1>11 DEF Parse, NoOp, Known
  <2> QED
    BY <2>1, PolicyHoldsUnlessWritten, NoCallNoChecks
<1>12. ASSUME NEW ms \in MethodLists, Unlock(ms)
       PROVE  PolicyHolds' /\ ChecksStillHold'
  <2>1. op'.name = "none" /\ Known' \subseteq Known /\ damage' = damage
    BY <1>12 DEF Unlock, UnlockReturns, NoOp, Known
  <2> QED
    BY <2>1, PolicyHoldsUnlessWritten, NoCallNoChecks
<1>13. CASE Crash
  <2>1. Known' \subseteq Known /\ damage' = damage
    BY <1>13 DEF Crash, Known
  <2> QED
    BY <1>13, <2>1, PolicyHoldsUnlessWritten, ReturnNoChecks DEF Crash
<1>14. CASE Damage
  <2>1. damage' # 0 /\ UNCHANGED <<env, op>>
    BY <1>14 DEF Damage, TypeOK
  <2> QED
    BY <2>1 DEF PolicyHolds, ChecksStillHold
<1>15. CASE UNCHANGED vars
  BY <1>15 DEF PolicyHolds, ChecksStillHold, Known, vars
<1>16. ASSUME NEW m \in Callers, AddSlotInCallback(m)
       PROVE  PolicyHolds' /\ ChecksStillHold'
  <2> DEFINE s == wrapDEK(m, nextId, held)
  <2>1. /\ s \in SlotRecords /\ s.meta.type = m.type
        /\ env'.slots = Append(env.slots, s) /\ env'.hint = env.hint
    BY <1>16, CallbackAdds
  <2>2. /\ ChecksStillHold'
        /\ m.type = "recovery"
             \/ policyForMethod(m.type) = EffectivePolicy(env.slots)
    BY <1>16, CallbackKeepsChecks
  <2> HIDE DEF s
  <2>3. SUFFICES ASSUME damage = 0
                 PROVE  env'.hint \in Policies
                        /\ EffectivePolicy(env'.slots) = env'.hint
    BY <1>16, <2>2 DEF AddSlotInCallback, PolicyHolds, Known
  <2>4. env \in Known /\ env.slots \in Seq(SlotRecords)
    BY <1>16, AnnouncingIs DEF AddSlotInCallback, Known
  <2>5. env.hint \in Policies /\ EffectivePolicy(env.slots) = env.hint
    BY <2>3, <2>4 DEF PolicyHolds
  <2>6. EffectivePolicy(Append(env.slots, s)) = env.hint
    BY <2>1, <2>2, <2>4, <2>5, AppendKeepsPolicy
  <2> QED
    BY <2>1, <2>5, <2>6
<1> QED
  BY <1>1, <1>2, <1>3, <1>4, <1>5, <1>6, <1>7, <1>8, <1>9, <1>10, <1>11,
     <1>12, <1>13, <1>14, <1>15, <1>16 DEF Next

LEMMA Invariant == Spec => []IInv
BY IInvInit, IInvNext, PTL DEF Spec

(* While the file is as written, every envelope in memory and on disk has  *)
(* a primary slot and exactly the policy NewEnvelope was asked for,        *)
(* whatever AddSlot and RemoveSlot did to it and however many slots,       *)
(* methods and keys there are.                                             *)
THEOREM PolicyIsKept == Spec => []PolicyHolds
BY Invariant, PTL DEF IInv

(* AddSlot's policy check still holds when its slot is appended, for any   *)
(* number of slots that the touch callback added to and removed from the   *)
(* same envelope in between, also on one whose file was changed at rest:   *)
(* the last primary slot stays, and no other policy gets in.               *)
THEOREM ChecksAreNotStale == Spec => []ChecksStillHold
BY Invariant, PTL DEF IInv

-----------------------------------------------------------------------------
(* Action properties *)

(* The steps that return "added" or "removed" having changed the envelope. *)
LEMMA EnvelopeGrowsOrShrinks ==
  ASSUME IInv, Next, ret' \in {"added", "removed"}, env # env'
  PROVE  \/ /\ EnrollAdded
            /\ ret' = "added"
         \/ \E m \in Callers : AddSlotInCallback(m)
         \/ \E id \in 0..MaxIds : RemoveSlot(id) /\ ret' = "removed"
<1>1. ~ \E d \in DataKeys : GenerateDEK(d)
  BY DEF GenerateDEK
<1>2. ~DestroyDEK /\ ~Cancel /\ ~EnrollNext /\ ~Damage
  BY DEF DestroyDEK, Cancel, EnrollNext, Damage
<1>3. ~ \E p \in Policies \cup {PolicyInvalid}, ms \in MethodLists :
          NewEnvelope(p, ms)
  BY DEF NewEnvelope
<1>4. ~FinishNewEnvelope /\ ~Crash
  BY DEF FinishNewEnvelope, Crash, Return
<1>5. ~ \E m \in Callers : AddSlot(m)
  BY DEF AddSlot
<1>6. ~Save /\ ~Parse
  BY DEF Save, Parse
<1>7. ~ \E ms \in MethodLists : Unlock(ms)
  BY DEF Unlock, UnlockReturns
<1>8. EnrollAdded => ret' = "added"
  BY DEF EnrollAdded, EnrollError, EnrollCheck, Return, Errors
<1>9. \A id \in 0..MaxIds : RemoveSlot(id) => ret' = "removed"
  BY DEF RemoveSlot
<1> QED
  BY <1>1, <1>2, <1>3, <1>4, <1>5, <1>6, <1>7, <1>8, <1>9 DEF Next

(* AddSlot and RemoveSlot keep the policy of an envelope that has one,     *)
(* also when its file was changed at rest before it was parsed: the new    *)
(* slot implies it, and the last primary slot is never removed.            *)
THEOREM PolicyIsStable == Spec => PolicyStable
<1> DEFINE Stable == ret' \in {"added", "removed"} /\ env # env'
                       /\ EffectivePolicy(env.slots) # PolicyInvalid
                     => EffectivePolicy(env'.slots) = EffectivePolicy(env.slots)
<1>1. IInv /\ [Next]_vars => [Stable]_vars
  <2> SUFFICES ASSUME IInv, Next, ret' \in {"added", "removed"}, env # env',
                      EffectivePolicy(env.slots) # PolicyInvalid
               PROVE  EffectivePolicy(env'.slots) = EffectivePolicy(env.slots)
    OBVIOUS
  <2> DEFINE p == EffectivePolicy(env.slots)
  <2>1. p \in Policies
    BY DEF EffectivePolicy
  <2>2. CASE EnrollAdded /\ ret' = "added"
    <3> DEFINE m == op.methods[1]
               s == wrapDEK(m, nextId, held)
    <3>1. env \in Envelopes /\ m \in Callers /\ env.slots \in Seq(SlotRecords)
      BY <2>2, InFlight
      DEF IInv, TypeOK, EnrollAdded, CallsInFlight, NoOp, Envelopes
    <3>2. EnrollSucceeds(m) /\ env' = [env EXCEPT !.slots = Append(@, s)]
      BY <2>2 DEF EnrollAdded
    <3>3. s \in SlotRecords /\ s.meta.type = m.type
      BY <3>1, <3>2, EnrolledSlotType DEF IInv
    <3>4. s.meta.type = "recovery" \/ policyForMethod(s.meta.type) = p
      BY <2>2, <3>3 DEF EnrollAdded, IInv, ChecksStillHold
    <3> HIDE DEF s
    <3>5. env'.slots = Append(env.slots, s)
      BY <3>1, <3>2 DEF Envelopes
    <3> QED
      BY <2>1, <3>1, <3>3, <3>4, <3>5, AppendKeepsPolicy
  <2>3. CASE \E id \in 0..MaxIds : RemoveSlot(id) /\ ret' = "removed"
    <3>1. PICK id \in 0..MaxIds : RemoveSlot(id) /\ ret' = "removed"
      BY <2>3
    <3> DEFINE idx == IndexOf(env.slots, id)
    <3>2. env \in Envelopes /\ env.slots \in Seq(SlotRecords)
      BY <3>1 DEF IInv, TypeOK, RemoveSlot, Envelopes
    <3>3. RemoveSlotCheck(env.slots, idx) = "ok" /\ idx \in DOMAIN env.slots
      BY <3>1, <3>2, IndexOfType, EnvelopeAssumption
      DEF RemoveSlot, RemoveSlotCheck
    <3>4. env'.slots = Without(env.slots, idx)
      BY <3>1, <3>2, <3>3 DEF RemoveSlot, Envelopes
    <3> HIDE DEF idx
    <3> QED
      BY <2>1, <3>2, <3>3, <3>4, WithoutKeepsPolicy
  <2>4. CASE \E m \in Callers : AddSlotInCallback(m)
    <3>1. PICK m \in Callers : AddSlotInCallback(m)
      BY <2>4
    <3> DEFINE s == wrapDEK(m, nextId, held)
    <3>2. /\ s \in SlotRecords /\ s.meta.type = m.type
          /\ env'.slots = Append(env.slots, s)
      BY <3>1, CallbackAdds DEF IInv
    <3>3. m.type = "recovery" \/ policyForMethod(m.type) = p
      BY <3>1, CallbackKeepsChecks DEF IInv
    <3>4. env.slots \in Seq(SlotRecords)
      BY <3>1, AnnouncingIs DEF IInv, AddSlotInCallback
    <3> HIDE DEF s
    <3> QED
      BY <2>1, <3>2, <3>3, <3>4, AppendKeepsPolicy
  <2> QED
    BY <2>2, <2>3, <2>4, EnvelopeGrowsOrShrinks
<1> QED
  BY <1>1, Invariant, PTL DEF Spec, PolicyStable

-----------------------------------------------------------------------------
(* The loop of EffectivePolicy *)

PolicyStates ==
  [derived : Policies \cup {PolicyInvalid}, seen : BOOLEAN, returned : BOOLEAN]

PolicyStart == [derived |-> PolicyInvalid, seen |-> FALSE, returned |-> FALSE]

(* The loop has one state before its first round and one after each.       *)
LEMMA PolicyRounds ==
  ASSUME NEW slots \in Seq(SlotRecords)
  PROVE  \E after \in [0..Len(slots) -> PolicyStates] :
           /\ after[0] = PolicyStart
           /\ \A n \in 1..Len(slots) :
                after[n] = PolicyRound(after[n - 1], slots[n])
           /\ EffectivePolicyLoop(slots) = after[Len(slots)].derived
<1> DEFINE N == Len(slots)
           A == PolicyStates
           Eq(f) == f = [n \in 0..N |->
                           IF n = 0 THEN PolicyStart
                           ELSE PolicyRound(f[n - 1], slots[n])]
           after == CHOOSE f : Eq(f)
           step == [p \in (1..N) \X A |-> PolicyRound(p[2], slots[p[1]])]
<1>1. N \in Nat /\ \A n \in 1..N : slots[n].meta.type \in MethodTypes
  <2>1. N \in Nat /\ \A n \in 1..N : slots[n] \in SlotRecords
    OBVIOUS
  <2> QED
    BY <2>1 DEF SlotRecords, Metas
<1>2. ASSUME NEW n \in 1..N, NEW acc \in A
      PROVE  PolicyRound(acc, slots[n]) \in A
  <2>1. \A t \in MethodTypes :
          policyForMethod(t) \in Policies \cup {PolicyInvalid}
    BY DEF MethodTypes, policyForMethod, Policies, PolicyInvalid
  <2> QED
    BY <1>1, <2>1 DEF PolicyRound, PolicyStates
<1>3. EffectivePolicyLoop(slots) = after[N].derived
  BY DEF EffectivePolicyLoop, PolicyStart
<1>4. step \in [(1..N) \X A -> A] /\ PolicyStart \in A
      /\ \A n \in 1..N, acc \in A :
           step[<<n, acc>>] = PolicyRound(acc, slots[n])
  <2>1. PolicyStart \in A
    BY DEF PolicyStart, PolicyStates
  <2> HIDE DEF A, N
  <2>2. \A p \in (1..N) \X A : PolicyRound(p[2], slots[p[1]]) \in A
    BY <1>2
  <2> QED
    BY <2>1, <2>2
<1> HIDE DEF step, A, N
<1>5. PICK f \in [0..N -> A] : Loops(f, N, PolicyStart, step)
  BY <1>1, <1>4, LoopExists
<1>6. Eq(f)
  <2>1. \A n \in 1..N : n - 1 \in 0..N
    BY <1>1
  <2>2. f[0] = PolicyStart /\ \A n \in 1..N : f[n] = step[<<n, f[n - 1]>>]
    BY <1>5 DEF Loops
  <2>3. \A n \in 1..N : f[n - 1] \in A
    BY <1>5, <2>1
  <2>4. \A n \in 1..N : f[n] = PolicyRound(f[n - 1], slots[n])
    BY <1>4, <2>2, <2>3
  <2>5. \A n \in 0..N : n # 0 => n \in 1..N
    BY <1>1
  <2>6. \A n \in 0..N : f[n] = IF n = 0 THEN PolicyStart
                               ELSE PolicyRound(f[n - 1], slots[n])
    BY <2>2, <2>4, <2>5
  <2>7. f = [n \in 0..N |-> f[n]]
    BY <1>5
  <2> QED
    BY <2>6, <2>7
<1>7. Eq(after)
  <2> HIDE DEF Eq
  <2> QED
    BY <1>6
<1> HIDE DEF after
<1>8. after[0] = PolicyStart
      /\ \A n \in 1..N : after[n] = PolicyRound(after[n - 1], slots[n])
  BY <1>1, <1>7
<1>9. after \in [0..N -> A]
  <2> DEFINE T == {n \in Nat : n <= N => after[n] \in A}
  <2>1. 0 \in T
    BY <1>4, <1>8
  <2>2. ASSUME NEW n \in T PROVE n + 1 \in T
    <3>1. CASE n + 1 <= N
      <4>1. n + 1 \in 1..N /\ (n + 1) - 1 = n /\ after[n] \in A
        BY <1>1, <3>1
      <4>2. after[n + 1] = PolicyRound(after[n], slots[n + 1])
        BY <1>8, <4>1
      <4> QED
        BY <1>2, <4>1, <4>2
    <3> QED
      BY <3>1
  <2>3. T = Nat
    <3>1. T \in SUBSET Nat /\ \A n \in T : n + 1 \in T
      BY <2>2
    <3> HIDE DEF T
    <3> QED
      BY <2>1, <3>1, Induction
  <2>4. \A n \in 0..N : after[n] \in A
    BY <1>1, <2>3
  <2>5. after = [n \in 0..N |-> after[n]]
    BY <1>7
  <2> HIDE DEF Eq
  <2> QED
    BY <2>4, <2>5
<1> HIDE DEF Eq
<1> QED
  BY <1>3, <1>8, <1>9 DEF N, A

(* The loop returns the policy all primary slots share, or none.           *)
LEMMA PolicyLoop ==
  ASSUME NEW slots \in Seq(SlotRecords)
  PROVE  EffectivePolicyLoop(slots) = EffectivePolicy(slots)
<1> DEFINE N == Len(slots)
           Of(i) == policyForMethod(slots[i].meta.type)
           First(n) == {i \in 1..n : slots[i].meta.type # "recovery"}
<1>1. PICK after \in [0..N -> PolicyStates] :
        /\ after[0] = PolicyStart
        /\ \A n \in 1..N : after[n] = PolicyRound(after[n - 1], slots[n])
        /\ EffectivePolicyLoop(slots) = after[N].derived
  BY PolicyRounds
<1>2. N \in Nat /\ DOMAIN slots = 1..N
      /\ \A i \in 1..N : slots[i].meta.type \in MethodTypes
  <2>1. /\ N \in Nat /\ DOMAIN slots = 1..N
        /\ \A i \in 1..N : slots[i] \in SlotRecords
    OBVIOUS
  <2> QED
    BY <2>1 DEF SlotRecords, Metas
<1>3. \A i \in 1..N : slots[i].meta.type # "recovery" => Of(i) \in Policies
  BY <1>2 DEF MethodTypes, policyForMethod, Policies
<1> HIDE DEF N, Of
<1> DEFINE Right(n, acc) ==
             /\ ~acc.seen => First(n) = {} /\ acc.derived = PolicyInvalid
                               /\ ~acc.returned
             /\ acc.seen /\ ~acc.returned =>
                  /\ acc.derived \in Policies
                  /\ First(n) # {} /\ \A i \in First(n) : Of(i) = acc.derived
             /\ acc.returned =>
                  /\ acc.derived = PolicyInvalid
                  /\ \E i, j \in First(n) : Of(i) # Of(j)
           T == {n \in Nat : n <= N => Right(n, after[n])}
<1>4. 0 \in T
  <2>1. First(0) = {}
    OBVIOUS
  <2> QED
    BY <1>1, <2>1 DEF PolicyStart
<1>5. ASSUME NEW n \in T PROVE n + 1 \in T
  <2>1. SUFFICES ASSUME n + 1 <= N PROVE Right(n + 1, after[n + 1])
    OBVIOUS
  <2> DEFINE s == slots[n + 1]
             acc == after[n]
             new == after[n + 1]
  <2>2. /\ n + 1 \in 1..N /\ n \in 0..N /\ n + 1 \in 0..N /\ (n + 1) - 1 = n
        /\ Right(n, acc)
    <3>1. n \in Nat /\ (n <= N => Right(n, acc))
      <4> HIDE DEF Right
      <4> QED
        OBVIOUS
    <3>2. n <= N /\ n + 1 \in 1..N /\ n \in 0..N /\ n + 1 \in 0..N
          /\ (n + 1) - 1 = n
      BY <1>2, <2>1, <3>1
    <3> HIDE DEF Right, acc
    <3> QED
      BY <3>1, <3>2
  <2>3. new = PolicyRound(acc, s) /\ acc \in PolicyStates
    BY <1>1, <2>2
  <2>4. First(n + 1) = IF s.meta.type = "recovery" THEN First(n)
                       ELSE First(n) \cup {n + 1}
    <3>1. \A i : i \in 1..(n + 1) <=> i \in 1..n \/ i = n + 1
      BY <2>2
    <3> QED
      BY <3>1
  <2>5. s.meta.type # "recovery" => Of(n + 1) \in Policies
    BY <1>3, <2>2
  <2>6. Of(n + 1) = policyForMethod(s.meta.type)
    BY DEF Of
  <2> HIDE DEF First, s, new, acc
  <2>7. CASE acc.returned \/ s.meta.type = "recovery"
    <3>1. new = acc
      BY <2>3, <2>7 DEF PolicyRound
    <3> QED
      BY <2>2, <2>4, <2>7, <3>1 DEF new
  <2>8. CASE ~acc.returned /\ s.meta.type # "recovery" /\ ~acc.seen
    <3>1. /\ new.derived = Of(n + 1) /\ new.seen /\ ~new.returned
      BY <2>3, <2>6, <2>8 DEF PolicyRound, PolicyStates
    <3>2. First(n + 1) = {n + 1}
      BY <2>2, <2>4, <2>8
    <3> QED
      BY <2>5, <2>8, <3>1, <3>2 DEF new
  <2>9. CASE ~acc.returned /\ s.meta.type # "recovery" /\ acc.seen
    <3>1. CASE Of(n + 1) # acc.derived
      <4>1. new.derived = PolicyInvalid /\ new.seen /\ new.returned
        BY <2>3, <2>6, <2>9, <3>1 DEF PolicyRound, PolicyStates
      <4> QED
        BY <2>2, <2>4, <2>9, <3>1, <4>1 DEF new
    <3>2. CASE Of(n + 1) = acc.derived
      <4>1. new = acc
        BY <2>3, <2>6, <2>9, <3>2 DEF PolicyRound
      <4> QED
        BY <2>2, <2>4, <2>9, <3>2, <4>1 DEF new
    <3> QED
      BY <3>1, <3>2
  <2> QED
    BY <2>7, <2>8, <2>9
<1>6. T = Nat
  <2>1. T \in SUBSET Nat /\ \A n \in T : n + 1 \in T
    BY <1>5
  <2> HIDE DEF T
  <2> QED
    BY <1>4, <2>1, Induction
<1>7. Right(N, after[N])
  <2>1. N \in T /\ N <= N
    BY <1>2, <1>6
  <2> QED
    BY <2>1
<1> DEFINE implied == {Of(i) : i \in First(N)}
<1>8. EffectivePolicy(slots) =
        IF \E p \in Policies : implied = {p}
        THEN CHOOSE p \in Policies : implied = {p}
        ELSE PolicyInvalid
  <2>1. First(N) = Primaries(slots)
    BY <1>2 DEF Primaries
  <2> HIDE DEF First
  <2> QED
    BY <2>1 DEF EffectivePolicy, Of
<1> DEFINE d == after[N].derived
<1> HIDE DEF First, T
<1>9. CASE after[N].seen /\ ~after[N].returned
  <2>1. d \in Policies /\ implied = {d}
    BY <1>7, <1>9
  <2> HIDE DEF implied, d
  <2>2. (CHOOSE p \in Policies : implied = {p}) = d
    BY <2>1
  <2> QED
    BY <1>1, <1>8, <2>1, <2>2 DEF d
<1>10. CASE ~(after[N].seen /\ ~after[N].returned)
  <2>1. d = PolicyInvalid /\ \A p : implied # {p}
    BY <1>7, <1>10
  <2> HIDE DEF implied
  <2> QED
    BY <1>1, <1>8, <2>1
<1> QED
  BY <1>9, <1>10

(* The slots of every envelope and of the call in flight are lists.   *)
LEMMA ListsType ==
  ASSUME TypeOK
  PROVE  /\ \A ss \in Lists : ss \in Seq(SlotRecords)
         /\ op.slots \in Seq(SlotRecords)
         /\ env # None => /\ env.slots \in Seq(SlotRecords)
                          /\ env.slots \in Lists
         /\ file # None => /\ file.slots \in Seq(SlotRecords)
                           /\ file.slots \in Lists
<1>1. op.slots \in Seq(SlotRecords)
  <2>1. CASE op = NoOp
    <3>1. op.slots = <<>>
      BY <2>1 DEF NoOp
    <3> QED
      BY <3>1
  <2> QED
    BY <2>1, InFlight DEF CallsInFlight
<1>2. \A e \in Known : e.slots \in Seq(SlotRecords)
  BY DEF TypeOK, Known, Envelopes
<1> QED
  BY <1>1, <1>2 DEF Lists, Known

(* PolicyLoopAgrees: on every list of slots the program reaches, damaged   *)
(* and half-enrolled ones included, the loop of EffectivePolicy with its   *)
(* early return on two policies that differ computes the one policy the    *)
(* primary slots share.                                                    *)
THEOREM PolicyLoopComputesPolicy == Spec => []PolicyLoopAgrees
<1>1. ASSUME TypeOK PROVE PolicyLoopAgrees
  BY <1>1, ListsType, PolicyLoop DEF PolicyLoopAgrees
<1> QED
  BY <1>1, TypeCorrect, PTL

-----------------------------------------------------------------------------
(* Lists of slots: an envelope's, and the one NewEnvelope is enrolling *)

(* The slot is what Enroll returned, for some caller's method.             *)
Enrolled(s) ==
  \E m \in Callers, id \in Nat, d \in DataKeys :
    EnrollCheck(m) = "ok" /\ s = wrapDEK(m, id, d)

Distinct(ss) ==
  \A i, j \in DOMAIN ss : ss[i].meta.id = ss[j].meta.id => i = j

(* Distinct slots as they were enrolled, all before the random ID n.       *)
Whole(ss, n) ==
  /\ Distinct(ss)
  /\ \A i \in DOMAIN ss : Enrolled(ss[i]) /\ ss[i].meta.id \in 1..(n - 1)

(* Every slot wraps the data key d.                                        *)
Keyed(ss, d) == \A i \in DOMAIN ss : ss[i].box.dek = d

OneKeyed(ss) == \A i, j \in DOMAIN ss : ss[i].box.dek = ss[j].box.dek

(* What Enroll returned has the ID it drew and wraps the key it was given, *)
(* and the box was sealed with the metadata beside it.                     *)
LEMMA WrapDEKIs ==
  ASSUME NEW m, NEW id, NEW d
  PROVE  /\ wrapDEK(m, id, d).meta = EnrolledMeta(m, id)
         /\ wrapDEK(m, id, d).meta.id = id
         /\ wrapDEK(m, id, d).meta.type = m.type
         /\ wrapDEK(m, id, d).box.dek = d
         /\ Unchanged(wrapDEK(m, id, d))
BY DEF wrapDEK, EnrolledMeta, seal, Unchanged

(* What an append to a list of slots looks like.                           *)
LEMMA AppendIs ==
  ASSUME NEW ss \in Seq(SlotRecords), NEW s \in SlotRecords
  PROVE  /\ Len(ss) \in Nat
         /\ DOMAIN ss = 1..Len(ss)
         /\ DOMAIN Append(ss, s) = 1..(Len(ss) + 1)
         /\ \A i \in 1..Len(ss) : Append(ss, s)[i] = ss[i]
         /\ Append(ss, s)[Len(ss) + 1] = s
OBVIOUS

LEMMA WithoutIs ==
  ASSUME NEW ss \in Seq(SlotRecords), NEW idx \in DOMAIN ss
  PROVE  /\ Len(ss) \in Nat
         /\ DOMAIN ss = 1..Len(ss)
         /\ idx \in 1..Len(ss)
         /\ DOMAIN Without(ss, idx) = 1..(Len(ss) - 1)
         /\ \A i \in 1..(Len(ss) - 1) :
              Without(ss, idx)[i] = IF i < idx THEN ss[i] ELSE ss[i + 1]
<1>1. Len(ss) \in Nat /\ DOMAIN ss = 1..Len(ss)
  OBVIOUS
<1> QED
  BY <1>1 DEF Without

LEMMA AppendKeepsWhole ==
  ASSUME NEW ss \in Seq(SlotRecords), NEW s \in SlotRecords,
         NEW n \in Nat \ {0}, Whole(ss, n), Enrolled(s), s.meta.id = n
  PROVE  Whole(Append(ss, s), n + 1)
<1> DEFINE new == Append(ss, s)
           l == Len(ss)
<1>1. /\ l \in Nat
      /\ DOMAIN ss = 1..l
      /\ DOMAIN new = 1..(l + 1)
      /\ \A i \in 1..l : new[i] = ss[i]
      /\ new[l + 1] = s
  BY AppendIs
<1> HIDE DEF new, l
<1>2. ASSUME NEW i \in DOMAIN new
      PROVE  Enrolled(new[i]) /\ new[i].meta.id \in 1..n
  <2>1. CASE i \in 1..l
    BY <1>1, <2>1 DEF Whole
  <2>2. CASE i = l + 1
    BY <1>1, <2>2
  <2> QED
    BY <1>1, <1>2, <2>1, <2>2
<1>3. ASSUME NEW i \in DOMAIN new, NEW j \in DOMAIN new,
             new[i].meta.id = new[j].meta.id
      PROVE  i = j
  <2>1. \A k \in 1..l : new[k].meta.id # n
    BY <1>1 DEF Whole
  <2>2. CASE i \in 1..l /\ j \in 1..l
    BY <1>1, <1>3, <2>2 DEF Whole, Distinct
  <2>3. CASE i = l + 1 \/ j = l + 1
    BY <1>1, <1>3, <2>1, <2>3
  <2> QED
    BY <1>1, <1>3, <2>2, <2>3
<1>4. (n + 1) - 1 = n
  OBVIOUS
<1> QED
  BY <1>2, <1>3, <1>4 DEF Whole, Distinct, new

LEMMA WithoutKeepsWhole ==
  ASSUME NEW ss \in Seq(SlotRecords), NEW idx \in DOMAIN ss,
         NEW n \in Nat, Whole(ss, n)
  PROVE  /\ Whole(Without(ss, idx), n)
         /\ \A i \in DOMAIN Without(ss, idx) :
              Without(ss, idx)[i].meta.id # ss[idx].meta.id
<1> DEFINE new == Without(ss, idx)
           l == Len(ss)
           old(i) == IF i < idx THEN i ELSE i + 1
<1>1. /\ l \in Nat
      /\ DOMAIN ss = 1..l
      /\ idx \in 1..l
      /\ DOMAIN new = 1..(l - 1)
      /\ \A i \in 1..(l - 1) : new[i] = IF i < idx THEN ss[i] ELSE ss[i + 1]
  BY WithoutIs
<1> HIDE DEF new, l
<1>2. \A i \in 1..(l - 1) :
        old(i) \in 1..l /\ old(i) # idx /\ new[i] = ss[old(i)]
  BY <1>1
<1>3. \A i, j \in 1..(l - 1) : old(i) = old(j) => i = j
  BY <1>1
<1> HIDE DEF old
<1>4. \A i, j \in 1..(l - 1) : new[i].meta.id = new[j].meta.id => i = j
  <2> SUFFICES ASSUME NEW i \in 1..(l - 1), NEW j \in 1..(l - 1),
                      new[i].meta.id = new[j].meta.id
               PROVE  i = j
    OBVIOUS
  <2>1. ss[old(i)].meta.id = ss[old(j)].meta.id
    BY <1>2
  <2>2. old(i) = old(j)
    BY <1>1, <1>2, <2>1 DEF Whole, Distinct
  <2> QED
    BY <1>3, <2>2
<1>5. \A i \in 1..(l - 1) : new[i].meta.id # ss[idx].meta.id
  BY <1>1, <1>2 DEF Whole, Distinct
<1>6. \A i \in 1..(l - 1) :
        Enrolled(new[i]) /\ new[i].meta.id \in 1..(n - 1)
  BY <1>1, <1>2 DEF Whole
<1> QED
  BY <1>1, <1>4, <1>5, <1>6 DEF Whole, Distinct, new

LEMMA AppendKeepsKeyed ==
  ASSUME NEW ss \in Seq(SlotRecords), NEW s \in SlotRecords,
         NEW d, Keyed(ss, d), s.box.dek = d
  PROVE  Keyed(Append(ss, s), d)
<1>1. /\ DOMAIN ss = 1..Len(ss) /\ Len(ss) \in Nat
      /\ DOMAIN Append(ss, s) = 1..(Len(ss) + 1)
      /\ \A i \in 1..Len(ss) : Append(ss, s)[i] = ss[i]
      /\ Append(ss, s)[Len(ss) + 1] = s
  BY AppendIs
<1> QED
  BY <1>1 DEF Keyed

LEMMA WithoutKeepsKeyed ==
  ASSUME NEW ss \in Seq(SlotRecords), NEW idx \in DOMAIN ss
  PROVE  /\ \A d : Keyed(ss, d) => Keyed(Without(ss, idx), d)
         /\ OneKeyed(ss) => OneKeyed(Without(ss, idx))
<1> DEFINE new == Without(ss, idx)
<1>1. \A i \in DOMAIN new : \E j \in DOMAIN ss : new[i] = ss[j]
  BY WithoutIs
<1> HIDE DEF new
<1> QED
  BY <1>1 DEF Keyed, OneKeyed, new

LEMMA KeyedIsOneKeyed ==
  ASSUME NEW ss, NEW d, Keyed(ss, d)
  PROVE  OneKeyed(ss)
BY DEF Keyed, OneKeyed

-----------------------------------------------------------------------------
(* The inductive invariant *)

(* Every list holds slots as they were enrolled, of distinct IDs.          *)
ListsWhole == damage = 0 => \A ss \in Lists : Whole(ss, nextId)

(* The slots NewEnvelope is enrolling have none of the IDs of the envelope *)
(* that it may replace and of the file.                                    *)
Apart ==
  damage = 0 =>
    \A e \in Known : \A i \in DOMAIN op.slots, j \in DOMAIN e.slots :
      op.slots[i].meta.id # e.slots[j].meta.id

(* What Marshal's check established still holds of the file.               *)
FileSafe == damage = 0 /\ file # None => Marshalable(file.slots)

(* A careful caller's lists have one data key each, and those it works on  *)
(* the one it holds.                                                       *)
OneKeyEach ==
  damage = 0 /\ ~MixKeys =>
    /\ \A ss \in Lists : OneKeyed(ss)
    /\ held # None => /\ Keyed(op.slots, held)
                      /\ env # None => Keyed(env.slots, held)

StoreInv ==
  IInv /\ nextId >= 1 /\ ListsWhole /\ Apart /\ FileSafe /\ OneKeyEach

(* The slot Enroll returns in the call in flight.                          *)
LEMMA EnrollReturns ==
  ASSUME StoreInv, NEW m \in Callers, EnrollSucceeds(m)
  PROVE  /\ wrapDEK(m, nextId, held) \in SlotRecords
         /\ Enrolled(wrapDEK(m, nextId, held))
         /\ wrapDEK(m, nextId, held).meta.id = nextId
         /\ wrapDEK(m, nextId, held).meta.type = m.type
         /\ wrapDEK(m, nextId, held).box.dek = held
         /\ nextId \in Nat \ {0}
         /\ held \in DataKeys
<1>1. wrapDEK(m, nextId, held) \in SlotRecords
  BY EnrolledSlotType DEF StoreInv, IInv
<1>2. /\ EnrollCheck(m) = "ok" /\ held \in DataKeys
      /\ nextId \in Nat /\ nextId >= 1
  BY DEF EnrollSucceeds, StoreInv, IInv, TypeOK
<1>3. Enrolled(wrapDEK(m, nextId, held))
  BY <1>2 DEF Enrolled
<1> QED
  BY <1>1, <1>2, <1>3, WrapDEKIs

(* A slot is added, at the end of AddSlot or in its touch callback.        *)
Added(m) ==
  LET s == wrapDEK(m, nextId, held)
  IN  /\ s \in SlotRecords /\ Enrolled(s)
      /\ s.meta.id = nextId /\ s.meta.type = m.type /\ s.box.dek = held
      /\ nextId \in Nat \ {0} /\ held \in DataKeys
      /\ env \in Envelopes /\ env # None /\ env.slots \in Seq(SlotRecords)
      /\ env' \in Envelopes /\ env'.hint = env.hint
      /\ env'.slots = Append(env.slots, s)
      /\ s.meta.type = "recovery"
           \/ policyForMethod(s.meta.type) = EffectivePolicy(env.slots)
      /\ op'.slots = <<>>
      /\ nextId' = nextId + 1
      /\ UNCHANGED <<file, held, damage>>

LEMMA CallAdds ==
  ASSUME StoreInv, EnrollAdded, ret' = "added"
  PROVE  /\ Added(op.methods[1])
         /\ op.methods[1] \in Callers
         /\ EnrollSucceeds(op.methods[1])
<1> DEFINE m == op.methods[1]
           s == wrapDEK(m, nextId, held)
<1>1. /\ env \in Envelopes /\ env # None /\ env.slots \in Seq(SlotRecords)
      /\ m \in Callers
  BY InFlight
  DEF StoreInv, IInv, TypeOK, EnrollAdded, CallsInFlight, NoOp, Envelopes
<1>2. /\ EnrollSucceeds(m)
      /\ env' = [env EXCEPT !.slots = Append(@, s)]
      /\ nextId' = nextId + 1
      /\ op' = NoOp
      /\ UNCHANGED <<file, held, damage>>
  BY DEF EnrollAdded, Return, Errors
<1>3. /\ s \in SlotRecords /\ Enrolled(s)
      /\ s.meta.id = nextId /\ s.meta.type = m.type /\ s.box.dek = held
      /\ nextId \in Nat \ {0} /\ held \in DataKeys
  BY <1>1, <1>2, EnrollReturns
<1>4. m.type = "recovery" \/ policyForMethod(m.type) = EffectivePolicy(env.slots)
  BY DEF EnrollAdded, StoreInv, IInv, ChecksStillHold
<1>5. op'.slots = <<>>
  BY <1>2 DEF NoOp
<1> HIDE DEF m, s
<1>6. Append(env.slots, s) \in Seq(SlotRecords)
  BY <1>1, <1>3
<1>7. /\ env' \in Envelopes /\ env'.hint = env.hint
      /\ env'.slots = Append(env.slots, s)
  BY <1>1, <1>2, <1>6 DEF Envelopes
<1> QED
  BY <1>1, <1>2, <1>3, <1>4, <1>5, <1>7 DEF Added, m, s

LEMMA CallbackAddsOne ==
  ASSUME StoreInv, NEW m \in Callers, AddSlotInCallback(m)
  PROVE  Added(m)
<1> DEFINE s == wrapDEK(m, nextId, held)
<1>1. /\ s \in SlotRecords /\ s.meta.type = m.type
      /\ env' \in Envelopes /\ env'.hint = env.hint
      /\ env'.slots = Append(env.slots, s)
      /\ op'.slots = <<>> /\ held \in DataKeys
  BY CallbackAdds DEF StoreInv, IInv
<1>2. env \in Envelopes /\ env # None /\ env.slots \in Seq(SlotRecords)
  BY AnnouncingIs DEF AddSlotInCallback, StoreInv, IInv
<1>3. /\ EnrollCheck(m) = "ok" /\ nextId' = nextId + 1
      /\ UNCHANGED <<file, held, damage>>
      /\ m.type = "recovery"
           \/ policyForMethod(m.type) = EffectivePolicy(env.slots)
  BY DEF AddSlotInCallback, AddSlotCheck
<1>4. nextId \in Nat \ {0}
  BY DEF StoreInv, IInv, TypeOK
<1>5. Enrolled(s) /\ s.meta.id = nextId /\ s.box.dek = held
  BY <1>1, <1>3, <1>4, WrapDEKIs DEF Enrolled
<1> HIDE DEF s
<1> QED
  BY <1>1, <1>2, <1>3, <1>4, <1>5 DEF Added, s

LEMMA AddedKeeps ==
  ASSUME StoreInv, NEW m \in Callers, Added(m)
  PROVE  nextId' >= 1 /\ ListsWhole' /\ Apart' /\ FileSafe' /\ OneKeyEach'
<1> DEFINE s == wrapDEK(m, nextId, held)
           new == Append(env.slots, s)
<1>1. /\ s \in SlotRecords /\ Enrolled(s) /\ s.meta.id = nextId
      /\ s.box.dek = held /\ nextId \in Nat \ {0} /\ held \in DataKeys
      /\ env # None /\ env \in Known
      /\ env.slots \in Seq(SlotRecords) /\ env.slots \in Lists
      /\ env'.slots = new /\ op'.slots = <<>> /\ nextId' = nextId + 1
      /\ UNCHANGED <<file, held, damage>>
  BY DEF Added, Known, Lists
<1> HIDE DEF s
<1>2. Lists' \subseteq Lists \cup {new, <<>>}
  BY <1>1 DEF Lists, Known
<1>3. CASE damage # 0
  BY <1>1, <1>3 DEF ListsWhole, Apart, FileSafe, OneKeyEach
<1>4. CASE damage = 0
  <2>1. ListsWhole'
    <3>1. \A ss \in Lists : Whole(ss, nextId)
      BY <1>4 DEF StoreInv, ListsWhole
    <3>2. Whole(new, nextId + 1)
      BY <1>1, <3>1, AppendKeepsWhole
    <3>3. \A ss \in Lists \cup {<<>>} : Whole(ss, nextId + 1)
      BY <3>1, <1>1 DEF Whole, Distinct
    <3> QED
      BY <1>1, <1>2, <3>2, <3>3 DEF ListsWhole
  <2>2. Apart'
    BY <1>1 DEF Apart
  <2>3. FileSafe'
    BY <1>1 DEF StoreInv, FileSafe
  <2>4. OneKeyEach'
    <3> SUFFICES ASSUME ~MixKeys
                 PROVE  /\ \A ss \in Lists' : OneKeyed(ss)
                        /\ Keyed(op'.slots, held)
                        /\ Keyed(env'.slots, held)
      BY <1>1 DEF OneKeyEach
    <3>1. held # None
      BY <1>1, NoneIsNothing
    <3>2. /\ \A ss \in Lists : OneKeyed(ss)
          /\ Keyed(env.slots, held)
      BY <1>1, <1>4, <3>1 DEF StoreInv, OneKeyEach
    <3>3. Keyed(new, held)
      BY <1>1, <3>2, AppendKeepsKeyed
    <3>4. OneKeyed(new)
      BY <3>3, KeyedIsOneKeyed
    <3>5. Keyed(<<>>, held) /\ OneKeyed(<<>>)
      BY DEF Keyed, OneKeyed
    <3> HIDE DEF new
    <3> QED
      BY <1>1, <1>2, <3>2, <3>3, <3>4, <3>5
  <2>5. nextId' >= 1
    BY <1>1
  <2> QED
    BY <2>1, <2>2, <2>3, <2>4, <2>5
<1> QED
  BY <1>3, <1>4

(* Steps that write no list: envelopes are forgotten or take each other's  *)
(* place, a call begins without slots or ends.                             *)
NoNewList ==
  /\ Known' \subseteq Known
  /\ op'.slots \in {op.slots, <<>>}
  /\ nextId' = nextId
  /\ damage' = damage

LEMMA NoNewListKeeps ==
  ASSUME StoreInv, NoNewList
  PROVE  /\ nextId' >= 1
         /\ ListsWhole'
         /\ Apart'
         /\ damage' = 0 /\ ~MixKeys => \A ss \in Lists' : OneKeyed(ss)
<1>1. Whole(<<>>, nextId) /\ OneKeyed(<<>>)
  BY DEF Whole, Distinct, OneKeyed
<1>2. Lists' \subseteq Lists \cup {<<>>}
  BY DEF NoNewList, Lists
<1>3. nextId' >= 1 /\ ListsWhole'
  BY <1>1, <1>2 DEF StoreInv, NoNewList, ListsWhole
<1>4. Apart'
  BY DEF StoreInv, NoNewList, Apart
<1>5. damage' = 0 /\ ~MixKeys => \A ss \in Lists' : OneKeyed(ss)
  BY <1>1, <1>2 DEF StoreInv, NoNewList, OneKeyEach
<1> QED
  BY <1>3, <1>4, <1>5

(* What such a step needs for the rest of the invariant.                   *)
LEMMA NoNewListNext ==
  ASSUME StoreInv, NoNewList,
         file' = file,
         held' # None => /\ held' = held
                         /\ env' \in {env, None}
  PROVE  nextId' >= 1 /\ ListsWhole' /\ Apart' /\ FileSafe' /\ OneKeyEach'
<1>1. FileSafe'
  BY DEF StoreInv, NoNewList, FileSafe
<1>2. Keyed(<<>>, held)
  BY DEF Keyed
<1>3. damage' = 0 /\ ~MixKeys /\ held' # None =>
        /\ Keyed(op'.slots, held')
        /\ env' # None => Keyed(env'.slots, held')
  BY <1>2 DEF StoreInv, NoNewList, OneKeyEach
<1> QED
  BY <1>1, <1>3, NoNewListKeeps DEF OneKeyEach

LEMMA StoreInvInit == Init => StoreInv
<1> SUFFICES ASSUME Init PROVE StoreInv
  OBVIOUS
<1>1. Known = {} /\ op.slots = <<>> /\ Lists = {<<>>} /\ nextId = 1
  BY DEF Init, NoOp, Known, Lists
<1>2. ListsWhole /\ OneKeyEach
  BY <1>1 DEF Init, ListsWhole, Whole, Distinct, OneKeyEach, OneKeyed
<1>3. Apart /\ FileSafe
  BY <1>1 DEF Init, Apart, FileSafe
<1> QED
  BY <1>1, <1>2, <1>3, IInvInit DEF StoreInv

LEMMA StoreInvNext == StoreInv /\ [Next]_vars => StoreInv'
<1> DEFINE Rest == nextId >= 1 /\ ListsWhole /\ Apart /\ FileSafe /\ OneKeyEach
<1> SUFFICES ASSUME StoreInv, [Next]_vars
             PROVE  Rest'
  BY IInvNext DEF StoreInv
<1>0. TypeOK
  BY DEF StoreInv, IInv
<1>1. ASSUME NEW d \in DataKeys, GenerateDEK(d)
      PROVE  Rest'
  <2>1. /\ NoNewList /\ file' = file /\ op'.slots = <<>>
        /\ MixKeys \/ env' = None
    BY <1>1 DEF GenerateDEK, NoNewList, NoOp, Known
  <2>2. FileSafe'
    BY <2>1 DEF NoNewList, StoreInv, FileSafe
  <2>3. Keyed(<<>>, held')
    BY DEF Keyed
  <2> QED
    BY <2>1, <2>2, <2>3, NoNewListKeeps DEF OneKeyEach
<1>2. CASE DestroyDEK
  <2>1. NoNewList /\ file' = file /\ held' = None
    BY <1>2 DEF DestroyDEK, NoNewList, Known
  <2> QED
    BY <2>1, NoNewListNext
<1>3. CASE Cancel
  <2>1. NoNewList /\ file' = file /\ held' = held /\ env' = env
    BY <1>3 DEF Cancel, NoNewList, Known
  <2> QED
    BY <2>1, NoNewListNext
<1>4. ASSUME NEW p \in Policies \cup {PolicyInvalid}, NEW ms \in MethodLists,
             NewEnvelope(p, ms)
      PROVE  Rest'
  <2>1. NoNewList /\ file' = file /\ held' = held /\ env' = env
    BY <1>4 DEF NewEnvelope, NoNewList, Return, NoOp, Known
  <2> QED
    BY <2>1, NoNewListNext
<1>5. CASE EnrollNext
  <2> DEFINE m == op.methods[Len(op.slots) + 1]
             s == wrapDEK(m, nextId, held)
  <2>1. /\ op \in CallsInFlight
        /\ op.slots \in Seq(SlotRecords) /\ op.slots \in Lists
    BY <1>0, <1>5, InFlight DEF EnrollNext, CallsInFlight, NoOp, Lists
  <2>2. m \in Callers
    BY <1>5, <2>1 DEF EnrollNext, CallsInFlight
  <2>3. UNCHANGED <<env, file, held, damage>> /\ Known' = Known
    BY <1>5 DEF EnrollNext, Known
  <2>4. CASE \E code \in Errors :
               EnrollError(m, code) /\ Return(code) /\ UNCHANGED nextId
    <3>1. NoNewList
      BY <2>3, <2>4 DEF NoNewList, Return, NoOp
    <3> QED
      BY <2>3, <3>1, NoNewListNext
  <2>5. CASE /\ EnrollSucceeds(m)
             /\ op' = [op EXCEPT !.slots = Append(@, s)]
             /\ nextId' = nextId + 1
    <3>1. /\ s \in SlotRecords /\ Enrolled(s) /\ s.meta.id = nextId
          /\ s.box.dek = held /\ nextId \in Nat \ {0} /\ held \in DataKeys
      BY <2>2, <2>5, EnrollReturns
    <3> HIDE DEF m, s
    <3> DEFINE new == Append(op.slots, s)
    <3>2. op'.slots = new
      BY <2>1, <2>5 DEF CallsInFlight
    <3>3. Lists' \subseteq Lists \cup {new}
      BY <2>3, <3>2 DEF Lists
    <3>4. CASE damage # 0
      BY <2>3, <2>5, <3>1, <3>4 DEF ListsWhole, Apart, FileSafe, OneKeyEach
    <3>5. CASE damage = 0
      <4>1. ListsWhole'
        <5>1. \A ss \in Lists : Whole(ss, nextId)
          BY <3>5 DEF StoreInv, ListsWhole
        <5>2. Whole(new, nextId + 1)
          BY <2>1, <3>1, <5>1, AppendKeepsWhole
        <5>3. \A ss \in Lists : Whole(ss, nextId + 1)
          BY <5>1, <3>1 DEF Whole
        <5> QED
          BY <2>5, <3>3, <5>2, <5>3 DEF ListsWhole
      <4>2. Apart'
        <5>1. /\ DOMAIN op.slots = 1..Len(op.slots) /\ Len(op.slots) \in Nat
              /\ DOMAIN new = 1..(Len(op.slots) + 1)
              /\ \A i \in 1..Len(op.slots) : new[i] = op.slots[i]
              /\ new[Len(op.slots) + 1] = s
          BY <2>1, <3>1, AppendIs
        <5> HIDE DEF new
        <5>2. \A e \in Known : \A j \in DOMAIN e.slots :
                e.slots[j].meta.id # nextId
          BY <3>1, <3>5 DEF StoreInv, ListsWhole, Whole, Lists
        <5>3. \A e \in Known : \A i \in DOMAIN op.slots, j \in DOMAIN e.slots :
                op.slots[i].meta.id # e.slots[j].meta.id
          BY <3>5 DEF StoreInv, Apart
        <5>4. \A e \in Known : \A i \in DOMAIN new, j \in DOMAIN e.slots :
                new[i].meta.id # e.slots[j].meta.id
          <6> SUFFICES ASSUME NEW e \in Known,
                              NEW i \in DOMAIN new, NEW j \in DOMAIN e.slots
                       PROVE  new[i].meta.id # e.slots[j].meta.id
            OBVIOUS
          <6>1. CASE i \in 1..Len(op.slots)
            BY <5>1, <5>3, <6>1
          <6>2. CASE i = Len(op.slots) + 1
            BY <3>1, <5>1, <5>2, <6>2
          <6> QED
            BY <5>1, <6>1, <6>2
        <5> QED
          BY <2>3, <3>2, <5>4 DEF Apart
      <4>3. FileSafe'
        BY <2>3 DEF StoreInv, FileSafe
      <4>4. OneKeyEach'
        <5> SUFFICES ASSUME ~MixKeys
                     PROVE  /\ \A ss \in Lists' : OneKeyed(ss)
                            /\ Keyed(op'.slots, held)
                            /\ env # None => Keyed(env.slots, held)
          BY <2>3 DEF OneKeyEach
        <5>1. held # None
          BY <3>1, NoneIsNothing
        <5>2. /\ \A ss \in Lists : OneKeyed(ss)
              /\ Keyed(op.slots, held)
              /\ env # None => Keyed(env.slots, held)
          BY <3>5, <5>1 DEF StoreInv, OneKeyEach
        <5>3. Keyed(new, held)
          BY <2>1, <3>1, <5>2, AppendKeepsKeyed
        <5>4. OneKeyed(new)
          BY <5>3, KeyedIsOneKeyed
        <5> QED
          BY <3>2, <3>3, <5>2, <5>3, <5>4
      <4>5. nextId' >= 1
        BY <2>5, <3>1
      <4> QED
        BY <4>1, <4>2, <4>3, <4>4, <4>5
    <3> QED
      BY <3>4, <3>5
  <2> QED
    BY <1>5, <2>4, <2>5 DEF EnrollNext
<1>6. CASE FinishNewEnvelope
  <2>1. UNCHANGED <<file, held, nextId, damage>> /\ op' = NoOp
    BY <1>6 DEF FinishNewEnvelope, Return
  <2>2. CASE UNCHANGED env
    <3>1. NoNewList
      BY <2>1, <2>2 DEF NoNewList, NoOp, Known
    <3> QED
      BY <2>1, <2>2, <3>1, NoNewListNext
  <2>3. CASE env' = [hint |-> op.policy, slots |-> op.slots]
    <3>1. Lists' \subseteq Lists \cup {<<>>}
      BY <2>1, <2>3 DEF Lists, Known, NoOp
    <3>2. Whole(<<>>, nextId) /\ OneKeyed(<<>>) /\ Keyed(<<>>, held)
      BY DEF Whole, Distinct, OneKeyed, Keyed
    <3>3. op'.slots = <<>> /\ env'.slots = op.slots
      BY <2>1, <2>3 DEF NoOp
    <3>4. ListsWhole' /\ nextId' >= 1
      BY <2>1, <3>1, <3>2 DEF StoreInv, ListsWhole
    <3>5. Apart' /\ FileSafe'
      BY <2>1, <3>3 DEF StoreInv, Apart, FileSafe
    <3>6. OneKeyEach'
      BY <2>1, <3>1, <3>2, <3>3 DEF StoreInv, OneKeyEach
    <3> QED
      BY <3>4, <3>5, <3>6
  <2> QED
    BY <1>6, <2>2, <2>3 DEF FinishNewEnvelope
<1>7. ASSUME NEW m \in Callers, AddSlot(m)
      PROVE  Rest'
  <2>1. NoNewList /\ file' = file /\ held' = held /\ env' = env
    BY <1>7 DEF AddSlot, NoNewList, Return, NoOp, Known
  <2> QED
    BY <2>1, NoNewListNext
<1>8. CASE EnrollAdded
  <2>1. UNCHANGED <<file, held, damage>> /\ op' = NoOp
    BY <1>8 DEF EnrollAdded, Return
  <2>2. CASE UNCHANGED <<env, nextId>>
    <3>1. NoNewList
      BY <2>1, <2>2 DEF NoNewList, NoOp, Known
    <3> QED
      BY <2>1, <2>2, <3>1, NoNewListNext
  <2>3. CASE ret' = "added"
    BY <1>8, <2>3, CallAdds, AddedKeeps
  <2> QED
    BY <1>8, <2>2, <2>3 DEF EnrollAdded, Return
<1>9. ASSUME NEW id \in 0..MaxIds, RemoveSlot(id)
      PROVE  Rest'
  <2> DEFINE idx == IndexOf(env.slots, id)
  <2>1. /\ env \in Envelopes /\ env # None /\ env \in Known
        /\ env.slots \in Seq(SlotRecords) /\ env.slots \in Lists
        /\ UNCHANGED <<file, held, nextId, damage>>
    BY <1>0, <1>9 DEF TypeOK, RemoveSlot, Envelopes, Known, Lists
  <2>a. op.slots = <<>> /\ op'.slots = <<>>
    <3>1. CASE op = NoOp
      BY <1>9, <3>1 DEF RemoveSlot, NoOp
    <3>2. CASE op # NoOp
      <4>1. Announcing /\ op' = [op EXCEPT !.before = env']
        BY <1>9, <3>2 DEF RemoveSlot
      <4>2. op \in CallsInFlight /\ op.slots = <<>>
        BY <1>0, <4>1, AnnouncingIs
      <4> QED
        BY <4>1, <4>2 DEF CallsInFlight
    <3> QED
      BY <3>1, <3>2
  <2>2. CASE RemoveSlotCheck(env.slots, idx) # "ok"
    <3>1. NoNewList /\ env' = env
      BY <1>9, <2>1, <2>2, <2>a DEF RemoveSlot, NoNewList, Known
    <3> QED
      BY <2>1, <3>1, NoNewListNext
  <2>3. CASE RemoveSlotCheck(env.slots, idx) = "ok"
    <3>1. idx \in DOMAIN env.slots
      BY <2>1, <2>3, IndexOfType, EnvelopeAssumption DEF RemoveSlotCheck
    <3> DEFINE new == Without(env.slots, idx)
    <3>2. env'.slots = new
      BY <1>9, <2>1, <2>3 DEF RemoveSlot, Envelopes
    <3>3. Lists' \subseteq Lists \cup {new}
      BY <2>1, <2>a, <3>2 DEF Lists, Known
    <3> HIDE DEF idx
    <3>4. CASE damage # 0
      BY <2>1, <3>4 DEF StoreInv, ListsWhole, Apart, FileSafe, OneKeyEach
    <3>5. CASE damage = 0
      <4>1. ListsWhole'
        <5>1. \A ss \in Lists : Whole(ss, nextId)
          BY <3>5 DEF StoreInv, ListsWhole
        <5>2. Whole(new, nextId)
          <6>1. nextId \in Nat
            BY <1>0 DEF TypeOK
          <6> QED
            BY <2>1, <3>1, <5>1, <6>1, WithoutKeepsWhole
        <5> QED
          BY <2>1, <3>3, <5>1, <5>2 DEF ListsWhole
      <4>2. Apart'
        BY <2>1, <2>a DEF Apart
      <4>3. FileSafe'
        BY <2>1 DEF StoreInv, FileSafe
      <4>4. OneKeyEach'
        <5>1. \A d : Keyed(env.slots, d) => Keyed(new, d)
          BY <2>1, <3>1, WithoutKeepsKeyed
        <5>2. OneKeyed(env.slots) => OneKeyed(new)
          BY <2>1, <3>1, WithoutKeepsKeyed
        <5> HIDE DEF new
        <5> QED
          BY <2>1, <2>a, <3>2, <3>3, <3>5, <5>1, <5>2 DEF StoreInv, OneKeyEach
      <4> QED
        BY <2>1, <4>1, <4>2, <4>3, <4>4 DEF StoreInv
    <3> QED
      BY <3>4, <3>5
  <2> QED
    BY <2>2, <2>3
<1>10. CASE Save
  <2>1. NoNewList /\ UNCHANGED <<env, held, op, damage>>
    BY <1>10 DEF Save, NoNewList, Known
  <2>2. FileSafe'
    BY <1>10 DEF Save, StoreInv, FileSafe
  <2> QED
    BY <2>1, <2>2, NoNewListKeeps DEF StoreInv, OneKeyEach
<1>11. CASE Parse
  <2>1. /\ NoNewList /\ UNCHANGED <<file, held, op>> /\ op.slots = <<>>
        /\ MixKeys \/ held = None
    BY <1>11 DEF Parse, NoNewList, NoOp, Known
  <2>2. FileSafe'
    BY <2>1 DEF NoNewList, StoreInv, FileSafe
  <2> QED
    BY <2>1, <2>2, NoNewListKeeps DEF OneKeyEach
<1>12. ASSUME NEW ms \in MethodLists, Unlock(ms)
       PROVE  Rest'
  <2>1. /\ NoNewList /\ UNCHANGED <<env, file, op>> /\ op.slots = <<>>
        /\ env # None /\ env.slots \in Lists
    BY <1>12 DEF Unlock, UnlockReturns, NoNewList, NoOp, Known, Lists
  <2>2. CASE held' = held
    BY <2>1, <2>2, NoNewListNext
  <2>3. CASE \E i \in DOMAIN env.slots : held' = env.slots[i].box.dek
    <3>1. FileSafe'
      BY <2>1 DEF NoNewList, StoreInv, FileSafe
    <3>2. damage = 0 /\ ~MixKeys => OneKeyed(env.slots)
      BY <2>1 DEF StoreInv, OneKeyEach
    <3>3. OneKeyed(env.slots) => Keyed(env.slots, held')
      BY <2>3 DEF OneKeyed, Keyed
    <3>4. Keyed(<<>>, held')
      BY DEF Keyed
    <3> QED
      BY <2>1, <3>1, <3>2, <3>3, <3>4, NoNewListKeeps DEF NoNewList, OneKeyEach
  <2> QED
    BY <1>12, <2>2, <2>3 DEF Unlock, UnlockReturns
<1>13. CASE Crash
  <2>1. NoNewList /\ file' = file /\ held' = None
    BY <1>13 DEF Crash, Return, NoNewList, NoOp, Known
  <2> QED
    BY <2>1, NoNewListNext
<1>14. CASE Damage
  <2>1. damage' # 0 /\ nextId' = nextId
    BY <1>0, <1>14 DEF Damage, TypeOK
  <2> QED
    BY <2>1 DEF StoreInv, ListsWhole, Apart, FileSafe, OneKeyEach
<1>15. CASE UNCHANGED vars
  <2>1. NoNewList /\ file' = file /\ held' = held /\ env' = env
    BY <1>15 DEF vars, NoNewList, Known
  <2> QED
    BY <2>1, NoNewListNext
<1>16. ASSUME NEW m \in Callers, AddSlotInCallback(m)
       PROVE  Rest'
  BY <1>16, CallbackAddsOne, AddedKeeps
<1> QED
  BY <1>1, <1>2, <1>3, <1>4, <1>5, <1>6, <1>7, <1>8, <1>9, <1>10, <1>11,
     <1>12, <1>13, <1>14, <1>15, <1>16 DEF Next

LEMMA StoreInvariant == Spec => []StoreInv
BY StoreInvInit, StoreInvNext, PTL DEF Spec

-----------------------------------------------------------------------------
(* What is on disk *)

(* A slot that Enroll made of parameters parseKDF accepts has the shape    *)
(* ParseEnvelope demands and opens with the method that enrolled it.       *)
LEMMA OpensAsEnrolled ==
  ASSUME NEW m \in Methods, EnrollCheck(m) = "ok",
         NeedsPassword(m.type) => m.kdf # "refused",
         NEW id \in Nat, NEW d \in DataKeys
  PROVE  /\ validateSlotShape(wrapDEK(m, id, d).meta)
         /\ Opens(m, wrapDEK(m, id, d))
<1> DEFINE meta == EnrolledMeta(m, id)
           s == wrapDEK(m, id, d)
<1>1. m.kdf \in {"nil", "ok", "refused"} /\ m.type \in MethodTypes
  BY DEF Methods
<1>2. NeedsPassword(m.type) => m.kdf = "ok"
  BY <1>1 DEF EnrollCheck, NeedsPassword, NeedsYubiKey
<1>3. NeedsYubiKey(m.type) => slotValid(m.yk)
  BY DEF EnrollCheck
<1>4. /\ meta.type = m.type
      /\ meta.yk = IF NeedsYubiKey(m.type) THEN m.yk ELSE 0
      /\ meta.kdf = IF NeedsPassword(m.type) THEN m.kdf ELSE "none"
  BY DEF EnrolledMeta
<1>5. validateSlotShape(meta) /\ Derivable(meta)
  BY <1>2, <1>3, <1>4 DEF validateSlotShape, Derivable, KDFAccepted, OTPSlotAccepted
<1>6. /\ s.meta = meta
      /\ s.box = seal(deriveKEK(FactorsOf(m, meta), meta), d, meta)
  BY DEF wrapDEK
<1> HIDE DEF meta, s
<1>7. Verifies(s.box, deriveKEK(FactorsOf(m, meta), meta), meta)
  BY <1>6 DEF Verifies, seal
<1> QED
  BY <1>4, <1>5, <1>6, <1>7 DEF Opens, s

(* What was saved while no caller's password KDF parameters are ones that  *)
(* parseKDF refuses is accepted by ParseEnvelope after any restart, and    *)
(* each of its slots opens with some caller's method.  (Enroll itself does *)
(* not look at the bounds, so the hypothesis is needed.)                   *)
THEOREM SavedOpens ==
  ASSUME \A m \in Callers : NeedsPassword(m.type) => m.kdf # "refused"
  PROVE  Spec => []SavedEnvelopeOpens
<1>1. StoreInv => SavedEnvelopeOpens
  <2> SUFFICES ASSUME StoreInv, damage = 0, file # None
               PROVE  /\ Parses(file)
                      /\ \A i \in DOMAIN file.slots :
                           \E m \in Callers : Opens(m, file.slots[i])
    BY DEF SavedEnvelopeOpens
  <2>1. \A i \in DOMAIN file.slots : Enrolled(file.slots[i])
    BY DEF StoreInv, ListsWhole, Whole, Lists, Known
  <2>2. ASSUME NEW i \in DOMAIN file.slots
        PROVE  /\ validateSlotShape(file.slots[i].meta)
               /\ \E m \in Callers : Opens(m, file.slots[i])
    <3>1. PICK m \in Callers, id \in Nat, d \in DataKeys :
            EnrollCheck(m) = "ok" /\ file.slots[i] = wrapDEK(m, id, d)
      BY <2>1, <2>2 DEF Enrolled
    <3>2. m \in Methods /\ (NeedsPassword(m.type) => m.kdf # "refused")
      BY EnvelopeAssumption
    <3> QED
      BY <3>1, <3>2, OpensAsEnrolled
  <2>3. Len(file.slots) \in 1..MaxSlots
    BY DEF StoreInv, FileSafe, Marshalable
  <2> QED
    BY <2>2, <2>3 DEF Parses
<1> QED
  BY <1>1, StoreInvariant, PTL

-----------------------------------------------------------------------------
(* Action properties *)

(* A call that reports an error, at whichever of its steps it failed and   *)
(* whatever its earlier steps had done, leaves the envelope as its caller  *)
(* left it, the file as it was, and the caller its data key.               *)
THEOREM FailuresChangeNothing == Spec => FailureChangesNothing
<1> DEFINE Failing == ret' \in Errors /\ (ret' # ret \/ op' # op)
           Nothing == UNCHANGED <<env, file, held>>
           Before == /\ UNCHANGED <<file, held>>
                     /\ op = NoOp => UNCHANGED env
                     /\ op # NoOp => env' = op.before /\ held \in {op.dek, None}
<1>1. ASSUME Next, Failing
      PROVE  Nothing
  <2>1. ~ \E d \in DataKeys : GenerateDEK(d)
    BY <1>1 DEF GenerateDEK, Errors
  <2>2. ~DestroyDEK /\ ~Cancel /\ ~Damage
    BY <1>1 DEF DestroyDEK, Cancel, Damage
  <2>3. ~Crash
    BY <1>1 DEF Crash, Return, Errors
  <2>4. ASSUME NEW p, NEW ms, NewEnvelope(p, ms)
        PROVE  Nothing
    BY <2>4 DEF NewEnvelope
  <2>5. EnrollNext => Nothing
    BY DEF EnrollNext
  <2>6. FinishNewEnvelope => Nothing
    BY <1>1 DEF FinishNewEnvelope, Return, Errors
  <2>7. ASSUME NEW m, AddSlot(m)
        PROVE  Nothing
    BY <2>7 DEF AddSlot
  <2>8. EnrollAdded => Nothing
    BY <1>1 DEF EnrollAdded, Return, Errors
  <2>9. ASSUME NEW id, RemoveSlot(id)
        PROVE  Nothing
    BY <1>1, <2>9 DEF RemoveSlot, Errors
  <2>10. Save => Nothing
    BY <1>1 DEF Save, Errors
  <2>11. Parse => Nothing
    BY <1>1 DEF Parse, Errors
  <2>12. ASSUME NEW ms, Unlock(ms)
         PROVE  Nothing
    BY <1>1, <2>12 DEF Unlock, UnlockReturns, Errors
  <2>13. ~ \E m \in Callers : AddSlotInCallback(m)
    BY <1>1 DEF AddSlotInCallback, Errors
  <2> HIDE DEF Nothing, Failing
  <2> QED
    BY <1>1, <2>1, <2>2, <2>3, <2>4, <2>5, <2>6, <2>7, <2>8, <2>9, <2>10,
       <2>11, <2>12, <2>13 DEF Next
<1>2. IInv /\ [Next]_vars => [Failing => Before]_vars
  <2> SUFFICES ASSUME IInv, Next, Failing
               PROVE  Before
    OBVIOUS
  <2>1. Nothing
    BY <1>1
  <2> QED
    BY <2>1 DEF IInv, NothingPublished
<1> QED
  BY <1>2, Invariant, PTL DEF Spec, FailureChangesNothing

(* The steps of RemoveSlot that change the envelope.                       *)
LEMMA RemovedIs ==
  ASSUME StoreInv, NEW id \in 0..MaxIds, RemoveSlot(id), env' # env
  PROVE  \E idx \in DOMAIN env.slots :
           /\ RemoveSlotCheck(env.slots, idx) = "ok"
           /\ env.slots[idx].meta.id = id
           /\ env \in Envelopes /\ env # None
           /\ env.slots \in Seq(SlotRecords)
           /\ env'.slots = Without(env.slots, idx)
           /\ env'.hint = env.hint
           /\ env' \in Envelopes
           /\ UNCHANGED <<file, held, damage>>
<1> DEFINE idx == IndexOf(env.slots, id)
<1>1. env \in Envelopes /\ env # None /\ env.slots \in Seq(SlotRecords)
  BY DEF StoreInv, IInv, TypeOK, RemoveSlot, Envelopes
<1>2. /\ RemoveSlotCheck(env.slots, idx) = "ok" /\ idx \in DOMAIN env.slots
      /\ env.slots[idx].meta.id = id
  BY <1>1, IndexOfType, EnvelopeAssumption DEF RemoveSlot, RemoveSlotCheck
<1>3. env' = [env EXCEPT !.slots = Without(@, idx)]
  BY <1>2 DEF RemoveSlot
<1> HIDE DEF idx
<1>4. Without(env.slots, idx) \in Seq(SlotRecords)
  BY <1>1, <1>2, WithoutType
<1>5. /\ env'.slots = Without(env.slots, idx)
      /\ env'.hint = env.hint
      /\ env' \in Envelopes
  BY <1>1, <1>3, <1>4 DEF Envelopes
<1> QED
  BY <1>1, <1>2, <1>5 DEF RemoveSlot

(* The sequence without element idx is its two parts around it.            *)
LEMMA WithoutIsTheRest ==
  ASSUME NEW ss \in Seq(SlotRecords), NEW idx \in DOMAIN ss
  PROVE  Without(ss, idx) =
           SubSeq(ss, 1, idx - 1) \o SubSeq(ss, idx + 1, Len(ss))
<1> DEFINE l == Len(ss)
           new == Without(ss, idx)
           a == SubSeq(ss, 1, idx - 1)
           b == SubSeq(ss, idx + 1, l)
<1>1. /\ l \in Nat /\ DOMAIN ss = 1..l /\ idx \in 1..l
      /\ \A i \in 1..(l - 1) : new[i] = IF i < idx THEN ss[i] ELSE ss[i + 1]
  BY WithoutIs
<1>2. new \in Seq(SlotRecords) /\ Len(new) = l - 1
  BY WithoutType
<1>3. /\ a \in Seq(SlotRecords) /\ Len(a) = idx - 1
      /\ \A i \in 1..(idx - 1) : a[i] = ss[i]
  <2>1. \A i \in 1..(idx - 1) : ss[i] \in SlotRecords
    BY <1>1
  <2>2. 1 \in Int /\ idx - 1 \in Int /\ (idx - 1) - 1 + 1 = idx - 1
    BY <1>1
  <2>3. /\ a \in Seq(SlotRecords)
        /\ Len(a) = IF 1 <= idx - 1 THEN (idx - 1) - 1 + 1 ELSE 0
        /\ \A i \in 1..((idx - 1) - 1 + 1) : a[i] = ss[1 + i - 1]
    BY <2>1, <2>2, SubSeqProperties
  <2> HIDE DEF a
  <2> QED
    BY <1>1, <2>3
<1>4. /\ b \in Seq(SlotRecords) /\ Len(b) = l - idx
      /\ \A i \in 1..(l - idx) : b[i] = ss[idx + i]
  <2>1. \A i \in (idx + 1)..l : ss[i] \in SlotRecords
    BY <1>1
  <2>2. idx + 1 \in Int /\ l \in Int
    BY <1>1
  <2>3. /\ b \in Seq(SlotRecords)
        /\ Len(b) = IF idx + 1 <= l THEN l - (idx + 1) + 1 ELSE 0
        /\ \A i \in 1..(l - (idx + 1) + 1) : b[i] = ss[(idx + 1) + i - 1]
    BY <2>1, <2>2, SubSeqProperties
  <2> HIDE DEF b
  <2>4. \A i \in 1..(l - idx) : (idx + 1) + i - 1 = idx + i
    BY <1>1
  <2> QED
    BY <1>1, <2>3, <2>4
<1> HIDE DEF new, a, b
<1> DEFINE c == a \o b
<1>5. /\ c \in Seq(SlotRecords) /\ Len(c) = Len(a) + Len(b)
      /\ \A i \in 1..(Len(a) + Len(b)) :
           c[i] = IF i <= Len(a) THEN a[i] ELSE b[i - Len(a)]
  BY <1>3, <1>4, ConcatProperties
<1> HIDE DEF c, l
<1>6. ASSUME NEW i \in 1..(l - 1)
      PROVE  c[i] = new[i]
  <2>1. c[i] = IF i <= Len(a) THEN a[i] ELSE b[i - Len(a)]
    BY <1>1, <1>3, <1>4, <1>5
  <2>2. CASE i < idx
    BY <1>1, <1>3, <2>1, <2>2
  <2>3. CASE ~(i < idx)
    <3>1. i - Len(a) \in 1..(l - idx) /\ idx + (i - Len(a)) = i + 1
      BY <1>1, <1>3, <2>3
    <3>2. b[i - Len(a)] = ss[i + 1]
      BY <1>4, <3>1
    <3> QED
      BY <1>1, <1>3, <2>1, <2>3, <3>2
  <2> QED
    BY <2>2, <2>3
<1>7. Len(c) = l - 1
  BY <1>1, <1>3, <1>4, <1>5
<1>8. new = c
  BY <1>2, <1>5, <1>6, <1>7, SeqEqual
<1> QED
  BY <1>8 DEF new, a, b, c, l

(* RemoveSlot drops a slot with the ID it was given and keeps the others   *)
(* in order, and on an envelope that was never changed at rest that ID is  *)
(* gone.                                                                   *)
LEMMA RemoveLoses ==
  ASSUME StoreInv, NEW id \in 0..MaxIds, RemoveSlot(id), env' # env
  PROVE  Loses(id)
<1>1. PICK idx \in DOMAIN env.slots :
        /\ env # None
        /\ env.slots[idx].meta.id = id
        /\ env.slots \in Seq(SlotRecords)
        /\ env'.slots = Without(env.slots, idx)
  BY RemovedIs
<1>2. env'.slots = SubSeq(env.slots, 1, idx - 1)
                      \o SubSeq(env.slots, idx + 1, Len(env.slots))
  BY <1>1, WithoutIsTheRest
<1>3. ASSUME damage = 0
      PROVE  \A i \in DOMAIN env'.slots : env'.slots[i].meta.id # id
  <2>1. nextId \in Nat /\ Whole(env.slots, nextId)
    BY <1>1, <1>3 DEF StoreInv, IInv, TypeOK, ListsWhole, Lists, Known
  <2>2. \A i \in DOMAIN env'.slots :
          env'.slots[i].meta.id # env.slots[idx].meta.id
    BY <1>1, <2>1, WithoutKeepsWhole
  <2> QED
    BY <1>1, <2>2
<1> QED
  BY <1>1, <1>2, <1>3 DEF Loses

(* AddSlot keeps all slots in order, and the new one wraps the key it was  *)
(* given and opens with its method.                                        *)
LEMMA AddGains ==
  ASSUME StoreInv, EnrollAdded, ret' = "added"
  PROVE  Gains
<1> DEFINE m == op.methods[1]
           s == wrapDEK(m, nextId, held)
           old == env.slots
           new == env'.slots
<1>1. /\ s \in SlotRecords /\ s.box.dek = held
      /\ old \in Seq(SlotRecords) /\ new = Append(old, s)
      /\ nextId \in Nat /\ held \in DataKeys
  BY CallAdds DEF Added
<1>2. m \in Methods /\ EnrollCheck(m) = "ok"
  BY CallAdds, EnvelopeAssumption DEF EnrollSucceeds
<1>3. env = op.before /\ held = op.dek
  <2>1. op # NoOp
    BY DEF EnrollAdded, NoOp
  <2>2. held # None
    BY <1>1, NoneIsNothing
  <2> QED
    BY <2>1, <2>2 DEF StoreInv, IInv, NothingPublished
<1>4. m.kdf # "refused" => Opens(m, s)
  BY <1>1, <1>2, OpensAsEnrolled
<1> HIDE DEF m, s, new, old
<1>5. /\ Len(old) \in Nat /\ Len(new) = Len(old) + 1
      /\ new \in Seq(SlotRecords)
      /\ new[Len(old) + 1] = s
      /\ \A i \in 1..Len(old) : new[i] = old[i]
  BY <1>1
<1>6. SubSeq(new, 1, Len(old)) = old
  <2> DEFINE part == SubSeq(new, 1, Len(old))
  <2>1. part \in Seq(SlotRecords) /\ Len(part) = Len(old)
    BY <1>5
  <2>2. \A i \in 1..Len(old) : part[i] = new[i]
    BY <1>5
  <2> HIDE DEF part
  <2>3. part = old
    BY <1>1, <1>5, <2>1, <2>2
  <2> QED
    BY <2>3 DEF part
<1>7. new[Len(new)] = s
  BY <1>5
<1>8. op.before.slots = old
  BY <1>3 DEF old
<1> QED
  BY <1>1, <1>3, <1>4, <1>5, <1>6, <1>7, <1>8 DEF Gains, m, new

(* RemoveSlot drops the slot it was asked to drop, and a whole call of     *)
(* AddSlot, whatever its touch callback did to the envelope meanwhile,     *)
(* only adds a slot for its own key that opens with its own method.        *)
THEOREM SiblingsStayUntouched == Spec => SiblingsUntouched
<1>1. ASSUME StoreInv
      PROVE  /\ \A id \in 0..MaxIds : RemoveSlot(id) /\ env' # env => Loses(id)
             /\ EnrollAdded /\ ret' = "added" => Gains
  BY <1>1, RemoveLoses, AddGains
<1> QED
  BY <1>1, StoreInvariant, PTL DEF Spec, SiblingsUntouched

-----------------------------------------------------------------------------
(* The abstract store *)

SlotView(s) ==
  [id   |-> s.meta.id,
   kind |-> IF s.meta.type = "recovery" THEN "recovery"
            ELSE policyForMethod(s.meta.type),
   dek  |-> s.box.dek]

Views(ss) == {SlotView(ss[i]) : i \in DOMAIN ss}

LEMMA ViewIs ==
  ASSUME NEW e
  PROVE  View(e) = IF e = None THEN None ELSE Views(e.slots)
BY DEF View, Views, SlotView

LEMMA ViewsType ==
  ASSUME NEW ss \in Seq(SlotRecords)
  PROVE  Views(ss) \subseteq Store!Slots
<1> SUFFICES ASSUME NEW i \in DOMAIN ss
             PROVE  SlotView(ss[i]) \in Store!Slots
  BY DEF Views
<1>1. /\ ss[i].meta.id \in Nat /\ ss[i].meta.type \in MethodTypes
      /\ ss[i].box.dek \in DataKeys
  <2>1. ss[i] \in SlotRecords
    OBVIOUS
  <2> QED
    BY <2>1 DEF SlotRecords, Metas, Boxes
<1>2. ss[i].meta.type # "recovery" =>
        policyForMethod(ss[i].meta.type) \in Policies
  BY <1>1 DEF MethodTypes, policyForMethod, Policies
<1> QED
  BY <1>1, <1>2 DEF SlotView, Store!Slots

LEMMA ViewsAppend ==
  ASSUME NEW ss \in Seq(SlotRecords), NEW s \in SlotRecords
  PROVE  Views(Append(ss, s)) = Views(ss) \cup {SlotView(s)}
<1> DEFINE new == Append(ss, s)
           l == Len(ss)
<1>1. /\ l \in Nat /\ DOMAIN ss = 1..l
      /\ DOMAIN new = 1..(l + 1)
      /\ \A i \in 1..l : new[i] = ss[i]
      /\ new[l + 1] = s
  BY AppendIs
<1> HIDE DEF new, l
<1>2. Views(new) \subseteq Views(ss) \cup {SlotView(s)}
  <2> SUFFICES ASSUME NEW i \in DOMAIN new
               PROVE  SlotView(new[i]) \in Views(ss) \cup {SlotView(s)}
    BY DEF Views
  <2>1. CASE i \in 1..l
    BY <1>1, <2>1 DEF Views
  <2>2. CASE i = l + 1
    BY <1>1, <2>2
  <2> QED
    BY <1>1, <2>1, <2>2
<1>3. Views(ss) \cup {SlotView(s)} \subseteq Views(new)
  <2>1. l + 1 \in DOMAIN new /\ \A i \in DOMAIN ss : i \in DOMAIN new
    BY <1>1
  <2> QED
    BY <1>1, <2>1 DEF Views
<1> QED
  BY <1>2, <1>3 DEF new

LEMMA ViewsWithout ==
  ASSUME NEW ss \in Seq(SlotRecords), NEW idx \in DOMAIN ss, Distinct(ss)
  PROVE  Views(Without(ss, idx)) = Views(ss) \ {SlotView(ss[idx])}
<1> DEFINE new == Without(ss, idx)
           l == Len(ss)
<1>1. /\ l \in Nat /\ DOMAIN ss = 1..l /\ idx \in 1..l
      /\ DOMAIN new = 1..(l - 1)
      /\ \A i \in 1..(l - 1) : new[i] = IF i < idx THEN ss[i] ELSE ss[i + 1]
  BY WithoutIs
<1> HIDE DEF new, l
<1>2. \A i, j \in DOMAIN ss : SlotView(ss[i]) = SlotView(ss[j]) => i = j
  <2>1. \A i \in DOMAIN ss : SlotView(ss[i]).id = ss[i].meta.id
    BY DEF SlotView
  <2> QED
    BY <2>1 DEF Distinct
<1>3. ASSUME NEW i \in DOMAIN new
      PROVE  \E j \in DOMAIN ss : j # idx /\ new[i] = ss[j]
  <2>1. CASE i < idx
    <3>1. i \in DOMAIN ss /\ new[i] = ss[i]
      BY <1>1, <1>3, <2>1
    <3> QED
      BY <1>1, <2>1, <3>1
  <2>2. CASE ~(i < idx)
    <3>1. i + 1 \in DOMAIN ss /\ i + 1 # idx /\ new[i] = ss[i + 1]
      BY <1>1, <1>3, <2>2
    <3> QED
      BY <3>1
  <2> QED
    BY <2>1, <2>2
<1>4. ASSUME NEW j \in DOMAIN ss, j # idx
      PROVE  \E i \in DOMAIN new : new[i] = ss[j]
  <2>1. CASE j < idx
    <3>1. j \in 1..(l - 1) /\ new[j] = ss[j]
      BY <1>1, <2>1
    <3> QED
      BY <1>1, <3>1
  <2>2. CASE j > idx
    <3>1. j - 1 \in 1..(l - 1) /\ new[j - 1] = ss[j]
      BY <1>1, <2>2
    <3> QED
      BY <1>1, <3>1
  <2> QED
    BY <1>1, <1>4, <2>1, <2>2
<1>5. Views(new) \subseteq Views(ss) \ {SlotView(ss[idx])}
  BY <1>2, <1>3 DEF Views
<1>6. Views(ss) \ {SlotView(ss[idx])} \subseteq Views(new)
  BY <1>4 DEF Views
<1> QED
  BY <1>5, <1>6 DEF new

LEMMA ViewsOnePolicy ==
  ASSUME NEW ss, NEW p \in Policies, EffectivePolicy(ss) = p
  PROVE  Store!OnePolicy(Views(ss))
<1>1. /\ Primaries(ss) # {}
      /\ \A i \in Primaries(ss) : policyForMethod(ss[i].meta.type) = p
  BY EffectivePolicyIs
<1>2. "recovery" \notin Policies
  BY DEF Policies
<1>3. \A i \in DOMAIN ss :
        SlotView(ss[i]).kind =
          IF ss[i].meta.type = "recovery" THEN "recovery"
          ELSE policyForMethod(ss[i].meta.type)
  BY DEF SlotView
<1>4. {s.kind : s \in Views(ss)} \ {"recovery"} = {p}
  BY <1>1, <1>2, <1>3 DEF Views, Primaries
<1> QED
  BY <1>4 DEF Store!OnePolicy

LEMMA ViewsOneKey ==
  ASSUME NEW ss \in Seq(SlotRecords), OneKeyed(ss), DOMAIN ss # {}
  PROVE  Store!OneKey(Views(ss))
<1>1. PICK i \in DOMAIN ss : TRUE
  OBVIOUS
<1>2. ss[i].box.dek \in DataKeys
  <2>1. ss[i] \in SlotRecords
    OBVIOUS
  <2> QED
    BY <2>1 DEF SlotRecords, Boxes
<1>3. \A s \in Views(ss) : s.dek = ss[i].box.dek
  BY DEF Views, SlotView, OneKeyed
<1> QED
  BY <1>2, <1>3 DEF Store!OneKey

(* The IDs an abstract reader sees in an envelope are its slots'.          *)
LEMMA HeldIs ==
  ASSUME NEW e, NEW id, id \in Store!Held(View(e))
  PROVE  e # None /\ \E i \in DOMAIN e.slots : e.slots[i].meta.id = id
<1>1. CASE e = None
  BY <1>1, ViewIs DEF Store!Held
<1>2. CASE e # None /\ Views(e.slots) # None
  BY <1>2, ViewIs DEF Store!Held, Views, SlotView
<1>3. CASE e # None /\ Views(e.slots) = None
  BY <1>3, ViewIs DEF Store!Held
<1> QED
  BY <1>1, <1>2, <1>3

(* What a careful caller's steps rest on, while the file is as written.    *)
LEMMA CarefulCaller ==
  ASSUME StoreInv, ~MixKeys, MaxDamage = 0, None \notin SUBSET Store!Slots
  PROVE  /\ damage = 0
         /\ \A ss \in Lists : /\ ss \in Seq(SlotRecords)
                              /\ Whole(ss, nextId)
                              /\ Distinct(ss)
                              /\ OneKeyed(ss)
                              /\ Views(ss) \subseteq Store!Slots
                              /\ Views(ss) # None
         /\ held # None => /\ Keyed(op.slots, held)
                           /\ env # None => Keyed(env.slots, held)
<1>1. damage = 0 /\ TypeOK
  BY DEF StoreInv, IInv, TypeOK
<1>2. \A ss \in Lists : ss \in Seq(SlotRecords)
  BY <1>1, ListsType
<1>3. \A ss \in Lists : Whole(ss, nextId) /\ Distinct(ss)
  BY <1>1 DEF StoreInv, ListsWhole, Whole
<1>4. /\ \A ss \in Lists : OneKeyed(ss)
      /\ held # None => /\ Keyed(op.slots, held)
                        /\ env # None => Keyed(env.slots, held)
  BY <1>1 DEF StoreInv, OneKeyEach
<1>5. \A ss \in Lists : Views(ss) \subseteq Store!Slots
  BY <1>2, ViewsType
<1>6. \A ss \in Lists : Views(ss) # None
  BY <1>5
<1> QED
  BY <1>1, <1>2, <1>3, <1>4, <1>5, <1>6

(* A slot that AddSlot or its callback adds is one the abstract store      *)
(* adds.                                                                   *)
LEMMA AddedIsAdd ==
  ASSUME StoreInv, NEW m \in Callers, Added(m), ~MixKeys, MaxDamage = 0,
         None \notin SUBSET Store!Slots
  PROVE  Store!Add
<1>0. /\ damage = 0
      /\ \A ss \in Lists : /\ ss \in Seq(SlotRecords)
                           /\ Whole(ss, nextId)
                           /\ Views(ss) \subseteq Store!Slots
                           /\ Views(ss) # None
      /\ held # None /\ env # None => Keyed(env.slots, held)
  BY CarefulCaller
<1> DEFINE s == wrapDEK(m, nextId, held)
           S == Views(env.slots)
           T == Views(env'.slots)
           v == SlotView(s)
<1>1. /\ s \in SlotRecords /\ s.meta.id = nextId /\ s.box.dek = held
      /\ nextId \in Nat \ {0} /\ held \in DataKeys
      /\ env # None /\ env \in Known
      /\ env.slots \in Seq(SlotRecords) /\ env.slots \in Lists
      /\ env' \in Envelopes /\ env'.slots = Append(env.slots, s)
      /\ env'.hint = env.hint
      /\ UNCHANGED <<file, held>>
  BY DEF Added, Known, Lists
<1>2. s.meta.type = "recovery"
        \/ policyForMethod(s.meta.type) = EffectivePolicy(env.slots)
  BY DEF Added
<1>3. env' # None
  BY <1>1, NoEnvelopeAssumption
<1>4. T = S \cup {v}
  BY <1>1, ViewsAppend
<1>5. View(env) = S /\ View(env)' = T /\ UNCHANGED View(file)
  <2>1. View(env)' = IF env' = None THEN None ELSE Views(env'.slots)
    BY DEF View, Views, SlotView
  <2>2. View(file)' = View(file)
    BY <1>1 DEF View
  <2> QED
    BY <1>1, <1>3, <2>1, <2>2, ViewIs
<1>6. S \subseteq Store!Slots /\ S # None
  BY <1>0, <1>1
<1>7. T \subseteq Store!Slots /\ T # None
  <2>1. env'.slots \in Seq(SlotRecords)
    BY <1>1
  <2>2. T \subseteq Store!Slots
    BY <2>1, ViewsType
  <2> HIDE DEF T
  <2> QED
    BY <2>2
<1>8. v.id = nextId /\ v.dek = held
  BY <1>1 DEF SlotView
<1>9. Store!Fresh(v.id)
  <2>1. \A e \in Known : \A j \in DOMAIN e.slots :
          e.slots[j].meta.id \in 1..(nextId - 1)
    BY <1>0 DEF Lists, Whole
  <2>2. \A e \in Known : \A j \in DOMAIN e.slots : e.slots[j].meta.id # v.id
    BY <1>1, <1>8, <2>1
  <2>3. v.id \notin Store!Held(View(env))
    BY <1>1, <2>2, HeldIs
  <2>4. v.id \notin Store!Held(View(file))
    <3>1. file # None => file \in Known
      BY DEF Known
    <3> QED
      BY <2>2, <3>1, HeldIs
  <2> QED
    BY <2>3, <2>4 DEF Store!Fresh
<1>10. Store!OnePolicy(T)
  <2>1. env.hint \in Policies /\ EffectivePolicy(env.slots) = env.hint
    BY <1>0, <1>1 DEF StoreInv, IInv, PolicyHolds
  <2> HIDE DEF s
  <2>2. EffectivePolicy(Append(env.slots, s)) = env.hint
    BY <1>1, <1>2, <2>1, AppendKeepsPolicy
  <2> QED
    BY <1>1, <2>1, <2>2, ViewsOnePolicy DEF s
<1>11. Store!OneKey(T)
  <2>1. held # None
    BY <1>1, NoneIsNothing
  <2>2. Keyed(env.slots, held)
    BY <1>0, <1>1, <2>1
  <2> HIDE DEF s
  <2>3. Keyed(Append(env.slots, s), held)
    BY <1>1, <2>2, AppendKeepsKeyed
  <2>4. OneKeyed(Append(env.slots, s))
    BY <2>3, KeyedIsOneKeyed
  <2>5. Append(env.slots, s) \in Seq(SlotRecords)
    BY <1>1
  <2>6. DOMAIN Append(env.slots, s) # {}
    <3> DEFINE n == Len(env.slots)
    <3>1. n \in Nat /\ DOMAIN Append(env.slots, s) = 1..(n + 1)
      BY <1>1, AppendIs
    <3> HIDE DEF n
    <3>2. 1 \in 1..(n + 1)
      BY <3>1
    <3> QED
      BY <3>1, <3>2
  <2>7. Store!OneKey(Views(Append(env.slots, s)))
    BY <2>4, <2>5, <2>6, ViewsOneKey
  <2> QED
    BY <1>1, <2>7 DEF s
<1> HIDE DEF S, T, v, s
<1> QED
  BY <1>1, <1>4, <1>5, <1>6, <1>7, <1>8, <1>9, <1>10, <1>11 DEF Store!Add

(* Each step of the code's is one of the abstract store, or none.          *)
LEMMA StoreStep ==
  ASSUME StoreInv, [Next]_vars, ~MixKeys, MaxDamage = 0,
         None \notin SUBSET Store!Slots
  PROVE  [Store!Next]_(Store!vars)
<1>0. /\ damage = 0
      /\ \A ss \in Lists : /\ ss \in Seq(SlotRecords)
                           /\ Whole(ss, nextId)
                           /\ Distinct(ss)
                           /\ OneKeyed(ss)
                           /\ Views(ss) \subseteq Store!Slots
                           /\ Views(ss) # None
      /\ held # None => /\ Keyed(op.slots, held)
                        /\ env # None => Keyed(env.slots, held)
  BY CarefulCaller
<1>a. /\ TypeOK
      /\ env # None => env \in Known /\ env.slots \in Lists
      /\ file # None => file \in Known /\ file.slots \in Lists
      /\ op.slots \in Lists
  BY DEF StoreInv, IInv, Known, Lists
<1>b. \A e \in Known : e.hint \in Policies /\ EffectivePolicy(e.slots) = e.hint
  BY <1>0 DEF StoreInv, IInv, PolicyHolds
<1>c. /\ View(env) = IF env = None THEN None ELSE Views(env.slots)
      /\ View(file) = IF file = None THEN None ELSE Views(file.slots)
      /\ View(env)' = IF env' = None THEN None ELSE Views(env'.slots)
      /\ View(file)' = IF file' = None THEN None ELSE Views(file'.slots)
  BY DEF View, Views, SlotView
<1> DEFINE Same == UNCHANGED <<env, file, held>>
<1>d. Same => UNCHANGED Store!vars
  BY <1>c DEF Store!vars
<1>1. ASSUME NEW d \in DataKeys, GenerateDEK(d)
      PROVE  Store!Generate
  BY <1>1, <1>c DEF GenerateDEK, Store!Generate
<1>2. CASE DestroyDEK
  <2>1. Store!Drop
    BY <1>2, <1>c DEF DestroyDEK, Store!Drop
  <2> QED
    BY <2>1 DEF Store!Next
<1>3. CASE Cancel
  BY <1>3, <1>d DEF Cancel
<1>4. ASSUME NEW p, NEW ms, NewEnvelope(p, ms)
      PROVE  Same
  BY <1>4 DEF NewEnvelope
<1>5. CASE EnrollNext
  BY <1>5, <1>d DEF EnrollNext
<1>6. CASE FinishNewEnvelope
  <2>1. CASE UNCHANGED env
    BY <1>6, <2>1, <1>d DEF FinishNewEnvelope
  <2>2. CASE /\ EffectivePolicy(op.slots) = op.policy
             /\ env' = [hint |-> op.policy, slots |-> op.slots]
    <3> DEFINE S == Views(op.slots)
    <3>1. UNCHANGED <<file, held>>
      BY <1>6 DEF FinishNewEnvelope
    <3>2. op.policy \in Policies
      BY <1>6 DEF FinishNewEnvelope, StoreInv, IInv, ChecksStillHold
    <3>3. env' # None /\ env'.slots = op.slots
      <4>1. env' \in Envelopes
        BY <1>0, <1>a, <2>2, <3>2 DEF Envelopes
      <4> QED
        BY <2>2, <4>1, NoEnvelopeAssumption
    <3>4. View(env)' = S /\ UNCHANGED View(file)
      BY <1>c, <3>1, <3>3
    <3>5. S # None /\ S \subseteq Store!Slots
      BY <1>0, <1>a
    <3>6. Store!OnePolicy(S)
      BY <2>2, <3>2, ViewsOnePolicy
    <3>7. Store!OneKey(S)
      <4>1. DOMAIN op.slots # {}
        BY <2>2, <3>2, EffectivePolicyIs DEF Primaries
      <4> QED
        BY <1>0, <1>a, <4>1, ViewsOneKey
    <3>8. ASSUME NEW s \in S
          PROVE  Store!Fresh(s.id) /\ held \in {s.dek, None}
      <4>1. PICK i \in DOMAIN op.slots : s = SlotView(op.slots[i])
        BY DEF Views
      <4>2. s.id = op.slots[i].meta.id /\ s.dek = op.slots[i].box.dek
        BY <4>1 DEF SlotView
      <4>3. \A e \in Known : \A j \in DOMAIN e.slots : e.slots[j].meta.id # s.id
        BY <1>0, <4>2 DEF StoreInv, Apart
      <4>4. s.id \notin Store!Held(View(env))
        BY <1>a, <4>3, HeldIs
      <4>5. s.id \notin Store!Held(View(file))
        BY <1>a, <4>3, HeldIs
      <4>6. held \in {s.dek, None}
        BY <1>0, <4>2 DEF Keyed
      <4> QED
        BY <4>4, <4>5, <4>6 DEF Store!Fresh
    <3> HIDE DEF S
    <3>9. Store!Create
      BY <3>1, <3>4, <3>5, <3>6, <3>7, <3>8 DEF Store!Create
    <3> QED
      BY <3>9 DEF Store!Next
  <2> QED
    BY <1>6, <2>1, <2>2 DEF FinishNewEnvelope
<1>7. ASSUME NEW m, AddSlot(m)
      PROVE  Same
  BY <1>7 DEF AddSlot
<1>8. CASE EnrollAdded
  <2>1. CASE UNCHANGED env
    BY <1>8, <2>1, <1>d DEF EnrollAdded
  <2>2. CASE ret' = "added"
    BY <1>8, <2>2, CallAdds, AddedIsAdd DEF Store!Next
  <2> QED
    BY <1>8, <2>1, <2>2 DEF EnrollAdded, Return
<1>9. ASSUME NEW id \in 0..MaxIds, RemoveSlot(id)
      PROVE  [Store!Next]_(Store!vars)
  <2>1. CASE env' = env
    BY <1>9, <2>1, <1>d DEF RemoveSlot
  <2>2. CASE env' # env
    <3>1. PICK idx \in DOMAIN env.slots :
            /\ RemoveSlotCheck(env.slots, idx) = "ok"
            /\ env \in Envelopes /\ env # None
            /\ env.slots \in Seq(SlotRecords)
            /\ env'.slots = Without(env.slots, idx)
            /\ env'.hint = env.hint
            /\ env' \in Envelopes
            /\ UNCHANGED <<file, held, damage>>
      BY <1>9, <2>2, RemovedIs
    <3> DEFINE S == Views(env.slots)
               T == Views(env'.slots)
               v == SlotView(env.slots[idx])
    <3>2. env' # None
      BY <3>1, NoEnvelopeAssumption
    <3>3. v \in S
      BY <3>1 DEF Views
    <3>4. T = S \ {v}
      BY <1>0, <1>a, <3>1, ViewsWithout
    <3>5. View(env) = S /\ View(env)' = T /\ UNCHANGED View(file)
      BY <1>c, <3>1, <3>2
    <3>6. S # None
      BY <1>0, <1>a, <3>1
    <3>7. Store!OnePolicy(T)
      <4>1. env.hint \in Policies /\ EffectivePolicy(env.slots) = env.hint
        BY <1>a, <1>b, <3>1
      <4>2. EffectivePolicy(Without(env.slots, idx)) = env.hint
        BY <3>1, <4>1, WithoutKeepsPolicy
      <4> QED
        BY <3>1, <4>1, <4>2, ViewsOnePolicy
    <3> HIDE DEF S, T, v
    <3>8. Store!Remove
      BY <3>1, <3>3, <3>4, <3>5, <3>6, <3>7 DEF Store!Remove
    <3> QED
      BY <3>8 DEF Store!Next
  <2> QED
    BY <2>1, <2>2
<1>10. CASE Save
  <2>1. CASE file' = file
    BY <1>10, <2>1, <1>d DEF Save
  <2>2. CASE file' # file
    <3>1. env # None /\ file' = env /\ UNCHANGED <<env, held>>
      BY <1>10, <2>2 DEF Save
    <3>2. /\ View(env) # None /\ View(env)' = View(env)
          /\ View(file)' = View(env)
      BY <1>0, <1>a, <1>c, <3>1
    <3>3. Store!Persist
      BY <3>1, <3>2 DEF Store!Persist
    <3> QED
      BY <3>3 DEF Store!Next
  <2> QED
    BY <2>1, <2>2
<1>11. CASE Parse
  <2>1. CASE env' = env
    BY <1>11, <2>1, <1>d DEF Parse
  <2>2. CASE env' # env
    <3>1. /\ file # None /\ held = None
          /\ env' = file /\ UNCHANGED <<file, held>>
      BY <1>11, <2>2 DEF Parse
    <3>2. /\ View(file) # None /\ View(file)' = View(file)
          /\ View(env)' = View(file)
      BY <1>0, <1>a, <1>c, <3>1
    <3>3. Store!Load
      BY <3>1, <3>2 DEF Store!Load
    <3> QED
      BY <3>3 DEF Store!Next
  <2> QED
    BY <2>1, <2>2
<1>12. ASSUME NEW ms \in MethodLists, Unlock(ms)
       PROVE  [Store!Next]_(Store!vars)
  <2>1. env # None /\ UNCHANGED <<env, file>>
    BY <1>12 DEF Unlock, UnlockReturns
  <2>2. CASE held' = held
    BY <2>1, <2>2, <1>d
  <2>3. CASE \E i \in DOMAIN env.slots : held' = env.slots[i].box.dek
    <3>1. PICK i \in DOMAIN env.slots : held' = env.slots[i].box.dek
      BY <2>3
    <3>2. /\ View(env) = Views(env.slots) /\ View(env) # None
          /\ UNCHANGED <<View(env), View(file)>>
      BY <1>0, <1>a, <1>c, <2>1
    <3>3. /\ SlotView(env.slots[i]) \in Views(env.slots)
          /\ SlotView(env.slots[i]).dek = held'
      BY <3>1 DEF Views, SlotView
    <3>4. Store!Open
      BY <3>2, <3>3 DEF Store!Open
    <3> QED
      BY <3>4 DEF Store!Next
  <2> QED
    BY <1>12, <2>2, <2>3 DEF Unlock, UnlockReturns
<1>13. CASE Crash
  <2>1. Store!Forget
    BY <1>13, <1>c DEF Crash, Store!Forget
  <2> QED
    BY <2>1 DEF Store!Next
<1>14. ~Damage
  BY <1>0 DEF Damage
<1>15. CASE UNCHANGED vars
  BY <1>15, <1>d DEF vars
<1>16. ASSUME NEW m \in Callers, AddSlotInCallback(m)
       PROVE  Store!Next
  BY <1>16, CallbackAddsOne, AddedIsAdd DEF Store!Next
<1> QED
  BY <1>d, <1>1, <1>2, <1>3, <1>4, <1>5, <1>6, <1>7, <1>8, <1>9, <1>10,
     <1>11, <1>12, <1>13, <1>14, <1>15, <1>16 DEF Next, Store!Next

(* For a careful caller, who works on an envelope with no other data key   *)
(* than its own, and a file that nothing changes at rest, the calls with   *)
(* their steps, failures and crashes implement the abstract store: at any  *)
(* time slots of one policy around one key, in memory and on disk, and no  *)
(* half-done call visible.  The absent value is taken to be no set of      *)
(* abstract slots.                                                         *)
THEOREM StoreIsImplemented ==
  ASSUME ~MixKeys, MaxDamage = 0, None \notin SUBSET Store!Slots
  PROVE  Spec => StoreSpec
<1>1. Init => Store!Init
  BY DEF Init, Store!Init, View
<1>2. StoreInv /\ [Next]_vars => [Store!Next]_(Store!vars)
  BY StoreStep
<1> QED
  BY <1>1, <1>2, StoreInvariant, PTL DEF Spec, StoreSpec, Store!Spec
=============================================================================
