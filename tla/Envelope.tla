------------------------------- MODULE Envelope -------------------------------
(***************************************************************************)
(* One envelope through its life (envelope.go): created from methods, slots*)
(* added and removed, marshalled to the bytes an application keeps, parsed *)
(* again after a restart, unlocked.                                        *)
(*                                                                         *)
(* NewEnvelope and AddSlot take several steps, one per Enroll, and between *)
(* them the context may be cancelled and the caller's data key destroyed   *)
(* by another goroutine.  The calls themselves are sequential: an Envelope *)
(* has no lock and its doc makes callers serialise.  But Enroll of a       *)
(* YubiKey method calls back to announce the touch, on the same goroutine, *)
(* and the callback may add and remove slots of the envelope that AddSlot  *)
(* is working on.                                                          *)
(*                                                                         *)
(* Environment: the application's file is replaced atomically by Save, its *)
(* bytes may change at rest (Damage), the process may stop at any point    *)
(* (Crash), which loses everything but the file.                           *)
(***************************************************************************)
EXTENDS Keyslot

CONSTANTS
  Callers,      \* the methods callers pass to enroll and to unlock
  MethodLists,  \* the method lists passed to NewEnvelope and to Unlock
  MaxSlots,     \* maxSlotCount (64 in the code)
  MaxIds,       \* bound: slots enrolled over a behaviour
  MaxDamage,    \* bound: changes to the file at rest
  MixKeys       \* TRUE: callers may pass AddSlot another data key than the
                \* one of this envelope

ASSUME EnvelopeAssumption ==
  /\ Callers \subseteq Methods
  /\ MethodLists \subseteq Seq(Callers)
  /\ MaxSlots \in Nat \ {0}
  /\ MaxIds \in Nat
  /\ MaxDamage \in Nat
  /\ MixKeys \in BOOLEAN

VARIABLES
  env,      \* the *Envelope the caller holds, or None
  file,     \* the marshalled bytes the application persisted, or None
  held,     \* the data key container the caller holds; None once destroyed
  op,       \* the call in flight
  ctxDone,  \* its context has been cancelled
  nextId,   \* the next random slot ID
  damage,   \* changes made to the file at rest so far
  ret       \* what the last call returned

vars == <<env, file, held, op, ctxDone, nextId, damage, ret>>

(* An *Envelope, and the same thing as bytes: Marshal and ParseEnvelope    *)
(* carry every field over unchanged, metadata verbatim.                    *)
Envelopes == [hint : Policies \cup {PolicyInvalid}, slots : Seq(SlotRecords)]

(* A nil *Envelope is no envelope.                                         *)
ASSUME NoEnvelopeAssumption == None \notin Envelopes

(* Between calls.  A call in flight has its arguments (name, policy,       *)
(* methods, dek) and the slots it enrolled so far; before is the envelope  *)
(* as its caller left it, at the start of the call or later from the touch *)
(* callback, and read by properties only.                                  *)
NoOp == [name |-> "none", policy |-> PolicyInvalid, methods |-> <<>>,
         dek |-> None, slots |-> <<>>, before |-> None]

Errors ==
  {"ErrNoMethods", "ErrPolicyMismatch", "ErrDEKSize", "ErrMalformed",
   "ErrSlotNotFound", "ErrPolicyUnsafe", "ErrAuthFailed", "ErrDestroyed",
   "ErrUnsupportedKDF", "ErrInvalidRecoveryCode", "ctx", "system"}

Successes == {"generated", "created", "added", "removed", "saved", "parsed",
              "unlocked"}

-----------------------------------------------------------------------------
(* Caller steps around the calls *)

(* GenerateDEK, or a seed the application already has.  A careful caller   *)
(* that gets a new data key starts a new envelope for it (rotation).       *)
GenerateDEK(d) ==
  /\ op = NoOp
  /\ held' = d
  /\ env' = IF MixKeys THEN env ELSE None
  /\ ret' = "generated"
  /\ UNCHANGED <<file, op, ctxDone, nextId, damage>>

(* Destroy from any goroutine, also while a call is using the container.   *)
DestroyDEK ==
  /\ held # None
  /\ held' = None
  /\ UNCHANGED <<env, file, op, ctxDone, nextId, damage, ret>>

(* The context of the call in flight is cancelled or expires.              *)
Cancel ==
  /\ op # NoOp
  /\ ~ctxDone
  /\ ctxDone' = TRUE
  /\ UNCHANGED <<env, file, held, op, nextId, damage, ret>>

-----------------------------------------------------------------------------
(* Enroll, as NewEnvelope and AddSlot call it *)

Return(code) ==
  /\ op' = NoOp
  /\ ctxDone' = FALSE
  /\ ret' = code

(* The ctx checks of the loop and of Enroll, the method's own checks, a    *)
(* failure of randomness, KDF, mlock or transport, and a data key that was *)
(* destroyed after the call read its length.                               *)
EnrollError(m, code) ==
  \/ ctxDone /\ code = "ctx"
  \/ ~ctxDone /\ EnrollCheck(m) # "ok" /\ code = EnrollCheck(m)
  \/ ~ctxDone /\ EnrollCheck(m) = "ok" /\ code = "system"
  \/ ~ctxDone /\ EnrollCheck(m) = "ok" /\ held = None /\ code = "ErrDestroyed"

(* Mutant: the key destroyed meanwhile is sealed with the length read       *)
(* before.                                                                 *)
EnrollSucceedsStale(m) == ~ctxDone /\ EnrollCheck(m) = "ok"

EnrollSucceeds(m) ==
  /\ ~ctxDone
  /\ EnrollCheck(m) = "ok"
  /\ held # None

-----------------------------------------------------------------------------
(* NewEnvelope *)

NewEnvelopeCheck(policy, ms) ==
  IF ms = <<>> THEN "ErrNoMethods"
  ELSE IF policy \notin Policies THEN "ErrPolicyMismatch"
  ELSE IF held = None THEN "ErrDEKSize"
  ELSE "ok"

NewEnvelope(policy, ms) ==
  /\ op = NoOp
  /\ nextId + Len(ms) <= MaxIds + 1
  /\ IF NewEnvelopeCheck(policy, ms) = "ok"
     THEN /\ op' = [name |-> "NewEnvelope", policy |-> policy,
                    methods |-> ms, dek |-> held, slots |-> <<>>,
                    before |-> env]
          /\ UNCHANGED <<ctxDone, ret>>
     ELSE Return(NewEnvelopeCheck(policy, ms))
  /\ UNCHANGED <<env, file, held, nextId, damage>>

(* Mutant: the envelope's slots are published while they are enrolled.     *)
EnrollNextPublishes ==
  /\ op.name = "NewEnvelope"
  /\ Len(op.slots) < Len(op.methods)
  /\ LET m == op.methods[Len(op.slots) + 1]
         s == wrapDEK(m, nextId, held)
     IN  \/ /\ EnrollSucceeds(m)
            /\ op' = [op EXCEPT !.slots = Append(@, s)]
            /\ env' = [hint |-> op.policy, slots |-> Append(op.slots, s)]
            /\ nextId' = nextId + 1
            /\ UNCHANGED <<ctxDone, ret>>
         \/ \E code \in Errors :
              /\ EnrollError(m, code)
              /\ Return(code)
              /\ UNCHANGED <<env, nextId>>
  /\ UNCHANGED <<file, held, damage>>

(* One iteration of the enroll loop.                                       *)
EnrollNext ==
  /\ op.name = "NewEnvelope"
  /\ Len(op.slots) < Len(op.methods)
  /\ LET m == op.methods[Len(op.slots) + 1]
     IN  \/ /\ EnrollSucceeds(m)
            /\ op' = [op EXCEPT !.slots = Append(@, wrapDEK(m, nextId, held))]
            /\ nextId' = nextId + 1
            /\ UNCHANGED <<ctxDone, ret>>
         \/ \E code \in Errors :
              EnrollError(m, code) /\ Return(code) /\ UNCHANGED nextId
  /\ UNCHANGED <<env, file, held, damage>>

(* The declared policy must be the one the enrolled slots imply.           *)
FinishNewEnvelope ==
  /\ op.name = "NewEnvelope"
  /\ Len(op.slots) = Len(op.methods)
  /\ IF EffectivePolicy(op.slots) = op.policy
     THEN env' = [hint |-> op.policy, slots |-> op.slots] /\ Return("created")
     ELSE UNCHANGED env /\ Return("ErrPolicyMismatch")
  /\ UNCHANGED <<file, held, nextId, damage>>

-----------------------------------------------------------------------------
(* AddSlot and RemoveSlot *)

AddSlotCheck(m) ==
  IF held = None THEN "ErrDEKSize"
  ELSE IF Len(env.slots) >= MaxSlots THEN "ErrMalformed"
  ELSE IF /\ m.type # "recovery"
          /\ policyForMethod(m.type) # EffectivePolicy(env.slots)
       THEN "ErrPolicyMismatch"
  ELSE "ok"

AddSlot(m) ==
  /\ op = NoOp
  /\ env # None
  /\ nextId <= MaxIds
  /\ IF AddSlotCheck(m) = "ok"
     THEN /\ op' = [NoOp EXCEPT !.name = "AddSlot", !.methods = <<m>>,
                               !.dek = held, !.before = env]
          /\ UNCHANGED <<ctxDone, ret>>
     ELSE Return(AddSlotCheck(m))
  /\ UNCHANGED <<env, file, held, nextId, damage>>

EnrollAdded ==
  /\ op.name = "AddSlot"
  /\ LET m == op.methods[1]
     IN  \/ /\ EnrollSucceeds(m)
            /\ env' = [env EXCEPT
                         !.slots = Append(@, wrapDEK(m, nextId, held))]
            /\ nextId' = nextId + 1
            /\ Return("added")
         \/ \E code \in Errors :
              EnrollError(m, code) /\ Return(code) /\ UNCHANGED <<env, nextId>>
  /\ UNCHANGED <<file, held, damage>>

(* AddSlot is inside the callback that announces a touch.                  *)
Announcing ==
  /\ op.name = "AddSlot"
  /\ NeedsYubiKey(op.methods[1].type)
  /\ EnrollCheck(op.methods[1]) = "ok"

(* The callback adds a slot to the same envelope: a whole call of AddSlot, *)
(* of a method without a touch of its own, inside another.                 *)
AddSlotInCallback(m) ==
  /\ Announcing
  /\ nextId < MaxIds
  /\ ~NeedsYubiKey(m.type)
  /\ AddSlotCheck(m) = "ok"
  /\ EnrollCheck(m) = "ok"
  /\ env' = [env EXCEPT !.slots = Append(@, wrapDEK(m, nextId, held))]
  /\ nextId' = nextId + 1
  /\ op' = [op EXCEPT !.before = env']
  /\ ret' = "added"
  /\ UNCHANGED <<file, held, ctxDone, damage>>

(* The first slot with the given ID, or 0.                                 *)
IndexOf(slots, id) ==
  IF \E i \in DOMAIN slots : slots[i].meta.id = id
  THEN CHOOSE i \in DOMAIN slots :
         /\ slots[i].meta.id = id
         /\ \A j \in 1..(i - 1) : slots[j].meta.id # id
  ELSE 0

(* Mutant: only the last slot is protected, not the last primary.          *)
RemoveSlotCheckCountOnly(slots, idx) ==
  IF idx = 0 THEN "ErrSlotNotFound"
  ELSE IF Len(slots) <= 1 THEN "ErrPolicyUnsafe"
  ELSE "ok"

RemoveSlotCheck(slots, idx) ==
  IF idx = 0 THEN "ErrSlotNotFound"
  ELSE IF Len(slots) <= 1 THEN "ErrPolicyUnsafe"
  ELSE IF slots[idx].meta.type # "recovery" /\ primarySlotCount(slots) <= 1
       THEN "ErrPolicyUnsafe"
  ELSE "ok"

(* Mutant: the slot before the one found goes.                             *)
WithoutNeighbour(slots, idx) ==
  [i \in 1..(Len(slots) - 1) |-> IF i < idx - 1 THEN slots[i] ELSE slots[i + 1]]

Without(slots, idx) ==
  [i \in 1..(Len(slots) - 1) |-> IF i < idx THEN slots[i] ELSE slots[i + 1]]

(* By itself, or from the callback of an AddSlot in flight.                *)
RemoveSlot(id) ==
  /\ op = NoOp \/ Announcing
  /\ env # None
  /\ LET idx == IndexOf(env.slots, id)
     IN  IF RemoveSlotCheck(env.slots, idx) = "ok"
         THEN /\ env' = [env EXCEPT !.slots = Without(@, idx)]
              /\ ret' = "removed"
         ELSE UNCHANGED env /\ ret' = RemoveSlotCheck(env.slots, idx)
  /\ op' = IF op = NoOp THEN NoOp ELSE [op EXCEPT !.before = env']
  /\ UNCHANGED <<file, held, ctxDone, nextId, damage>>

-----------------------------------------------------------------------------
(* Marshal, ParseEnvelope and the file in between *)

Marshalable(slots) == Len(slots) \in 1..MaxSlots

(* Marshal and the application's atomic write.                             *)
Save ==
  /\ op = NoOp
  /\ env # None
  /\ IF Marshalable(env.slots)
     THEN file' = env /\ ret' = "saved"
     ELSE UNCHANGED file /\ ret' = "ErrMalformed"
  /\ UNCHANGED <<env, held, op, ctxDone, nextId, damage>>

Parses(bytes) ==
  /\ Len(bytes.slots) \in 1..MaxSlots
  /\ \A i \in DOMAIN bytes.slots : validateSlotShape(bytes.slots[i].meta)

(* ParseEnvelope on the persisted bytes.  A careful caller holds no data   *)
(* key of another envelope when it starts to work on this one.             *)
Parse ==
  /\ op = NoOp
  /\ file # None
  /\ MixKeys \/ held = None
  /\ IF Parses(file)
     THEN env' = file /\ ret' = "parsed"
     ELSE UNCHANGED env /\ ret' = "ErrMalformed"
  /\ UNCHANGED <<file, held, op, ctxDone, nextId, damage>>

-----------------------------------------------------------------------------
(* Unlock: slots in order, for each the methods of its type *)

Unlock(ms) ==
  /\ op = NoOp
  /\ env # None
  /\ UnlockReturns(ms, env.slots, ret', held', held)
  /\ UNCHANGED <<env, file, op, ctxDone, nextId, damage>>

-----------------------------------------------------------------------------
(* Environment *)

(* The process stops: all of memory is gone, the file is not.              *)
Crash ==
  /\ env' = None
  /\ held' = None
  /\ Return("none")
  /\ UNCHANGED <<file, nextId, damage>>

(* One field of one slot is no longer what was written.  The new ID 0 is   *)
(* one no enrollment drew.                                                 *)
Damaged(s) ==
  {[s EXCEPT !.meta.type = t] : t \in MethodTypes}
    \cup {[s EXCEPT !.meta.id = 0]}
    \cup {[s EXCEPT !.meta.yk = y] : y \in {0, 3}}
    \cup {[s EXCEPT !.meta.kdf = k] : k \in {"none", "ok2", "refused"}}
    \cup {[s EXCEPT !.meta.rest = "changed"]}
    \cup {[s EXCEPT !.box.intact = FALSE]}

Damage ==
  /\ file # None
  /\ damage < MaxDamage
  /\ damage' = damage + 1
  /\ \/ \E i \in DOMAIN file.slots :
          \E s \in Damaged(file.slots[i]) \ {file.slots[i]} :
            file' = [file EXCEPT !.slots[i] = s]
     \/ \E p \in Policies \cup {PolicyInvalid} :
          p # file.hint /\ file' = [file EXCEPT !.hint = p]
  /\ UNCHANGED <<env, held, op, ctxDone, nextId, ret>>

-----------------------------------------------------------------------------
(* Specification *)

Init ==
  /\ env = None
  /\ file = None
  /\ held = None
  /\ op = NoOp
  /\ ctxDone = FALSE
  /\ nextId = 1
  /\ damage = 0
  /\ ret = "none"

Next ==
  \/ \E d \in DataKeys : GenerateDEK(d)
  \/ DestroyDEK
  \/ Cancel
  \/ \E p \in Policies \cup {PolicyInvalid}, ms \in MethodLists :
       NewEnvelope(p, ms)
  \/ EnrollNext
  \/ FinishNewEnvelope
  \/ \E m \in Callers : AddSlot(m)
  \/ EnrollAdded
  \/ \E m \in Callers : AddSlotInCallback(m)
  \/ \E id \in 0..MaxIds : RemoveSlot(id)
  \/ Save
  \/ Parse
  \/ \E ms \in MethodLists : Unlock(ms)
  \/ Crash
  \/ Damage

Spec == Init /\ [][Next]_vars

-----------------------------------------------------------------------------
(* Properties *)

CallsInFlight ==
  [name : {"NewEnvelope", "AddSlot"}, policy : Policies \cup {PolicyInvalid},
   methods : Seq(Callers), dek : DataKeys,
   slots : Seq(SlotRecords), before : Envelopes \cup {None}]

(* Every variable keeps its type.  In particular a slot always wraps a     *)
(* data key: one whose container was destroyed between the length check of *)
(* NewEnvelope or AddSlot and the seal never ends up wrapped as empty.     *)
TypeOK ==
  /\ env \in Envelopes \cup {None}
  /\ file \in Envelopes \cup {None}
  /\ held \in DataKeys \cup {None}
  /\ op \in {NoOp} \cup CallsInFlight
  /\ op.name = "AddSlot" =>
       env # None /\ Len(op.methods) = 1 /\ op.slots = <<>>
  /\ op.name = "NewEnvelope" => Len(op.slots) <= Len(op.methods)
  /\ ctxDone \in BOOLEAN
  /\ nextId \in Nat
  /\ damage \in 0..MaxDamage
  /\ ret \in Errors \cup Successes \cup {"none"}

Known == {env, file} \ {None}

(* RemoveSlot's and AddSlot's guards together with NewEnvelope's policy    *)
(* check: while the file is as written, every envelope in memory and on    *)
(* disk has a primary slot and all its primary slots imply the policy it   *)
(* was created with, whatever was added and removed and however often it   *)
(* went through the file.                                                  *)
PolicyHolds ==
  damage = 0 =>
    \A e \in Known : e.hint \in Policies /\ EffectivePolicy(e.slots) = e.hint

(* The slots of every envelope, and those NewEnvelope is enrolling.        *)
Lists == {e.slots : e \in Known} \cup {op.slots}

(* On every list of slots that is reached, mixed ones that NewEnvelope     *)
(* enrolled and ones with types changed at rest included, the loop of      *)
(* EffectivePolicy with its early return computes the policy all primary   *)
(* slots share.                                                            *)
PolicyLoopAgrees ==
  \A ss \in Lists : EffectivePolicyLoop(ss) = EffectivePolicy(ss)

(* AddSlot compares policies before an Enroll that waits for a touch, and  *)
(* appends after it.  Whatever the touch callback added to and removed     *)
(* from the same envelope in between, the slot still fits when it is       *)
(* appended, and so it does in NewEnvelope.                                *)
ChecksStillHold ==
  /\ op.name = "NewEnvelope" => op.policy \in Policies
  /\ op.name = "AddSlot" =>
       LET m == op.methods[1]
       IN  \/ m.type = "recovery"
           \/ policyForMethod(m.type) = EffectivePolicy(env.slots)

(* What was saved can be used after a restart: ParseEnvelope accepts it    *)
(* and each of its slots opens with a method some caller has.              *)
SavedEnvelopeOpens ==
  damage = 0 /\ file # None =>
    /\ Parses(file)
    /\ \A i \in DOMAIN file.slots : \E m \in Callers : Opens(m, file.slots[i])

(* "The envelope is self-describing and re-derivable without app-side      *)
(* config": the metadata of every slot as enrolled passes the checks that  *)
(* unlock makes before it derives a key from it.                           *)
Rederivable ==
  \A e \in Known : \A i \in DOMAIN e.slots :
    Unchanged(e.slots[i]) => Derivable(e.slots[i].meta)

(* AddSlot and RemoveSlot never change the policy of an envelope that has  *)
(* one, also when its file was changed at rest before it was parsed.       *)
PolicyStable ==
  [][ret' \in {"added", "removed"} /\ env # env'
       /\ EffectivePolicy(env.slots) # PolicyInvalid
     => EffectivePolicy(env'.slots) = EffectivePolicy(env.slots)]_vars

(* The steps at which a slot of this envelope goes: the one with the given *)
(* ID, all others are kept in order, and while nothing was changed at rest *)
(* no slot with that ID is left.                                           *)
Loses(id) ==
  /\ \E i \in DOMAIN env.slots :
       /\ env.slots[i].meta.id = id
       /\ env'.slots = SubSeq(env.slots, 1, i - 1)
                          \o SubSeq(env.slots, i + 1, Len(env.slots))
  /\ damage = 0 => \A i \in DOMAIN env'.slots : env'.slots[i].meta.id # id

(* The step at which a call of AddSlot ends well: all slots its caller left*)
(* are there in order, and the new one wraps the key the call was given    *)
(* and opens with the method it was given.                                 *)
Gains ==
  LET new == env'.slots[Len(env'.slots)]
  IN  /\ Len(env'.slots) = Len(op.before.slots) + 1
      /\ SubSeq(env'.slots, 1, Len(op.before.slots)) = op.before.slots
      /\ new.box.dek = op.dek
      /\ op.methods[1].kdf # "refused" => Opens(op.methods[1], new)

(* Adding or removing a slot never touches a sibling: RemoveSlot drops the *)
(* slot with the ID it was given and no other, and a whole call of AddSlot *)
(* only adds a slot for its own key and method, to whatever the touch      *)
(* callback made of the envelope meanwhile.                                *)
SiblingsUntouched ==
  [][/\ \A id \in 0..MaxIds : RemoveSlot(id) /\ env' # env => Loses(id)
     /\ EnrollAdded /\ ret' = "added" => Gains]_vars

(* A call that returns an error leaves the envelope as its caller left it  *)
(* at the start of the call, or from its touch callback, however many of   *)
(* its steps had succeeded.  The file is as it was, and the data key is    *)
(* still the caller's: what it passed, unless it destroyed that itself.    *)
FailureChangesNothing ==
  [][ret' \in Errors /\ (ret' # ret \/ op' # op) =>
       /\ UNCHANGED <<file, held>>
       /\ op = NoOp => UNCHANGED env
       /\ op # NoOp => env' = op.before /\ held \in {op.dek, None}]_vars

-----------------------------------------------------------------------------
(* The abstract store *)

View(e) ==
  IF e = None THEN None
  ELSE {[id   |-> e.slots[i].meta.id,
         kind |-> IF e.slots[i].meta.type = "recovery" THEN "recovery"
                  ELSE policyForMethod(e.slots[i].meta.type),
         dek  |-> e.slots[i].box.dek] : i \in DOMAIN e.slots}

Store == INSTANCE KeyslotStore
           WITH Ids <- Nat, Nothing <- None,
                memory <- View(env), disk <- View(file), key <- held

(* With a careful caller and an intact file, every step of a call, at      *)
(* whatever point it fails or the process stops, is one of the abstract    *)
(* store or none: slots of one policy around one key, in memory and on     *)
(* disk, with no half-done call ever visible.                              *)
StoreSpec == Store!Spec
=============================================================================
