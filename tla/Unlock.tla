-------------------------------- MODULE Unlock --------------------------------
(***************************************************************************)
(* One call of Envelope.Unlock, step by step (envelope.go, password.go,    *)
(* yubikey.go, recovery.go, method.go, combine.go): the loop over slots    *)
(* and methods, and inside a method the key derivation, the touch, the key *)
(* material, the KEK and the tag check, each of which may fail.            *)
(*                                                                         *)
(* Between any two steps the context may be cancelled, a YubiKey inserted  *)
(* or pulled out, and the owner of a password or recovery code may destroy *)
(* its container from another goroutine.                                   *)
(*                                                                         *)
(* A method's dev is not used here: the transport talks to the device that *)
(* is inserted at that moment.                                             *)
(***************************************************************************)
EXTENDS Keyslot

CONSTANTS
  SlotLists,    \* the slot lists of the envelopes to unlock
  MethodLists,  \* the method lists passed to Unlock
  MaxSwaps      \* bound: insertions and removals of a device during a call

ASSUME UnlockAssumption ==
  /\ SlotLists \subseteq Seq(SlotRecords)
  /\ MethodLists \subseteq Seq(Methods)
  /\ MaxSwaps \in Nat

VARIABLES
  slots, methods,  \* the arguments
  i, j,            \* the loop counters
  pc,              \* where the call is
  tmp,             \* the secrets the call has allocated: value or None
  deferred,        \* those a defer of the current method will destroy
  dek, ret,        \* the results
  ctxDone,         \* the context is cancelled or has expired
  inserted,        \* the YubiKey the transport reaches, or None
  destroyed,       \* secrets whose container the owner has destroyed
  swaps,           \* insertions and removals so far
  tried            \* history: pairs whose tag check failed, with the response

call == <<slots, methods>>
results == <<dek, ret>>
world == <<ctxDone, inserted, destroyed, swaps>>
vars == <<slots, methods, i, j, pc, tmp, deferred, dek, ret, ctxDone,
          inserted, destroyed, swaps, tried>>

(* What a method allocates on its way: the password key, the challenge of  *)
(* a two-factor slot, the response, the key material and the KEK.          *)
Temporaries == {"pk", "ch", "yr", "ikm", "kek"}

NoTemporaries == [t \in Temporaries |-> None]

slot == slots[i]
method == methods[j]

-----------------------------------------------------------------------------
(* Returning from the method, and from the call *)

Stop(code, key) ==
  /\ pc' = "done"
  /\ ret' = code
  /\ dek' = key
  /\ UNCHANGED <<i, j, tried>>

(* The deferred Destroys run on every return from the method.              *)
RunDefers ==
  /\ tmp' = [t \in Temporaries |-> IF t \in deferred THEN None ELSE tmp[t]]
  /\ deferred' = {}

(* An operational error surfaces at once.                                  *)
Fail(code) ==
  /\ RunDefers
  /\ Stop(code, None)

(* Mutant: a wrong secret moves on to the next slot, whatever other methods*)
(* there are for this one.                                                 *)
AuthFailedSkipsMethods ==
  /\ RunDefers
  /\ tried' = tried \cup {<<i, j, tmp["yr"]>>}
  /\ i' = i + 1
  /\ j' = 1
  /\ pc' = "next"
  /\ UNCHANGED results

(* ErrAuthFailed: keep trying the other pairs.                             *)
AuthFailed ==
  /\ RunDefers
  /\ tried' = tried \cup {<<i, j, tmp["yr"]>>}
  /\ j' = j + 1
  /\ pc' = "next"
  /\ UNCHANGED <<i, results>>

Goto(label) == pc' = label /\ UNCHANGED <<i, j, results, tried>>

(* A secret of the method: allocated, and destroyed or zeroed by a defer.  *)
Acquire(t, value) ==
  /\ tmp' = [tmp EXCEPT ![t] = value]
  /\ deferred' = deferred \cup {t}

-----------------------------------------------------------------------------
(* The loop *)

Begin ==
  /\ pc = "start"
  /\ IF methods = <<>> THEN Stop("ErrNoMethods", None) ELSE Goto("next")
  /\ UNCHANGED <<call, tmp, deferred, world>>

Matches == i <= Len(slots) /\ j <= Len(methods) /\ method.type = slot.meta.type

(* Mutant: the methods of a slot start where those of the last one ended.  *)
AdvanceWithoutReset ==
  /\ pc = "next"
  /\ ~Matches
  /\ IF i > Len(slots) THEN Stop("ErrAuthFailed", None)
     ELSE /\ IF j < Len(methods)
             THEN j' = j + 1 /\ UNCHANGED i
             ELSE i' = i + 1 /\ UNCHANGED j
          /\ UNCHANGED <<pc, results, tried>>
  /\ UNCHANGED <<call, tmp, deferred, world>>

(* To the next pair of the two nested loops.                               *)
Advance ==
  /\ pc = "next"
  /\ ~Matches
  /\ IF i > Len(slots) THEN Stop("ErrAuthFailed", None)
     ELSE /\ IF j < Len(methods)
             THEN j' = j + 1 /\ UNCHANGED i
             ELSE i' = i + 1 /\ j' = 1
          /\ UNCHANGED <<pc, results, tried>>
  /\ UNCHANGED <<call, tmp, deferred, world>>

(* Mutant: the touch is announced before the password key is derived.      *)
TryAnnouncesFirst ==
  /\ pc = "next"
  /\ Matches
  /\ IF ctxDone THEN Stop("ctx", None)
     ELSE IF NeedsYubiKey(method.type) /\ ~slotValid(slot.meta.yk)
     THEN Stop("ErrMalformed", None)
     ELSE Goto(CASE NeedsYubiKey(method.type)     -> "announce"
                 [] method.type = "password"      -> "derive"
                 [] method.type = "recovery"      -> "ikm")
  /\ UNCHANGED <<call, tmp, deferred, world>>

(* The context check of the loop and of the method, and the YubiKey        *)
(* method's check of the OTP slot stored in the slot.                      *)
Try ==
  /\ pc = "next"
  /\ Matches
  /\ IF ctxDone THEN Stop("ctx", None)
     ELSE IF NeedsYubiKey(method.type) /\ ~slotValid(slot.meta.yk)
     THEN Stop("ErrMalformed", None)
     ELSE Goto(CASE NeedsPassword(method.type)  -> "derive"
                 [] method.type = "yubikey"     -> "announce"
                 [] method.type = "recovery"    -> "ikm")
  /\ UNCHANGED <<call, tmp, deferred, world>>

-----------------------------------------------------------------------------
(* The steps of a method *)

Derive ==
  /\ pc = "derive"
  /\ \/ slot.meta.kdf = "none" /\ Fail("ErrMalformed")
     \/ slot.meta.kdf = "refused" /\ Fail("ErrKDFParams")
     \/ /\ slot.meta.kdf \in {"ok", "ok2"}
        /\ method.pw \in destroyed
        /\ Fail("ErrDestroyed")
     \/ /\ slot.meta.kdf \in {"ok", "ok2"}
        /\ Fail("system")
     \/ /\ slot.meta.kdf \in {"ok", "ok2"}
        /\ method.pw \notin destroyed
        /\ Acquire("pk", PasswordKey(method.pw, slot.meta))
        /\ Goto(IF method.type = "password+yubikey" THEN "challenge" ELSE "ikm")
  /\ UNCHANGED <<call, world>>

(* The challenge of a two-factor slot is computed from the password key    *)
(* into a buffer that the method's defer zeroes, or HKDF fails.            *)
DeriveChallenge ==
  /\ pc = "challenge"
  /\ \/ Fail("system")
     \/ /\ Acquire("ch", deriveChallenge(tmp["pk"], slot.meta))
        /\ Goto("announce")
  /\ UNCHANGED <<call, world>>

(* What is sent to the device: that buffer, or the challenge stored in the *)
(* slot when no password is involved.                                      *)
challenge ==
  IF NeedsPassword(method.type) THEN tmp["ch"]
  ELSE deriveChallenge(None, slot.meta)

(* The touch callback.                                                     *)
Announce ==
  /\ pc = "announce"
  /\ Goto("respond")
  /\ UNCHANGED <<call, tmp, deferred, world>>

(* The user touches the inserted device and its response arrives.          *)
Touch ==
  /\ pc = "respond"
  /\ ~ctxDone
  /\ inserted # None
  /\ Acquire("yr", Response(inserted, slot.meta.yk, challenge))
  /\ Goto("ikm")
  /\ UNCHANGED <<call, world>>

(* Mutant: the wait for a touch does not watch the context.                *)
NoResponseWaits ==
  /\ pc = "respond"
  /\ inserted = None
  /\ Fail("ErrNoDevice")
  /\ UNCHANGED <<call, world>>

(* The transport gives up: the context is done, or no device is there.     *)
NoResponse ==
  /\ pc = "respond"
  /\ \/ ctxDone /\ Fail("ErrTouchTimeout")
     \/ ~ctxDone /\ inserted = None /\ Fail("ErrNoDevice")
  /\ UNCHANGED <<call, world>>

(* The tool fails, the OTP slot is not programmed, mlock is refused.       *)
TransportError ==
  /\ pc = "respond"
  /\ Fail("transport")
  /\ UNCHANGED <<call, world>>

(* buildIKM: allocate, then copy each role in; a role that was destroyed   *)
(* destroys the buffer again.  deriveKEK's defer owns it from here.        *)
FillIKM ==
  /\ pc = "ikm"
  /\ \/ Fail("system")
     \/ method.type = "recovery" /\ method.rc \in destroyed /\ Fail("ErrDestroyed")
     \/ /\ method.type = "recovery" => method.rc \notin destroyed
        /\ Acquire("ikm", buildIKM(tmp["pk"], tmp["yr"],
                       IF method.type = "recovery" THEN method.rc ELSE None))
        /\ Goto("kek")
  /\ UNCHANGED <<call, world>>

(* Mutant: no defer destroys the KEK.                                      *)
MakeKEKWithoutDefer ==
  /\ pc = "kek"
  /\ \/ Fail("system")
     \/ /\ tmp' = [tmp EXCEPT !["kek"] = deriveKEK(tmp["ikm"], slot.meta),
                              !["ikm"] = None]
        /\ deferred' = deferred \ {"ikm"}
        /\ Goto("open")
  /\ UNCHANGED <<call, world>>

(* deriveKEK returns: the key material is destroyed, the KEK is unwrapDEK's*)
(* to destroy.                                                             *)
MakeKEK ==
  /\ pc = "kek"
  /\ \/ Fail("system")
     \/ /\ tmp' = [tmp EXCEPT !["kek"] = deriveKEK(tmp["ikm"], slot.meta),
                              !["ikm"] = None]
        /\ deferred' = (deferred \cup {"kek"}) \ {"ikm"}
        /\ Goto("open")
  /\ UNCHANGED <<call, world>>

(* Mutant: a failure to allocate the result is dropped.                    *)
OpenDropsError ==
  /\ pc = "open"
  /\ IF Verifies(slot.box, tmp["kek"], slot.meta)
     THEN RunDefers /\ \E key \in {None, slot.box.dek} : Stop("ok", key)
     ELSE AuthFailed
  /\ UNCHANGED <<call, world>>

Open ==
  /\ pc = "open"
  /\ IF Verifies(slot.box, tmp["kek"], slot.meta)
     THEN \/ Fail("system")
          \/ RunDefers /\ Stop("ok", slot.box.dek)
     ELSE AuthFailed
  /\ UNCHANGED <<call, world>>

-----------------------------------------------------------------------------
(* Environment *)

Cancel ==
  /\ pc # "done"
  /\ ~ctxDone
  /\ ctxDone' = TRUE
  /\ UNCHANGED <<call, i, j, pc, tmp, deferred, results, inserted, destroyed,
                 swaps, tried>>

Swap ==
  /\ pc # "done"
  /\ swaps < MaxSwaps
  /\ swaps' = swaps + 1
  /\ inserted' \in (Devices \cup {None}) \ {inserted}
  /\ UNCHANGED <<call, i, j, pc, tmp, deferred, results, ctxDone, destroyed,
                 tried>>

DestroySecret ==
  /\ pc # "done"
  /\ \E x \in (Passwords \cup Codes) \ destroyed :
       destroyed' = destroyed \cup {x}
  /\ UNCHANGED <<call, i, j, pc, tmp, deferred, results, ctxDone, inserted,
                 swaps, tried>>

-----------------------------------------------------------------------------
(* Specification *)

Init ==
  /\ slots \in SlotLists
  /\ methods \in MethodLists
  /\ i = 1 /\ j = 1
  /\ pc = "start"
  /\ tmp = NoTemporaries
  /\ deferred = {}
  /\ dek = None
  /\ ret = "none"
  /\ ctxDone = FALSE
  /\ inserted \in Devices \cup {None}
  /\ destroyed = {}
  /\ swaps = 0
  /\ tried = {}

(* What the goroutine does without waiting for anyone.                     *)
Proceed ==
  \/ Begin
  \/ Advance
  \/ Try
  \/ Derive
  \/ DeriveChallenge
  \/ Announce
  \/ NoResponse
  \/ FillIKM
  \/ MakeKEK
  \/ Open

Returned == pc = "done" /\ UNCHANGED vars

Next ==
  \/ Proceed
  \/ Touch
  \/ TransportError
  \/ Cancel
  \/ Swap
  \/ DestroySecret
  \/ Returned

(* The goroutine is scheduled; nobody promises a touch, and only the       *)
(* caller's context bounds the wait for one.                               *)
Fairness == WF_vars(Proceed)

Spec == Init /\ [][Next]_vars /\ Fairness

-----------------------------------------------------------------------------
(* Properties *)

TypeOK ==
  /\ i \in 1..(Len(slots) + 1)
  /\ j \in 1..(Len(methods) + 1)
  /\ pc \in {"start", "next", "derive", "challenge", "announce", "respond",
             "ikm", "kek", "open", "done"}
  /\ tmp["pk"] \in PasswordKeys \cup {None}
  /\ tmp["ch"] \in Challenges \cup {None}
  /\ tmp["yr"] \in Responses \cup {None}
  /\ tmp["ikm"] \in IKMs \cup {None}
  /\ tmp["kek"] \in KEKs \cup {None}
  /\ deferred \subseteq Temporaries
  /\ dek \in DataKeys \cup {None}
  /\ dek # None <=> ret = "ok"
  /\ inserted \in Devices \cup {None}

(* Every intermediate secret is destroyed as soon as it is no longer       *)
(* needed: no password key, 2FA challenge, YubiKey response, key material  *)
(* or KEK outlives the method that made it, on any of its return paths.    *)
NothingLeftBehind == pc \in {"start", "next", "done"} => tmp = NoTemporaries

(* A key is returned only from a slot that is byte for byte as enrolled,   *)
(* by a method of its type whose factors are the ones it was enrolled with.*)
KeyIsGenuine ==
  ret = "ok" =>
    /\ Unchanged(slot)
    /\ dek = slot.box.dek
    /\ method.type = slot.box.aad.type
    /\ NeedsPassword(method.type) =>
         method.pw = slot.box.kek.ikm.password.pw
    /\ method.type = "recovery" => method.rc = slot.box.kek.ikm.recovery

(* ErrAuthFailed is a verdict on every pair: each slot was tried with each *)
(* method of its type, and none of them opens with the secrets presented.  *)
(* An operational error or a context that was done never ends as "wrong    *)
(* secret", and no openable slot was passed over.                          *)
AuthFailedIsComplete ==
  ret = "ErrAuthFailed" =>
    \A a \in DOMAIN slots, b \in DOMAIN methods :
      slots[a].meta.type = methods[b].type =>
        /\ \E t \in tried : t[1] = a /\ t[2] = b
        /\ ~NeedsYubiKey(methods[b].type) => ~Opens(methods[b], slots[a])
        /\ \A t \in tried : t[1] = a /\ t[2] = b /\ t[3] # None =>
             ~Opens([methods[b] EXCEPT !.dev = t[3].dev], slots[a])

(* The methods with the YubiKey that is inserted.                          *)
Inserted(ms) ==
  [b \in DOMAIN ms |-> IF NeedsYubiKey(ms[b].type) /\ inserted # None
                       THEN [ms[b] EXCEPT !.dev = inserted] ELSE ms[b]]

Outcome ==
  CASE ret = "ok"                              -> "unlocked"
    [] ret \in {"ErrAuthFailed", "ErrNoMethods"} -> ret
    [] OTHER                                   -> "system"

(* The call, with whatever else goes on meanwhile as long as one device    *)
(* stays where it is, returns what Envelope's one-step Unlock allows: the  *)
(* key of the first slot that a method opens, ErrAuthFailed only if there  *)
(* is none, another error only if some method was tried.                   *)
ReturnsAsEnvelope ==
  pc = "done" /\ swaps = 0 =>
    UnlockReturns(Inserted(methods), slots, Outcome, dek, None)

(* A touch is asked for at the right moment: after the password key of a   *)
(* two-factor slot and the challenge made of it exist, and with nothing    *)
(* derived from a device yet.                                              *)
TouchAfterDerivation ==
  pc \in {"announce", "respond"} =>
    /\ tmp["yr"] = None /\ tmp["ikm"] = None /\ tmp["kek"] = None
    /\ slot.meta.type = "password+yubikey" <=> tmp["pk"] # None
    /\ tmp["ch"] = IF slot.meta.type = "password+yubikey"
                   THEN deriveChallenge(tmp["pk"], slot.meta) ELSE None

(* A cancelled call returns, whether or not a device is there and whether  *)
(* or not anyone touches it.                                               *)
CancelReturns == ctxDone ~> (pc = "done")

(* "A wrong secret / tampered slot is uniform ErrAuthFailed - keep trying  *)
(* other slots": a slot changed at rest never keeps a sibling that opens   *)
(* from being tried.                                                       *)
DamagedSlotIsSkipped ==
  ret = "ErrMalformed" =>
    \A a \in DOMAIN slots, b \in DOMAIN methods : ~Opens(methods[b], slots[a])
=============================================================================
