----------------------------- MODULE UnlockProofs -----------------------------
(***************************************************************************)
(* Theorems about Unlock, for every envelope, every list of methods and    *)
(* every interleaving of the call with its context, the YubiKeys that come *)
(* and go and the owners that destroy their secrets.                       *)
(*                                                                         *)
(* The inductive invariant says what the call knows at each of its steps:  *)
(* what is in its containers and which of them a defer will destroy        *)
(* (Containers, Work), what became of the pairs before the current one     *)
(* (History), and what its results mean (Verdict).                         *)
(***************************************************************************)
EXTENDS Unlock, TLAPS

-----------------------------------------------------------------------------
(* The pairs of a slot and a method *)

Paired(a, b) ==
  /\ a \in DOMAIN slots
  /\ b \in DOMAIN methods
  /\ methods[b].type = slots[a].meta.type

pkOf(a, b) ==
  IF NeedsPassword(methods[b].type)
  THEN PasswordKey(methods[b].pw, slots[a].meta) ELSE None

rcOf(b) == IF methods[b].type = "recovery" THEN methods[b].rc ELSE None

ResponseOf(d, a, b) ==
  Response(d, slots[a].meta.yk, deriveChallenge(pkOf(a, b), slots[a].meta))

(* r is what some device answered, the inserted one if none was swapped.   *)
Answer(a, b, r) ==
  IF NeedsYubiKey(methods[b].type)
  THEN \E d \in Devices : /\ r = ResponseOf(d, a, b)
                          /\ swaps = 0 => d = inserted
  ELSE r = None

KekOf(a, b, r) == deriveKEK(buildIKM(pkOf(a, b), r, rcOf(b)), slots[a].meta)

TagVerifies(a, b, r) == Verifies(slots[a].box, KekOf(a, b, r), slots[a].meta)

(* What is sent to the device for the pair comes from here.                *)
ChallengeOf(a, b) ==
  IF NeedsPassword(methods[b].type)
  THEN deriveChallenge(pkOf(a, b), slots[a].meta) ELSE None

(* Method b presented its factors to slot a, r being the YubiKey's.        *)
Presented(a, b, r) ==
  /\ Paired(a, b)
  /\ Derivable(slots[a].meta)
  /\ Answer(a, b, r)

-----------------------------------------------------------------------------
(* The inductive invariant *)

Working ==
  {"derive", "challenge", "announce", "respond", "ikm", "kek", "open"}
Derived == {"challenge", "announce", "respond", "ikm", "kek", "open"}
Asking == {"challenge", "announce", "respond"}
Answered == {"ikm", "kek", "open"}

Types ==
  /\ slots \in SlotLists
  /\ methods \in MethodLists
  /\ i \in 1..(Len(slots) + 1)
  /\ j \in 1..(Len(methods) + 1)
  /\ pc \in {"start", "next", "done"} \cup Working
  /\ tmp = [t \in Temporaries |-> tmp[t]]
  /\ deferred \subseteq Temporaries
  /\ inserted \in Devices \cup {None}
  /\ swaps \in Nat

(* A container the call has allocated is a defer's to destroy.             *)
Allocated ==
  /\ \A t \in Temporaries \ deferred : tmp[t] = None
  /\ pc \notin Derived => deferred = {}

(* Inside a method: the pair, and what its containers hold so far.         *)
Work ==
  /\ pc \in Working =>
       /\ Paired(i, j)
       /\ NeedsYubiKey(method.type) => slotValid(slot.meta.yk)
  /\ pc = "derive" => NeedsPassword(method.type)
  /\ pc \in Derived =>
       /\ Derivable(slot.meta)
       /\ tmp["pk"] = pkOf(i, j)
       /\ tmp["ch"] \in {None, ChallengeOf(i, j)}
  /\ pc = "challenge" => NeedsPassword(method.type)
  /\ pc \in {"announce", "respond"} => tmp["ch"] = ChallengeOf(i, j)
  /\ pc \in Asking =>
       /\ NeedsYubiKey(method.type)
       /\ tmp["yr"] = None
  /\ pc \in Asking \cup {"ikm"} => tmp["ikm"] = None /\ tmp["kek"] = None
  /\ pc \in Answered => Answer(i, j, tmp["yr"])
  /\ pc = "kek" =>
       /\ tmp["ikm"] = buildIKM(pkOf(i, j), tmp["yr"], rcOf(j))
       /\ tmp["kek"] = None
  /\ pc = "open" =>
       /\ tmp["ikm"] = None
       /\ tmp["kek"] = KekOf(i, j, tmp["yr"])

(* Every pair before the current one was tried, and its tag refused.       *)
History ==
  /\ \A t \in tried : /\ Presented(t[1], t[2], t[3])
                      /\ ~TagVerifies(t[1], t[2], t[3])
  /\ \A a, b \in Nat : Paired(a, b) /\ (a < i \/ (a = i /\ b < j)) =>
       \E t \in tried : t[1] = a /\ t[2] = b

(* What each result says about the pair where the call ended.              *)
Verdict ==
  /\ ret = "none" <=> pc # "done"
  /\ ret # "ok" => dek = None
  /\ ret = "ok" =>
       /\ dek = slot.box.dek
       /\ \E r \in Responses \cup {None} :
            Presented(i, j, r) /\ TagVerifies(i, j, r)
  /\ ret = "ErrNoMethods" => methods = <<>>
  /\ ret = "ErrAuthFailed" => methods # <<>> /\ i > Len(slots)
  /\ pc = "next" => methods # <<>>
  /\ ret \notin {"none", "ok", "ErrNoMethods", "ErrAuthFailed"} => Paired(i, j)

IInv == Types /\ Allocated /\ Work /\ History /\ Verdict

-----------------------------------------------------------------------------
(* The arguments *)

(* Slots and methods are sequences of records.                             *)
LEMMA Arguments ==
  ASSUME Types
  PROVE  /\ Len(slots) \in Nat /\ DOMAIN slots = 1..Len(slots)
         /\ Len(methods) \in Nat /\ DOMAIN methods = 1..Len(methods)
         /\ \A a \in DOMAIN slots : slots[a] \in SlotRecords
         /\ \A b \in DOMAIN methods : methods[b] \in Methods
         /\ Len(methods) = 0 <=> methods = <<>>
<1>1. slots \in Seq(SlotRecords) /\ methods \in Seq(Methods)
  BY UnlockAssumption DEF Types
<1> QED
  BY <1>1

(* The type of a pair is one of the four.                                  *)
LEMMA Kinds ==
  ASSUME Types, Matches
  PROVE  /\ method.type \in MethodTypes
         /\ i \in DOMAIN slots /\ j \in DOMAIN methods
  BY Arguments DEF Types, Matches, method, Methods

(* A recorded answer is a response or, for a method without YubiKey, none. *)
LEMMA AnswerType ==
  ASSUME Types, NEW a \in DOMAIN slots, NEW b \in DOMAIN methods, NEW r,
         Answer(a, b, r)
  PROVE  r \in Responses \cup {None}
  BY Arguments DEF Answer, ResponseOf, Response, Responses, deriveChallenge,
      Challenges, pkOf, PasswordKey, PasswordKeys, SlotRecords, Metas, Methods,
      NeedsPassword, NeedsYubiKey

-----------------------------------------------------------------------------
(* The steps, seen from outside *)

(* What a step of the loop that enters a method leaves.                    *)
LEMMA TryIs ==
  ASSUME Types, Try
  PROVE  /\ UNCHANGED <<slots, methods, i, j, tried, tmp, deferred, inserted,
                        swaps>>
         /\ Paired(i, j)
         /\ \/ /\ pc' = "done" /\ dek' = None
               /\ ret' \in {"ctx", "ErrMalformed"}
            \/ /\ UNCHANGED results
               /\ NeedsYubiKey(method.type) => slotValid(slot.meta.yk)
               /\ \/ pc' = "derive" /\ NeedsPassword(method.type)
                  \/ pc' = "announce" /\ method.type = "yubikey"
                  \/ pc' = "ikm" /\ method.type = "recovery"
<1>1. /\ method.type \in MethodTypes
      /\ Paired(i, j)
  BY Kinds DEF Try, Matches, Paired, method, slot
<1>2. UNCHANGED <<slots, methods, i, j, tried, tmp, deferred, inserted, swaps>>
  BY DEF Try, Stop, Goto, call, world
<1>3. CASE ctxDone \/ (NeedsYubiKey(method.type) /\ ~slotValid(slot.meta.yk))
  BY <1>1, <1>2, <1>3 DEF Try, Stop, Goto
<1>4. CASE ~(ctxDone \/ (NeedsYubiKey(method.type) /\ ~slotValid(slot.meta.yk)))
  <2>1. UNCHANGED results
    BY <1>4 DEF Try, Goto
  <2>2. \/ pc' = "derive" /\ NeedsPassword(method.type)
        \/ pc' = "announce" /\ method.type = "yubikey"
        \/ pc' = "ikm" /\ method.type = "recovery"
    BY <1>1, <1>4 DEF Try, Goto, MethodTypes, NeedsPassword
  <2> QED
    BY <1>1, <1>2, <1>4, <2>1, <2>2
<1> QED
  BY <1>3, <1>4

(* A failing method runs its defers and ends the call.                     *)
LEMMA FailIs ==
  ASSUME NEW code, Fail(code)
  PROVE  /\ tmp' = [t \in Temporaries |-> tmp'[t]]
         /\ deferred' = {}
         /\ pc' = "done"
         /\ UNCHANGED <<i, j, tried>>
BY DEF Fail, RunDefers, Stop

(* Where the tag decides, it is the tag of the current pair.               *)
LEMMA OpenIs ==
  ASSUME IInv, Open
  PROVE  \/ UNCHANGED <<i, j, tried>>
         \/ AuthFailed /\ ~TagVerifies(i, j, tmp["yr"])
BY DEF IInv, Work, Open, TagVerifies, slot, Fail, RunDefers, Stop

-----------------------------------------------------------------------------
(* The steps *)

(* Unlock refuses an empty list of methods, else the loop starts.          *)
LEMMA BeginStep ==
  ASSUME IInv, Begin
  PROVE  IInv'
<1>1. Types'
  BY DEF IInv, Types, Working, Begin, Stop, Goto, results, call, world
<1>2. Allocated'
  BY DEF IInv, Types, Allocated, Working, Asking, Derived, Begin, Stop, Goto,
      results, call, world
<1>3. Work'
  BY DEF IInv, Types, Work, Working, Asking, Derived, Answered, slot, method,
      Paired, pkOf, ChallengeOf, rcOf, ResponseOf, Answer, KekOf, Begin, Stop,
      Goto, results, call, world
<1>4. History'
  BY DEF IInv, Types, History, Working, Paired, pkOf, ChallengeOf, rcOf,
      ResponseOf, Answer, KekOf, TagVerifies, Presented, Begin, Stop, Goto,
      results, call, world
<1>5. Verdict'
  BY DEF IInv, Types, Verdict, Working, slot, method, Paired, pkOf,
      ChallengeOf, rcOf, ResponseOf, Answer, KekOf, TagVerifies, Presented,
      Begin, Stop, Goto, results, call, world
<1> QED
  BY <1>1, <1>2, <1>3, <1>4, <1>5 DEF IInv

(* The loop passes over a pair of different types, or ends.                *)
LEMMA AdvanceStep ==
  ASSUME IInv, Advance
  PROVE  IInv'
<1>1. Types'
  BY DEF IInv, Types, Working, Advance, Matches, method, slot, Stop, results,
      call, world
<1>2. Allocated'
  BY DEF IInv, Types, Allocated, Working, Asking, Derived, Advance, Matches,
      method, slot, Stop, results, call, world
<1>3. Work'
  BY DEF IInv, Types, Work, Working, Asking, Derived, Answered, slot, method,
      Paired, pkOf, ChallengeOf, rcOf, ResponseOf, Answer, KekOf, Advance,
      Matches, Stop, results, call, world
<1>4. History'
  <2>1. UNCHANGED <<slots, methods, tried, swaps, inserted>>
    BY DEF Advance, Stop, call, results, world
  <2>2. \A t \in tried' : /\ Presented(t[1], t[2], t[3])'
                          /\ ~TagVerifies(t[1], t[2], t[3])'
    BY <2>1 DEF IInv, History, Presented, Paired, Answer, ResponseOf, pkOf,
        rcOf, KekOf, TagVerifies
  <2>3. ASSUME NEW a \in Nat, NEW b \in Nat, Paired(a, b),
               a < i' \/ (a = i' /\ b < j')
        PROVE  \E t \in tried : t[1] = a /\ t[2] = b
    <3>1. a < i \/ (a = i /\ b < j)
      <4>1. /\ Len(slots) \in Nat /\ Len(methods) \in Nat
            /\ DOMAIN slots = 1..Len(slots) /\ DOMAIN methods = 1..Len(methods)
            /\ i \in Nat /\ j \in Nat
        <5>1. slots \in Seq(SlotRecords) /\ methods \in Seq(Methods)
          BY UnlockAssumption DEF IInv, Types
        <5> QED
          BY <5>1 DEF IInv, Types
      <4>2. a <= Len(slots) /\ b \in 1..Len(methods)
        BY <2>3, <4>1 DEF Paired
      <4>3. CASE i > Len(slots)
        BY <2>3, <4>3 DEF Advance, Stop
      <4>4. CASE ~(i > Len(slots))
        <5>1. ~Matches
          BY DEF Advance
        <5>2. ASSUME a = i, b = j PROVE FALSE
          <6>1. methods[j].type = slots[i].meta.type
            BY <2>3, <5>2 DEF Paired
          <6>2. i <= Len(slots) /\ j <= Len(methods)
            BY <4>2, <5>2
          <6> QED
            BY <5>1, <6>1, <6>2 DEF Matches, method, slot
        <5>3. CASE j < Len(methods) /\ j' = j + 1 /\ i' = i
          BY <2>3, <4>1, <5>2, <5>3
        <5>4. CASE ~(j < Len(methods)) /\ i' = i + 1 /\ j' = 1
          BY <2>3, <4>1, <4>2, <5>2, <5>4
        <5> QED
          BY <4>4, <5>3, <5>4 DEF Advance
      <4> QED
        BY <4>3, <4>4
    <3> QED
      BY <2>3, <3>1 DEF IInv, History
  <2>4. \A a, b : Paired(a, b)' = Paired(a, b)
    BY <2>1 DEF Paired
  <2> QED
    BY <2>1, <2>2, <2>3, <2>4 DEF History
<1>5. Verdict'
  BY DEF IInv, Types, Verdict, Working, slot, method, Paired, pkOf,
      ChallengeOf, rcOf, ResponseOf, Answer, KekOf, TagVerifies, Presented,
      Advance, Matches, Stop, results, call, world
<1> QED
  BY <1>1, <1>2, <1>3, <1>4, <1>5 DEF IInv

(* The loop enters a method, unless the context is done.                   *)
LEMMA TryStep ==
  ASSUME IInv, Try
  PROVE  IInv'
<1>1. Types'
  BY TryIs DEF IInv, Types, Working
<1>2. Allocated'
  BY DEF IInv, Types, Allocated, Working, Asking, Derived, Try, Matches,
      method, slot, Stop, Goto, results, call, world
<1>3. Work'
  <2>1. tmp = NoTemporaries
    BY DEF IInv, Types, Allocated, Derived, NoTemporaries, Try
  <2>2. Derivable(slot.meta) \/ pc' \in {"derive", "done"}
    BY TryIs DEF IInv, Types, Derivable, KDFAccepted, OTPSlotAccepted,
        NeedsPassword, Paired, slot, method
  <2>3. /\ pc' \in {"announce", "ikm"} =>
             pkOf(i, j) = None /\ ChallengeOf(i, j) = None
        /\ pc' = "ikm" => Answer(i, j, None)
    BY TryIs DEF IInv, pkOf, ChallengeOf, Answer, NeedsPassword, NeedsYubiKey,
        method
  <2>4. /\ Paired(i, j)'
        /\ pkOf(i, j)' = pkOf(i, j)
        /\ ChallengeOf(i, j)' = ChallengeOf(i, j)
        /\ Answer(i, j, None)' <=> Answer(i, j, None)
    BY TryIs DEF IInv, Paired, pkOf, ChallengeOf, rcOf, ResponseOf, Answer,
        KekOf
  <2>5. slot' = slot /\ method' = method
    BY TryIs DEF IInv, slot, method
  <2>6. /\ tmp'["pk"] = None /\ tmp'["ch"] = None /\ tmp'["yr"] = None
        /\ tmp'["ikm"] = None /\ tmp'["kek"] = None
    BY <2>1, TryIs DEF IInv, NoTemporaries, Temporaries
  <2>7. pc' = "announce" => NeedsYubiKey(method.type)
    BY TryIs DEF IInv, NeedsYubiKey
  <2> HIDE DEF Paired, pkOf, ChallengeOf, Answer
  <2> QED
    BY <2>2, <2>3, <2>4, <2>5, <2>6, <2>7, TryIs
       DEF IInv, Work, Working, Asking, Derived, Answered
<1>4. History'
  BY TryIs DEF IInv, History, Paired, pkOf, ChallengeOf, rcOf, ResponseOf,
      Answer, KekOf, TagVerifies, Presented
<1>5. Verdict'
  BY TryIs DEF IInv, Verdict, Try, Paired, pkOf, ChallengeOf, rcOf, ResponseOf,
      Answer, KekOf, TagVerifies, Presented, slot, method, results
<1> QED
  BY <1>1, <1>2, <1>3, <1>4, <1>5 DEF IInv

(* The password key, or one of the ways its derivation fails.              *)
LEMMA DeriveStep ==
  ASSUME IInv, Derive
  PROVE  IInv'
<1>1. Types'
  <2>1. CASE \E code : Fail(code)
    BY <2>1, FailIs DEF IInv, Types, Derive, call, world
  <2>2. CASE ~\E code : Fail(code)
    <3>1. /\ tmp' = [t \in Temporaries |-> tmp'[t]]
          /\ deferred' \subseteq Temporaries
          /\ pc' \in {"challenge", "ikm"}
          /\ UNCHANGED <<i, j>>
      BY <2>2 DEF IInv, Types, Derive, Acquire, Goto, Temporaries
    <3> QED
      BY <3>1 DEF IInv, Types, Working, Derive, call, world
  <2> QED
    BY <2>1, <2>2
<1>2. Allocated'
  <2>1. CASE \E code : Fail(code)
    BY <2>1 DEF IInv, Allocated, Derive, Fail, RunDefers, Stop, Derived
  <2>2. CASE ~\E code : Fail(code)
    <3>1. /\ tmp' = [tmp EXCEPT !["pk"] = PasswordKey(method.pw, slot.meta)]
          /\ deferred' = deferred \cup {"pk"}
          /\ pc' \in Derived
      BY <2>2 DEF Derive, Acquire, Goto, Derived
    <3> QED
      BY <3>1 DEF IInv, Types, Allocated, Temporaries
  <2> QED
    BY <2>1, <2>2
<1>3. Work'
  <2>1. CASE \E code : Fail(code)
    BY <2>1, FailIs DEF IInv, Work, Working, Asking, Derived, Answered, Derive,
        call, Paired, pkOf, ChallengeOf, rcOf, ResponseOf, Answer, KekOf
  <2>2. CASE ~\E code : Fail(code)
    <3>1. /\ slot.meta.kdf \in {"ok", "ok2"}
          /\ tmp' = [tmp EXCEPT !["pk"] = PasswordKey(method.pw, slot.meta)]
          /\ pc' = IF method.type = "password+yubikey"
                   THEN "challenge" ELSE "ikm"
          /\ UNCHANGED <<slots, methods, i, j, inserted, swaps>>
      BY <2>2 DEF Derive, Acquire, Goto, call, world
    <3>2. /\ Paired(i, j)
          /\ NeedsPassword(method.type)
          /\ NeedsYubiKey(method.type) => slotValid(slot.meta.yk)
      BY DEF IInv, Work, Working, Derive
    <3>3. tmp = NoTemporaries
      BY DEF IInv, Types, Allocated, Derived, NoTemporaries, Derive
    <3>4. /\ tmp'["pk"] = pkOf(i, j)
          /\ tmp'["ch"] = None /\ tmp'["yr"] = None
          /\ tmp'["ikm"] = None /\ tmp'["kek"] = None
      BY <3>1, <3>2, <3>3 DEF NoTemporaries, Temporaries, pkOf, slot, method
    <3>5. Derivable(slot.meta)
      BY <3>1, <3>2 DEF Derivable, KDFAccepted, OTPSlotAccepted, Paired, slot,
          method
    <3>6. /\ method.type = "password+yubikey" => NeedsYubiKey(method.type)
          /\ method.type # "password+yubikey" => Answer(i, j, None)
      BY <3>2 DEF NeedsPassword, NeedsYubiKey, Answer, method
    <3>7. /\ Paired(i, j)'
          /\ pkOf(i, j)' = pkOf(i, j)
          /\ ChallengeOf(i, j)' = ChallengeOf(i, j)
          /\ Answer(i, j, None)' <=> Answer(i, j, None)
      BY <3>1, <3>2 DEF Paired, pkOf, ChallengeOf, rcOf, ResponseOf, Answer,
          KekOf
    <3>8. slot' = slot /\ method' = method
      BY <3>1 DEF slot, method
    <3> HIDE DEF Paired, pkOf, ChallengeOf, Answer
    <3> QED
      BY <3>1, <3>2, <3>4, <3>5, <3>6, <3>7, <3>8
         DEF Work, Working, Asking, Derived, Answered
  <2> QED
    BY <2>1, <2>2
<1>4. History'
  BY DEF IInv, Types, History, Working, Paired, pkOf, ChallengeOf, rcOf,
      ResponseOf, Answer, KekOf, TagVerifies, Presented, Derive, slot, Fail,
      RunDefers, Temporaries, Stop, method, Acquire, Goto, results, call,
      world, Temporaries
<1>5. Verdict'
  BY DEF IInv, Types, Work, Verdict, Working, Asking, Derived, Answered, slot,
      method, Paired, pkOf, ChallengeOf, rcOf, ResponseOf, Answer, KekOf,
      TagVerifies, Presented, Derive, Fail, RunDefers, Temporaries, Stop,
      Acquire, Goto, results, call, world, Temporaries
<1> QED
  BY <1>1, <1>2, <1>3, <1>4, <1>5 DEF IInv

(* The challenge joins the password key, or HKDF fails.                    *)
LEMMA DeriveChallengeStep ==
  ASSUME IInv, DeriveChallenge
  PROVE  IInv'
<1>1. \/ \E code : Fail(code)
      \/ /\ tmp' = [tmp EXCEPT !["ch"] = deriveChallenge(tmp["pk"], slot.meta)]
         /\ deferred' = deferred \cup {"ch"}
         /\ pc' = "announce"
         /\ UNCHANGED <<i, j, dek, ret, tried>>
  BY DEF DeriveChallenge, Acquire, Goto, results
<1>2. Types'
  <2>1. CASE \E code : Fail(code)
    BY <2>1, FailIs DEF IInv, Types, DeriveChallenge, call, world
  <2>2. CASE ~\E code : Fail(code)
    <3>1. /\ tmp' = [t \in Temporaries |-> tmp'[t]]
          /\ deferred' \subseteq Temporaries
          /\ pc' = "announce"
          /\ UNCHANGED <<i, j>>
      BY <1>1, <2>2 DEF IInv, Types, Temporaries
    <3> QED
      BY <3>1 DEF IInv, Types, Working, DeriveChallenge, call, world
  <2> QED
    BY <2>1, <2>2
<1>3. Allocated'
  BY DEF IInv, Types, Allocated, Working, Derived, DeriveChallenge, Fail,
      RunDefers, Temporaries, Stop, Acquire, Goto
<1>4. Work'
  <2>1. CASE \E code : Fail(code)
    BY <2>1, FailIs DEF IInv, Work, Working, Asking, Derived, Answered
  <2>2. CASE ~\E code : Fail(code)
    <3>1. /\ Paired(i, j)
          /\ NeedsYubiKey(method.type) /\ slotValid(slot.meta.yk)
          /\ NeedsPassword(method.type)
          /\ Derivable(slot.meta)
          /\ tmp["pk"] = pkOf(i, j) /\ tmp["yr"] = None
          /\ tmp["ikm"] = None /\ tmp["kek"] = None
      BY DEF IInv, Work, Working, Asking, Derived, DeriveChallenge
    <3>2. UNCHANGED <<slots, methods, i, j>> /\ pc' = "announce"
      BY <1>1, <2>2 DEF DeriveChallenge, call
    <3>3. /\ tmp'["pk"] = tmp["pk"] /\ tmp'["yr"] = None
          /\ tmp'["ikm"] = None /\ tmp'["kek"] = None
          /\ tmp'["ch"] = deriveChallenge(tmp["pk"], slot.meta)
      BY <1>1, <2>2, <3>1 DEF IInv, Types, Temporaries
    <3>4. tmp'["ch"] = ChallengeOf(i, j)
      BY <3>1, <3>3 DEF ChallengeOf, slot, method
    <3>5. /\ Paired(i, j)' /\ pkOf(i, j)' = pkOf(i, j)
          /\ ChallengeOf(i, j)' = ChallengeOf(i, j)
      BY <3>1, <3>2 DEF Paired, pkOf, ChallengeOf
    <3>6. slot' = slot /\ method' = method
      BY <3>2 DEF slot, method
    <3> HIDE DEF Paired, pkOf, ChallengeOf
    <3> QED
      BY <3>1, <3>2, <3>3, <3>4, <3>5, <3>6
         DEF Work, Working, Asking, Derived, Answered
  <2> QED
    BY <2>1, <2>2
<1>5. History'
  BY DEF IInv, History, Paired, pkOf, rcOf, ResponseOf, Answer, KekOf,
      TagVerifies, Presented, DeriveChallenge, Fail, RunDefers, Stop, Acquire,
      Goto, results, call, world
<1>6. Verdict'
  BY DEF IInv, Work, Verdict, Working, slot, method, Paired, pkOf, rcOf,
      ResponseOf, Answer, KekOf, TagVerifies, Presented, DeriveChallenge, Fail,
      RunDefers, Stop, Acquire, Goto, results, call, world
<1> QED
  BY <1>2, <1>3, <1>4, <1>5, <1>6 DEF IInv

(* The touch is announced.                                                 *)
LEMMA AnnounceStep ==
  ASSUME IInv, Announce
  PROVE  IInv'
<1>1. Types'
  BY DEF IInv, Types, Working, Announce, Goto, results, call, world
<1>2. Allocated'
  BY DEF IInv, Types, Allocated, Working, Asking, Derived, Announce, Goto,
      results, call, world
<1>3. Work'
  BY DEF IInv, Types, Work, Working, Asking, Derived, Answered, slot, method,
      Paired, pkOf, ChallengeOf, rcOf, ResponseOf, Answer, KekOf, Announce,
      Goto, results, call, world
<1>4. History'
  BY DEF IInv, Types, History, Working, Paired, pkOf, ChallengeOf, rcOf,
      ResponseOf, Answer, KekOf, TagVerifies, Presented, Announce, Goto,
      results, call, world
<1>5. Verdict'
  BY DEF IInv, Types, Verdict, Working, slot, method, Paired, pkOf,
      ChallengeOf, rcOf, ResponseOf, Answer, KekOf, TagVerifies, Presented,
      Announce, Goto, results, call, world
<1> QED
  BY <1>1, <1>2, <1>3, <1>4, <1>5 DEF IInv

(* The response of the inserted device arrives.                            *)
LEMMA TouchStep ==
  ASSUME IInv, Touch
  PROVE  IInv'
<1>1. Types'
  BY Arguments DEF IInv, Types, Allocated, Work, History, Verdict, Working,
      Asking, Derived, Answered, slot, method, Paired, pkOf, ChallengeOf, rcOf,
      ResponseOf, Answer, KekOf, TagVerifies, Presented, Touch, Acquire, Goto,
      results, call, world, Temporaries
<1>2. Allocated'
  BY DEF IInv, Types, Allocated, Working, Asking, Derived, Touch, Acquire,
      slot, Goto, results, call, world, Temporaries
<1>3. Work'
  BY DEF challenge, IInv, Types, Work, Working, Asking, Derived, Answered,
      slot, method, Paired, pkOf, ChallengeOf, rcOf, ResponseOf, Answer, KekOf,
      Touch, Acquire, Goto, results, call, world, Temporaries
<1>4. History'
  BY DEF IInv, Types, History, Working, Paired, pkOf, ChallengeOf, rcOf,
      ResponseOf, Answer, KekOf, TagVerifies, Presented, Touch, Acquire, slot,
      Goto, results, call, world, Temporaries
<1>5. Verdict'
  BY DEF IInv, Types, Verdict, Working, slot, method, Paired, pkOf,
      ChallengeOf, rcOf, ResponseOf, Answer, KekOf, TagVerifies, Presented,
      Touch, Acquire, Goto, results, call, world, Temporaries
<1> QED
  BY <1>1, <1>2, <1>3, <1>4, <1>5 DEF IInv

(* No response, because of the context or of a missing device.             *)
LEMMA NoResponseStep ==
  ASSUME IInv, NoResponse
  PROVE  IInv'
<1>1. Types'
  BY DEF IInv, Types, Working, NoResponse, Fail, RunDefers, Temporaries, Stop,
      call, world
<1>2. Allocated'
  BY DEF IInv, Types, Allocated, Working, Asking, Derived, NoResponse, Fail,
      RunDefers, Temporaries, Stop, call, world
<1>3. Work'
  BY DEF IInv, Types, Work, Working, Asking, Derived, Answered, slot, method,
      Paired, pkOf, ChallengeOf, rcOf, ResponseOf, Answer, KekOf, NoResponse,
      Fail, RunDefers, Temporaries, Stop, call, world
<1>4. History'
  BY DEF IInv, Types, History, Working, Paired, pkOf, ChallengeOf, rcOf,
      ResponseOf, Answer, KekOf, TagVerifies, Presented, NoResponse, Fail,
      RunDefers, Temporaries, Stop, call, world
<1>5. Verdict'
  BY DEF IInv, Types, Work, Verdict, Working, Asking, Derived, Answered, slot,
      method, Paired, pkOf, ChallengeOf, rcOf, ResponseOf, Answer, KekOf,
      TagVerifies, Presented, NoResponse, Fail, RunDefers, Temporaries, Stop,
      call, world
<1> QED
  BY <1>1, <1>2, <1>3, <1>4, <1>5 DEF IInv

(* No response, for a reason of the transport's.                           *)
LEMMA TransportErrorStep ==
  ASSUME IInv, TransportError
  PROVE  IInv'
<1>1. Types'
  BY DEF IInv, Types, Working, TransportError, Fail, RunDefers, Temporaries,
      Stop, call, world
<1>2. Allocated'
  BY DEF IInv, Types, Allocated, Work, Working, Asking, Derived, Answered,
      slot, method, Paired, pkOf, ChallengeOf, rcOf, ResponseOf, Answer, KekOf,
      TransportError, Fail, RunDefers, Temporaries, Stop, call, world
<1>3. Work'
  BY DEF IInv, Types, Work, Working, Asking, Derived, Answered, slot, method,
      Paired, pkOf, ChallengeOf, rcOf, ResponseOf, Answer, KekOf,
      TransportError, Fail, RunDefers, Temporaries, Stop, call, world
<1>4. History'
  BY DEF IInv, Types, History, Working, Paired, pkOf, ChallengeOf, rcOf,
      ResponseOf, Answer, KekOf, TagVerifies, Presented, TransportError, Fail,
      RunDefers, Temporaries, Stop, call, world
<1>5. Verdict'
  BY DEF IInv, Types, Work, Verdict, Working, Asking, Derived, Answered, slot,
      method, Paired, pkOf, ChallengeOf, rcOf, ResponseOf, Answer, KekOf,
      TagVerifies, Presented, TransportError, Fail, RunDefers, Temporaries,
      Stop, call, world
<1> QED
  BY <1>1, <1>2, <1>3, <1>4, <1>5 DEF IInv

(* The key material is filled, or a role is gone.                          *)
LEMMA FillIKMStep ==
  ASSUME IInv, FillIKM
  PROVE  IInv'
<1>1. Types'
  <2>1. CASE \E code : Fail(code)
    BY <2>1, FailIs DEF IInv, Types, FillIKM, call, world
  <2>2. CASE ~\E code : Fail(code)
    <3>1. /\ tmp' = [t \in Temporaries |-> tmp'[t]]
          /\ deferred' \subseteq Temporaries
          /\ pc' = "kek"
          /\ UNCHANGED <<i, j>>
      BY <2>2 DEF IInv, Types, FillIKM, Acquire, Goto, Temporaries
    <3> QED
      BY <3>1 DEF IInv, Types, Working, FillIKM, call, world
  <2> QED
    BY <2>1, <2>2
<1>2. Allocated'
  BY DEF IInv, Types, Allocated, Working, Asking, Derived, FillIKM, Fail,
      RunDefers, Temporaries, Stop, method, Acquire, Goto, results, call,
      world, Temporaries
<1>3. Work'
  BY DEF IInv, Types, Work, Working, Asking, Derived, Answered, slot, method,
      Paired, pkOf, ChallengeOf, rcOf, ResponseOf, Answer, KekOf, FillIKM,
      Fail, RunDefers, Temporaries, Stop, Acquire, Goto, results, call, world,
      Temporaries
<1>4. History'
  BY DEF IInv, Types, History, Working, Paired, pkOf, ChallengeOf, rcOf,
      ResponseOf, Answer, KekOf, TagVerifies, Presented, FillIKM, Fail,
      RunDefers, Temporaries, Stop, method, Acquire, Goto, results, call,
      world, Temporaries
<1>5. Verdict'
  BY DEF IInv, Types, Work, Verdict, Working, Asking, Derived, Answered, slot,
      method, Paired, pkOf, ChallengeOf, rcOf, ResponseOf, Answer, KekOf,
      TagVerifies, Presented, FillIKM, Fail, RunDefers, Temporaries, Stop,
      Acquire, Goto, results, call, world, Temporaries
<1> QED
  BY <1>1, <1>2, <1>3, <1>4, <1>5 DEF IInv

(* The KEK replaces the key material.                                      *)
LEMMA MakeKEKStep ==
  ASSUME IInv, MakeKEK
  PROVE  IInv'
<1>1. Types'
  <2>1. CASE \E code : Fail(code)
    BY <2>1, FailIs DEF IInv, Types, MakeKEK, call, world
  <2>2. CASE ~\E code : Fail(code)
    <3>1. /\ tmp' = [t \in Temporaries |-> tmp'[t]]
          /\ deferred' \subseteq Temporaries
          /\ pc' = "open"
          /\ UNCHANGED <<i, j>>
      BY <2>2 DEF IInv, Types, MakeKEK, Goto, Temporaries
    <3> QED
      BY <3>1 DEF IInv, Types, Working, MakeKEK, call, world
  <2> QED
    BY <2>1, <2>2
<1>2. Allocated'
  BY DEF IInv, Types, Allocated, Working, Asking, Derived, MakeKEK, Fail,
      RunDefers, Temporaries, Stop, slot, Goto, results, call, world,
      Temporaries
<1>3. Work'
  BY DEF IInv, Types, Work, Working, Asking, Derived, Answered, slot, method,
      Paired, pkOf, ChallengeOf, rcOf, ResponseOf, Answer, KekOf, MakeKEK,
      Fail, RunDefers, Temporaries, Stop, Goto, results, call, world,
      Temporaries
<1>4. History'
  BY DEF IInv, Types, History, Working, Paired, pkOf, ChallengeOf, rcOf,
      ResponseOf, Answer, KekOf, TagVerifies, Presented, MakeKEK, Fail,
      RunDefers, Temporaries, Stop, slot, Goto, results, call, world,
      Temporaries
<1>5. Verdict'
  BY DEF IInv, Types, Work, Verdict, Working, Asking, Derived, Answered, slot,
      method, Paired, pkOf, ChallengeOf, rcOf, ResponseOf, Answer, KekOf,
      TagVerifies, Presented, MakeKEK, Fail, RunDefers, Temporaries, Stop,
      Goto, results, call, world, Temporaries
<1> QED
  BY <1>1, <1>2, <1>3, <1>4, <1>5 DEF IInv

(* The tag decides.                                                        *)
LEMMA OpenStep ==
  ASSUME IInv, Open
  PROVE  IInv'
<1>1. Types'
  BY Arguments DEF IInv, Types, Work, Working, Asking, Derived, Answered, slot,
      method, Paired, pkOf, ChallengeOf, rcOf, ResponseOf, Answer, KekOf, Open,
      Fail, RunDefers, Temporaries, Stop, AuthFailed, results, call, world
<1>2. Allocated'
  BY Arguments DEF IInv, Types, Allocated, Working, Asking, Derived, Open,
      slot, Fail, RunDefers, Temporaries, Stop, AuthFailed, results, call,
      world
<1>3. Work'
  BY DEF IInv, Types, Work, Working, Asking, Derived, Answered, slot, method,
      Paired, pkOf, ChallengeOf, rcOf, ResponseOf, Answer, KekOf, Open, Fail,
      RunDefers, Temporaries, Stop, AuthFailed, results, call, world
<1>4. History'
  <2>1. CASE UNCHANGED <<i, j, tried>>
    BY <2>1 DEF IInv, History, Presented, TagVerifies, Paired, pkOf,
        ChallengeOf, rcOf, ResponseOf, Answer, KekOf, Open, call, world
  <2>2. CASE AuthFailed /\ ~TagVerifies(i, j, tmp["yr"])
    <3>1. Presented(i, j, tmp["yr"])
      BY DEF IInv, Work, Working, Asking, Derived, Answered, Open, Presented,
          slot
    <3>2. /\ \A t \in tried' : /\ Presented(t[1], t[2], t[3])
                              /\ ~TagVerifies(t[1], t[2], t[3])
      BY <2>2, <3>1 DEF IInv, History, AuthFailed
    <3>3. \A t \in tried' : /\ Presented(t[1], t[2], t[3])'
                           /\ ~TagVerifies(t[1], t[2], t[3])'
      BY <3>2 DEF Presented, TagVerifies, Paired, pkOf, ChallengeOf, rcOf,
          ResponseOf, Answer, KekOf, Open, call, world
    <3>4. \A a, b \in Nat : Paired(a, b)' /\ (a < i' \/ (a = i' /\ b < j')) =>
            \E t \in tried' : t[1] = a /\ t[2] = b
      <4> SUFFICES ASSUME NEW a \in Nat, NEW b \in Nat, Paired(a, b)',
                          a < i' \/ (a = i' /\ b < j')
                   PROVE  \E t \in tried' : t[1] = a /\ t[2] = b
        OBVIOUS
      <4>1. Paired(a, b)
        BY DEF Paired, Open, call
      <4>2. i' = i /\ j' = j + 1 /\ tried' = tried \cup {<<i, j, tmp["yr"]>>}
        BY <2>2 DEF AuthFailed
      <4>3. i \in Nat /\ j \in Nat
        BY Arguments DEF IInv, Types
      <4>4. CASE a = i /\ b = j
        <5>1. <<i, j, tmp["yr"]>> \in tried'
          BY <4>2
        <5>2. <<i, j, tmp["yr"]>>[1] = a /\ <<i, j, tmp["yr"]>>[2] = b
          BY <4>4
        <5> QED
          BY <5>1, <5>2, Zenon
      <4>5. CASE ~(a = i /\ b = j)
        <5>1. \E t \in tried : t[1] = a /\ t[2] = b
          BY <4>1, <4>2, <4>3, <4>5 DEF IInv, History
        <5> QED
          BY <4>2, <5>1
      <4> QED
        BY <4>4, <4>5
    <3> QED
      BY <3>3, <3>4 DEF History
  <2> QED
    BY <2>1, <2>2, OpenIs
<1>5. Verdict'
  <2>1. CASE Verifies(slot.box, tmp["kek"], slot.meta)
    <3>1. TagVerifies(i, j, tmp["yr"]) /\ Presented(i, j, tmp["yr"])
      BY <2>1 DEF IInv, Work, Working, Asking, Derived, Answered, Open,
          TagVerifies, Presented, slot
    <3>2. PICK r \in Responses \cup {None} : r = tmp["yr"]
      <4>1. tmp["yr"] \in Responses \cup {None}
        BY <3>1, AnswerType DEF IInv, Presented, Paired
      <4> QED
        BY <4>1
    <3>3. \/ ret' = "system" /\ dek' = None
          \/ ret' = "ok" /\ dek' = slot.box.dek
      BY <2>1 DEF Open, Fail, Stop
    <3>4. UNCHANGED <<slots, methods, i, j, inserted, swaps>> /\ pc' = "done"
      BY <2>1 DEF Open, Fail, Stop, call, world
    <3>5. Presented(i, j, r)' /\ TagVerifies(i, j, r)'
      BY <3>1, <3>2, <3>4 DEF Presented, TagVerifies, Paired, pkOf,
          ChallengeOf, rcOf, ResponseOf, Answer, KekOf
    <3>6. Paired(i, j)'
      BY <3>1, <3>4 DEF Presented, Paired
    <3> QED
      BY <3>2, <3>3, <3>4, <3>5, <3>6 DEF Verdict, slot
  <2>2. CASE ~Verifies(slot.box, tmp["kek"], slot.meta)
    <3>1. methods # <<>>
      BY Arguments DEF IInv, Work, Working, Paired, Open
    <3> QED
      BY <2>2, <3>1 DEF IInv, Verdict, Open, AuthFailed, results, call
  <2> QED
    BY <2>1, <2>2
<1> QED
  BY <1>1, <1>2, <1>3, <1>4, <1>5 DEF IInv

(* The context is cancelled.                                               *)
LEMMA CancelStep ==
  ASSUME IInv, Cancel
  PROVE  IInv'
<1>1. Types'
  BY DEF IInv, Types, Working, Cancel, call, results
<1>2. Allocated'
  BY DEF IInv, Types, Allocated, Working, Asking, Derived, Cancel, call,
      results
<1>3. Work'
  BY DEF IInv, Types, Work, Working, Asking, Derived, Answered, slot, method,
      Paired, pkOf, ChallengeOf, rcOf, ResponseOf, Answer, KekOf, Cancel, call,
      results
<1>4. History'
  BY DEF IInv, Types, History, Working, Paired, pkOf, ChallengeOf, rcOf,
      ResponseOf, Answer, KekOf, TagVerifies, Presented, Cancel, call, results
<1>5. Verdict'
  BY DEF IInv, Types, Verdict, Working, slot, method, Paired, pkOf,
      ChallengeOf, rcOf, ResponseOf, Answer, KekOf, TagVerifies, Presented,
      Cancel, call, results
<1> QED
  BY <1>1, <1>2, <1>3, <1>4, <1>5 DEF IInv

(* A device comes or goes.                                                 *)
LEMMA SwapStep ==
  ASSUME IInv, Swap
  PROVE  IInv'
<1>1. Types'
  BY DEF IInv, Types, Working, Swap, call, results
<1>2. Allocated'
  BY DEF IInv, Types, Allocated, Working, Asking, Derived, Swap, call, results
<1>3. Work'
  BY DEF IInv, Types, Work, Working, Asking, Derived, Answered, slot, method,
      Paired, pkOf, ChallengeOf, rcOf, ResponseOf, Answer, KekOf, Swap, call,
      results
<1>4. History'
  BY DEF IInv, Types, History, Working, Paired, pkOf, ChallengeOf, rcOf,
      ResponseOf, Answer, KekOf, TagVerifies, Presented, Swap, call, results
<1>5. Verdict'
  BY DEF IInv, Types, Verdict, Working, slot, method, Paired, pkOf,
      ChallengeOf, rcOf, ResponseOf, Answer, KekOf, TagVerifies, Presented,
      Swap, call, results
<1> QED
  BY <1>1, <1>2, <1>3, <1>4, <1>5 DEF IInv

(* An owner destroys a secret.                                             *)
LEMMA DestroySecretStep ==
  ASSUME IInv, DestroySecret
  PROVE  IInv'
<1>1. Types'
  BY DEF IInv, Types, Working, DestroySecret, call, results
<1>2. Allocated'
  BY DEF IInv, Types, Allocated, Working, Asking, Derived, DestroySecret, call,
      results
<1>3. Work'
  BY DEF IInv, Types, Work, Working, Asking, Derived, Answered, slot, method,
      Paired, pkOf, ChallengeOf, rcOf, ResponseOf, Answer, KekOf,
      DestroySecret, call, results
<1>4. History'
  BY DEF IInv, Types, History, Working, Paired, pkOf, ChallengeOf, rcOf,
      ResponseOf, Answer, KekOf, TagVerifies, Presented, DestroySecret, call,
      results
<1>5. Verdict'
  BY DEF IInv, Types, Verdict, Working, slot, method, Paired, pkOf,
      ChallengeOf, rcOf, ResponseOf, Answer, KekOf, TagVerifies, Presented,
      DestroySecret, call, results
<1> QED
  BY <1>1, <1>2, <1>3, <1>4, <1>5 DEF IInv

-----------------------------------------------------------------------------
(* The invariant of the specification *)

(* A call starts with nothing allocated and no pair tried.                 *)
LEMMA InitIInv == Init => IInv
<1> SUFFICES ASSUME Init PROVE IInv
  OBVIOUS
<1>1. Types
  <2>1. slots \in Seq(SlotRecords) /\ methods \in Seq(Methods)
    BY UnlockAssumption DEF Init
  <2>2. 1 \in 1..(Len(slots) + 1) /\ 1 \in 1..(Len(methods) + 1)
    BY <2>1
  <2> QED
    BY <2>2 DEF Init, Types, NoTemporaries
<1>2. Allocated /\ Work
  BY DEF Init, Allocated, Work, Working, Asking, Derived, Answered,
      NoTemporaries
<1>3. History
  <2>1. \A a, b \in Nat : Paired(a, b) => a >= 1 /\ b >= 1
    BY <1>1, Arguments DEF Paired
  <2> QED
    BY <2>1 DEF Init, History
<1>4. Verdict
  BY DEF Init, Verdict
<1> QED
  BY <1>1, <1>2, <1>3, <1>4 DEF IInv

(* Every step of the call and of its surroundings keeps it.                *)
LEMMA NextIInv == IInv /\ [Next]_vars => IInv'
<1> SUFFICES ASSUME IInv, [Next]_vars PROVE IInv'
  OBVIOUS
<1>1. CASE UNCHANGED vars
  BY <1>1 DEF vars, call, results, world, IInv, Types, Allocated, Work,
              History, Verdict, Paired, pkOf, ChallengeOf, rcOf, ResponseOf,
              Answer, KekOf, TagVerifies, Presented, slot, method
<1> QED
  BY <1>1, BeginStep, AdvanceStep, TryStep, DeriveStep, DeriveChallengeStep,
      AnnounceStep, TouchStep, NoResponseStep, TransportErrorStep, FillIKMStep,
      MakeKEKStep, OpenStep, CancelStep, SwapStep, DestroySecretStep DEF Next,
      Proceed, Returned

(* The inductive invariant holds of every behaviour.                       *)
LEMMA Invariance == Spec => []IInv
  BY InitIInv, NextIInv, PTL DEF Spec

-----------------------------------------------------------------------------
(* What a pair presents *)

(* The types of the key, the key material and the KEK of a pair.           *)
LEMMA FactorTypes ==
  ASSUME Types, NEW a \in DOMAIN slots, NEW b \in DOMAIN methods,
         NEW r \in Responses \cup {None}
  PROVE  /\ pkOf(a, b) \in PasswordKeys \cup {None}
         /\ pkOf(a, b) = None <=> ~NeedsPassword(methods[b].type)
         /\ buildIKM(pkOf(a, b), r, rcOf(b)) \in IKMs
         /\ KekOf(a, b, r) \in KEKs
         /\ ChallengeOf(a, b) \in Challenges \cup {None}
<1>1. slots[a] \in SlotRecords /\ methods[b] \in Methods
  BY Arguments
<1>2. /\ methods[b].rc \in Codes \cup {None}
      /\ NeedsPassword(methods[b].type) => methods[b].pw \in Passwords
  BY <1>1 DEF Methods
<1>3. /\ slots[a].meta.type \in MethodTypes
      /\ slots[a].meta.id \in Nat
      /\ slots[a].meta.kdf \in KDFs
      /\ slots[a].meta.rest \in Rests
  BY <1>1 DEF SlotRecords, Metas
<1>4. NeedsPassword(methods[b].type) => pkOf(a, b) \in PasswordKeys
  BY <1>2, <1>3 DEF pkOf, PasswordKey, PasswordKeys
<1>5. ~NeedsPassword(methods[b].type) => pkOf(a, b) = None
  BY DEF pkOf
<1>6. rcOf(b) \in Codes \cup {None}
  BY <1>2 DEF rcOf
<1>7. buildIKM(pkOf(a, b), r, rcOf(b)) \in IKMs
  BY <1>4, <1>5, <1>6 DEF buildIKM, IKMs
<1>8. KekOf(a, b, r) \in KEKs
  BY <1>3, <1>7 DEF KekOf, deriveKEK, KEKs
<1>9. ChallengeOf(a, b) \in Challenges \cup {None}
  BY <1>3, <1>4 DEF ChallengeOf, deriveChallenge, Challenges
<1> QED
  BY <1>4, <1>5, <1>7, <1>8, <1>9, NilAssumption

(* A method with the type, password and code of methods[b] brings the      *)
(* factors of the pair.                                                    *)
LEMMA FactorsAre ==
  ASSUME NEW a, NEW b, NEW m,
         m.type = methods[b].type, m.pw = methods[b].pw, m.rc = methods[b].rc
  PROVE  FactorsOf(m, slots[a].meta) =
           buildIKM(pkOf(a, b),
                    IF NeedsYubiKey(methods[b].type)
                    THEN ResponseOf(m.dev, a, b) ELSE None,
                    rcOf(b))
BY DEF FactorsOf, pkOf, rcOf, ResponseOf

(* Such a method, with the YubiKey that answered, opens the slot exactly if*)
(* the tag verifies.                                                       *)
LEMMA OpensIs ==
  ASSUME NEW a, NEW b, NEW r, Presented(a, b, r), NEW m,
         m.type = methods[b].type, m.pw = methods[b].pw, m.rc = methods[b].rc,
         NeedsYubiKey(methods[b].type) => r = ResponseOf(m.dev, a, b)
  PROVE  Opens(m, slots[a]) <=> TagVerifies(a, b, r)
<1>1. FactorsOf(m, slots[a].meta) = buildIKM(pkOf(a, b), r, rcOf(b))
  <2>1. ~NeedsYubiKey(methods[b].type) => r = None
    BY DEF Presented, Answer
  <2> QED
    BY <2>1, FactorsAre
<1> QED
  BY <1>1 DEF Opens, Presented, Paired, TagVerifies, KekOf

-----------------------------------------------------------------------------
(* The safety properties *)

(* Every variable keeps its type, the counters stay in the bounds of their *)
(* lists, and a key is returned exactly when the result is ok.             *)
THEOREM TypeCorrect == Spec => []TypeOK
<1>1. ASSUME IInv PROVE TypeOK
  <2> USE <1>1 DEF IInv
  <2>1. /\ i \in 1..(Len(slots) + 1)
        /\ j \in 1..(Len(methods) + 1)
        /\ pc \in {"start", "next", "derive", "challenge", "announce",
                   "respond", "ikm", "kek", "open", "done"}
        /\ deferred \subseteq Temporaries
        /\ inserted \in Devices \cup {None}
    BY DEF Types, Working
  <2>2. /\ tmp["pk"] \in PasswordKeys \cup {None}
        /\ tmp["ch"] \in Challenges \cup {None}
        /\ tmp["yr"] \in Responses \cup {None}
        /\ tmp["ikm"] \in IKMs \cup {None}
        /\ tmp["kek"] \in KEKs \cup {None}
    <3>1. CASE pc \notin Derived
      BY <3>1 DEF Allocated, Temporaries
    <3>2. CASE pc \in Derived
      <4>1. i \in DOMAIN slots /\ j \in DOMAIN methods
        BY <3>2 DEF Work, Working, Derived, Paired
      <4>2. tmp["yr"] \in Responses \cup {None}
        <5>1. CASE pc \in Answered
          BY <4>1, <5>1, AnswerType DEF Work
        <5>2. CASE pc \notin Answered
          BY <3>2, <5>2 DEF Work, Asking, Derived, Answered
        <5> QED
          BY <5>1, <5>2
      <4>3. /\ pkOf(i, j) \in PasswordKeys \cup {None}
            /\ buildIKM(pkOf(i, j), tmp["yr"], rcOf(j)) \in IKMs
            /\ KekOf(i, j, tmp["yr"]) \in KEKs
            /\ ChallengeOf(i, j) \in Challenges \cup {None}
        BY <4>1, <4>2, FactorTypes
      <4>4. tmp["ikm"] \in IKMs \cup {None} /\ tmp["kek"] \in KEKs \cup {None}
        BY <3>2, <4>3 DEF Work, Asking, Derived
      <4> QED
        BY <3>2, <4>2, <4>3, <4>4 DEF Work
    <3> QED
      BY <3>1, <3>2
  <2>3. dek \in DataKeys \cup {None} /\ (dek # None <=> ret = "ok")
    <3>1. CASE ret = "ok"
      <4>1. i \in DOMAIN slots /\ dek = slots[i].box.dek
        BY <3>1 DEF Verdict, Presented, Paired, slot
      <4>2. slots[i] \in SlotRecords
        BY <4>1, Arguments
      <4>3. dek \in DataKeys
        BY <4>1, <4>2 DEF SlotRecords, Boxes
      <4> QED
        BY <3>1, <4>3, NoneAssumption
    <3>2. CASE ret # "ok"
      BY <3>2 DEF Verdict
    <3> QED
      BY <3>1, <3>2
  <2> QED
    BY <2>1, <2>2, <2>3 DEF TypeOK
<1> QED
  BY <1>1, Invariance, PTL

(* No password key, challenge, response, key material or KEK outlives the  *)
(* method that made it, on any of its return paths.                        *)
THEOREM TemporariesAreDestroyed == Spec => []NothingLeftBehind
<1>1. IInv => NothingLeftBehind
  BY DEF IInv, Types, Allocated, Derived, NothingLeftBehind, NoTemporaries
<1> QED
  BY <1>1, Invariance, PTL

(* A key comes out of a slot that nobody changed, by a method of its type  *)
(* with the password or code it was enrolled with.                         *)
THEOREM ReturnedKeyIsGenuine == Spec => []KeyIsGenuine
<1>1. ASSUME IInv, ret = "ok" PROVE KeyIsGenuine
  <2>1. /\ dek = slot.box.dek
        /\ \E r : Presented(i, j, r) /\ TagVerifies(i, j, r)
    BY <1>1 DEF IInv, Verdict
  <2>2. PICK r : Presented(i, j, r) /\ TagVerifies(i, j, r)
    BY <2>1
  <2>3. /\ slot.box.intact
        /\ slot.box.kek = KekOf(i, j, r)
        /\ slot.box.aad = slot.meta
        /\ method.type = slot.meta.type
    BY <2>2 DEF Presented, Paired, TagVerifies, Verifies, slot, method
  <2>4. /\ slot.box.kek.ikm.password = pkOf(i, j)
        /\ slot.box.kek.ikm.recovery = rcOf(j)
    BY <2>3 DEF KekOf, deriveKEK, buildIKM
  <2>5. NeedsPassword(method.type) => pkOf(i, j).pw = method.pw
    BY DEF pkOf, PasswordKey, method
  <2>6. method.type = "recovery" => rcOf(j) = method.rc
    BY DEF rcOf, method
  <2> QED
    BY <2>1, <2>3, <2>4, <2>5, <2>6 DEF KeyIsGenuine, Unchanged
<1>2. IInv => KeyIsGenuine
  BY <1>1 DEF KeyIsGenuine
<1> QED
  BY <1>2, Invariance, PTL

(* ErrAuthFailed means that each slot was tried with each method of its    *)
(* type and that none of them opens with what was presented.               *)
THEOREM AuthFailedIsAVerdict == Spec => []AuthFailedIsComplete
<1>1. ASSUME IInv, ret = "ErrAuthFailed", NEW a \in DOMAIN slots,
             NEW b \in DOMAIN methods, slots[a].meta.type = methods[b].type
      PROVE  /\ \E t \in tried : t[1] = a /\ t[2] = b
             /\ ~NeedsYubiKey(methods[b].type) => ~Opens(methods[b], slots[a])
             /\ \A t \in tried : t[1] = a /\ t[2] = b /\ t[3] # None =>
                  ~Opens([methods[b] EXCEPT !.dev = t[3].dev], slots[a])
  <2>1. /\ Paired(a, b)
        /\ a \in Nat /\ b \in Nat /\ a < i
        /\ methods[b] \in Methods
    BY <1>1, Arguments DEF IInv, Types, Verdict, Paired
  <2>2. \E t \in tried : t[1] = a /\ t[2] = b
    BY <1>1, <2>1 DEF IInv, History
  <2>3. ~NeedsYubiKey(methods[b].type) => ~Opens(methods[b], slots[a])
    <3>1. PICK t \in tried : t[1] = a /\ t[2] = b
      BY <2>2
    <3>2. Presented(a, b, t[3]) /\ ~TagVerifies(a, b, t[3])
      BY <1>1, <3>1 DEF IInv, History
    <3> QED
      BY <3>2, OpensIs
  <2>4. ASSUME NEW t \in tried, t[1] = a, t[2] = b, t[3] # None
        PROVE  ~Opens([methods[b] EXCEPT !.dev = t[3].dev], slots[a])
    <3> DEFINE m == [methods[b] EXCEPT !.dev = t[3].dev]
    <3>1. Presented(a, b, t[3]) /\ ~TagVerifies(a, b, t[3])
      BY <1>1, <2>4 DEF IInv, History
    <3>2. /\ m.type = methods[b].type
          /\ m.pw = methods[b].pw
          /\ m.rc = methods[b].rc
          /\ m.dev = t[3].dev
      BY <2>1 DEF Methods
    <3>3. PICK d \in Devices : t[3] = ResponseOf(d, a, b)
      BY <2>4, <3>1 DEF Presented, Answer
    <3>4. t[3] = ResponseOf(m.dev, a, b)
      BY <3>2, <3>3 DEF ResponseOf, Response
    <3> HIDE DEF m
    <3>5. ~Opens(m, slots[a])
      BY <3>1, <3>2, <3>4, OpensIs
    <3> QED
      BY <3>5 DEF m
  <2> QED
    BY <2>2, <2>3, <2>4
<1>2. IInv => AuthFailedIsComplete
  BY <1>1 DEF AuthFailedIsComplete
<1> QED
  BY <1>2, Invariance, PTL

(* A touch is asked for after the password key of a two-factor slot and its*)
(* challenge exist, and before anything derived from a device does.        *)
THEOREM TouchComesThird == Spec => []TouchAfterDerivation
<1>1. ASSUME IInv, pc \in {"announce", "respond"}
      PROVE  /\ tmp["yr"] = None /\ tmp["ikm"] = None /\ tmp["kek"] = None
             /\ slot.meta.type = "password+yubikey" <=> tmp["pk"] # None
             /\ tmp["ch"] = IF slot.meta.type = "password+yubikey"
                            THEN deriveChallenge(tmp["pk"], slot.meta) ELSE None
  <2>1. /\ Paired(i, j)
        /\ NeedsYubiKey(method.type)
        /\ tmp["pk"] = pkOf(i, j)
        /\ tmp["yr"] = None /\ tmp["ikm"] = None /\ tmp["kek"] = None
        /\ tmp["ch"] = ChallengeOf(i, j)
    BY <1>1 DEF IInv, Work, Working, Asking, Derived
  <2>2. pkOf(i, j) = None <=> ~NeedsPassword(methods[j].type)
    BY <1>1, <2>1, FactorTypes DEF IInv, Paired
  <2> QED
    BY <2>1, <2>2 DEF Paired, ChallengeOf, NeedsPassword, NeedsYubiKey, slot,
        method
<1>2. IInv => TouchAfterDerivation
  BY <1>1 DEF TouchAfterDerivation
<1> QED
  BY <1>2, Invariance, PTL

-----------------------------------------------------------------------------
(* The call returns what Envelope's one-step Unlock allows *)

(* Swapping the devices in changes no type, password or code.              *)
LEMMA InsertedIs ==
  ASSUME Types
  PROVE  /\ DOMAIN Inserted(methods) = DOMAIN methods
         /\ \A b \in DOMAIN methods :
              /\ Inserted(methods)[b].type = methods[b].type
              /\ Inserted(methods)[b].pw = methods[b].pw
              /\ Inserted(methods)[b].rc = methods[b].rc
              /\ NeedsYubiKey(methods[b].type) /\ inserted # None =>
                   Inserted(methods)[b].dev = inserted
         /\ methods = <<>> <=> Inserted(methods) = <<>>
<1>1. DOMAIN Inserted(methods) = DOMAIN methods
  BY DEF Inserted
<1>2. ASSUME NEW b \in DOMAIN methods
      PROVE  /\ Inserted(methods)[b].type = methods[b].type
             /\ Inserted(methods)[b].pw = methods[b].pw
             /\ Inserted(methods)[b].rc = methods[b].rc
             /\ NeedsYubiKey(methods[b].type) /\ inserted # None =>
                  Inserted(methods)[b].dev = inserted
  <2>1. methods[b] \in Methods
    BY Arguments
  <2>2. Inserted(methods)[b] =
          IF NeedsYubiKey(methods[b].type) /\ inserted # None
          THEN [methods[b] EXCEPT !.dev = inserted] ELSE methods[b]
    BY DEF Inserted
  <2> QED
    BY <2>1, <2>2 DEF Methods
<1>3. methods = <<>> => Inserted(methods) = <<>>
  BY DEF Inserted
<1>4. Inserted(methods) = <<>> => methods = <<>>
  <2>1. DOMAIN methods = 1..Len(methods) /\ Len(methods) \in Nat
    BY Arguments
  <2>2. Inserted(methods) = <<>> => DOMAIN methods = {}
    BY <1>1
  <2>3. DOMAIN methods = {} => Len(methods) = 0
    BY <2>1
  <2> QED
    BY <2>2, <2>3, Arguments
<1> QED
  BY <1>1, <1>2, <1>3, <1>4

(* With one device all the time, a pair that was presented opens exactly if*)
(* its tag verifies, and a pair of different types does not.               *)
LEMMA InsertedOpens ==
  ASSUME Types, swaps = 0, NEW a \in DOMAIN slots, NEW b \in DOMAIN methods
  PROVE  /\ ~Paired(a, b) => ~Opens(Inserted(methods)[b], slots[a])
         /\ \A r : Presented(a, b, r) =>
              (Opens(Inserted(methods)[b], slots[a]) <=> TagVerifies(a, b, r))
<1>1. ~Paired(a, b) => ~Opens(Inserted(methods)[b], slots[a])
  BY InsertedIs DEF Paired, Opens
<1>2. ASSUME NEW r, Presented(a, b, r)
      PROVE  Opens(Inserted(methods)[b], slots[a]) <=> TagVerifies(a, b, r)
  <2> DEFINE m == Inserted(methods)[b]
  <2>1. /\ m.type = methods[b].type
        /\ m.pw = methods[b].pw
        /\ m.rc = methods[b].rc
    BY InsertedIs
  <2>2. NeedsYubiKey(methods[b].type) => r = ResponseOf(m.dev, a, b)
    <3>1. SUFFICES ASSUME NeedsYubiKey(methods[b].type)
                   PROVE  r = ResponseOf(m.dev, a, b)
      OBVIOUS
    <3>2. PICK d \in Devices : r = ResponseOf(d, a, b) /\ d = inserted
      BY <1>2, <3>1 DEF Presented, Answer
    <3>3. m.dev = inserted
      BY <3>1, <3>2, InsertedIs, NoneAssumption
    <3> QED
      BY <3>2, <3>3 DEF ResponseOf
  <2> HIDE DEF m
  <2>3. Opens(m, slots[a]) <=> TagVerifies(a, b, r)
    BY <1>2, <2>1, <2>2, OpensIs
  <2> QED
    BY <2>3 DEF m
<1> QED
  BY <1>1, <1>2

(* No slot before the current one opens.                                   *)
LEMMA PassedOver ==
  ASSUME IInv, swaps = 0, NEW a \in DOMAIN slots, a < i
  PROVE  ~OpenedBy(Inserted(methods), slots[a])
<1>1. SUFFICES ASSUME NEW b \in DOMAIN methods
               PROVE  ~Opens(Inserted(methods)[b], slots[a])
  BY InsertedIs DEF IInv, OpenedBy
<1>2. CASE ~Paired(a, b)
  BY <1>2, InsertedOpens DEF IInv
<1>3. CASE Paired(a, b)
  <2>1. a \in Nat /\ b \in Nat
    BY Arguments DEF IInv
  <2>2. PICK t \in tried : t[1] = a /\ t[2] = b
    BY <1>3, <2>1 DEF IInv, History
  <2>3. Presented(a, b, t[3]) /\ ~TagVerifies(a, b, t[3])
    BY <2>2 DEF IInv, History
  <2> QED
    BY <2>3, InsertedOpens DEF IInv
<1> QED
  BY <1>2, <1>3

(* As long as one device stays where it is, a call interleaved with        *)
(* cancellations and destroyed secrets returns what the atomic Unlock of   *)
(* Envelope may return: the key of the first slot that opens, ErrAuthFailed*)
(* only if none does.                                                      *)
THEOREM UnlockIsAtomic == Spec => []ReturnsAsEnvelope
<1>1. ASSUME IInv, pc = "done", swaps = 0
      PROVE  UnlockReturns(Inserted(methods), slots, Outcome, dek, None)
  <2> DEFINE ms == Inserted(methods)
  <2>1. /\ DOMAIN ms = DOMAIN methods
        /\ ms = <<>> <=> methods = <<>>
        /\ \A b \in DOMAIN methods : ms[b].type = methods[b].type
        /\ i \in 1..(Len(slots) + 1)
        /\ Len(slots) \in Nat /\ DOMAIN slots = 1..Len(slots)
    BY <1>1, InsertedIs, Arguments DEF IInv, Types
  <2>2. \A a \in DOMAIN slots : a < i => ~OpenedBy(ms, slots[a])
    BY <1>1, PassedOver
  <2>3. CASE ret = "ok"
    <3>1. PICK r : Presented(i, j, r) /\ TagVerifies(i, j, r)
      BY <1>1, <2>3 DEF IInv, Verdict
    <3>2. i \in DOMAIN slots /\ j \in DOMAIN methods
      BY <3>1 DEF Presented, Paired
    <3>3. Opens(ms[j], slots[i])
      BY <1>1, <3>1, <3>2, InsertedOpens DEF IInv
    <3>4. OpenedBy(ms, slots[i])
      BY <2>1, <3>2, <3>3 DEF OpenedBy
    <3>5. dek = slots[i].box.dek /\ Outcome = "unlocked"
      BY <1>1, <2>3 DEF IInv, Verdict, Outcome, slot
    <3>6. \A a \in 1..(i - 1) : ~OpenedBy(ms, slots[a])
      BY <2>1, <2>2, <3>2
    <3> HIDE DEF ms
    <3>7. UnlockReturns(ms, slots, Outcome, dek, None)
      BY <3>2, <3>4, <3>5, <3>6 DEF UnlockReturns
    <3> QED
      BY <3>7 DEF ms
  <2>4. CASE ret = "ErrNoMethods"
    <3>1. ms = <<>> /\ dek = None /\ Outcome = "ErrNoMethods"
      BY <1>1, <2>1, <2>4 DEF IInv, Verdict, Outcome
    <3> HIDE DEF ms
    <3>2. UnlockReturns(ms, slots, Outcome, dek, None)
      BY <3>1 DEF UnlockReturns
    <3> QED
      BY <3>2 DEF ms
  <2>5. CASE ret = "ErrAuthFailed"
    <3>1. /\ ms # <<>> /\ dek = None /\ Outcome = "ErrAuthFailed"
          /\ i > Len(slots)
      BY <1>1, <2>1, <2>5 DEF IInv, Verdict, Outcome
    <3>2. \A a \in DOMAIN slots : ~OpenedBy(ms, slots[a])
      BY <2>1, <2>2, <3>1
    <3> HIDE DEF ms
    <3>3. UnlockReturns(ms, slots, Outcome, dek, None)
      BY <3>1, <3>2 DEF UnlockReturns
    <3> QED
      BY <3>3 DEF ms
  <2>6. CASE ret \notin {"ok", "ErrNoMethods", "ErrAuthFailed"}
    <3>1. Paired(i, j) /\ dek = None /\ Outcome = "system"
      BY <1>1, <2>6 DEF IInv, Verdict, Outcome
    <3>2. i \in DOMAIN slots /\ TriedBy(ms, slots[i])
      BY <2>1, <3>1 DEF Paired, TriedBy
    <3> HIDE DEF ms
    <3>3. UnlockReturns(ms, slots, Outcome, dek, None)
      BY <3>1, <3>2 DEF UnlockReturns
    <3> QED
      BY <3>3 DEF ms
  <2> QED
    BY <2>3, <2>4, <2>5, <2>6
<1>2. IInv => ReturnsAsEnvelope
  BY <1>1 DEF ReturnsAsEnvelope
<1> QED
  BY <1>2, Invariance, PTL
=============================================================================
