# A TLA+ model of go-tumbler

go-tumbler keeps one random *data key* (DEK) wrapped in several *keyslots* of an
*envelope*; a password, a YubiKey, both together, or a printed recovery code
opens a slot and yields the key. This directory models the library in TLA+,
checks the models with TLC, and proves every safety property they check, with
both refinements, with TLAPS for every value of the constants. Three liveness
properties stay with TLC.

    tlc -workers 4 -config MCEnvelopeLife.cfg MCEnvelope    # one run
    tlapm EnvelopeProofs.tla                                # one module's proofs

## 1. The system

| Component | State | Operations |
|---|---|---|
| Envelope (`envelope.go`, `tumbler.go`, `policy.go`) | policy hint, ordered slots | `NewEnvelope`, `AddSlot`, `RemoveSlot`, `EffectivePolicy`, `ValidateSafety`, `Marshal`, `ParseEnvelope`, `Unlock`, `GenerateDEK` |
| Methods (`password.go`, `yubikey.go`, `recovery.go`) | borrowed secrets, KDF, OTP slot | `Enroll`, `Unlock`, the touch announcement |
| Slot crypto (`combine.go`, `method.go`, `kdf.go`) | none | `buildIKM`, `deriveKEK`, `seal`, `open`, `wrapDEK`, `unwrapDEK`, `parseKDF` |
| SecureBytes (`securebytes/`) | mutex, buffer, destroyed flag; pinned pages | `New`, `NewZero`, `Clone`, `Use`, `Len`, `Destroy`, finalizer |
| Transport (`transport/`) | the pinned tool; a ykman subprocess per call | `NewYkmanTransport`, `ChallengeResponse`, `Serial`, `Present` |
| Recovery text (`recovery.go`) | none | `GenerateRecoveryCode`, `FormatRecoveryCode`, `ParseRecoveryCode` |

**How they interact.** The caller owns every secret in a SecureBytes and lends it
to the methods. `NewEnvelope` calls `Enroll` once per method, `AddSlot` once; a
slot's key-encryption key is derived from the factors (KDF, touch, recovery
code), the slot's type, random ID and salt, and the data key is sealed under it
with the slot's whole metadata as associated data. `Unlock` runs slots times
methods, and inside a method: KDF, challenge, touch, key material, KEK, tag
check. `ErrAuthFailed` moves on to the next pair, every other error ends the
call. The application persists what `Marshal` returns and parses it after a
restart. Between components there are only calls and the mutex of each
SecureBytes; an Envelope has no lock and its doc makes callers serialise.

**What is hard here.** Enroll blocks for a KDF and a human touch between the
checks of a call and their use; the context may end, another goroutine may
destroy a secret, and the callback that announces the touch may work on the same
envelope meanwhile. An unlock has seven exits with up to four secrets and a
challenge allocated. The file may change at rest and is then parsed and worked
on. A SecureBytes is destroyed by other goroutines and by the finalizer while it
is in use, its callbacks may panic, and the kernel may refuse `mlock`, whose unit
is the page and not the buffer. The ykman tool may answer, fail, hang, be killed
while it answers, or leave a process behind that keeps its pipes open. A torn or
changed file meets a hand-written reader and 32-bit cost parameters whose
products are compared in 64 bits; a printed code is typed back by a person.
`hazards` in `PROJECT.json` lists each one at its line, with the properties that
watch it.

**What makes each part correct.** An envelope keeps the policy it was created
with, adding or removing a slot touches no sibling, a failed call changes
nothing, a saved envelope opens after a restart. A key that `Unlock` returns was
sealed in a slot that is as enrolled; its "wrong secret" verdict covers all
pairs; nothing it allocated outlives it; it ends when its context ends. A
container shows its one true payload or `ErrDestroyed`, is pinned while it holds
it, and no failure leaves a copy behind. A response is accepted only from a tool
that ended well, and every call of the transport returns. A file that is parsed
is the image of what was read from it, its parameters cost a bounded amount and
derive, and a code reads as itself or not at all.

## 2. Modules

| Module | Models | EXTENDS / uses |
|---|---|---|
| `Keyslot` | types, policies, one slot, wrapping and unwrapping, the parse checks, what a call of `Unlock` may return: constant-level | |
| `KeyslotStore` | what an envelope promises: a set of slots around one key, every call atomic | |
| `Envelope` | an envelope's life: create, add, remove, save, crash, damage, parse, unlock; implements `KeyslotStore` | `Keyslot`; `KeyslotStore` by INSTANCE |
| `Unlock` | one `Envelope.Unlock` call, step by step; returns what `Envelope`'s does | `Keyslot` |
| `Ykman` | the ykman transport and its subprocess | |
| `WireFormat` | `Marshal`, the bytes in a file, `ParseEnvelope` read by read | |
| `KDFParams` | cost parameters in fixed-width arithmetic: enroll, store, damage, `parseKDF`, derive | |
| `RecoveryText` | a recovery code printed, typed back and parsed | |
| `SecretBox` | what securebytes promises: every call one atomic step | |
| `SecureBytes` | the containers with mutexes, buffers, pages and failures; implements `SecretBox` | `SecretBox` by INSTANCE |
| `EnvelopeProofs` | theorems about envelopes, their policy, the life of a file, and the refinement | `Envelope`; `DataLemmas` |
| `UnlockProofs` | theorems about one call of `Unlock` | `Unlock` |
| `SecureBytesProofs` | theorems about the containers, and the refinement | `SecureBytes` |
| `YkmanProofs` | theorems about the transport | `Ykman` |
| `WireFormatProofs`, `KDFParamsProofs` | theorems about the two encodings | `WireFormat`, `KDFParams`; `DataLemmas` |
| `RecoveryTextProofs` | theorems about the printed code | `RecoveryText`; `DataLemmas` |
| `DataLemmas` | lemmas on quotients, offsets, `FlattenSeq` and loops | |
| `MC...` | small instances for TLC | |

The layers meet in `Keyslot`: its slots are what `WireFormat` shows a file to
carry (a field that changes at rest changes one field, or the file is refused),
its `kdf` values "ok", "ok2" and "refused" are the outcomes of `KDFParams`'
`parseKDF`, and the transport answers of `Unlock` are those `Ykman` allows.

Each component module also holds the mutated operators its properties were
tried against (marked *Mutant*); they are not part of any specification.

### Keyslot

Cryptography is ideal. A key is the record of what it was derived from, so two
derivations agree exactly when their inputs do; a sealed box records its key,
its associated data and whether its bytes are intact, and `Verifies` is
`aead.Open`. Random IDs are a counter: they never repeat. Metadata is abstracted
to what checks tell apart: `type`, `id`, the OTP slot `yk` (3 stands for all
bytes above 2), the KDF as none, one of two accepted parameter sets, or
parameters `parseKDF` refuses, and `rest` (salts, nonce, challenge, flags,
label) as enrolled or changed. `Opens(m, s)` is the outcome of the method's
`Unlock` when nothing fails: matching type, the checks before derivation
(`Derivable`: what `parseKDF` and `slotValid` accept), and a verifying tag.
`EffectivePolicy` is the policy all primary slots share, which is what the other
modules reason with; `EffectivePolicyLoop` is the code, a `PolicyRound` per slot
with its early return, and `PolicyLoopAgrees` says that the two are the same.

### Envelope

`env`, `file` and `held` are the `*Envelope`, the persisted bytes and the data
key container of the caller. `op` is the call in flight: `NewEnvelope` has a
step per `Enroll` (`EnrollNext`) and ends in `FinishNewEnvelope`; `AddSlot` has
one that appends (`EnrollAdded`). Between them `Cancel`, `DestroyDEK`, `Damage`
and `Crash` may happen. The data key's length is read by the first step and the
key is sealed by the later ones, as in the code, so the destroyed-meanwhile case
is there. `op.before` is the envelope as the caller of the call in flight left
it; only properties read it.

A YubiKey method announces the touch inside `Enroll`, through a callback of the
application on the same goroutine. While `AddSlot` is there (`Announcing`) the
callback may remove slots of the very envelope (`RemoveSlot`) and add others
(`AddSlotInCallback`, whole calls of methods without a touch of their own), so
the policy that `AddSlot` compared can have changed in every way those calls
allow before it appends. The bound on slots that it checked can be stale then,
too: an envelope may end above `MaxSlots` in memory, as one from `NewEnvelope`
may, and `Marshal` refuses it. Nested YubiKey methods, saving and unlocking
inside the callback are not modelled, nor callbacks inside `NewEnvelope`, whose
slots nobody else can reach yet.

`RemoveSlot`, `Save` (`Marshal` and an atomic write), `Parse` and `Unlock` are
one step each, since nothing they read can change under them. `Unlock` here has
the call's possible outcomes, `Keyslot!UnlockReturns`; `Unlock` the module has
its steps. `Damage` changes one field of one stored slot, or the policy hint;
the reader of the file is `Parses`, which is `parseSlot`'s and
`validateSlotShape`'s checks on what the model keeps of a slot.

`StoreSpec` is the refinement: with `View` the slots of a list become a set of
identity, kind and key, and each step of a call, failing ones and crashes
included, is one step of `KeyslotStore` or none. The abstract store has no
half-created envelope, no second policy, and one key per envelope; the last
holds because `MixKeys` is FALSE, a caller who adds slots only with the key of
the envelope at hand.

### Unlock

`i` and `j` are the loop counters, `pc` the place in the call, `tmp` the
buffers allocated so far (the challenge of a two-factor slot among them) and
`deferred` those a `defer` will destroy. Each step fails where the code can
fail; `DeriveChallenge` and `Announce` are the two steps between the password
key and the touch. `Cancel`, `Swap` (the inserted device
changes) and `DestroySecret` (an owner destroys a secret from another
goroutine) happen between any two steps. The transport answers for the device
inserted at the time of the touch, whatever device the method was meant for.
`ReturnsAsEnvelope` ties the two models of the call together: as long as the
device stays where it is, what the steps return is one of the outcomes that
`UnlockReturns` gives `Envelope`.

### Ykman

A call is `Start`, the wait, and one of the `Finish` actions; `cmd.name` tells
the probe (`version`), `ChallengeResponse` (`otp`) and `Serial` and `Present`
(`list`) apart. The tool prints whitespace-separated tokens: the response in
either case once the key was touched, another 40-hex word, a version, serials,
anything. `child`, `killed` and `held` are what os/exec sees: the process, that
its context killed it, and that someone still has its pipes. `Reap`, `Drain` and
`WaitDelay` are `Wait`: an error of the process first, then the context's, then
`exec.ErrWaitDelay`. Tools are removed and exchanged on `$PATH` (`lookup`), and
the program may change its working directory (`Chdir`, which moves what the
relative path leads to, `here`). `NewYkmanTransport` takes a bare name, an
absolute path or the relative one; `tool` is the path it keeps, and `cmd.exe`
the executable that a command really started. What the code pins is the path: a
file that is replaced under the same path is not modelled.

### WireFormat

`Fields` is the layout of the authenticated metadata in file order, each field
of a fixed length or with a u16 prefix and a bound; `Marshal` and the parser
both follow it, as `marshalMeta` and `parseSlot` do. Every read of the parser is
an action: `take` and `takeU16` are the bounds-checked reader, `end` the end of
the current body. Between `Marshal` and `Header` a file may be cut, lengthened,
or changed in one byte (`Damage`). A slot that was built by a foreign `Method`
has no captured metadata and is marshalled from its fields, with the checks of
`MetaFits`; the library's own carry theirs and are `Sealed`: as `wrapDEK` builds
them for the built-in methods and KDFs. Nothing bounds the KDF parameters of a
sealed slot, since `Enroll` does not; the parser's `validateSlotShape` does, by
the set `Affordable` of the parameters that `parseKDF` takes (which these are is
`KDFParams`' subject).

### KDFParams

Bytes, words and the products `argonMem` and `scryptMem` have their widths, as
`Base`, `Base`^4 and `Wide`. `Outcome` is what the external derivations do with
parameters nobody checked (an error, a panic, a key) and `MemoryTaken` the large
buffer they allocate, computed without a width; scrypt's other one, of 128 * p *
r bytes, is not counted, as `parseKDF` does not. `Enroll` derives before it
stores and does not check bounds, as in the code.

### RecoveryText

`EncodeToString` and `DecodeString` are base32 by bits, with the decoder's
treatment of incomplete groups and spare bits; `cleaned` is
`ParseRecoveryCode`'s filter, `Mapped` what it does with one character.
`LengthAssumption` says that the last base32 group of a code is not full, as
with 32 bytes. It is needed: behind a full group a doubled symbol would be a
group of its own, which the decoder drops. Between `Show` and `Enter` a person
changes case, drops or adds separators, loses, doubles, mistypes or swaps
symbols.

### SecureBytes

A goroutine's call is a chain of `pc` labels: lock, check, callback or critical
section, unlock. `buf` keeps the contents of a buffer after the container let go
of it, so that a copy left behind is visible. `pinned` is the set of pages
`mlock` holds; `PageOf` places buffers on pages. `Fill` is `deriveKEK` over one
or two roles: `buildIKM` measures them all (`FillLen`), allocates the key
material, copies role after role inside nested `Use`, the one place in the
library that holds two mutexes, and gives up when a role was destroyed meanwhile
(`FillAbort`); the key is derived (`FillDerive`) and the key material wiped on
either way out. `ikm` is its contents by role, `room` the roles that had a
length when it was sized. `Len` is one step: its critical section changes
nothing. The finalizer runs `Destroy` in the goroutine `GC` on containers nobody
refers to any more. Left out: the mutex of the key material, which no other
goroutine knows, and the container of the derived key.

`BoxSpec` is the refinement: under the mapping in `SecureBytes` each step is a
step of `SecretBox` or stutters. A goroutine *looks* while its callback runs,
while `Clone` copies and allocates, and while `buildIKM` copies a role.

## 3. Runs

| Run | Instance | Shows |
|---|---|---|
| `envelope_life` | 4 callers, 7 method lists, 2 data keys, 3 slots, 4 enrollments, a touch callback that works on the same envelope; 708 124 states | types, policy, that checks hold until they are used, siblings untouched, failed calls change nothing, the policy loop computes its set definition; implements `KeyslotStore` |
| `envelope_damage` | all four method types and three methods Enroll refuses, 9 method lists (of mixed policy, of 3 for 2 slots), one change at rest; 934 987 states | saved files open; the policy is stable on damaged files too, and the loop agrees with its set definition on them |
| `unlock` | 7 slot lists, 6 method lists, 2 devices, 2 swaps; 189 808 states | nothing left behind, genuine keys, complete verdicts, the outcomes of `Envelope`'s one-step call, touch order, cancelled calls return |
| `securebytes` | 2 goroutines and the finalizer, 3 containers, 2 calls each; 253 422 states | implements `SecretBox`, no stray copy, pinned payloads, whole key material, every call returns |
| `ykman` | 2 installed tools (at the version floor, below it in the last components), found by name, absolute or relative path; 1 device, 3 calls, 2 tokens of output; 1 426 272 states | genuine answers, the pinned tool, every call returns |
| `wire_format` | 21 envelopes at the edges of every length and of the KDF bounds, with every cut, every change of a byte and three tails; 46 468 states | reads stay in the body, parsed files are canonical, written ones are read or refused for their KDF parameters, torn ones refused |
| `kdf_params` | 730 KDFs around every bound and every wrap, every change of a byte; 56 832 states | accepted parameters are bounded and derive; they survive as enrolled |
| `recovery_text` | 3 codes of 7 bytes, 2 slips anywhere; 45 571 states | printed codes are accepted, lost symbols refused, nothing else reads as the code |
| `envelope_weak_kdf`, `unlock_damaged`, `securebytes_shared`, `securebytes_clone` | | a disagreement between a document or comment and the code, see below |

Deadlock is checked in every run. `Envelope` always has a step (`Crash`), and
the others state explicitly where they rest (`Returned`, `Quiet`, `Rest`,
`Done`, `End`), so a state where someone waits for ever would be reported.

**Bounds.** `MaxIds` bounds the enrollments of a behaviour: four fill an
envelope of three slots and replace one, which is every situation the guards
tell apart (none, one, more than one primary; at, above and below the slot
bound). `MaxSlots` stands for 64. The method lists hold what the early return of
the policy loop skips: a list of four in `envelope_life` and lists of three in
`envelope_damage`, with a recovery slot between two primary slots that differ,
or a third primary slot behind them. `MaxDamage` = 1 changes one field of one
slot or the hint, which the rest of the life then works on. `MaxSwaps` = 2 pulls
a device out and inserts another. `MaxCalls` = 2 in `securebytes`: a create and
a use, clone, fill or destroy from each of two goroutines, with the finalizer,
on three containers: one, its clone, and the key material `buildIKM` makes of
one or of both. No run uses symmetry. In `ykman` three calls are a construction
and two calls on the transport; two tokens are a response and another one,
before or after it. `wire_format` has bytes below 6, so that the longest label
needs the upper byte of its length as 256 does. `kdf_params` has words of 12
bits, a memory ceiling of half a word's range as 2 GiB is, and scrypt parameters
within the single bounds that take twice the ceiling. `recovery_text` has codes
of 7 bytes, whose last base32 group has four symbols like that of 32 bytes; the
slips include every alphabet end and neighbour.

**Fairness.** `Unlock`: weak fairness of `Proceed`, the steps the goroutine does
by itself. A touch (`Touch`) and a failing tool (`TransportError`) are promised
by nobody, so only the context ends the wait. That the transport gives up when
the context is done is what `Ykman` shows one level down: weak fairness of
`Proceed`, the steps of the calling goroutine and of os/exec's (the kill, the
wait, the delay), and of `ProbeTimeout`, the timer of `versionProbeTimeout`;
nothing is assumed of the tool, of the user, or of a process that holds the
pipes. `SecureBytes`: strong fairness of each goroutine's steps, since a
`sync.Mutex` in starvation mode is handed to the longest waiter; starting a call
is not fair. `Envelope`, `WireFormat`, `KDFParams` and `RecoveryText` have safety
properties only and no fairness.

### Where the documents and the code differ

With a run that shows it:

- `unlock_damaged`: a changed `YKSlot` byte gives `ErrMalformed` and stops the
  loop before slots that open (`yubikey.go:154`, `envelope.go:152`, against
  `envelope.go:148`).
- `envelope_weak_kdf`: KDF parameters are bounds-checked at parse and unlock but
  not at enroll, so a slot can be sealed that nothing opens; `ParseEnvelope`
  refuses the whole file of such an envelope, which is why `WrittenIsRead` of
  `wire_format` and `SavedEnvelopeOpens` speak of parameters within the bounds.
- `securebytes_shared`: `munlock` releases whole pages, which small Go buffers
  share. `securebytes` places each buffer on a page of its own and shows that
  the order of operations is right then.
- `securebytes_clone`: `Clone` does not zero its scratch copy when `New` fails.
  `NoStrayCopy` is about the containers' buffers and holds all the same; it
  covers neither that scratch nor the copy the caller of `New` still has after a
  refused `mlock`.

Without one, seen while modelling; the models do what the code does:

- An absent YubiKey surfaces as `ErrNoDevice`, while `tumbler.go:152` lists it
  under the uniform `ErrAuthFailed`; the comment at `envelope.go:149` explains
  the behaviour.
- `AddSlot` has no way to tell whether the key it is given is the envelope's, so
  an envelope may hold two keys when a caller mixes them up. `envelope_life`
  sets `MixKeys` to FALSE, a careful caller; `envelope_damage` sets it to TRUE,
  so that an envelope lives on when its caller generates a key or parses beside
  it.
- `ykman list` with a context that is already done is `ErrTouchTimeout`
  (`ykman.go:252` looks at the context first), though `transport.go:61` speaks of
  a touch that was not provided.
- A tool removed after the construction is a `*fs.PathError` from an absolute
  path and so `ErrToolFailure`, not `ErrToolNotFound` (`transport.go:52`).
- When the tool fails after it printed a response, its output is not zeroed
  (`ykman.go:153` returns before the `defer`), and of two candidates on one
  output the copy of the first is dropped without being zeroed
  (`ykman.go:186-187`). No property asks for those buffers to be zeroed.
- A path with a separator in it is kept as it is, relative or not
  (`ykman.go:96-105`), though `ykman.go:53` speaks of the absolute path: after a
  change of the working directory another file runs under it. `ToolIsPinned`
  excepts a transport that was given such a path.

## 4. Proofs

Every theorem is proved for all values of the constants that satisfy the
assumptions its modules name (`NoneAssumption`, `NilAssumption`,
`EnvelopeAssumption` and so on). They say that the parameters are of the right
kind, that numbers fit their widths, and that `None`, which stands for nil, is
not also a method, a key, a device or an envelope; TLC evaluates them on every
run. Three theorems have a hypothesis of their own, given with them below, and
for two of them a run shows that they fail without it. Each argument has the
same shape: an inductive invariant `IInv` whose parts say what a call knows at
each of its steps, one lemma per action that it is kept, and the properties read
off from it. TLC checked each `IInv` on the run of its module before it was
proved.

### Envelope

| Theorem | Statement |
|---|---|
| `TypeCorrect` | `Spec => []TypeOK` |
| `PolicyIsKept` | `Spec => []PolicyHolds` |
| `ChecksAreNotStale` | `Spec => []ChecksStillHold` |
| `PolicyIsStable` | `Spec => PolicyStable` |
| `SavedOpens` | `Spec => []SavedEnvelopeOpens`, when no caller enrolls with KDF parameters that `parseKDF` refuses |
| `SiblingsStayUntouched` | `Spec => SiblingsUntouched` |
| `FailuresChangeNothing` | `Spec => FailureChangesNothing` |
| `StoreIsImplemented` | `Spec => StoreSpec`, for a careful caller and a file that nothing changes at rest |
| `PolicyLoopComputesPolicy` | `Spec => []PolicyLoopAgrees` |

All are in `EnvelopeProofs`.

`PolicyHolds` is not inductive: `EnrollAdded` appends a slot that was checked
against the policy steps earlier, possibly before a touch callback added and
removed other slots, and `FinishNewEnvelope` keeps a declared policy that was
validated steps earlier. The inductive invariant is

    IInv == TypeOK /\ PolicyHolds /\ ChecksStillHold /\ NothingPublished

`ChecksStillHold` carries those checks through the call (it is itself an
invariant of `envelope_life`): whatever a callback did, the envelope still has
the policy that was compared. `NothingPublished`, which `FailureChangesNothing`
needs, says that a call in flight has shown its caller nothing yet: the envelope
is as the caller and its callbacks left it, and the key is the caller's or
destroyed. `TypeOK` is inductive alone and proved first, one step per action;
`WrapDEKType` shows that `Enroll` returns a slot and `DamagedType` that a changed
slot is one. The heart are two lemmas about
`EffectivePolicy` on sequences: `AppendKeepsPolicy`, and `WithoutKeepsPolicy`,
where `RemoveSlot`'s guard on the number of primary slots yields, by
cardinality, another primary slot that remains. `EffectivePolicyIs` turns the
CHOOSE of the definition into a statement about the primary slots;
`IndexOfType` uses the well-foundedness of `<` on the naturals for "the first
slot with this ID". The action properties use the same invariant: of the
actions only `EnrollAdded`, `AddSlotInCallback` and `RemoveSlot` report "added"
or "removed".

`PolicyLoop` is an induction over the slots, with what the loop knows after n of
them: no primary slot so far, or one policy that all of them so far imply, or
two that differ, after which nothing changes any more. The rounds are a
recursive function; that it has a value with the right equation at each round is
`PolicyRounds`, from `LoopExists`.

For the life of an envelope the invariant is strengthened to

    StoreInv == IInv /\ nextId >= 1 /\ ListsWhole /\ Apart /\ FileSafe
                     /\ OneKeyEach

As long as nothing changed at rest: every slot of every list (in memory, on
disk, and half enrolled) is what `wrapDEK` returned, and the IDs of a list are
distinct and were drawn (`ListsWhole`); the ID a call is about to draw for is in
no known envelope (`Apart`); and what `Marshal` checked of the file still holds
(`FileSafe`). Without the distinct IDs `RemoveSlot` could leave a second slot of
the removed ID, without the first part a saved slot need not open, and neither
is visible in one step. `OneKeyEach`, for the careful caller only, is that all
slots of a list wrap one key; the refinement needs it, since `KeyslotStore` has
one key per envelope. `StoreStep` maps each action to a step of `KeyslotStore`
or to none. `SavedOpens` assumes what `envelope_weak_kdf` shows to be necessary.
`StoreIsImplemented` assumes `~MixKeys` (a caller who adds slots only with the
key at hand), `MaxDamage = 0` (an abstract store has no disk that errs), and
that `None` is not a set of abstract slots.

### Unlock

| Theorem of `UnlockProofs` | Statement |
|---|---|
| `TypeCorrect` | `Spec => []TypeOK` |
| `TemporariesAreDestroyed` | `Spec => []NothingLeftBehind` |
| `ReturnedKeyIsGenuine` | `Spec => []KeyIsGenuine` |
| `AuthFailedIsAVerdict` | `Spec => []AuthFailedIsComplete` |
| `TouchComesThird` | `Spec => []TouchAfterDerivation` |
| `UnlockIsAtomic` | `Spec => []ReturnsAsEnvelope` |

`Allocated`: what the call has allocated is a `defer`'s to destroy. `Work`: at
each step inside a method, the contents of its containers and of the challenge
are those of the pair at hand. `History`: every pair before the current one was
tried, and its tag refused. `Verdict`: what each result says of the pair where
the call ended. `UnlockIsAtomic` compares the steps with the set `UnlockReturns`
that `Envelope` uses: with one device in place, what was presented for a pair is
determined (`InsertedIs`), a pair that was passed over does not open
(`PassedOver`), so the first slot that opens is where the steps end, too.

### SecureBytes

| Theorem of `SecureBytesProofs` | Statement |
|---|---|
| `MutexesAreReleased` | `Spec => []TypeOK` |
| `NoCopyIsLeft` | `Spec => []NoStrayCopy` |
| `RolesAreWhole` | `Spec => []KeyMaterialIsWhole` |
| `PayloadsStayPinned` | `Spec => []PayloadIsPinned`, when no two buffers share a page |
| `ContainersAreSecretBoxes` | `Spec => BoxSpec` |

`Locks` says that a mutex is held exactly between `Lock` and `Unlock`, `Callers`
and `Makers` what a call knows of the container it works on and of the one it
makes, `Buffers` that a payload is in a live container or in one about to be
finished, and that a live container without payload is one that the holder of
its mutex is destroying. The last is why the refinement holds: whoever is
inside a callback holds the mutex, so no `Destroy` is past its check
(`LooksAtPayload`), and the abstract `Destroy` is the step that zeroes the
buffer. `Fills` says of the key
material that a role is either measured and still to be copied, or whole.
The hypothesis of `PayloadsStayPinned` is what `securebytes_shared` shows
to be missing in the code.

### Ykman

| Theorem of `YkmanProofs` | Statement |
|---|---|
| `TypeCorrect` | `Spec => []TypeOK` |
| `AnswersAreGenuine` | `Spec => []AnswerIsGenuine` |
| `ToolStaysPinned` | `Spec => ToolIsPinned` |

`Command`: a transport that is ready has a tool whose version was accepted,
unless its path is relative, and everything but the probe runs what that path
leads to. `Process`: `Run` returns without error
only for a process that ended by itself and well. `Output`: the version a probe
reads is that of the executable it ran. `Outcome`: what a result says of the
process and of what it printed.

### KDF parameters

`KDFParamsProofs` proves, from `KDFAssumption` and `WidthAssumption`:

| Theorem | Statement |
|---|---|
| `AcceptedParametersAreBounded` | `Spec => []AcceptedIsBounded` |
| `AcceptedParametersDerive` | `Spec => []AcceptedDerives` |
| `ParametersAreKept` | `Spec => []ParametersSurvive` |

The run has small widths; the theorems cover every width that fits, and the
constants of `kdf.go` do: a uint32 times 1024 is below 2^64, so is
128 * 2^22 * 32, and eight KiB blocks for each of 16 lanes are below 2 GiB. What
`parseKDF` accepts is what the stored bytes stand for, and

- `u32Bytes` and `Uint32` are inverses of each other (`ReadBack`, `WriteBack`, by
  uniqueness of quotient and remainder), so `MarshalParams` is a bijection
  between KDFs and nine bytes (`Encodes`, `Decodes`): a changed byte is a changed
  parameter;
- under `WidthAssumption` no product wraps (`ArgonExact`, `ScryptExact`), so the
  checks in fixed width are the bounds in the natural numbers
  (`BoundsAreExact`), from which the memory (`BoundedMemory`) and the outcome
  (`DerivesKey`) follow.

`IInv` says that the stored bytes are those of the KDF exactly when nothing
changed at rest, and that what was parsed is `parseKDF` of them.

### Wire format

`WireFormatProofs` proves, from the assumptions of `WireFormat`:

| Theorem | Statement |
|---|---|
| `TypeCorrect` | `Spec => []TypeOK` |
| `ReaderIsBounded` | `Spec => []ReaderStaysInBody` |
| `OneFilePerEnvelope` | `Spec => []ParsedIsCanonical` |
| `RoundTrip` | `Spec => []WrittenIsRead` |
| `LengthIsSeen` | `Spec => []DamagedLengthIsRefused` |

The invariant describes the reader's position twice. `Reader` is about any file,
damaged or not: the bytes before the offset are the image of what was read so
far (`ReadSoFar`, the header and the bodies of the slots; inside a body the
fields before the current one, `Encoded`), and each slot read is one that the
library could have sealed, with KDF parameters in the bounds (`CostsInBounds`).
At the last slot this says that the file is the image of the envelope that is
returned. `Tracks` is about a file that was cut or lengthened, or not touched:
it agrees with the image of the envelope written as far as both go, so what was
read so far is what was written, and the only thing left to go wrong is the
length. Neither part implies the other. The lemmas of each action carry both
parts over one read: the bytes at the offset are those of one field (`ReadIs`,
`OwnField`), of a length (`SlotLenStep`, `TracksSlotLen`) or of the sealed key,
and appending what was read gives the next position (`ReadFieldStep`,
`BeginningAppend`).

Four assumptions: `WireAssumption` and `WrittenAssumption` are the kinds of the
parameters; `WidthAssumption` that every bound fits the number it is written as
(16 bits for counts and lengths, 32 for a file), and that a sealed key is not
empty; `OwnAssumption` that a slot that carries its metadata is as `wrapDEK`
seals it for the four built-in methods and two built-in KDFs. It does not bound
the parameters, since `Enroll` does not: `RoundTrip` promises that a written file
is read back when they are in the bounds, and that otherwise they are the reason
it is refused. A KDF object from
outside the library could give a slot an ID or parameters that `ParseEnvelope`
refuses, and the round trip with it is not promised.

### Recovery text

`RecoveryTextProofs` proves, from the assumptions of `RecoveryText`:

| Theorem | Statement |
|---|---|
| `PrintedIsRead` | `Spec => []EnteredAsPrinted` |
| `LossIsNoticed` | `Spec => []LostSymbolIsRefused` |
| `OnlyItselfIsRead` | `Spec => []ReadAsItselfOnly` |

The inductive invariant is `TypeOK /\ Copied`: while no slip did harm, the text
cleaned is the printed symbols; after one symbol lost or doubled it is one
symbol shorter or longer, whatever separators and cases were typed before or
after; and what was read is `ParseRecoveryCode` of the text. None of the three
properties says anything before the last step, so each needs it. It rests on
two groups of lemmas.

- Cleaning goes character by character (`CleanedParts`, from `ExpandConcat`), so
  a slip changes the cleaned text only where it was made (`CleanedAround`,
  `CleanedSame`), and the grouping of `FormatRecoveryCode` leaves no trace
  (`CleanedGrouped`, by induction over the symbols).
- `Regroup` keeps the bits: five binary digits are a symbol and eight are a byte
  and give the digits back (`FiveDigits`, `EightDigits`), so bit n of the encoded
  sequence is bit n of the code (`Encoded`, `Decoded`), the decoder undoes the
  encoder (`RoundTrip`), and two texts that decode to one code agree in every
  bit that the decoder looked at (`DecodedTheSame`). `Lengths` is the arithmetic
  of the lengths: when the last group is not full, no other number of symbols
  yields as many bytes.

### Lemmas on numbers and sequences

`DataLemmas` has what the encodings and the loops need: quotient and remainder
by a product of bases; what lies where in a sequence (`Lies`), which is how the
proofs speak of an offset; sequences made by replacing each element of another
by a sequence (`Expand`); functions defined by rounds (`LoopExists`); and
`FlattenSeq`, which the library defines by recursion on the length of its
argument, one piece at a time (`Pieces`, `PiecesLie`, `FlattenAppend`,
`FlattenConcat`). The latter needs inductions over sequences. The library's
theorems on recursive functions take an operator, which the provers cannot
instantiate; `Induction` states it for a set of numbers instead, from the
well-foundedness of `<`, `SeqInduction` for a set of sequences, and with them
`FlattenExists` and `FlattenUnique` show that the recursive definition has its
value.

### Model-checked only

`CancelReturns` and both `CallsReturn`: liveness under fairness, which this
prover does not do. The bounds of their runs are those of section 3.

## 5. Not modelled

- Concurrent mutation of one Envelope, or mutation under an `Unlock`, which its
  doc forbids (`envelope.go:72`): the outcome is a data race on the slice of
  slots.
- `raiseMemlockLimit`: it makes a refused `mlock` rarer and changes no container;
  `mlock` may be refused at any time in the models.
- `ValidateSafety`, a report on an envelope that no other operation calls:
  `Marshal` writes what it would warn about.
- Inside a touch callback: a second method that waits for a touch, saving, and
  unlocking (see `Envelope` in section 2).
- A tool replaced in place under the path that was pinned, the buffer of
  128 * p * r bytes that scrypt allocates, the bytes of an envelope parsed,
  changed and marshalled again (`Envelope` does that sequence on slots,
  `WireFormat` the bytes), and the mutex of the key material.
- Redacted rendering (constants), platforms without mlock (no-ops), the PIV stub,
  and of `FakeTransport` the hooks and the counter; its HMAC is `Keyslot`'s
  `Response`.
- 32-bit platforms, where `int(uint32)` of a length may wrap: the reader's
  arithmetic is in the integers, as it is with a 64-bit `int`.
- Slots of foreign `Method`s, except in `WireFormat`, and a KDF object with
  parameters of zero, with which `Enroll` panics inside the derivation
  (`KDFParams` ends there).
- `maxEnvelopeLen` is never reached by 64 slots of the largest size, so in the
  library the slot bound always bites first; `WireFormat` has both.
- Wording of errors, the text of the touch prompt, timing and other side
  channels; cryptography is ideal.

## 6. Plan

Done: the models of every component that keeps state or decides, both
refinements, the tie between the two models of `Unlock`, and the proofs of all
their safety properties. What a change of the code would call for:

1. A new method or transport (the PIV stub, once it is one): an `Opens` case in
   `Keyslot`, its steps in `Unlock`, and a lemma per step in `UnlockProofs`.
2. A lock in `Envelope`, if callers should no longer have to serialise: then
   several calls in flight, and `ChecksStillHold` becomes the property to look
   at.
3. Shorter proofs where one leaf cites facts of several kinds.
