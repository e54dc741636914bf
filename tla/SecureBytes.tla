----------------------------- MODULE SecureBytes -----------------------------
(***************************************************************************)
(* Containers of package securebytes shared by goroutines: New, Use, Clone,*)
(* Len, Destroy and the finalizer, step by step, with the mutex, the       *)
(* payload buffer and the pages that mlock pins.  Fill is combine.go's     *)
(* deriveKEK: measure the secret of each role, allocate the key material   *)
(* with NewZero, copy the secrets into it one after the other inside nested*)
(* Uses, derive the key and destroy the key material.                      *)
(*                                                                         *)
(* The kernel may refuse mlock and munlock; a callback may panic, which    *)
(* leaves Use through its deferred Unlock like any return.  Which error a  *)
(* call returns decides nothing here, so it is not part of the state.      *)
(***************************************************************************)
EXTENDS Integers, FiniteSets, Sequences

CONSTANTS
  Goroutines,   \* application goroutines
  GC,           \* the runtime's finalizer goroutine
  Containers,   \* container identities, never reused
  Pages,        \* memory pages
  PageOf,       \* the page a container's buffer is on
  Payloads,     \* secrets
  Zero,         \* a buffer of zero bytes
  Nobody,       \* no container
  Free,         \* an unlocked mutex
  MaxCalls      \* bound: calls per goroutine

ASSUME SecureBytesAssumption ==
  /\ GC \notin Goroutines
  /\ PageOf \in [Containers -> Pages]
  /\ Free \notin Goroutines \cup {GC}
  /\ Zero \notin Payloads
  /\ Nobody \notin Containers
  /\ MaxCalls \in Nat

Threads == Goroutines \cup {GC}

VARIABLES
  buf,         \* the memory of each container's buffer, released or not
  state,       \* "unborn", "making", "live" or "destroyed"
  mu,          \* the goroutine that holds each container's mutex, or Free
  pinned,      \* the pages mlock holds in memory
  reachable,   \* the containers some goroutine still refers to
  pc,          \* where each goroutine is
  arg, out,    \* the container it works on, and the one it makes
  src,         \* the caller's buffer that New copies from
  scratch,     \* the buffer Clone copies the payload to and passes to New
  ikm,         \* the parts of the key material Fill assembles in out
  roles, at,   \* the containers Fill reads, and which of them is its arg
  room,        \* the parts whose container Len measured as not empty
  calls        \* calls made so far

buffers == <<src, scratch, ikm>>
filling == <<roles, at, room>>
memory == <<buf, state, pinned>>
locals == <<arg, out, src, scratch, ikm, roles, at, room, calls>>
vars == <<buf, state, mu, pinned, reachable, pc, arg, out, src, scratch, ikm,
          roles, at, room, calls>>

Idle(g) == pc[g] = "idle"

Goto(g, label) == pc' = [pc EXCEPT ![g] = label]

Lock(g, c) == mu[c] = Free /\ mu' = [mu EXCEPT ![c] = g]

Unlock(c) == mu' = [mu EXCEPT ![c] = Free]

Return(g) ==
  /\ Goto(g, "idle")
  /\ arg' = [arg EXCEPT ![g] = Nobody]
  /\ out' = [out EXCEPT ![g] = Nobody]
  /\ roles' = [roles EXCEPT ![g] = <<>>]
  /\ at' = [at EXCEPT ![g] = 0]
  /\ room' = [room EXCEPT ![g] = {}]
  /\ UNCHANGED calls

(* A goroutine starts a call on container c that may make container o.     *)
Call(g, c, o, label) ==
  /\ Idle(g)
  /\ calls[g] < MaxCalls
  /\ Goto(g, label)
  /\ arg' = [arg EXCEPT ![g] = c]
  /\ out' = [out EXCEPT ![g] = o]
  /\ calls' = [calls EXCEPT ![g] = @ + 1]

Usable(c) == state[c] \in {"live", "destroyed"} /\ c \in reachable

Making(c) ==
  /\ state[c] = "unborn"
  /\ state' = [state EXCEPT ![c] = "making"]

-----------------------------------------------------------------------------
(* New *)

(* Copy the caller's payload into a fresh buffer.                          *)
New(g, c, v) ==
  /\ Making(c)
  /\ Call(g, c, c, "new.mlock")
  /\ buf' = [buf EXCEPT ![c] = v]
  /\ src' = [src EXCEPT ![g] = v]
  /\ UNCHANGED <<mu, pinned, reachable, scratch, ikm, filling>>

(* mlock refused: wipe the copy, leave the caller's buffer alone.          *)
NewRefused(g) ==
  /\ pc[g] = "new.mlock"
  /\ buf' = [buf EXCEPT ![out[g]] = Zero]
  /\ Return(g)
  /\ UNCHANGED <<state, mu, pinned, reachable, buffers>>

NewPinned(g) ==
  /\ pc[g] = "new.mlock"
  /\ pinned' = pinned \cup {PageOf[out[g]]}
  /\ Goto(g, "new.zero")
  /\ UNCHANGED <<buf, state, mu, reachable, locals>>

(* Zero the caller's buffer and return the container.                      *)
NewDone(g) ==
  /\ pc[g] = "new.zero"
  /\ src' = [src EXCEPT ![g] = Zero]
  /\ state' = [state EXCEPT ![out[g]] = "live"]
  /\ reachable' = reachable \cup {out[g]}
  /\ Return(g)
  /\ UNCHANGED <<buf, mu, pinned, scratch, ikm>>

-----------------------------------------------------------------------------
(* Use and Clone *)

Use(g, c) ==
  /\ Usable(c)
  /\ Call(g, c, c, "use.lock")
  /\ UNCHANGED <<memory, mu, reachable, buffers, filling>>

(* Clone is a Use whose callback makes container o.                        *)
Clone(g, c, o) ==
  /\ Usable(c)
  /\ Making(o)
  /\ Call(g, c, o, "clone.lock")
  /\ UNCHANGED <<buf, mu, pinned, reachable, buffers, filling>>

(* Mutant: the destroyed flag is not looked at under the lock.             *)
UseLockUnchecked(g) ==
  /\ pc[g] \in {"use.lock", "clone.lock"}
  /\ Lock(g, arg[g])
  /\ Goto(g, IF pc[g] = "use.lock" THEN "use.callback" ELSE "clone.callback")
  /\ UNCHANGED <<memory, reachable, locals>>

UseLock(g) ==
  /\ pc[g] \in {"use.lock", "clone.lock"}
  /\ Lock(g, arg[g])
  /\ Goto(g, IF state[arg[g]] = "destroyed" THEN "use.destroyed"
             ELSE IF pc[g] = "use.lock" THEN "use.callback"
             ELSE "clone.callback")
  /\ UNCHANGED <<memory, reachable, locals>>

UseDestroyed(g) ==
  /\ pc[g] = "use.destroyed"
  /\ Unlock(arg[g])
  /\ Return(g)
  /\ UNCHANGED <<memory, reachable, buffers>>

(* Mutant: no defer, so a panic keeps the mutex.                           *)
UseDonePanicKeepsLock(g) ==
  /\ pc[g] = "use.callback"
  /\ \/ Unlock(arg[g]) /\ Return(g)
     \/ UNCHANGED mu /\ Return(g)
  /\ UNCHANGED <<memory, reachable, buffers>>

(* The callback returns or panics.                                         *)
UseDone(g) ==
  /\ pc[g] = "use.callback"
  /\ Unlock(arg[g])
  /\ Return(g)
  /\ UNCHANGED <<memory, reachable, buffers>>

(* Clone's callback copies the payload to a scratch buffer, and New copies *)
(* that to its own, all under the source's lock.                           *)
CloneCopy(g) ==
  /\ pc[g] = "clone.callback"
  /\ scratch' = [scratch EXCEPT ![g] = buf[arg[g]]]
  /\ buf' = [buf EXCEPT ![out[g]] = buf[arg[g]]]
  /\ Goto(g, "clone.mlock")
  /\ UNCHANGED <<state, mu, pinned, reachable, arg, out, src, ikm, filling,
                 calls>>

(* New wipes its own copy and leaves the buffer it was given; so does Clone*)
CloneRefused(g) ==
  /\ pc[g] = "clone.mlock"
  /\ buf' = [buf EXCEPT ![out[g]] = Zero]
  /\ Unlock(arg[g])
  /\ Return(g)
  /\ UNCHANGED <<state, pinned, reachable, buffers>>

CloneDone(g) ==
  /\ pc[g] = "clone.mlock"
  /\ pinned' = pinned \cup {PageOf[out[g]]}
  /\ scratch' = [scratch EXCEPT ![g] = Zero]
  /\ state' = [state EXCEPT ![out[g]] = "live"]
  /\ reachable' = reachable \cup {out[g]}
  /\ Unlock(arg[g])
  /\ Return(g)
  /\ UNCHANGED <<buf, src, ikm>>

-----------------------------------------------------------------------------
(* Fill: combine.go's deriveKEK over the roles that are present *)

Fill(g, rs, o) ==
  /\ \A i \in DOMAIN rs : Usable(rs[i])
  /\ Making(o)
  /\ Call(g, rs[1], o, "fill.len")
  /\ roles' = [roles EXCEPT ![g] = rs]
  /\ at' = [at EXCEPT ![g] = 1]
  /\ UNCHANGED <<buf, mu, pinned, reachable, buffers, room>>

Role(g, i) ==
  /\ at' = [at EXCEPT ![g] = i]
  /\ arg' = [arg EXCEPT ![g] = roles[g][i]]

(* On to the next role, or back to the first with the next task.           *)
NextRole(g, again, next) ==
  \/ at[g] < Len(roles[g]) /\ Role(g, at[g] + 1) /\ Goto(g, again)
  \/ at[g] = Len(roles[g]) /\ Role(g, 1) /\ Goto(g, next)

(* Len sizes the buffer: 0 for a container already destroyed.  Its critical*)
(* section changes nothing, so lock, read and unlock are one step that     *)
(* needs the mutex free.                                                   *)
FillLen(g) ==
  /\ pc[g] = "fill.len"
  /\ mu[arg[g]] = Free
  /\ room' = IF state[arg[g]] = "destroyed" THEN room
             ELSE [room EXCEPT ![g] = @ \cup {at[g]}]
  /\ NextRole(g, "fill.len", "fill.alloc")
  /\ UNCHANGED <<memory, mu, reachable, out, buffers, roles, calls>>

(* NewZero.  Nobody else knows the key material's container, so its own    *)
(* mutex never makes anybody wait.                                         *)
FillAlloc(g) ==
  /\ pc[g] = "fill.alloc"
  /\ \/ /\ Return(g)
        /\ UNCHANGED <<pinned, ikm>>
     \/ /\ pinned' = pinned \cup {PageOf[out[g]]}
        /\ ikm' = [ikm EXCEPT ![g] = [i \in 1..Len(roles[g]) |-> Zero]]
        /\ Goto(g, "fill.lock")
        /\ UNCHANGED <<arg, out, filling, calls>>
  /\ UNCHANGED <<buf, state, mu, reachable, src, scratch>>

(* Mutant: the inner Use's error is not looked at.                         *)
FillLockUnchecked(g) ==
  /\ pc[g] = "fill.lock"
  /\ Lock(g, arg[g])
  /\ Goto(g, "fill.copy")
  /\ UNCHANGED <<memory, reachable, locals>>

(* The inner Use.                                                          *)
FillLock(g) ==
  /\ pc[g] = "fill.lock"
  /\ Lock(g, arg[g])
  /\ state[arg[g]] # "destroyed"
  /\ Goto(g, "fill.copy")
  /\ UNCHANGED <<memory, reachable, locals>>

(* copy stops at the end of a buffer that was sized without this role.     *)
FillCopy(g) ==
  /\ pc[g] = "fill.copy"
  /\ ikm' = IF at[g] \in room[g] THEN [ikm EXCEPT ![g][at[g]] = buf[arg[g]]]
            ELSE ikm
  /\ Unlock(arg[g])
  /\ NextRole(g, "fill.lock", "fill.derive")
  /\ UNCHANGED <<memory, reachable, out, src, scratch, roles, room, calls>>

(* Mutant: the way out through a failed role forgets the key material.     *)
FillAbortKeepsKeyMaterial(g) ==
  /\ pc[g] = "fill.lock"
  /\ mu[arg[g]] = Free
  /\ state[arg[g]] = "destroyed"
  /\ Return(g)
  /\ UNCHANGED <<memory, mu, reachable, buffers>>

(* A role was destroyed since it was measured: the inner Use returns       *)
(* ErrDestroyed, and the roles copied so far are still in the buffer.      *)
FillAbort(g) ==
  /\ pc[g] = "fill.lock"
  /\ mu[arg[g]] = Free
  /\ state[arg[g]] = "destroyed"
  /\ Goto(g, "fill.zero")
  /\ UNCHANGED <<memory, mu, reachable, locals>>

(* HKDF reads the key material, and New holds the key or refuses it.       *)
FillDerive(g) ==
  /\ pc[g] = "fill.derive"
  /\ Goto(g, "fill.zero")
  /\ UNCHANGED <<memory, mu, reachable, locals>>

(* The key material's Destroy, on every way out once it is allocated.      *)
FillZero(g) ==
  /\ pc[g] = "fill.zero"
  /\ ikm' = [ikm EXCEPT ![g] = [i \in DOMAIN @ |-> Zero]]
  /\ Goto(g, "fill.munlock")
  /\ UNCHANGED <<memory, mu, reachable, arg, out, src, scratch, filling,
                 calls>>

(* An error of its munlock is dropped.                                     *)
FillDone(g) ==
  /\ pc[g] = "fill.munlock"
  /\ pinned' \in {pinned, pinned \ {PageOf[out[g]]}}
  /\ state' = [state EXCEPT ![out[g]] = "destroyed"]
  /\ Return(g)
  /\ UNCHANGED <<buf, mu, reachable, buffers>>

-----------------------------------------------------------------------------
(* Destroy and the finalizer *)

Destroy(g, c) ==
  /\ Usable(c)
  /\ Call(g, c, c, "destroy.lock")
  /\ UNCHANGED <<memory, mu, reachable, buffers, filling>>

(* The last reference is dropped, so no goroutine is inside a call on c.   *)
Drop(c) ==
  /\ state[c] \in {"live", "destroyed"}
  /\ c \in reachable
  /\ \A g \in Threads : Idle(g) \/ c \notin {arg[g], out[g]}
  /\ reachable' = reachable \ {c}
  /\ UNCHANGED <<memory, mu, pc, locals>>

(* finalize calls Destroy on a container nobody can reach any more.        *)
Finalize(c) ==
  /\ Idle(GC)
  /\ state[c] = "live"
  /\ c \notin reachable
  /\ mu[c] = Free
  /\ Goto(GC, "destroy.lock")
  /\ arg' = [arg EXCEPT ![GC] = c]
  /\ UNCHANGED <<memory, mu, reachable, out, buffers, filling, calls>>

DestroyLock(g) ==
  /\ pc[g] = "destroy.lock"
  /\ Lock(g, arg[g])
  /\ Goto(g, IF state[arg[g]] = "destroyed" THEN "destroy.again"
             ELSE "destroy.zero")
  /\ UNCHANGED <<memory, reachable, locals>>

DestroyAgain(g) ==
  /\ pc[g] = "destroy.again"
  /\ Unlock(arg[g])
  /\ Return(g)
  /\ UNCHANGED <<memory, reachable, buffers>>

(* Mutant: the page is released before the payload is zeroed.              *)
DestroyUnpinsFirst(g) ==
  /\ pc[g] = "destroy.zero"
  /\ pinned' = pinned \ {PageOf[arg[g]]}
  /\ Goto(g, "destroy.munlock")
  /\ UNCHANGED <<buf, state, mu, reachable, locals>>

DestroyZero(g) ==
  /\ pc[g] = "destroy.zero"
  /\ buf' = [buf EXCEPT ![arg[g]] = Zero]
  /\ Goto(g, "destroy.munlock")
  /\ UNCHANGED <<state, mu, pinned, reachable, locals>>

(* munlock is asked for the whole page; refused or not, the container is   *)
(* destroyed and lets go of its buffer.                                    *)
DestroyDone(g) ==
  /\ pc[g] = "destroy.munlock"
  /\ pinned' \in {pinned, pinned \ {PageOf[arg[g]]}}
  /\ state' = [state EXCEPT ![arg[g]] = "destroyed"]
  /\ Unlock(arg[g])
  /\ Return(g)
  /\ UNCHANGED <<buf, reachable, buffers>>

-----------------------------------------------------------------------------
(* Specification *)

Init ==
  /\ buf = [c \in Containers |-> Zero]
  /\ state = [c \in Containers |-> "unborn"]
  /\ mu = [c \in Containers |-> Free]
  /\ pinned = {}
  /\ reachable = {}
  /\ pc = [g \in Threads |-> "idle"]
  /\ arg = [g \in Threads |-> Nobody]
  /\ out = [g \in Threads |-> Nobody]
  /\ src = [g \in Threads |-> Zero]
  /\ scratch = [g \in Threads |-> Zero]
  /\ ikm = [g \in Threads |-> <<>>]
  /\ roles = [g \in Threads |-> <<>>]
  /\ at = [g \in Threads |-> 0]
  /\ room = [g \in Threads |-> {}]
  /\ calls = [g \in Threads |-> 0]

Start(g) ==
  \/ \E c \in Containers :
       \/ \E v \in Payloads : New(g, c, v)
       \/ Use(g, c)
       \/ Destroy(g, c)
  \/ \E c, o \in Containers : Clone(g, c, o) \/ Fill(g, <<c>>, o)
  \/ \E c, d, o \in Containers : c # d /\ Fill(g, <<c, d>>, o)

(* The steps of a call that is under way.                                  *)
Step(g) ==
  \/ NewRefused(g)
  \/ NewPinned(g)
  \/ NewDone(g)
  \/ UseLock(g)
  \/ UseDestroyed(g)
  \/ UseDone(g)
  \/ CloneCopy(g)
  \/ CloneRefused(g)
  \/ CloneDone(g)
  \/ FillLen(g)
  \/ FillAlloc(g)
  \/ FillLock(g)
  \/ FillCopy(g)
  \/ FillAbort(g)
  \/ FillDerive(g)
  \/ FillZero(g)
  \/ FillDone(g)
  \/ DestroyLock(g)
  \/ DestroyAgain(g)
  \/ DestroyZero(g)
  \/ DestroyDone(g)

Quiet == (\A g \in Threads : Idle(g)) /\ UNCHANGED vars

Next ==
  \/ \E g \in Goroutines : Start(g)
  \/ \E g \in Threads : Step(g)
  \/ \E c \in Containers : Drop(c) \/ Finalize(c)
  \/ Quiet

(* Goroutines are scheduled, callbacks return, and a sync.Mutex in         *)
(* starvation mode is handed to its longest waiter.                        *)
Fairness == \A g \in Threads : SF_vars(Step(g))

Spec == Init /\ [][Next]_vars /\ Fairness

-----------------------------------------------------------------------------
(* Properties *)

Labels == {"idle", "new.mlock", "new.zero", "use.lock", "clone.lock",
           "use.destroyed", "use.callback", "clone.callback", "clone.mlock",
           "fill.len", "fill.alloc", "fill.lock", "fill.copy", "fill.derive",
           "fill.zero", "fill.munlock", "destroy.lock", "destroy.again",
           "destroy.zero", "destroy.munlock"}

(* Types, and the mutexes: one is held only inside a call on its container *)
(* by the goroutine that makes the call, also when a callback panicked.    *)
TypeOK ==
  /\ buf \in [Containers -> Payloads \cup {Zero}]
  /\ state \in [Containers -> {"unborn", "making", "live", "destroyed"}]
  /\ mu \in [Containers -> Threads \cup {Free}]
  /\ pinned \subseteq Pages
  /\ reachable \subseteq Containers
  /\ pc \in [Threads -> Labels]
  /\ arg \in [Threads -> Containers \cup {Nobody}]
  /\ out \in [Threads -> Containers \cup {Nobody}]
  /\ src \in [Threads -> Payloads \cup {Zero}]
  /\ scratch \in [Threads -> Payloads \cup {Zero}]
  /\ ikm \in [Threads -> Seq(Payloads \cup {Zero})]
  /\ roles \in [Threads -> Seq(Containers)]
  /\ at \in [Threads -> Nat]
  /\ room \in [Threads -> SUBSET Nat]
  /\ calls \in [Threads -> 0..MaxCalls]
  /\ \A k \in Containers : mu[k] # Free =>
       ~Idle(mu[k]) /\ k = arg[mu[k]]

(* The goroutine is inside a callback on arg[g], or a step that needs the  *)
(* payload of arg[g] to hold still.                                        *)
Looking(g) ==
  pc[g] \in {"use.callback", "clone.callback", "clone.mlock", "fill.copy"}

(* The container is between its creation and the first step of Destroy.    *)
Holds(c) == state[c] = "live" /\ buf[c] \in Payloads

(* What SecretBox knows of a container: its payload from the moment it is  *)
(* live to the moment the payload is wiped; and of a goroutine: what it    *)
(* looks at.                                                               *)
boxes ==
  [c \in Containers |->
     IF state[c] \in {"unborn", "making"} THEN "unborn"
     ELSE IF Holds(c) THEN buf[c] ELSE "gone"]

looks == [g \in Threads |-> IF Looking(g) THEN arg[g] ELSE Nobody]

(* Whatever the interleaving of Use, Clone, Fill, Destroy and the          *)
(* finalizer, the containers behave as SecretBox: a callback, a Clone and  *)
(* key material being assembled only ever see the one true payload, never  *)
(* zeroes, and nothing is destroyed under them or comes back.              *)
Box == INSTANCE SecretBox WITH
         Goroutines <- Threads,
         Unborn <- "unborn",
         Gone <- "gone",
         box <- boxes,
         looking <- looks

BoxSpec == Box!Spec

(* The parts of the key material that hold a secret.                       *)
Filled(g) == {i \in DOMAIN ikm[g] : ikm[g][i] \in Payloads}

(* A buffer of a container that holds a secret belongs to a live container,*)
(* or to a call that is under way, and key material to a deriveKEK that is:*)
(* a refused mlock wipes the copy, Destroy wipes the payload, and key      *)
(* material that was filled in part before a role turned out destroyed is  *)
(* wiped like any other.                                                   *)
NoStrayCopy ==
  /\ \A c \in Containers : buf[c] \in Payloads =>
       \/ state[c] = "live"
       \/ \E g \in Threads : ~Idle(g) /\ c = out[g]
  /\ \A g \in Threads : Filled(g) # {} => ~Idle(g)

(* "pins its payload in non-swappable memory": as long as a container holds*)
(* its payload, or key material a part of it, its page is pinned, until the*)
(* buffer has been zeroed.                                                 *)
PayloadIsPinned ==
  /\ \A c \in Containers : Holds(c) => PageOf[c] \in pinned
  /\ \A g \in Threads : Filled(g) # {} => PageOf[out[g]] \in pinned

(* The key is derived from every role's own secret: one that was destroyed *)
(* before it was measured, between that and the copy, or while another role*)
(* was copied is never left out of the key material or copied as zeroes,   *)
(* and the key material is not wiped before the key is derived.            *)
KeyMaterialIsWhole ==
  \A g \in Threads : pc[g] = "fill.derive" =>
    \A i \in DOMAIN roles[g] :
      /\ i \in Filled(g)
      /\ Holds(roles[g][i]) => ikm[g][i] = buf[roles[g][i]]

(* Every call returns, however the mutexes are contended, a callback       *)
(* panics or the kernel refuses.                                           *)
CallsReturn == \A g \in Threads : ~Idle(g) ~> Idle(g)

(* "destroyed as soon as it is no longer needed": a Clone that has returned*)
(* has left no copy of the payload outside a container.                    *)
CloneLeavesNothing == \A g \in Threads : Idle(g) => scratch[g] = Zero
=============================================================================
