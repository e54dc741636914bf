-------------------------- MODULE SecureBytesProofs --------------------------
(***************************************************************************)
(* Theorems about SecureBytes, for any number of goroutines, containers,   *)
(* pages, payloads and calls.                                              *)
(*                                                                         *)
(* The properties of the module follow from one inductive invariant, IInv: *)
(* who holds which mutex at which step (Locks), what a call in flight knows*)
(* of the container it works on and of the one it makes (Callers, Makers), *)
(* what a buffer holds in each state of its container (Buffers), and how   *)
(* far the key material of a Fill has come (Fills).                        *)
(***************************************************************************)
EXTENDS SecureBytes, TLAPS

-----------------------------------------------------------------------------
(* The inductive invariant *)

Types ==
  /\ buf \in [Containers -> Payloads \cup {Zero}]
  /\ state \in [Containers -> {"unborn", "making", "live", "destroyed"}]
  /\ mu \in [Containers -> Threads \cup {Free}]
  /\ pinned \subseteq Pages
  /\ reachable \subseteq Containers
  /\ pc \in [Threads -> Labels]
  /\ arg \in [Threads -> Containers \cup {Nobody}]
  /\ out \in [Threads -> Containers \cup {Nobody}]
  /\ src \in [Threads -> Payloads \cup {Zero}]
  /\ scratch \in [Threads -> Payloads \cup {Zero}]
  /\ calls \in [Threads -> 0..MaxCalls]

(* The variables that only Fill uses.                                      *)
FillTypes ==
  /\ ikm \in [Threads -> Seq(Payloads \cup {Zero})]
  /\ roles \in [Threads -> Seq(Containers)]
  /\ at \in [Threads -> Nat]
  /\ room \in [Threads -> SUBSET Nat]

(* Where a goroutine holds the mutex of the container it works on.         *)
HoldsArg == {"use.destroyed", "use.callback", "clone.callback", "clone.mlock",
             "fill.copy", "destroy.again", "destroy.zero", "destroy.munlock"}

(* Where it assembles key material, and where that may hold a secret.      *)
Filling == {"fill.len", "fill.alloc", "fill.lock", "fill.copy", "fill.derive",
            "fill.zero", "fill.munlock"}
Assembling == {"fill.lock", "fill.copy", "fill.derive", "fill.zero"}

(* Where the container a goroutine makes is not yet anybody else's.        *)
Unfinished == {"new.mlock", "new.zero", "clone.lock", "clone.callback",
               "clone.mlock"} \cup Filling

(* Where a goroutine relies on the container it works on being live.       *)
NeedsLive == {"use.callback", "clone.callback", "clone.mlock", "fill.copy",
              "destroy.zero", "destroy.munlock"}

(* A mutex is held exactly where the code is between Lock and Unlock.      *)
Locks ==
  /\ \A g \in Threads : pc[g] \in HoldsArg => mu[arg[g]] = g
  /\ \A k \in Containers : mu[k] # Free =>
       pc[mu[k]] \in HoldsArg /\ k = arg[mu[k]]

(* The container a call works on exists, and is live where the step needs  *)
(* it.                                                                     *)
Callers ==
  \A g \in Threads :
    /\ ~Idle(g) => arg[g] \in Containers
    /\ ~Idle(g) /\ pc[g] \notin {"new.mlock", "new.zero"} =>
         state[arg[g]] \in {"live", "destroyed"}
    /\ pc[g] \in NeedsLive => state[arg[g]] = "live"
    /\ pc[g] = "destroy.munlock" => buf[arg[g]] = Zero

(* The container a call makes is its own, and holds what it was given.     *)
Makers ==
  /\ \A g \in Threads :
       /\ pc[g] \in Unfinished =>
            out[g] \in Containers /\ state[out[g]] = "making"
       /\ pc[g] \in {"new.mlock", "new.zero"} =>
            out[g] = arg[g] /\ buf[out[g]] \in Payloads
       /\ pc[g] = "clone.mlock" => buf[out[g]] = buf[arg[g]]
  /\ \A g, h \in Threads :
       pc[g] \in Unfinished /\ pc[h] \in Unfinished /\ out[g] = out[h] => g = h

(* A payload is in a live container, or in one about to be finished; and a *)
(* live container has lost its payload only to a Destroy under way.        *)
Buffers ==
  \A k \in Containers :
    /\ buf[k] \in Payloads =>
         \/ state[k] = "live"
         \/ \E g \in Threads :
              pc[g] \in {"new.mlock", "new.zero", "clone.mlock"} /\ k = out[g]
    /\ state[k] = "live" =>
         \/ buf[k] \in Payloads
         \/ mu[k] # Free /\ pc[mu[k]] = "destroy.munlock" /\ arg[mu[k]] = k

Core == Types /\ Locks /\ Callers /\ Makers /\ Buffers

(* Part j holds the secret of its role.                                    *)
Whole(g, j) ==
  /\ j \in DOMAIN ikm[g]
  /\ ikm[g][j] \in Payloads
  /\ Holds(roles[g][j]) => ikm[g][j] = buf[roles[g][j]]

(* Len found a payload, or the container is destroyed for good.            *)
Measured(g, j) == j \in room[g] \/ state[roles[g][j]] = "destroyed"

(* The roles of a Fill exist; those before the current one are measured, or*)
(* whole, and all of them are before the next task starts.                 *)
FillOf(g) ==
  /\ pc[g] \in Filling =>
       /\ at[g] \in 1..Len(roles[g])
       /\ arg[g] = roles[g][at[g]]
       /\ \A j \in 1..Len(roles[g]) :
            state[roles[g][j]] \in {"live", "destroyed"}
  /\ pc[g] = "fill.alloc" => at[g] = 1
  /\ pc[g] = "fill.len" =>
       \A j \in 1..Len(roles[g]) : j < at[g] => Measured(g, j)
  /\ pc[g] \in {"fill.alloc", "fill.lock", "fill.copy"} =>
       \A j \in 1..Len(roles[g]) : Measured(g, j)
  /\ pc[g] \in {"fill.lock", "fill.copy"} =>
       /\ DOMAIN ikm[g] = 1..Len(roles[g])
       /\ \A j \in 1..Len(roles[g]) : j < at[g] => Whole(g, j)
  /\ pc[g] = "fill.derive" => \A j \in 1..Len(roles[g]) : Whole(g, j)
  /\ pc[g] \notin Assembling => Filled(g) = {}

Fills == \A g \in Threads : FillOf(g)

IInv == Core /\ FillTypes /\ Fills

-----------------------------------------------------------------------------
(* Steps of a call *)

(* A call that returns leaves its goroutine's variables in their types.    *)
LEMMA ReturnType ==
  ASSUME Types, NEW g \in Threads, Return(g)
  PROVE  /\ pc' \in [Threads -> Labels]
         /\ UNCHANGED calls
         /\ arg' \in [Threads -> Containers \cup {Nobody}]
         /\ out' \in [Threads -> Containers \cup {Nobody}]
BY DEF Types, Labels, Return, Goto

-----------------------------------------------------------------------------
(* New *)

(* New copies the payload into a container of its own.                     *)
LEMMA NewStep ==
  ASSUME Core, NEW g \in Goroutines, NEW c \in Containers, NEW v \in Payloads,
         New(g, c, v)
  PROVE  Core'
<1>1. Types'
  BY SecureBytesAssumption DEF Core, Types, Labels, New, Making, Call, Idle,
      Goto, Threads
<1>2. Locks'
  BY DEF Core, Types, Locks, Labels, HoldsArg, New, Making, Call,
      Idle, Goto, Threads
<1>3. Callers'
  BY DEF Core, Types, Callers, Labels, NeedsLive, Idle, New, Making, Call,
      Goto, Threads
<1>4. Makers'
  BY DEF Core, Types, Callers, Makers, Labels, NeedsLive, Idle, Unfinished,
      Filling, New, Making, Call, Goto, Threads
<1>5. Buffers'
  BY DEF Core, Types, Buffers, Labels, New, Making, Call, Idle, Goto, Threads
<1> QED
  BY <1>1, <1>2, <1>3, <1>4, <1>5 DEF Core

(* mlock refused in New: the copy is wiped.                                *)
LEMMA NewRefusedStep ==
  ASSUME Core, NEW g \in Threads, NewRefused(g)
  PROVE  Core'
<1>1. Types'
  BY DEF Core, Types, Makers, Labels, Unfinished, Filling, NewRefused, Return,
      Goto, buffers, Threads
<1>2. Locks'
  BY DEF Core, Types, Locks, Labels, HoldsArg, NewRefused, Return,
      Goto, buffers, Threads
<1>3. Callers'
  BY DEF Core, Types, Callers, Labels, NeedsLive, Idle, NewRefused, Return,
      Goto, buffers, Threads
<1>4. Makers'
  BY DEF Core, Types, Callers, Makers, Labels, NeedsLive, Idle, Unfinished,
      Filling, NewRefused, Return, Goto, buffers, Threads
<1>5. Buffers'
  BY SecureBytesAssumption DEF Core, Types, Makers, Buffers, Labels,
      Unfinished, Filling, NewRefused, Return, Goto, buffers, Threads
<1> QED
  BY <1>1, <1>2, <1>3, <1>4, <1>5 DEF Core

(* mlock granted in New.                                                   *)
LEMMA NewPinnedStep ==
  ASSUME Core, NEW g \in Threads, NewPinned(g)
  PROVE  Core'
<1>1. Types'
  BY SecureBytesAssumption DEF Core, Types, Makers, Labels, Unfinished,
      Filling, NewPinned, Goto, locals, Threads
<1>2. Locks'
  BY DEF Core, Types, Locks, Labels, HoldsArg, NewPinned, Goto,
      locals, Threads
<1>3. Callers'
  BY DEF Core, Types, Callers, Labels, NeedsLive, Idle, NewPinned, Goto,
      locals, Threads
<1>4. Makers'
  BY DEF Core, Types, Makers, Labels, Unfinished, Filling, NewPinned, Goto,
      locals, Threads
<1>5. Buffers'
  BY DEF Core, Types, Buffers, Labels, NewPinned, Goto, locals, Threads
<1> QED
  BY <1>1, <1>2, <1>3, <1>4, <1>5 DEF Core

(* New wipes the caller's buffer and publishes the container.              *)
LEMMA NewDoneStep ==
  ASSUME Core, NEW g \in Threads, NewDone(g)
  PROVE  Core'
<1>1. Types'
  BY DEF Core, Types, Makers, Labels, Unfinished, Filling, NewDone, Return,
      Goto, Threads
<1>2. Locks'
  BY DEF Core, Types, Locks, Labels, HoldsArg, NewDone, Return, Goto,
      Threads
<1>3. Callers'
  BY DEF Core, Types, Callers, Makers, Labels, NeedsLive, Idle, Unfinished,
      Filling, NewDone, Return, Goto, Threads
<1>4. Makers'
  BY DEF Core, Types, Makers, Labels, Unfinished, Filling, NewDone, Return,
      Goto, Threads
<1>5. Buffers'
  BY DEF Core, Types, Makers, Buffers, Labels, Unfinished, Filling, NewDone,
      Return, Goto, Threads
<1> QED
  BY <1>1, <1>2, <1>3, <1>4, <1>5 DEF Core

-----------------------------------------------------------------------------
(* Use and Clone *)

(* Use is called.                                                          *)
LEMMA UseStep ==
  ASSUME Core, NEW g \in Goroutines, NEW c \in Containers, Use(g, c)
  PROVE  Core'
<1>1. Types'
  BY SecureBytesAssumption DEF Core, Types, Labels, Use, Usable, Call, Idle,
      Goto, memory, buffers, Threads
<1>2. Locks'
  BY DEF Core, Types, Locks, Labels, HoldsArg, Use, Usable, Call,
      Idle, Goto, memory, buffers, Threads
<1>3. Callers'
  BY DEF Core, Types, Callers, Labels, NeedsLive, Idle, Use, Usable, Call,
      Goto, memory, buffers, Threads
<1>4. Makers'
  BY DEF Core, Types, Makers, Labels, Unfinished, Filling, Use, Usable, Call,
      Idle, Goto, memory, buffers, Threads
<1>5. Buffers'
  BY DEF Core, Types, Buffers, Labels, Use, Usable, Call, Idle, Goto, memory,
      buffers, Threads
<1> QED
  BY <1>1, <1>2, <1>3, <1>4, <1>5 DEF Core

(* Clone is called, on a container other than the one it makes.            *)
LEMMA CloneStep ==
  ASSUME Core, NEW g \in Goroutines, NEW c \in Containers, NEW o \in Containers,
         Clone(g, c, o)
  PROVE  Core'
<1>1. Types'
  BY SecureBytesAssumption DEF Core, Types, Labels, Clone, Usable, Making,
      Call, Idle, Goto, buffers, Threads
<1>2. Locks'
  BY DEF Core, Types, Locks, Labels, HoldsArg, Clone, Usable, Making,
      Call, Idle, Goto, buffers, Threads
<1>3. Callers'
  BY DEF Core, Types, Callers, Labels, NeedsLive, Idle, Clone, Usable, Making,
      Call, Goto, buffers, Threads
<1>4. Makers'
  BY DEF Core, Types, Makers, Labels, Unfinished, Filling, Clone, Usable,
      Making, Call, Idle, Goto, buffers, Threads
<1>5. Buffers'
  BY DEF Core, Types, Buffers, Labels, Clone, Usable, Making, Call, Idle, Goto,
      buffers, Threads
<1> QED
  BY <1>1, <1>2, <1>3, <1>4, <1>5 DEF Core

(* Use or Clone takes the lock and looks at the destroyed flag.            *)
LEMMA UseLockStep ==
  ASSUME Core, NEW g \in Threads, UseLock(g)
  PROVE  Core'
<1>1. Types'
  BY DEF Core, Types, Callers, Labels, NeedsLive, Idle, UseLock, Lock, Goto,
      memory, locals, Threads
<1>2. Locks'
  BY SecureBytesAssumption DEF Core, Types, Locks, Callers, Labels, HoldsArg,
      NeedsLive, Idle, UseLock, Lock, Goto, memory, locals, Threads
<1>3. Callers'
  BY DEF Core, Types, Callers, Labels, NeedsLive, Idle, UseLock, Lock, Goto,
      memory, locals, Threads
<1>4. Makers'
  BY DEF Core, Types, Makers, Labels, Unfinished, Filling, UseLock, Lock, Goto,
      memory, locals, Threads
<1>5. Buffers'
  BY DEF Core, Types, Buffers, Labels, UseLock, Lock, Goto, memory, locals,
      Threads
<1> QED
  BY <1>1, <1>2, <1>3, <1>4, <1>5 DEF Core

(* Use of a destroyed container returns.                                   *)
LEMMA UseDestroyedStep ==
  ASSUME Core, NEW g \in Threads, UseDestroyed(g)
  PROVE  Core'
<1>1. Types'
  BY DEF Core, Types, Callers, Labels, NeedsLive, Idle, UseDestroyed, Unlock,
      Return, Goto, memory, buffers, Threads
<1>2. Locks'
  BY DEF Core, Types, Locks, Labels, HoldsArg, UseDestroyed, Unlock,
      Return, Goto, memory, buffers, Threads
<1>3. Callers'
  BY DEF Core, Types, Callers, Labels, NeedsLive, Idle, UseDestroyed, Unlock,
      Return, Goto, memory, buffers, Threads
<1>4. Makers'
  BY DEF Core, Types, Makers, Labels, Unfinished, Filling, UseDestroyed,
      Unlock, Return, Goto, memory, buffers, Threads
<1>5. Buffers'
  BY DEF Core, Types, Locks, Buffers, Labels, HoldsArg, UseDestroyed,
      Unlock, Return, Goto, memory, buffers, Threads
<1> QED
  BY <1>1, <1>2, <1>3, <1>4, <1>5 DEF Core

(* The callback returns or panics, and the lock is released.               *)
LEMMA UseDoneStep ==
  ASSUME Core, NEW g \in Threads, UseDone(g)
  PROVE  Core'
<1>1. Types'
  BY DEF Core, Types, Callers, Labels, NeedsLive, Idle, UseDone, Unlock,
      Return, Goto, memory, buffers, Threads
<1>2. Locks'
  BY DEF Core, Types, Locks, Labels, HoldsArg, UseDone, Unlock,
      Return, Goto, memory, buffers, Threads
<1>3. Callers'
  BY DEF Core, Types, Callers, Labels, NeedsLive, Idle, UseDone, Unlock,
      Return, Goto, memory, buffers, Threads
<1>4. Makers'
  BY DEF Core, Types, Makers, Labels, Unfinished, Filling, UseDone, Unlock,
      Return, Goto, memory, buffers, Threads
<1>5. Buffers'
  BY DEF Core, Types, Locks, Buffers, Labels, HoldsArg, UseDone,
      Unlock, Return, Goto, memory, buffers, Threads
<1> QED
  BY <1>1, <1>2, <1>3, <1>4, <1>5 DEF Core

(* Clone copies the payload under the lock of its source.                  *)
LEMMA CloneCopyStep ==
  ASSUME Core, NEW g \in Threads, CloneCopy(g)
  PROVE  Core'
<1>1. Types'
  BY DEF Core, Types, Callers, Makers, Labels, NeedsLive, Idle, Unfinished,
      Filling, CloneCopy, Goto, Threads
<1>2. Locks'
  BY DEF Core, Types, Locks, Labels, HoldsArg, CloneCopy, Goto,
      Threads
<1>3. Callers'
  BY DEF Core, Types, Callers, Makers, Labels, NeedsLive, Idle, Unfinished,
      Filling, CloneCopy, Goto, Threads
<1>4. Makers'
  BY DEF Core, Types, Callers, Makers, Labels, NeedsLive, Idle, Unfinished,
      Filling, CloneCopy, Goto, Threads
<1>5. Buffers'
  BY DEF Core, Types, Makers, Buffers, Labels, Unfinished, Filling, CloneCopy,
      Goto, Threads
<1> QED
  BY <1>1, <1>2, <1>3, <1>4, <1>5 DEF Core

(* mlock refused in Clone: the copy is wiped.                              *)
LEMMA CloneRefusedStep ==
  ASSUME Core, NEW g \in Threads, CloneRefused(g)
  PROVE  Core'
<1>1. Types'
  BY DEF Core, Types, Callers, Makers, Labels, NeedsLive, Idle, Unfinished,
      Filling, CloneRefused, Unlock, Return, Goto, buffers, Threads
<1>2. Locks'
  BY DEF Core, Types, Locks, Labels, HoldsArg, CloneRefused, Unlock,
      Return, Goto, buffers, Threads
<1>3. Callers'
  BY DEF Core, Types, Callers, Labels, NeedsLive, Idle, CloneRefused, Unlock,
      Return, Goto, buffers, Threads
<1>4. Makers'
  BY DEF Core, Types, Callers, Makers, Labels, NeedsLive, Idle, Unfinished,
      Filling, CloneRefused, Unlock, Return, Goto, buffers, Threads
<1>5. Buffers'
  BY SecureBytesAssumption DEF Core, Types, Locks, Makers, Buffers, Labels,
      HoldsArg, Unfinished, Filling, CloneRefused, Unlock, Return, Goto,
      buffers, Threads
<1> QED
  BY <1>1, <1>2, <1>3, <1>4, <1>5 DEF Core

(* Clone publishes the copy.                                               *)
LEMMA CloneDoneStep ==
  ASSUME Core, NEW g \in Threads, CloneDone(g)
  PROVE  Core'
<1>1. Types'
  <2>1. out[g] \in Containers
    BY DEF Core, Makers, Unfinished, Filling, CloneDone
  <2>2. PageOf[out[g]] \in Pages
    BY <2>1, SecureBytesAssumption
  <2>3. /\ pc' \in [Threads -> Labels]
        /\ UNCHANGED calls
        /\ arg' \in [Threads -> Containers \cup {Nobody}]
        /\ out' \in [Threads -> Containers \cup {Nobody}]
    BY ReturnType DEF Core, CloneDone
  <2> QED
    BY <2>1, <2>2, <2>3 DEF Core, Types, CloneDone, Unlock
<1>2. Locks'
  BY DEF Core, Types, Locks, Labels, HoldsArg, CloneDone, Unlock,
      Return, Goto, Threads
<1>3. Callers'
  BY DEF Core, Types, Callers, Makers, Labels, NeedsLive, Idle, Unfinished,
      Filling, CloneDone, Unlock, Return, Goto, Threads
<1>4. Makers'
  BY DEF Core, Types, Makers, Labels, Unfinished, Filling, CloneDone, Unlock,
      Return, Goto, Threads
<1>5. Buffers'
  BY DEF Core, Types, Locks, Callers, Makers, Buffers, Labels, HoldsArg,
      NeedsLive, Idle, Unfinished, Filling, CloneDone, Unlock, Return, Goto,
      Threads
<1> QED
  BY <1>1, <1>2, <1>3, <1>4, <1>5 DEF Core

-----------------------------------------------------------------------------
(* Fill *)

(* Going on to a role of the call's own list.                              *)
LEMMA NextRoleIsRole ==
  ASSUME FillTypes, Fills, NEW g \in Threads, pc[g] \in Filling,
         NEW again, NEW next, NextRole(g, again, next)
  PROVE  \E i \in 1..Len(roles[g]) : \E label \in {again, next} :
           /\ roles[g][i] \in Containers
           /\ state[roles[g][i]] \in {"live", "destroyed"}
           /\ arg' = [arg EXCEPT ![g] = roles[g][i]]
           /\ at' = [at EXCEPT ![g] = i]
           /\ pc' = [pc EXCEPT ![g] = label]
<1>1. /\ roles[g] \in Seq(Containers)
      /\ at[g] \in 1..Len(roles[g])
      /\ \A j \in 1..Len(roles[g]) : state[roles[g][j]] \in {"live", "destroyed"}
  BY DEF FillTypes, Fills, FillOf
<1>2. /\ Len(roles[g]) \in Nat
      /\ \A j \in 1..Len(roles[g]) : roles[g][j] \in Containers
  BY <1>1
<1>3. CASE /\ at[g] < Len(roles[g])
           /\ Role(g, at[g] + 1)
           /\ Goto(g, again)
  <2>1. at[g] + 1 \in 1..Len(roles[g])
    BY <1>1, <1>2, <1>3
  <2> QED
    BY <1>1, <1>2, <1>3, <2>1 DEF Role, Goto
<1>4. CASE Role(g, 1) /\ Goto(g, next)
  <2>1. 1 \in 1..Len(roles[g])
    BY <1>1, <1>2
  <2> QED
    BY <1>1, <1>2, <1>4, <2>1 DEF Role, Goto
<1> QED
  BY <1>3, <1>4 DEF NextRole

(* Key material is to be assembled from a list of containers.              *)
LEMMA FillStep ==
  ASSUME Core, NEW g \in Goroutines, NEW rs, NEW o \in Containers,
         rs[1] \in Containers, 1 \in DOMAIN rs, Fill(g, rs, o)
  PROVE  Core'
<1>1. /\ Usable(rs[1])
      /\ Making(o)
      /\ Call(g, rs[1], o, "fill.len")
      /\ UNCHANGED <<buf, mu, pinned, reachable, src, scratch>>
  BY DEF Fill, buffers
<1> DEFINE c == rs[1]
<1>2. /\ c \in Containers
      /\ Usable(c)
      /\ Making(o)
      /\ Call(g, c, o, "fill.len")
  BY <1>1
<1> HIDE DEF c
<1>3. Types'
  BY <1>1, <1>2, SecureBytesAssumption DEF Core, Types, Labels, Usable, Making,
      Call, Idle, Goto, Threads
<1>4. Locks'
  BY <1>1, <1>2 DEF Core, Types, Locks, Labels, HoldsArg, Usable, Making, Call,
      Idle, Goto, Threads
<1>5. Callers'
  BY <1>1, <1>2 DEF Core, Types, Callers, Labels, NeedsLive, Idle, Usable,
      Making, Call, Goto, Threads
<1>6. Makers'
  BY <1>1, <1>2 DEF Core, Types, Makers, Labels, Unfinished, Filling, Usable,
      Making, Call, Idle, Goto, Threads
<1>7. Buffers'
  BY <1>1, <1>2 DEF Core, Types, Buffers, Labels, Usable, Making, Call, Idle,
      Goto, Threads
<1> QED
  BY <1>3, <1>4, <1>5, <1>6, <1>7 DEF Core

(* Len measures one role, and goes on to the next.                         *)
LEMMA FillLenStep ==
  ASSUME IInv, NEW g \in Threads, FillLen(g)
  PROVE  Core'
<1>1. /\ Core
      /\ pc[g] = "fill.len"
      /\ UNCHANGED <<buf, state, pinned, mu, reachable, out, src, scratch, calls>>
  BY DEF IInv, FillLen, memory, buffers
<1>2. PICK c \in Containers, label \in {"fill.len", "fill.alloc"} :
        /\ state[c] \in {"live", "destroyed"}
        /\ arg' = [arg EXCEPT ![g] = c]
        /\ pc' = [pc EXCEPT ![g] = label]
  <2>1. NextRole(g, "fill.len", "fill.alloc") /\ pc[g] \in Filling
    BY DEF FillLen, Filling
  <2>2. PICK i \in 1..Len(roles[g]) : \E label \in {"fill.len", "fill.alloc"} :
          /\ roles[g][i] \in Containers
          /\ state[roles[g][i]] \in {"live", "destroyed"}
          /\ arg' = [arg EXCEPT ![g] = roles[g][i]]
          /\ at' = [at EXCEPT ![g] = i]
          /\ pc' = [pc EXCEPT ![g] = label]
    BY <2>1, NextRoleIsRole DEF IInv
  <2> QED
    BY <2>2, Zenon
<1> HIDE DEF IInv
<1>3. Types'
  BY <1>1, <1>2 DEF Core, Types, Labels
<1>4. Locks'
  BY <1>1, <1>2 DEF Core, Types, Locks, Labels, HoldsArg
<1>5. Callers'
  BY <1>1, <1>2 DEF Core, Types, Callers, Labels, NeedsLive, Idle
<1>6. Makers'
  BY <1>1, <1>2 DEF Core, Types, Makers, Labels, Unfinished, Filling
<1>7. Buffers'
  BY <1>1, <1>2 DEF Core, Types, Buffers, Labels
<1> QED
  BY <1>3, <1>4, <1>5, <1>6, <1>7 DEF Core

(* NewZero allocates the key material, or is refused.                      *)
LEMMA FillAllocStep ==
  ASSUME Core, NEW g \in Threads, FillAlloc(g)
  PROVE  Core'
<1>1. /\ pc[g] = "fill.alloc"
      /\ UNCHANGED <<buf, state, mu, reachable, src, scratch>>
      /\ out[g] \in Containers
  BY DEF Core, Makers, Unfinished, Filling, FillAlloc
<1>2. CASE Return(g) /\ UNCHANGED pinned
  <2>1. Types'
    BY <1>1, <1>2, ReturnType DEF Core, Types
  <2>2. Locks'
    BY <1>1, <1>2 DEF Core, Types, Locks, Labels, HoldsArg, Return, Goto
  <2>3. Callers'
    BY <1>1, <1>2 DEF Core, Types, Callers, Labels, NeedsLive, Idle, Return,
        Goto
  <2>4. Makers'
    BY <1>1, <1>2 DEF Core, Types, Makers, Labels, Unfinished, Filling, Return,
       Goto
  <2>5. Buffers'
    BY <1>1, <1>2 DEF Core, Types, Buffers, Labels, Return, Goto
  <2> QED
    BY <2>1, <2>2, <2>3, <2>4, <2>5 DEF Core
<1>3. CASE /\ pinned' = pinned \cup {PageOf[out[g]]}
           /\ pc' = [pc EXCEPT ![g] = "fill.lock"]
           /\ UNCHANGED <<arg, out, calls>>
  <2>1. Types'
    BY <1>1, <1>3, SecureBytesAssumption DEF Core, Types, Labels
  <2>2. Locks'
    BY <1>1, <1>3 DEF Core, Types, Locks, Labels, HoldsArg
  <2>3. Callers'
    BY <1>1, <1>3 DEF Core, Types, Callers, Labels, NeedsLive, Idle
  <2>4. Makers'
    BY <1>1, <1>3 DEF Core, Types, Makers, Labels, Unfinished, Filling
  <2>5. Buffers'
    BY <1>1, <1>3 DEF Core, Types, Buffers, Labels
  <2> QED
    BY <2>1, <2>2, <2>3, <2>4, <2>5 DEF Core
<1> QED
  BY <1>2, <1>3 DEF FillAlloc, Goto

(* The inner Use of a role that still holds its secret.                    *)
LEMMA FillLockStep ==
  ASSUME Core, NEW g \in Threads, FillLock(g)
  PROVE  Core'
<1>1. Types'
  BY DEF Core, Types, Callers, Labels, NeedsLive, Idle, FillLock, Lock, Goto,
      memory, locals, Threads
<1>2. Locks'
  BY SecureBytesAssumption DEF Core, Types, Locks, Callers, Labels, HoldsArg,
      NeedsLive, Idle, FillLock, Lock, Goto, memory, locals, Threads
<1>3. Callers'
  BY DEF Core, Types, Callers, Labels, NeedsLive, Idle, FillLock, Lock, Goto,
      memory, locals, Threads
<1>4. Makers'
  BY DEF Core, Types, Makers, Labels, Unfinished, Filling, FillLock, Lock,
      Goto, memory, locals, Threads
<1>5. Buffers'
  BY DEF Core, Types, Buffers, Labels, FillLock, Lock, Goto, memory, locals,
      Threads
<1> QED
  BY <1>1, <1>2, <1>3, <1>4, <1>5 DEF Core

(* The secret is copied under its lock, and the next role is up.           *)
LEMMA FillCopyStep ==
  ASSUME IInv, NEW g \in Threads, FillCopy(g)
  PROVE  Core'
<1>1. /\ Core
      /\ pc[g] = "fill.copy"
      /\ mu' = [mu EXCEPT ![arg[g]] = Free]
      /\ UNCHANGED <<buf, state, pinned, reachable, out, src, scratch, calls>>
  BY DEF IInv, FillCopy, memory, Unlock
<1>2. PICK c \in Containers, label \in {"fill.lock", "fill.derive"} :
        /\ state[c] \in {"live", "destroyed"}
        /\ arg' = [arg EXCEPT ![g] = c]
        /\ pc' = [pc EXCEPT ![g] = label]
  <2>1. NextRole(g, "fill.lock", "fill.derive") /\ pc[g] \in Filling
    BY DEF FillCopy, Filling
  <2>2. PICK i \in 1..Len(roles[g]) : \E label \in {"fill.lock", "fill.derive"} :
          /\ roles[g][i] \in Containers
          /\ state[roles[g][i]] \in {"live", "destroyed"}
          /\ arg' = [arg EXCEPT ![g] = roles[g][i]]
          /\ at' = [at EXCEPT ![g] = i]
          /\ pc' = [pc EXCEPT ![g] = label]
    BY <2>1, NextRoleIsRole DEF IInv
  <2> QED
    BY <2>2, Zenon
<1> HIDE DEF IInv
<1>3. Types'
  BY <1>1, <1>2 DEF Core, Types, Labels
<1>4. Locks'
  BY <1>1, <1>2 DEF Core, Types, Locks, Labels, HoldsArg
<1>5. Callers'
  BY <1>1, <1>2 DEF Core, Types, Callers, Labels, NeedsLive, Idle
<1>6. Makers'
  BY <1>1, <1>2 DEF Core, Types, Makers, Labels, Unfinished, Filling
<1>7. Buffers'
  BY <1>1, <1>2 DEF Core, Types, Locks, Buffers, Labels, HoldsArg
<1> QED
  BY <1>3, <1>4, <1>5, <1>6, <1>7 DEF Core

(* A role was destroyed: the key material is given up.                     *)
LEMMA FillAbortStep ==
  ASSUME Core, NEW g \in Threads, FillAbort(g)
  PROVE  Core'
<1>1. Types'
  BY DEF Core, Types, Labels, FillAbort, Goto, memory, locals, Threads
<1>2. Locks'
  BY DEF Core, Types, Locks, Labels, HoldsArg, FillAbort, Goto, memory, locals,
      Threads
<1>3. Callers'
  BY DEF Core, Types, Callers, Labels, NeedsLive, Idle, FillAbort, Goto,
      memory, locals, Threads
<1>4. Makers'
  BY DEF Core, Types, Makers, Labels, Unfinished, Filling, FillAbort, Goto,
      memory, locals, Threads
<1>5. Buffers'
  BY DEF Core, Types, Buffers, Labels, FillAbort, Goto, memory, locals, Threads
<1> QED
  BY <1>1, <1>2, <1>3, <1>4, <1>5 DEF Core

(* The key is derived, or refused.                                         *)
LEMMA FillDeriveStep ==
  ASSUME Core, NEW g \in Threads, FillDerive(g)
  PROVE  Core'
<1>1. Types'
  BY DEF Core, Types, Labels, FillDerive, Goto, memory, locals, Threads
<1>2. Locks'
  BY DEF Core, Types, Locks, Labels, HoldsArg, FillDerive, Goto, memory,
      locals, Threads
<1>3. Callers'
  BY DEF Core, Types, Callers, Labels, NeedsLive, Idle, FillDerive, Goto,
      memory, locals, Threads
<1>4. Makers'
  BY DEF Core, Types, Makers, Labels, Unfinished, Filling, FillDerive, Goto,
      memory, locals, Threads
<1>5. Buffers'
  BY DEF Core, Types, Buffers, Labels, FillDerive, Goto, memory, locals,
      Threads
<1> QED
  BY <1>1, <1>2, <1>3, <1>4, <1>5 DEF Core

(* The key material is wiped.                                              *)
LEMMA FillZeroStep ==
  ASSUME Core, NEW g \in Threads, FillZero(g)
  PROVE  Core'
<1>1. Types'
  BY DEF Core, Types, Labels, FillZero, Goto, memory, Threads
<1>2. Locks'
  BY DEF Core, Types, Locks, Labels, HoldsArg, FillZero, Goto, memory, Threads
<1>3. Callers'
  BY DEF Core, Types, Callers, Labels, NeedsLive, Idle, FillZero, Goto,
      memory, Threads
<1>4. Makers'
  BY DEF Core, Types, Makers, Labels, Unfinished, Filling, FillZero, Goto,
      memory, Threads
<1>5. Buffers'
  BY DEF Core, Types, Buffers, Labels, FillZero, Goto, memory, Threads
<1> QED
  BY <1>1, <1>2, <1>3, <1>4, <1>5 DEF Core

(* munlock and the flag: the key material is gone.                          *)
LEMMA FillDoneStep ==
  ASSUME Core, NEW g \in Threads, FillDone(g)
  PROVE  Core'
<1>1. Types'
  BY ReturnType DEF Core, Types, Makers, Unfinished, Filling, FillDone, buffers
<1>2. Locks'
  BY DEF Core, Types, Locks, Labels, HoldsArg, FillDone, Return, Goto, buffers,
      Threads
<1>3. Callers'
  BY DEF Core, Types, Locks, Callers, Makers, Labels, HoldsArg, NeedsLive,
      Idle, Unfinished, Filling, FillDone, Return, Goto, buffers, Threads
<1>4. Makers'
  BY DEF Core, Types, Makers, Labels, Unfinished, Filling, FillDone, Return,
      Goto, buffers, Threads
<1>5. Buffers'
  BY DEF Core, Types, Makers, Buffers, Labels, Unfinished, Filling, FillDone,
      Return, Goto, buffers, Threads
<1> QED
  BY <1>1, <1>2, <1>3, <1>4, <1>5 DEF Core

-----------------------------------------------------------------------------
(* Destroy and the finalizer *)

(* Destroy is called.                                                      *)
LEMMA DestroyStep ==
  ASSUME Core, NEW g \in Goroutines, NEW c \in Containers, Destroy(g, c)
  PROVE  Core'
<1>1. Types'
  BY SecureBytesAssumption DEF Core, Types, Labels, Destroy, Usable, Call,
      Idle, Goto, memory, buffers, Threads
<1>2. Locks'
  BY DEF Core, Types, Locks, Labels, HoldsArg, Destroy, Usable, Call,
      Idle, Goto, memory, buffers, Threads
<1>3. Callers'
  BY DEF Core, Types, Callers, Labels, NeedsLive, Idle, Destroy, Usable, Call,
      Goto, memory, buffers, Threads
<1>4. Makers'
  BY DEF Core, Types, Makers, Labels, Unfinished, Filling, Destroy, Usable,
      Call, Idle, Goto, memory, buffers, Threads
<1>5. Buffers'
  BY DEF Core, Types, Buffers, Labels, Destroy, Usable, Call, Idle, Goto,
      memory, buffers, Threads
<1> QED
  BY <1>1, <1>2, <1>3, <1>4, <1>5 DEF Core

(* The last reference is dropped.                                          *)
LEMMA DropStep ==
  ASSUME Core, NEW c \in Containers, Drop(c)
  PROVE  Core'
<1>1. Types'
  BY DEF Core, Types, Labels, Drop, Threads, Idle, memory, locals
<1>2. Locks'
  BY DEF Core, Types, Locks, Labels, HoldsArg, Drop, Threads, Idle,
      memory, locals
<1>3. Callers'
  BY DEF Core, Types, Callers, Labels, NeedsLive, Idle, Drop, Threads, memory,
      locals
<1>4. Makers'
  BY DEF Core, Types, Makers, Labels, Unfinished, Filling, Drop, Threads, Idle,
      memory, locals
<1>5. Buffers'
  BY DEF Core, Types, Buffers, Labels, Drop, Threads, Idle, memory, locals
<1> QED
  BY <1>1, <1>2, <1>3, <1>4, <1>5 DEF Core

(* The collector runs the finalizer.                                       *)
LEMMA FinalizeStep ==
  ASSUME Core, NEW c \in Containers, Finalize(c)
  PROVE  Core'
<1>1. Types'
  BY DEF Core, Types, Labels, Finalize, Idle, Goto, memory, buffers, Threads
<1>2. Locks'
  BY DEF Core, Types, Locks, Labels, HoldsArg, Finalize, Idle, Goto,
      memory, buffers, Threads
<1>3. Callers'
  BY DEF Core, Types, Callers, Labels, NeedsLive, Idle, Finalize, Goto, memory,
      buffers, Threads
<1>4. Makers'
  BY DEF Core, Types, Makers, Labels, Unfinished, Filling, Finalize, Idle,
      Goto, memory, buffers, Threads
<1>5. Buffers'
  BY DEF Core, Types, Buffers, Labels, Finalize, Idle, Goto, memory, buffers,
      Threads
<1> QED
  BY <1>1, <1>2, <1>3, <1>4, <1>5 DEF Core

(* Destroy takes the lock and looks at the destroyed flag.                 *)
LEMMA DestroyLockStep ==
  ASSUME Core, NEW g \in Threads, DestroyLock(g)
  PROVE  Core'
<1>1. Types'
  BY DEF Core, Types, Callers, Labels, NeedsLive, Idle, DestroyLock, Lock,
      Goto, memory, locals, Threads
<1>2. Locks'
  BY SecureBytesAssumption DEF Core, Types, Locks, Callers, Labels, HoldsArg,
      NeedsLive, Idle, DestroyLock, Lock, Goto, memory, locals,
      Threads
<1>3. Callers'
  BY DEF Core, Types, Callers, Labels, NeedsLive, Idle, DestroyLock, Lock,
      Goto, memory, locals, Threads
<1>4. Makers'
  BY DEF Core, Types, Makers, Labels, Unfinished, Filling, DestroyLock, Lock,
      Goto, memory, locals, Threads
<1>5. Buffers'
  BY DEF Core, Types, Buffers, Labels, DestroyLock, Lock, Goto, memory, locals,
      Threads
<1> QED
  BY <1>1, <1>2, <1>3, <1>4, <1>5 DEF Core

(* A second Destroy returns at once.                                       *)
LEMMA DestroyAgainStep ==
  ASSUME Core, NEW g \in Threads, DestroyAgain(g)
  PROVE  Core'
<1>1. Types'
  BY DEF Core, Types, Callers, Labels, NeedsLive, Idle, DestroyAgain, Unlock,
      Return, Goto, memory, buffers, Threads
<1>2. Locks'
  BY DEF Core, Types, Locks, Labels, HoldsArg, DestroyAgain, Unlock,
      Return, Goto, memory, buffers, Threads
<1>3. Callers'
  BY DEF Core, Types, Callers, Labels, NeedsLive, Idle, DestroyAgain, Unlock,
      Return, Goto, memory, buffers, Threads
<1>4. Makers'
  BY DEF Core, Types, Makers, Labels, Unfinished, Filling, DestroyAgain,
      Unlock, Return, Goto, memory, buffers, Threads
<1>5. Buffers'
  BY DEF Core, Types, Locks, Buffers, Labels, HoldsArg, DestroyAgain,
      Unlock, Return, Goto, memory, buffers, Threads
<1> QED
  BY <1>1, <1>2, <1>3, <1>4, <1>5 DEF Core

(* The payload is wiped under the lock.                                    *)
LEMMA DestroyZeroStep ==
  ASSUME Core, NEW g \in Threads, DestroyZero(g)
  PROVE  Core'
<1>1. Types'
  BY DEF Core, Types, Callers, Labels, NeedsLive, Idle, DestroyZero, Goto,
      locals, Threads
<1>2. Locks'
  BY DEF Core, Types, Locks, Labels, HoldsArg, DestroyZero, Goto,
      locals, Threads
<1>3. Callers'
  BY DEF Core, Types, Callers, Labels, NeedsLive, Idle, DestroyZero, Goto,
      locals, Threads
<1>4. Makers'
  BY DEF Core, Types, Locks, Callers, Makers, Labels, HoldsArg,
      NeedsLive, Idle, Unfinished, Filling, DestroyZero, Goto, locals, Threads
<1>5. Buffers'
  BY SecureBytesAssumption DEF Core, Types, Locks, Buffers, Labels, HoldsArg,
      DestroyZero, Goto, locals, Threads
<1> QED
  BY <1>1, <1>2, <1>3, <1>4, <1>5 DEF Core

(* munlock, the flag, and the lock is released.                            *)
LEMMA DestroyDoneStep ==
  ASSUME Core, NEW g \in Threads, DestroyDone(g)
  PROVE  Core'
<1>1. Types'
  <2>1. arg[g] \in Containers
    BY DEF Core, Callers, Idle, DestroyDone
  <2>3. /\ pc' \in [Threads -> Labels]
        /\ UNCHANGED calls
        /\ arg' \in [Threads -> Containers \cup {Nobody}]
        /\ out' \in [Threads -> Containers \cup {Nobody}]
    BY ReturnType DEF Core, DestroyDone
  <2>4. pinned' \subseteq Pages
    BY DEF Core, Types, DestroyDone
  <2> QED
    BY <2>1, <2>3, <2>4 DEF Core, Types, DestroyDone, Unlock, buffers
<1>2. Locks'
  BY DEF Core, Types, Locks, Labels, HoldsArg, DestroyDone, Return,
      Goto, Unlock, buffers, Threads
<1>3. Callers'
  BY DEF Core, Types, Locks, Callers, Labels, HoldsArg, NeedsLive,
      Idle, DestroyDone, Return, Goto, Unlock, buffers, Threads
<1>4. Makers'
  BY SecureBytesAssumption DEF Core, Types, Locks, Callers, Makers, Labels,
      HoldsArg, NeedsLive, Idle, Unfinished, Filling, DestroyDone, Return,
      Goto, Unlock, buffers, Threads
<1>5. Buffers'
  BY SecureBytesAssumption DEF Core, Types, Callers, Buffers, Labels,
      NeedsLive, Idle, DestroyDone, Return, Goto, Unlock, buffers, Threads
<1> QED
  BY <1>1, <1>2, <1>3, <1>4, <1>5 DEF Core

-----------------------------------------------------------------------------
(* A list of one role or of two.                                           *)
LEMMA FillsStart ==
  ASSUME Core, NEW g \in Goroutines
  PROVE  /\ \A c, o \in Containers : Fill(g, <<c>>, o) => Core'
         /\ \A c, d, o \in Containers : Fill(g, <<c, d>>, o) => Core'
<1>1. ASSUME NEW c \in Containers, NEW o \in Containers, Fill(g, <<c>>, o)
      PROVE  Core'
  <2> DEFINE rs == <<c>>
  <2>1. rs[1] \in Containers /\ 1 \in DOMAIN rs /\ Fill(g, rs, o)
    BY <1>1
  <2> HIDE DEF rs
  <2> QED
    BY <2>1, FillStep
<1>2. ASSUME NEW c \in Containers, NEW d \in Containers, NEW o \in Containers,
             Fill(g, <<c, d>>, o)
      PROVE  Core'
  <2> DEFINE rs == <<c, d>>
  <2>1. rs[1] \in Containers /\ 1 \in DOMAIN rs /\ Fill(g, rs, o)
    BY <1>2
  <2> HIDE DEF rs
  <2> QED
    BY <2>1, FillStep
<1> QED
  BY <1>1, <1>2

(* Every step keeps the core of the invariant.                             *)
LEMMA NextCore == IInv /\ [Next]_vars => Core'
<1> SUFFICES ASSUME IInv, [Next]_vars PROVE Core'
  OBVIOUS
<1> USE DEF IInv
<1>1. ASSUME NEW g \in Goroutines, Start(g) PROVE Core'
  BY <1>1, NewStep, UseStep, DestroyStep, CloneStep, FillsStart DEF Start
<1>2. ASSUME NEW g \in Threads, Step(g) PROVE Core'
  BY <1>2, NewRefusedStep, NewPinnedStep, NewDoneStep, UseLockStep,
     UseDestroyedStep, UseDoneStep, CloneCopyStep, CloneRefusedStep,
     CloneDoneStep, FillLenStep, FillAllocStep, FillLockStep, FillCopyStep,
     FillAbortStep, FillDeriveStep, FillZeroStep, FillDoneStep,
     DestroyLockStep, DestroyAgainStep, DestroyZeroStep, DestroyDoneStep
     DEF Step
<1>3. ASSUME NEW c \in Containers, Drop(c) \/ Finalize(c) PROVE Core'
  BY <1>3, DropStep, FinalizeStep
<1>4. CASE UNCHANGED vars
  BY <1>4 DEF vars, Core, Types, Locks, Callers, Makers, Buffers, Idle
<1> QED
  BY <1>1, <1>2, <1>3, <1>4 DEF Next, Quiet

-----------------------------------------------------------------------------
(* Key material *)

(* What every step leaves alone: a container that has been created stays   *)
(* created, a destroyed one destroyed, and a payload that is still there is*)
(* the payload it was.                                                     *)
Settled(c) ==
  /\ state[c] \in {"live", "destroyed"} => state'[c] \in {"live", "destroyed"}
  /\ state[c] = "destroyed" => state'[c] = "destroyed"
  /\ state[c] \in {"live", "destroyed"} /\ Holds(c)' =>
       Holds(c) /\ buf'[c] = buf[c]

LEMMA ContainersSettle ==
  ASSUME IInv, [Next]_vars, NEW c \in Containers
  PROVE  Settled(c)
<1> USE DEF IInv
<1>1. ASSUME NEW g \in Goroutines, Start(g) PROVE Settled(c)
  <2>1. ASSUME NEW d \in Containers, NEW v \in Payloads, New(g, d, v)
        PROVE  Settled(c)
    BY <2>1 DEF Core, Types, Settled, Holds, New, Making
  <2>2. ASSUME NEW d \in Containers, Use(g, d) \/ Destroy(g, d)
        PROVE  Settled(c)
    BY <2>2 DEF Core, Types, Settled, Holds, Use, Destroy, memory
  <2>3. ASSUME NEW d \in Containers, NEW o \in Containers, Clone(g, d, o)
        PROVE  Settled(c)
    BY <2>3 DEF Core, Types, Settled, Holds, Clone, Making
  <2>4. ASSUME NEW rs, NEW o \in Containers, Fill(g, rs, o)
        PROVE  Settled(c)
    BY <2>4 DEF Core, Types, Settled, Holds, Fill, Making
  <2> QED
    BY <1>1, <2>1, <2>2, <2>3, <2>4 DEF Start
<1>2. ASSUME NEW g \in Threads, Step(g) PROVE Settled(c)
  <2>1. CASE \/ UseLock(g) \/ UseDestroyed(g) \/ UseDone(g)
             \/ FillLen(g) \/ FillLock(g) \/ FillCopy(g) \/ FillAbort(g)
             \/ FillDerive(g) \/ FillZero(g) \/ FillAlloc(g)
             \/ DestroyLock(g) \/ DestroyAgain(g) \/ NewPinned(g)
    <3>1. UNCHANGED <<buf, state>>
      BY <2>1 DEF UseLock, UseDestroyed, UseDone, FillLen, FillLock, FillCopy,
         FillAbort, FillDerive, FillZero, FillAlloc, DestroyLock,
         DestroyAgain, NewPinned, memory
    <3> QED
      BY <3>1 DEF Settled, Holds
  <2>2. CASE NewRefused(g)
    BY <2>2, SecureBytesAssumption DEF Core, Types, Makers, Unfinished,
        Filling, Settled, Holds, NewRefused
  <2>3. CASE NewDone(g)
    BY <2>3 DEF Core, Types, Makers, Unfinished, Filling, Settled, Holds,
        NewDone
  <2>4. CASE CloneCopy(g)
    BY <2>4 DEF Core, Types, Makers, Unfinished, Filling, Settled, Holds,
       CloneCopy
  <2>5. CASE CloneRefused(g)
    BY <2>5, SecureBytesAssumption DEF Core, Types, Makers, Unfinished,
        Filling, Settled, Holds, CloneRefused
  <2>6. CASE CloneDone(g)
    BY <2>6 DEF Core, Types, Makers, Unfinished, Filling, Settled, Holds,
       CloneDone
  <2>7. CASE FillDone(g)
    BY <2>7 DEF Core, Types, Makers, Unfinished, Filling, Settled, Holds,
       FillDone
  <2>8. CASE DestroyZero(g)
    BY <2>8, SecureBytesAssumption DEF Core, Types, Settled, Holds, DestroyZero
  <2>9. CASE DestroyDone(g)
    BY <2>9 DEF Core, Types, Settled, Holds, DestroyDone
  <2> QED
    BY <1>2, <2>1, <2>2, <2>3, <2>4, <2>5, <2>6, <2>7, <2>8, <2>9 DEF Step
<1>3. ASSUME NEW d \in Containers, Drop(d) \/ Finalize(d) PROVE Settled(c)
  BY <1>3 DEF Drop, Finalize, memory, Settled, Holds
<1>4. CASE UNCHANGED vars
  BY <1>4 DEF vars, Settled, Holds
<1> QED
  BY <1>1, <1>2, <1>3, <1>4 DEF Next, Quiet

(* A goroutine that the step does not concern.                             *)
Untouched(h) ==
  /\ pc'[h] = pc[h]
  /\ arg'[h] = arg[h]
  /\ ikm'[h] = ikm[h]
  /\ roles'[h] = roles[h]
  /\ at'[h] = at[h]
  /\ room'[h] = room[h]

(* It stays as far as it was: its roles are settled.                       *)
LEMMA FillStays ==
  ASSUME NEW h \in Threads, FillTypes, FillOf(h), Untouched(h),
         \A c \in Containers : Settled(c)
  PROVE  FillOf(h)'
<1>1. \A j \in 1..Len(roles[h]) : roles[h][j] \in Containers
  BY DEF FillTypes
<1>2. \A j \in 1..Len(roles[h]) : Settled(roles[h][j])
  BY <1>1
<1>3. ASSUME pc[h] \in Filling, NEW j \in 1..Len(roles[h])
      PROVE  /\ state'[roles[h][j]] \in {"live", "destroyed"}
             /\ Measured(h, j) => Measured(h, j)'
             /\ Whole(h, j) => Whole(h, j)'
  <2> DEFINE c == roles[h][j]
  <2>1. /\ Settled(c)
        /\ state[c] \in {"live", "destroyed"}
    BY <1>2, <1>3 DEF FillOf
  <2>2. Holds(c)' => Holds(c) /\ buf'[c] = buf[c]
    BY <2>1 DEF Settled
  <2>3. /\ state'[c] \in {"live", "destroyed"}
        /\ state[c] = "destroyed" => state'[c] = "destroyed"
    BY <2>1 DEF Settled
  <2>4. c' = c
    BY DEF Untouched
  <2>5. Measured(h, j) => Measured(h, j)'
    BY <2>3, <2>4 DEF Measured, Untouched
  <2>6. Whole(h, j) => Whole(h, j)'
    BY <2>2, <2>4 DEF Whole, Untouched, Holds
  <2> QED
    BY <2>3, <2>5, <2>6
<1>4. Filled(h) = {} => Filled(h)' = {}
  BY DEF Filled, Untouched
<1> QED
  BY <1>3, <1>4, Zenon DEF FillOf, Untouched, Filling

(* A step of goroutine g leaves the others' key material alone, and its own*)
(* as FillOf says.                                                         *)
FillsKept(g) ==
  /\ FillTypes'
  /\ FillOf(g)'
  /\ \A h \in Threads \ {g} : Untouched(h)

(* A step outside Fill, which begins or goes on a call, or returns.        *)
LEMMA OutsideFill ==
  ASSUME IInv, NEW g \in Threads, ikm' = ikm, pc[g] \notin Filling,
         \/ /\ UNCHANGED <<roles, at, room>>
            /\ \E label \in Labels \ Filling : Goto(g, label)
            /\ \E c : arg' = [arg EXCEPT ![g] = c]
         \/ Return(g)
  PROVE  FillsKept(g)
<1>1. Filled(g) = {}
  BY DEF IInv, Fills, FillOf, Assembling, Filling
<1>2. /\ ikm \in [Threads -> Seq(Payloads \cup {Zero})]
      /\ roles \in [Threads -> Seq(Containers)]
      /\ at \in [Threads -> Nat]
      /\ room \in [Threads -> SUBSET Nat]
      /\ pc \in [Threads -> Labels]
      /\ arg \in [Threads -> Containers \cup {Nobody}]
  BY DEF IInv, FillTypes, Core, Types
<1>3. CASE /\ UNCHANGED <<roles, at, room>>
           /\ \E label \in Labels \ Filling : Goto(g, label)
           /\ \E c : arg' = [arg EXCEPT ![g] = c]
  <2>1. FillTypes'
    BY <1>2, <1>3 DEF FillTypes
  <2>2. \A h \in Threads \ {g} : Untouched(h)
    BY <1>2, <1>3 DEF Untouched, Goto
  <2>3. pc'[g] \notin Filling
    BY <1>2, <1>3 DEF Goto
  <2>4. Filled(g)' = {}
    BY <1>1 DEF Filled
  <2>5. FillOf(g)'
    BY <2>3, <2>4 DEF FillOf, Filling
  <2> QED
    BY <2>1, <2>2, <2>5 DEF FillsKept
<1>4. CASE Return(g)
  <2>1. <<>> \in Seq(Containers)
    OBVIOUS
  <2>2. roles' \in [Threads -> Seq(Containers)]
    BY <1>2, <1>4, <2>1 DEF Return
  <2>3. /\ at' \in [Threads -> Nat]
        /\ room' \in [Threads -> SUBSET Nat]
    BY <1>2, <1>4 DEF Return
  <2>4. \A h \in Threads \ {g} : Untouched(h)
    BY <1>2, <1>4 DEF Untouched, Return, Goto
  <2>5. pc'[g] = "idle"
    BY <1>2, <1>4 DEF Return, Goto
  <2>6. Filled(g)' = {}
    BY <1>1 DEF Filled
  <2>7. FillOf(g)'
    BY <2>5, <2>6 DEF FillOf, Filling, Assembling
  <2> QED
    BY <1>2, <2>2, <2>3, <2>4, <2>7 DEF FillTypes, FillsKept
<1> QED
  BY <1>3, <1>4

(* The calls and steps of New, Use, Clone and Destroy.                     *)
LEMMA OtherSteps ==
  ASSUME IInv, NEW g \in Threads,
         \/ \E c \in Containers : \E v \in Payloads : New(g, c, v)
         \/ \E c \in Containers : Use(g, c) \/ Destroy(g, c)
         \/ \E c, o \in Containers : Clone(g, c, o)
         \/ NewRefused(g) \/ NewPinned(g) \/ NewDone(g)
         \/ UseLock(g) \/ UseDestroyed(g) \/ UseDone(g)
         \/ CloneCopy(g) \/ CloneRefused(g) \/ CloneDone(g)
         \/ DestroyLock(g) \/ DestroyAgain(g) \/ DestroyZero(g)
         \/ DestroyDone(g)
  PROVE  FillsKept(g)
<1> DEFINE Begins(label) == /\ ikm' = ikm
                            /\ pc[g] \notin Filling
                            /\ UNCHANGED <<roles, at, room>>
                            /\ Goto(g, label)
                            /\ \E c : arg' = [arg EXCEPT ![g] = c]
<1>1. arg = [arg EXCEPT ![g] = arg[g]]
  BY DEF IInv, Core, Types
<1>2. ASSUME NEW label \in Labels \ Filling, Begins(label) PROVE FillsKept(g)
  BY <1>2, OutsideFill
<1>3. ASSUME ikm' = ikm, pc[g] \notin Filling, Return(g) PROVE FillsKept(g)
  BY <1>3, OutsideFill
<1>4. ASSUME NEW c \in Containers, NEW v \in Payloads, New(g, c, v)
      PROVE  FillsKept(g)
  <2>1. Begins("new.mlock")
    BY <1>4 DEF New, Call, Idle, Filling, filling
  <2> QED
    BY <1>2, <2>1 DEF Labels, Filling
<1>5. ASSUME NEW c \in Containers, Use(g, c) PROVE FillsKept(g)
  <2>1. Begins("use.lock")
    BY <1>5 DEF Use, Call, Idle, Filling, filling, buffers
  <2> QED
    BY <1>2, <2>1 DEF Labels, Filling
<1>6. ASSUME NEW c \in Containers, Destroy(g, c) PROVE FillsKept(g)
  <2>1. Begins("destroy.lock")
    BY <1>6 DEF Destroy, Call, Idle, Filling, filling, buffers
  <2> QED
    BY <1>2, <2>1 DEF Labels, Filling
<1>7. ASSUME NEW c \in Containers, NEW o \in Containers, Clone(g, c, o)
      PROVE  FillsKept(g)
  <2>1. Begins("clone.lock")
    BY <1>7 DEF Clone, Call, Idle, Filling, filling, buffers
  <2> QED
    BY <1>2, <2>1 DEF Labels, Filling
<1>8. CASE NewPinned(g)
  <2>1. Begins("new.zero")
    BY <1>1, <1>8 DEF NewPinned, locals, Filling
  <2> QED
    BY <1>2, <2>1 DEF Labels, Filling
<1>9. CASE CloneCopy(g)
  <2>1. Begins("clone.mlock")
    BY <1>1, <1>9 DEF CloneCopy, filling, Filling
  <2> QED
    BY <1>2, <2>1 DEF Labels, Filling
<1>10. CASE UseLock(g)
  <2>1. PICK label \in {"use.destroyed", "use.callback", "clone.callback"} :
          Goto(g, label)
    BY <1>10 DEF UseLock
  <2>2. Begins(label)
    BY <1>1, <1>10, <2>1 DEF UseLock, locals, Filling
  <2> QED
    BY <1>2, <2>2 DEF Labels, Filling
<1>11. CASE DestroyLock(g)
  <2>1. PICK label \in {"destroy.again", "destroy.zero"} : Goto(g, label)
    BY <1>11 DEF DestroyLock
  <2>2. Begins(label)
    BY <1>1, <1>11, <2>1 DEF DestroyLock, locals, Filling
  <2> QED
    BY <1>2, <2>2 DEF Labels, Filling
<1>12. CASE DestroyZero(g)
  <2>1. Begins("destroy.munlock")
    BY <1>1, <1>12 DEF DestroyZero, locals, Filling
  <2> QED
    BY <1>2, <2>1 DEF Labels, Filling
<1>13. CASE \/ NewRefused(g) \/ NewDone(g) \/ UseDestroyed(g) \/ UseDone(g)
            \/ CloneRefused(g) \/ CloneDone(g) \/ DestroyAgain(g)
            \/ DestroyDone(g)
  BY <1>3, <1>13 DEF NewRefused, NewDone, UseDestroyed, UseDone, CloneRefused,
     CloneDone, DestroyAgain, DestroyDone, buffers, Filling
<1> QED
  BY <1>4, <1>5, <1>6, <1>7, <1>8, <1>9, <1>10, <1>11, <1>12, <1>13

(* Fill begins.                                                            *)
LEMMA FillBegins ==
  ASSUME IInv, NEW g \in Threads, NEW rs \in Seq(Containers), rs # <<>>,
         NEW o \in Containers, Fill(g, rs, o)
  PROVE  FillsKept(g)
<1>1. /\ ikm \in [Threads -> Seq(Payloads \cup {Zero})]
      /\ roles \in [Threads -> Seq(Containers)]
      /\ at \in [Threads -> Nat]
      /\ room \in [Threads -> SUBSET Nat]
      /\ pc \in [Threads -> Labels]
      /\ arg \in [Threads -> Containers \cup {Nobody}]
  BY DEF IInv, FillTypes, Core, Types
<1>2. /\ pc[g] = "idle"
      /\ pc' = [pc EXCEPT ![g] = "fill.len"]
      /\ arg' = [arg EXCEPT ![g] = rs[1]]
      /\ roles' = [roles EXCEPT ![g] = rs]
      /\ at' = [at EXCEPT ![g] = 1]
      /\ UNCHANGED <<room, ikm>>
  BY DEF Fill, Call, Goto, Idle, buffers
<1>3. FillTypes'
  BY <1>1, <1>2 DEF FillTypes
<1>4. \A h \in Threads \ {g} : Untouched(h)
  BY <1>1, <1>2 DEF Untouched
<1>5. /\ pc'[g] = "fill.len"
      /\ arg'[g] = rs[1]
      /\ roles'[g] = rs
      /\ at'[g] = 1
      /\ ikm'[g] = ikm[g]
  BY <1>1, <1>2
<1>6. Len(rs) \in Nat /\ Len(rs) >= 1 /\ DOMAIN rs = 1..Len(rs)
  OBVIOUS
<1>7. \A j \in 1..Len(rs) : state'[rs[j]] \in {"live", "destroyed"}
  <2> SUFFICES ASSUME NEW j \in 1..Len(rs)
               PROVE  state'[rs[j]] \in {"live", "destroyed"}
    OBVIOUS
  <2>1. rs[j] \in Containers
    BY <1>6
  <2>2. Usable(rs[j]) /\ Making(o)
    BY <1>6 DEF Fill
  <2> QED
    BY <2>1, <2>2 DEF Usable, Making, IInv, Core, Types
<1>8. Filled(g)' = {}
  BY <1>2, <1>5 DEF IInv, Fills, FillOf, Assembling, Filled
<1>9. \A j \in 1..Len(rs) : ~(j < 1)
  BY <1>6
<1>10. FillOf(g)'
  BY <1>5, <1>6, <1>7, <1>8, <1>9 DEF FillOf, Filling, Assembling
<1> QED
  BY <1>3, <1>4, <1>10 DEF FillsKept

(* What FillTypes and Core say of one goroutine that fills.                *)
LEMMA FillFacts ==
  ASSUME IInv, NEW g \in Threads, pc[g] \in Filling
  PROVE  /\ roles[g] \in Seq(Containers)
         /\ Len(roles[g]) \in Nat
         /\ DOMAIN roles[g] = 1..Len(roles[g])
         /\ at[g] \in 1..Len(roles[g])
         /\ arg[g] = roles[g][at[g]]
         /\ \A j \in 1..Len(roles[g]) :
              /\ roles[g][j] \in Containers
              /\ state[roles[g][j]] \in {"live", "destroyed"}
BY DEF IInv, FillTypes, Fills, FillOf

LEMMA FillFunctions ==
  ASSUME IInv
  PROVE  /\ ikm \in [Threads -> Seq(Payloads \cup {Zero})]
         /\ roles \in [Threads -> Seq(Containers)]
         /\ at \in [Threads -> Nat]
         /\ room \in [Threads -> SUBSET Nat]
         /\ pc \in [Threads -> Labels]
         /\ arg \in [Threads -> Containers \cup {Nobody}]
BY DEF IInv, FillTypes, Core, Types

(* Going on to the next role: either there was one more, or all are done.  *)
LEMMA NextRoleGoesOn ==
  ASSUME IInv, NEW g \in Threads, pc[g] \in Filling,
         NEW again, NEW next, NextRole(g, again, next)
  PROVE  /\ \/ /\ at'[g] = at[g] + 1
               /\ at'[g] \in 1..Len(roles[g])
               /\ pc'[g] = again
            \/ /\ at[g] = Len(roles[g])
               /\ at'[g] = 1
               /\ pc'[g] = next
         /\ at'[g] \in 1..Len(roles[g])
         /\ arg'[g] = roles[g][at'[g]]
         /\ at' \in [Threads -> Nat]
         /\ \A h \in Threads \ {g} :
              pc'[h] = pc[h] /\ arg'[h] = arg[h] /\ at'[h] = at[h]
<1>1. /\ at[g] \in 1..Len(roles[g])
      /\ Len(roles[g]) \in Nat
  BY FillFacts
<1>2. CASE /\ at[g] < Len(roles[g])
           /\ Role(g, at[g] + 1)
           /\ Goto(g, again)
  <2>1. at[g] + 1 \in 1..Len(roles[g]) /\ at[g] + 1 \in Nat
    BY <1>1, <1>2
  <2>2. /\ at' = [at EXCEPT ![g] = at[g] + 1]
        /\ arg' = [arg EXCEPT ![g] = roles[g][at[g] + 1]]
        /\ pc' = [pc EXCEPT ![g] = again]
    BY <1>2 DEF Role, Goto
  <2>3. /\ at'[g] = at[g] + 1
        /\ arg'[g] = roles[g][at[g] + 1]
        /\ pc'[g] = again
    BY <2>2, FillFunctions
  <2> QED
    BY <2>1, <2>2, <2>3, FillFunctions
<1>3. CASE /\ at[g] = Len(roles[g])
           /\ Role(g, 1)
           /\ Goto(g, next)
  <2>1. 1 \in 1..Len(roles[g])
    BY <1>1
  <2>2. /\ at' = [at EXCEPT ![g] = 1]
        /\ arg' = [arg EXCEPT ![g] = roles[g][1]]
        /\ pc' = [pc EXCEPT ![g] = next]
    BY <1>3 DEF Role, Goto
  <2> QED
    BY <1>3, <2>1, <2>2, FillFunctions
<1> QED
  BY <1>2, <1>3 DEF NextRole

(* Len looks at one role after the other.                                  *)
LEMMA FillLenFills ==
  ASSUME IInv, NEW g \in Threads, FillLen(g)
  PROVE  FillsKept(g)
<1>1. /\ pc[g] = "fill.len"
      /\ pc[g] \in Filling
      /\ NextRole(g, "fill.len", "fill.alloc")
      /\ UNCHANGED <<roles, ikm, state>>
  BY DEF FillLen, Filling, memory, buffers
<1>2. /\ \/ /\ at'[g] = at[g] + 1
            /\ at'[g] \in 1..Len(roles[g])
            /\ pc'[g] = "fill.len"
         \/ /\ at[g] = Len(roles[g])
            /\ at'[g] = 1
            /\ pc'[g] = "fill.alloc"
      /\ at'[g] \in 1..Len(roles[g])
      /\ arg'[g] = roles[g][at'[g]]
      /\ at' \in [Threads -> Nat]
      /\ \A h \in Threads \ {g} :
           pc'[h] = pc[h] /\ arg'[h] = arg[h] /\ at'[h] = at[h]
  BY <1>1, NextRoleGoesOn
<1>3. /\ at[g] \in Nat
      /\ Len(roles[g]) \in Nat
      /\ arg[g] = roles[g][at[g]]
      /\ \A j \in 1..Len(roles[g]) :
           state[roles[g][j]] \in {"live", "destroyed"}
  BY <1>1, FillFacts
<1>4. /\ room' \in [Threads -> SUBSET Nat]
      /\ \A h \in Threads \ {g} : room'[h] = room[h]
      /\ room'[g] = IF state[arg[g]] = "destroyed" THEN room[g]
                    ELSE room[g] \cup {at[g]}
  BY <1>3, FillFunctions DEF FillLen
<1>5. \A j \in 1..Len(roles[g]) : j < at[g] => Measured(g, j)
  BY <1>1 DEF IInv, Fills, FillOf
<1>6. \A j \in 1..Len(roles[g]) : j < at[g] => Measured(g, j)'
  BY <1>1, <1>4, <1>5 DEF Measured
<1>7. \A j \in 1..Len(roles[g]) : j = at[g] => Measured(g, j)'
  <2>1. at[g] \in room'[g] \/ state[arg[g]] = "destroyed"
    BY <1>4
  <2> QED
    BY <1>1, <1>3, <2>1 DEF Measured
<1>8. \A j \in 1..Len(roles[g]) : j < at[g] + 1 => j < at[g] \/ j = at[g]
  BY <1>3
<1>9. \A j \in 1..Len(roles[g]) : j < at[g] + 1 => Measured(g, j)'
  BY <1>6, <1>7, <1>8
<1>10. pc'[g] = "fill.alloc" => \A j \in 1..Len(roles[g]) : j < at[g] + 1
  BY <1>2, <1>3
<1>11. Filled(g)' = {}
  BY <1>1 DEF IInv, Fills, FillOf, Assembling, Filled
<1>12. FillOf(g)'
  BY <1>1, <1>2, <1>3, <1>9, <1>10, <1>11 DEF FillOf, Filling, Assembling
<1>13. FillTypes'
  BY <1>1, <1>2, <1>4, FillFunctions DEF FillTypes
<1>14. \A h \in Threads \ {g} : Untouched(h)
  BY <1>1, <1>2, <1>4 DEF Untouched
<1> QED
  BY <1>12, <1>13, <1>14 DEF FillsKept

(* A fresh buffer holds no secret.                                         *)
LEMMA FillAllocFills ==
  ASSUME IInv, NEW g \in Threads, FillAlloc(g)
  PROVE  FillsKept(g)
<1>1. pc[g] = "fill.alloc" /\ pc[g] \in Filling /\ state' = state
  BY DEF FillAlloc, Filling
<1>2. Filled(g) = {}
  BY <1>1 DEF IInv, Fills, FillOf, Assembling
<1>3. CASE Return(g) /\ UNCHANGED <<pinned, ikm>>
  <2>1. /\ roles' = [roles EXCEPT ![g] = <<>>]
        /\ at' = [at EXCEPT ![g] = 0]
        /\ room' = [room EXCEPT ![g] = {}]
        /\ pc' = [pc EXCEPT ![g] = "idle"]
        /\ arg' = [arg EXCEPT ![g] = Nobody]
        /\ ikm' = ikm
    BY <1>3 DEF Return, Goto
  <2>2. <<>> \in Seq(Containers)
    OBVIOUS
  <2>3. roles' \in [Threads -> Seq(Containers)]
    BY <2>1, <2>2, FillFunctions
  <2>4. FillTypes'
    BY <2>1, <2>3, FillFunctions DEF FillTypes
  <2>5. \A h \in Threads \ {g} : Untouched(h)
    BY <2>1, FillFunctions DEF Untouched
  <2>6. pc'[g] = "idle"
    BY <2>1, FillFunctions
  <2>7. Filled(g)' = {}
    BY <1>2, <2>1 DEF Filled
  <2>8. FillOf(g)'
    BY <2>6, <2>7 DEF FillOf, Filling, Assembling
  <2> QED
    BY <2>4, <2>5, <2>8 DEF FillsKept
<1>4. CASE /\ ikm' = [ikm EXCEPT ![g] = [i \in 1..Len(roles[g]) |-> Zero]]
           /\ Goto(g, "fill.lock")
           /\ UNCHANGED <<arg, out, filling, calls>>
  <2> DEFINE fresh == [i \in 1..Len(roles[g]) |-> Zero]
  <2>1. Len(roles[g]) \in Nat
    BY <1>1, FillFacts
  <2>2. fresh \in Seq(Payloads \cup {Zero}) /\ DOMAIN fresh = 1..Len(roles[g])
    BY <2>1
  <2>3. ikm' = [ikm EXCEPT ![g] = fresh]
    BY <1>4
  <2> HIDE DEF fresh
  <2>4. /\ UNCHANGED <<arg, roles, at, room>>
        /\ pc' = [pc EXCEPT ![g] = "fill.lock"]
    BY <1>4 DEF filling, Goto
  <2>5. FillTypes'
    BY <2>2, <2>3, <2>4, FillFunctions DEF FillTypes
  <2>6. \A h \in Threads \ {g} : Untouched(h)
    BY <2>3, <2>4, FillFunctions DEF Untouched
  <2>7. pc'[g] = "fill.lock" /\ ikm'[g] = fresh
    BY <2>3, <2>4, FillFunctions
  <2>8. \A j \in 1..Len(roles[g]) : Measured(g, j)
    BY <1>1 DEF IInv, Fills, FillOf
  <2>9. \A j \in 1..Len(roles[g]) : Measured(g, j)'
    BY <1>1, <2>4, <2>8 DEF Measured
  <2>10. at[g] = 1
    BY <1>1 DEF IInv, Fills, FillOf
  <2>11. \A j \in 1..Len(roles[g]) : ~(j < at[g])
    BY <2>1, <2>10
  <2>12. FillOf(g)'
    BY <1>1, <2>2, <2>4, <2>7, <2>9, <2>11, FillFacts
       DEF FillOf, Filling, Assembling
  <2> QED
    BY <2>5, <2>6, <2>12 DEF FillsKept
<1> QED
  BY <1>3, <1>4 DEF FillAlloc

(* A goroutine looks at a live payload, which nobody else can change.      *)
LEMMA LooksAtPayload ==
  ASSUME IInv, NEW g \in Threads, Looking(g)
  PROVE  /\ arg[g] \in Containers
         /\ Holds(arg[g])
         /\ mu[arg[g]] = g
<1>1. /\ arg[g] \in Containers
      /\ state[arg[g]] = "live"
      /\ mu[arg[g]] = g
  BY DEF IInv, Core, Callers, Locks, Looking, Idle, NeedsLive, HoldsArg
<1>2. pc[g] # "destroy.munlock" /\ g # Free
  BY SecureBytesAssumption DEF Looking, Threads
<1> QED
  BY <1>1, <1>2 DEF IInv, Core, Buffers, Holds

(* The lock of a role whose secret is there.                               *)
LEMMA FillLockFills ==
  ASSUME IInv, NEW g \in Threads, FillLock(g) \/ FillAbort(g) \/ FillDerive(g)
  PROVE  FillsKept(g)
<1>1. /\ pc[g] \in {"fill.lock", "fill.derive"}
      /\ pc[g] \in Filling
      /\ UNCHANGED <<buf, state, arg, ikm, roles, at, room>>
  BY DEF FillLock, FillAbort, FillDerive, Filling, memory, locals
<1>2. FillTypes'
  BY <1>1, FillFunctions DEF FillTypes
<1>3. PICK label \in {"fill.copy", "fill.zero"} :
        /\ pc' = [pc EXCEPT ![g] = label]
        /\ label = "fill.copy" => pc[g] = "fill.lock"
  BY DEF FillLock, FillAbort, FillDerive, Goto
<1>4. \A h \in Threads \ {g} : Untouched(h)
  BY <1>1, <1>3, FillFunctions DEF Untouched
<1>5. pc'[g] = label
  BY <1>3, FillFunctions
<1>6. /\ \A j : Measured(g, j) => Measured(g, j)'
      /\ \A j : Whole(g, j) => Whole(g, j)'
  BY <1>1 DEF Measured, Whole, Holds
<1>7. FillOf(g)
  BY DEF IInv, Fills
<1>8. FillOf(g)'
  BY <1>1, <1>3, <1>5, <1>6, <1>7, Zenon DEF FillOf, Filling, Assembling
<1> QED
  BY <1>2, <1>4, <1>8 DEF FillsKept

(* A role that was measured and is still there is copied whole.            *)
LEMMA FillCopyFills ==
  ASSUME IInv, NEW g \in Threads, FillCopy(g)
  PROVE  FillsKept(g)
<1>1. /\ pc[g] = "fill.copy"
      /\ pc[g] \in Filling
      /\ NextRole(g, "fill.lock", "fill.derive")
      /\ UNCHANGED <<buf, state, roles, room>>
  BY DEF FillCopy, Filling, memory
<1>2. /\ \/ /\ at'[g] = at[g] + 1
            /\ at'[g] \in 1..Len(roles[g])
            /\ pc'[g] = "fill.lock"
         \/ /\ at[g] = Len(roles[g])
            /\ at'[g] = 1
            /\ pc'[g] = "fill.derive"
      /\ at'[g] \in 1..Len(roles[g])
      /\ arg'[g] = roles[g][at'[g]]
      /\ at' \in [Threads -> Nat]
      /\ \A h \in Threads \ {g} :
           pc'[h] = pc[h] /\ arg'[h] = arg[h] /\ at'[h] = at[h]
  BY <1>1, NextRoleGoesOn
<1>3. /\ at[g] \in 1..Len(roles[g])
      /\ at[g] \in Nat
      /\ Len(roles[g]) \in Nat
      /\ arg[g] = roles[g][at[g]]
      /\ \A j \in 1..Len(roles[g]) :
           state[roles[g][j]] \in {"live", "destroyed"}
  BY <1>1, FillFacts
<1>4. /\ DOMAIN ikm[g] = 1..Len(roles[g])
      /\ \A j \in 1..Len(roles[g]) : Measured(g, j)
      /\ \A j \in 1..Len(roles[g]) : j < at[g] => Whole(g, j)
  BY <1>1 DEF IInv, Fills, FillOf
<1>5. /\ arg[g] \in Containers
      /\ Holds(arg[g])
  BY <1>1, LooksAtPayload DEF Looking
<1>6. at[g] \in room[g]
  <2>1. Measured(g, at[g])
    BY <1>3, <1>4
  <2> QED
    BY <1>3, <1>5, <2>1 DEF Measured, Holds
<1> DEFINE new == [ikm[g] EXCEPT ![at[g]] = buf[arg[g]]]
<1>7. /\ new \in Seq(Payloads \cup {Zero})
      /\ DOMAIN new = 1..Len(roles[g])
      /\ new[at[g]] = buf[arg[g]]
      /\ \A j \in 1..Len(roles[g]) : j # at[g] => new[j] = ikm[g][j]
  BY <1>3, <1>4, <1>5, FillFunctions DEF Holds
<1>8. ikm' = [ikm EXCEPT ![g] = new]
  BY <1>6 DEF FillCopy
<1> HIDE DEF new
<1>9. ikm'[g] = new /\ \A h \in Threads \ {g} : ikm'[h] = ikm[h]
  BY <1>8, FillFunctions
<1>10. \A j \in 1..Len(roles[g]) : j < at[g] => Whole(g, j)'
  <2> SUFFICES ASSUME NEW j \in 1..Len(roles[g]), j < at[g]
               PROVE  Whole(g, j)'
    OBVIOUS
  <2>1. Whole(g, j) /\ j # at[g]
    BY <1>3, <1>4
  <2>2. new[j] = ikm[g][j] /\ j \in DOMAIN new
    BY <1>7, <2>1
  <2> QED
    BY <1>1, <1>9, <2>1, <2>2 DEF Whole, Holds
<1>11. \A j \in 1..Len(roles[g]) : j = at[g] => Whole(g, j)'
  BY <1>1, <1>3, <1>5, <1>7, <1>9 DEF Whole, Holds
<1>12. \A j \in 1..Len(roles[g]) : j < at[g] + 1 => j < at[g] \/ j = at[g]
  BY <1>3
<1>13. \A j \in 1..Len(roles[g]) : j < at[g] + 1 => Whole(g, j)'
  BY <1>10, <1>11, <1>12
<1>14. pc'[g] = "fill.derive" => \A j \in 1..Len(roles[g]) : j < at[g] + 1
  BY <1>2, <1>3
<1>15. \A j \in 1..Len(roles[g]) : Measured(g, j)'
  BY <1>1, <1>4 DEF Measured
<1>16. FillOf(g)'
  BY <1>1, <1>2, <1>3, <1>7, <1>9, <1>13, <1>14, <1>15
     DEF FillOf, Filling, Assembling
<1>17. FillTypes'
  BY <1>1, <1>2, <1>7, <1>8, FillFunctions DEF FillTypes
<1>18. \A h \in Threads \ {g} : Untouched(h)
  BY <1>1, <1>2, <1>9 DEF Untouched
<1> QED
  BY <1>16, <1>17, <1>18 DEF FillsKept

(* The wiped buffer holds no secret.                                       *)
LEMMA FillZeroFills ==
  ASSUME IInv, NEW g \in Threads, FillZero(g)
  PROVE  FillsKept(g)
<1> DEFINE wiped == [i \in DOMAIN ikm[g] |-> Zero]
<1>1. /\ pc[g] = "fill.zero"
      /\ pc[g] \in Filling
      /\ UNCHANGED <<state, arg, roles, at, room>>
      /\ pc' = [pc EXCEPT ![g] = "fill.munlock"]
      /\ ikm' = [ikm EXCEPT ![g] = wiped]
  BY DEF FillZero, Filling, filling, memory, Goto
<1>2. wiped \in Seq(Payloads \cup {Zero})
  <2>1. ikm[g] \in Seq(Payloads \cup {Zero})
    BY FillFunctions
  <2>2. DOMAIN ikm[g] = 1..Len(ikm[g]) /\ Len(ikm[g]) \in Nat
    BY <2>1
  <2> QED
    BY <2>2
<1>3. \A i \in DOMAIN wiped : wiped[i] \notin Payloads
  BY SecureBytesAssumption
<1> HIDE DEF wiped
<1>4. FillTypes'
  BY <1>1, <1>2, FillFunctions DEF FillTypes
<1>5. \A h \in Threads \ {g} : Untouched(h)
  BY <1>1, FillFunctions DEF Untouched
<1>6. pc'[g] = "fill.munlock" /\ ikm'[g] = wiped
  BY <1>1, FillFunctions
<1>7. Filled(g)' = {}
  BY <1>3, <1>6 DEF Filled
<1>8. FillOf(g)'
  BY <1>1, <1>6, <1>7, FillFacts DEF FillOf, Filling, Assembling
<1> QED
  BY <1>4, <1>5, <1>8 DEF FillsKept

(* The call returns.                                                       *)
LEMMA FillDoneFills ==
  ASSUME IInv, NEW g \in Threads, FillDone(g)
  PROVE  FillsKept(g)
<1>1. /\ pc[g] = "fill.munlock"
      /\ roles' = [roles EXCEPT ![g] = <<>>]
      /\ at' = [at EXCEPT ![g] = 0]
      /\ room' = [room EXCEPT ![g] = {}]
      /\ pc' = [pc EXCEPT ![g] = "idle"]
      /\ arg' = [arg EXCEPT ![g] = Nobody]
      /\ ikm' = ikm
  BY DEF FillDone, Return, Goto, buffers
<1>2. <<>> \in Seq(Containers)
  OBVIOUS
<1>3. roles' \in [Threads -> Seq(Containers)]
  BY <1>1, <1>2, FillFunctions
<1>4. FillTypes'
  BY <1>1, <1>3, FillFunctions DEF FillTypes
<1>5. \A h \in Threads \ {g} : Untouched(h)
  BY <1>1, FillFunctions DEF Untouched
<1>6. pc'[g] = "idle"
  BY <1>1, FillFunctions
<1>7. Filled(g) = {}
  BY <1>1 DEF IInv, Fills, FillOf, Assembling
<1>8. Filled(g)' = {}
  BY <1>1, <1>7 DEF Filled
<1>9. FillOf(g)'
  BY <1>6, <1>8 DEF FillOf, Filling, Assembling
<1> QED
  BY <1>4, <1>5, <1>9 DEF FillsKept

(* Every step of a goroutine that starts or goes on a call.                *)
LEMMA AnyStep ==
  ASSUME IInv, NEW g \in Threads, Start(g) \/ Step(g)
  PROVE  FillsKept(g)
<1>1. CASE Start(g)
  <2>1. ASSUME NEW c \in Containers, NEW o \in Containers, Fill(g, <<c>>, o)
        PROVE  FillsKept(g)
    <3> DEFINE rs == <<c>>
    <3>1. rs \in Seq(Containers) /\ rs # <<>> /\ Fill(g, rs, o)
      BY <2>1
    <3> HIDE DEF rs
    <3> QED
      BY <3>1, FillBegins
  <2>2. ASSUME NEW c \in Containers, NEW d \in Containers, NEW o \in Containers,
               Fill(g, <<c, d>>, o)
        PROVE  FillsKept(g)
    <3> DEFINE rs == <<c, d>>
    <3>1. rs \in Seq(Containers) /\ rs # <<>> /\ Fill(g, rs, o)
      BY <2>2
    <3> HIDE DEF rs
    <3> QED
      BY <3>1, FillBegins
  <2> QED
    BY <1>1, <2>1, <2>2, OtherSteps DEF Start
<1>2. CASE Step(g)
  BY <1>2, OtherSteps, FillLenFills, FillAllocFills, FillLockFills,
     FillCopyFills, FillZeroFills, FillDoneFills DEF Step
<1> QED
  BY <1>1, <1>2

(* Every step keeps the key material of every Fill as FillOf says.         *)
LEMMA NextFills ==
  ASSUME IInv, [Next]_vars
  PROVE  FillTypes' /\ Fills'
<1>1. \A c \in Containers : Settled(c)
  BY ContainersSettle
<1>2. ASSUME NEW h \in Threads, Untouched(h) PROVE FillOf(h)'
  BY <1>1, <1>2, FillStays DEF IInv, Fills
<1>3. ASSUME NEW g \in Threads, Start(g) \/ Step(g)
      PROVE  FillTypes' /\ Fills'
  <2>1. FillsKept(g)
    BY <1>3, AnyStep
  <2> QED
    BY <1>2, <2>1 DEF FillsKept, Fills
<1>4. ASSUME NEW c \in Containers, Drop(c) PROVE FillTypes' /\ Fills'
  <2>1. UNCHANGED <<pc, arg, ikm, roles, at, room>>
    BY <1>4 DEF Drop, locals
  <2>2. \A h \in Threads : Untouched(h)
    BY <2>1 DEF Untouched
  <2> QED
    BY <1>2, <2>1, <2>2 DEF IInv, FillTypes, Fills
<1>5. ASSUME NEW c \in Containers, Finalize(c) PROVE FillTypes' /\ Fills'
  <2>1. /\ pc[GC] = "idle"
        /\ Goto(GC, "destroy.lock")
        /\ arg' = [arg EXCEPT ![GC] = c]
        /\ ikm' = ikm
        /\ UNCHANGED <<roles, at, room>>
        /\ GC \in Threads
    BY <1>5 DEF Finalize, Idle, buffers, filling, Threads
  <2>2. FillsKept(GC)
    BY <2>1, OutsideFill DEF Filling, Labels
  <2> QED
    BY <1>2, <2>2 DEF FillsKept, Fills
<1>6. CASE UNCHANGED vars
  <2>1. UNCHANGED <<pc, arg, ikm, roles, at, room>>
    BY <1>6 DEF vars
  <2>2. \A h \in Threads : Untouched(h)
    BY <2>1 DEF Untouched
  <2> QED
    BY <1>2, <2>1, <2>2 DEF IInv, FillTypes, Fills
<1> QED
  BY <1>3, <1>4, <1>5, <1>6 DEF Next, Quiet, Threads

-----------------------------------------------------------------------------
(* The invariant of the specification *)

(* No container exists before the first call.                              *)
LEMMA InitIInv == Init => IInv
<1> SUFFICES ASSUME Init PROVE IInv
  OBVIOUS
<1> USE SecureBytesAssumption
<1>1. Types
  BY DEF Init, Types, Labels, Threads
<1>2. Locks /\ Callers /\ Makers /\ Buffers
  BY <1>1 DEF Init, Types, Locks, Callers, Makers, Buffers, HoldsArg,
              Unfinished, Filling, NeedsLive, Idle
<1>3. FillTypes
  <2>1. <<>> \in Seq(Containers) /\ <<>> \in Seq(Payloads \cup {Zero})
    OBVIOUS
  <2> QED
    BY <2>1 DEF Init, FillTypes
<1>4. Fills
  <2> SUFFICES ASSUME NEW g \in Threads PROVE FillOf(g)
    BY DEF Fills
  <2>1. pc[g] = "idle" /\ DOMAIN ikm[g] = {}
    BY DEF Init
  <2> QED
    BY <2>1 DEF FillOf, Filling, Assembling, Filled
<1> QED
  BY <1>1, <1>2, <1>3, <1>4 DEF IInv, Core

(* Every step of a goroutine, of the collector and of the finalizer keeps  *)
(* it.                                                                     *)
LEMMA NextIInv == IInv /\ [Next]_vars => IInv'
  BY NextCore, NextFills DEF IInv

(* The inductive invariant holds of every behaviour.                       *)
LEMMA Invariance == Spec => []IInv
  BY InitIInv, NextIInv, PTL DEF Spec

-----------------------------------------------------------------------------
(* The safety properties *)

(* Every variable keeps its type, and a mutex is only ever held inside a   *)
(* call on its container by the goroutine that makes the call: no path of  *)
(* Use, Clone, Fill or Destroy, a panicking callback's included, leaves one*)
(* locked.                                                                 *)
THEOREM MutexesAreReleased == Spec => []TypeOK
<1>1. IInv => TypeOK
  BY DEF IInv, Core, Types, FillTypes, Locks, TypeOK, Idle, HoldsArg
<1> QED
  BY <1>1, Invariance, PTL

(* New, Clone and Destroy leave no payload in a buffer that neither a live *)
(* container nor a call in flight owns, and deriveKEK no key material: also*)
(* when mlock is refused or a role fails after others have been copied.    *)
THEOREM NoCopyIsLeft == Spec => []NoStrayCopy
<1>1. IInv => NoStrayCopy
  BY DEF IInv, Core, Buffers, Fills, FillOf, Assembling, NoStrayCopy, Idle
<1> QED
  BY <1>1, Invariance, PTL

(* Whenever deriveKEK derives a key, its key material holds every role's   *)
(* secret, however Destroy interleaves with the measuring and the copying. *)
THEOREM RolesAreWhole == Spec => []KeyMaterialIsWhole
<1>1. IInv => KeyMaterialIsWhole
  <2> SUFFICES ASSUME IInv, NEW g \in Threads, pc[g] = "fill.derive",
                      NEW i \in DOMAIN roles[g]
               PROVE  /\ i \in Filled(g)
                      /\ Holds(roles[g][i]) => ikm[g][i] = buf[roles[g][i]]
    BY DEF KeyMaterialIsWhole
  <2>1. i \in 1..Len(roles[g])
    BY FillFacts DEF Filling
  <2>2. Whole(g, i)
    BY <2>1 DEF IInv, Fills, FillOf
  <2> QED
    BY <2>2 DEF Whole, Filled
<1> QED
  BY <1>1, Invariance, PTL

-----------------------------------------------------------------------------
(* Pinned pages *)

(* Where the page of the container a call makes is pinned.                 *)
HasPinned == Assembling \cup {"new.zero"}

(* A container keeps its payload pinned, and a call the buffer it makes.   *)
Pins ==
  /\ \A c \in Containers : Holds(c) => PageOf[c] \in pinned
  /\ \A g \in Threads : pc[g] \in HasPinned => PageOf[out[g]] \in pinned

(* If no two buffers share a page, no munlock releases the page of another *)
(* container.                                                              *)
LEMMA PinsStep ==
  ASSUME IInv, Pins, [Next]_vars,
         \A c, d \in Containers : PageOf[c] = PageOf[d] => c = d
  PROVE  Pins'
<1> USE SecureBytesAssumption
<1>1. ASSUME NEW g \in Goroutines, Start(g) PROVE Pins'
  <2>1. ASSUME NEW c \in Containers, NEW v \in Payloads, New(g, c, v)
        PROVE  Pins'
    BY <2>1 DEF IInv, Core, Types, Pins, Holds,
        HasPinned, Assembling, New,
        Making, Call, Idle, Goto, Threads
  <2>2. ASSUME NEW c \in Containers, Use(g, c) \/ Destroy(g, c) PROVE Pins'
    BY <2>2 DEF IInv, Core, Types, Pins, Holds,
        HasPinned, Assembling, Use,
        Destroy, Call, Idle, Goto, memory, Threads
  <2>3. ASSUME NEW c \in Containers, NEW o \in Containers, Clone(g, c, o)
        PROVE  Pins'
    BY <2>3 DEF IInv, Core, Types, Pins, Holds,
        HasPinned, Assembling, Clone,
        Making, Call, Idle, Goto, Threads
  <2>4. ASSUME NEW rs, NEW o \in Containers, Fill(g, rs, o)
        PROVE  Pins'
    BY <2>4 DEF IInv, Core, Types, Pins, Holds,
        HasPinned, Assembling, Fill,
        Making, Call, Idle, Goto, Threads
  <2> QED
    BY <1>1, <2>1, <2>2, <2>3, <2>4 DEF Start
<1>2. ASSUME NEW g \in Threads, Step(g) PROVE Pins'
  <2>1. CASE NewRefused(g)
    BY <2>1 DEF IInv, Core, Types, Pins, Holds,
        HasPinned, Assembling, NewRefused,
        Return, Goto
  <2>2. CASE NewPinned(g)
    BY <2>2 DEF IInv, Core, Types, Pins, Holds,
        HasPinned, Assembling, NewPinned,
        Goto, locals
  <2>3. CASE NewDone(g)
    BY <2>3 DEF IInv, Core, Types, Pins, Holds,
        HasPinned, Assembling, NewDone,
        Return, Goto
  <2>4. CASE UseLock(g)
    BY <2>4 DEF IInv, Core, Types, Pins, Holds,
        HasPinned, Assembling, UseLock,
        Goto, memory, locals
  <2>5. CASE UseDestroyed(g)
    BY <2>5 DEF IInv, Core, Types, Pins, Holds,
        HasPinned, Assembling, UseDestroyed,
        Return, Goto, memory
  <2>6. CASE UseDone(g)
    BY <2>6 DEF IInv, Core, Types, Pins, Holds,
        HasPinned, Assembling, UseDone,
        Return, Goto, memory
  <2>7. CASE CloneCopy(g)
    BY <2>7 DEF IInv, Core, Types, Pins, Holds,
        HasPinned, Assembling, CloneCopy,
        Makers, Unfinished, Filling, Goto
  <2>8. CASE CloneRefused(g)
    BY <2>8 DEF IInv, Core, Types, Pins, Holds,
        HasPinned, Assembling, CloneRefused,
        Return, Goto
  <2>9. CASE CloneDone(g)
    BY <2>9 DEF IInv, Core, Types, Pins, Holds,
        HasPinned, Assembling, CloneDone,
        Return, Goto
  <2>10. CASE FillLen(g)
    <3>1. /\ pc[g] \in Filling
          /\ NextRole(g, "fill.len", "fill.alloc")
          /\ UNCHANGED <<memory, out>>
          /\ pc[g] = "fill.len"
      BY <2>10 DEF FillLen, Filling
    <3>2. /\ pc'[g] \in {"fill.len", "fill.alloc"}
          /\ \A h \in Threads \ {g} : pc'[h] = pc[h]
      BY <3>1, NextRoleGoesOn
    <3> QED
      BY <3>1, <3>2 DEF Pins, Holds, HasPinned, Assembling, memory
  <2>11. CASE FillAlloc(g)
    <3>1. /\ pc \in [Threads -> Labels]
          /\ out \in [Threads -> Containers \cup {Nobody}]
      BY DEF IInv, Core, Types
    <3>2. /\ buf' = buf /\ state' = state
          /\ pinned \subseteq pinned'
          /\ \A h \in Threads \ {g} : pc'[h] = pc[h] /\ out'[h] = out[h]
      BY <2>11, <3>1 DEF FillAlloc, Return, Goto
    <3>3. pc'[g] \in HasPinned => PageOf[out'[g]] \in pinned'
      BY <2>11, <3>1 DEF FillAlloc, Return, Goto, HasPinned, Assembling
    <3> QED
      BY <3>2, <3>3 DEF Pins, Holds
  <2>12. CASE FillLock(g)
    BY <2>12 DEF IInv, Core, Types, Pins, Holds,
        HasPinned, Assembling, FillLock,
        Goto, memory, locals
  <2>13. CASE FillCopy(g)
    <3>1. /\ pc[g] \in Filling
          /\ NextRole(g, "fill.lock", "fill.derive")
          /\ UNCHANGED <<memory, out>>
          /\ pc[g] = "fill.copy"
      BY <2>13 DEF FillCopy, Filling
    <3>2. /\ pc'[g] \in {"fill.lock", "fill.derive"}
          /\ \A h \in Threads \ {g} : pc'[h] = pc[h]
      BY <3>1, NextRoleGoesOn
    <3> QED
      BY <3>1, <3>2 DEF Pins, Holds, HasPinned, Assembling, memory
  <2>14. CASE FillAbort(g)
    BY <2>14 DEF IInv, Core, Types, Pins, Holds,
        HasPinned, Assembling, FillAbort,
        Goto, memory, locals
  <2>15. CASE FillDerive(g)
    BY <2>15 DEF IInv, Core, Types, Pins, Holds,
        HasPinned, Assembling, FillDerive,
        Goto, memory, locals
  <2>16. CASE FillZero(g)
    BY <2>16 DEF IInv, Core, Types, Pins, Holds,
        HasPinned, Assembling, FillZero,
        Goto, memory
  <2>17. CASE FillDone(g)
    BY <2>17 DEF IInv, Core, Types, Pins, Holds,
        HasPinned, Assembling, FillDone,
        Makers, Unfinished, Filling, Return, Goto
  <2>18. CASE DestroyLock(g)
    BY <2>18 DEF IInv, Core, Types, Pins, Holds,
        HasPinned, Assembling, DestroyLock,
        Goto, memory, locals
  <2>19. CASE DestroyAgain(g)
    BY <2>19 DEF IInv, Core, Types, Pins, Holds,
        HasPinned, Assembling, DestroyAgain,
        Return, Goto, memory
  <2>20. CASE DestroyZero(g)
    BY <2>20 DEF IInv, Core, Types, Pins, Holds,
        HasPinned, Assembling, DestroyZero,
        Goto, locals
  <2>21. CASE DestroyDone(g)
    BY <2>21 DEF IInv, Core, Types, Pins, Holds,
        HasPinned, Assembling, DestroyDone,
        Locks, Callers,
        Makers, HoldsArg, NeedsLive, Idle, Unfinished, Filling, Return, Goto
  <2> QED
    BY <1>2, <2>1, <2>2, <2>3, <2>4, <2>5, <2>6, <2>7, <2>8, <2>9, <2>10,
       <2>11, <2>12, <2>13, <2>14, <2>15, <2>16, <2>17, <2>18, <2>19, <2>20,
       <2>21 DEF Step
<1>3. ASSUME NEW c \in Containers, Drop(c) PROVE Pins'
  BY <1>3 DEF Pins, Holds, HasPinned, Assembling, Drop, memory, locals
<1>4. ASSUME NEW c \in Containers, Finalize(c) PROVE Pins'
  BY <1>4 DEF IInv, Core, Types, Pins, Holds, HasPinned, Assembling, Finalize,
     Goto, memory, Threads
<1>5. CASE UNCHANGED vars
  BY <1>5 DEF vars, Pins, Holds
<1> QED
  BY <1>1, <1>2, <1>3, <1>4, <1>5 DEF Next, Quiet

(* When every buffer has a page of its own, a payload stays pinned until it*)
(* has been wiped, whichever mlock and munlock the kernel refuses.  Without*)
(* the hypothesis it is false: munlock works on pages, and the allocator   *)
(* puts small buffers on one.                                              *)
THEOREM PayloadsStayPinned ==
  ASSUME \A c, d \in Containers : PageOf[c] = PageOf[d] => c = d
  PROVE  Spec => []PayloadIsPinned
<1>1. Init => Pins
  BY SecureBytesAssumption
     DEF Init, Pins, Holds, HasPinned, Assembling
<1>2. IInv /\ Pins /\ [Next]_vars => Pins'
  BY PinsStep
<1>3. IInv /\ Pins => PayloadIsPinned
  BY DEF IInv, Fills, FillOf, Pins, HasPinned, PayloadIsPinned
<1> QED
  BY <1>1, <1>2, <1>3, Invariance, PTL DEF Spec

-----------------------------------------------------------------------------
(* The containers implement SecretBox *)

(* One container changes; one goroutine looks elsewhere.                    *)
LEMMA BoxesExcept ==
  ASSUME NEW o \in Containers, NEW v, boxes'[o] = v,
         \A c \in Containers \ {o} : boxes'[c] = boxes[c]
  PROVE  boxes' = [boxes EXCEPT ![o] = v]
BY DEF boxes

LEMMA LooksExcept ==
  ASSUME NEW g \in Threads, NEW c, looks'[g] = c,
         \A h \in Threads \ {g} : looks'[h] = looks[h]
  PROVE  looks' = [looks EXCEPT ![g] = c]
BY DEF looks

(* A call that only starts leaves every box as it is.                       *)
LEMMA NewBox ==
  ASSUME IInv, NEW g \in Goroutines, NEW c \in Containers, NEW v \in Payloads,
         New(g, c, v)
  PROVE  UNCHANGED <<boxes, looks>>
<1>1. boxes' = boxes
  BY DEF IInv, Core, Types, boxes, Holds, New, Making, Call, Idle, Goto,
      Threads
<1>2. looks' = looks
  BY DEF IInv, Core, Types, looks, Looking, New, Making, Call, Idle, Goto,
      Threads
<1> QED
  BY <1>1, <1>2

(* A call that only starts leaves every box as it is.                       *)
LEMMA UseBox ==
  ASSUME IInv, NEW g \in Goroutines, NEW c \in Containers, Use(g, c)
  PROVE  UNCHANGED <<boxes, looks>>
<1>1. boxes' = boxes
  BY DEF IInv, Core, Types, boxes, Holds, Use, Usable, Call, Idle, Goto,
      memory, Threads
<1>2. looks' = looks
  BY DEF IInv, Core, Types, looks, Looking, Use, Usable, Call, Idle, Goto,
      memory, Threads
<1> QED
  BY <1>1, <1>2

(* A call that only starts leaves every box as it is.                       *)
LEMMA CloneBox ==
  ASSUME IInv, NEW g \in Goroutines, NEW c \in Containers, NEW o \in Containers,
         Clone(g, c, o)
  PROVE  UNCHANGED <<boxes, looks>>
<1>1. boxes' = boxes
  BY DEF IInv, Core, Types, boxes, Holds, Clone, Usable, Making, Call, Idle,
      Goto, Threads
<1>2. looks' = looks
  BY DEF IInv, Core, Types, looks, Looking, Clone, Usable, Making, Call, Idle,
      Goto, Threads
<1> QED
  BY <1>1, <1>2

(* A Fill that begins, its measuring, its allocation, its end of a role,   *)
(* and the wiping of key material that nobody else sees.                   *)
LEMMA FillBox ==
  ASSUME IInv, NEW g \in Goroutines, NEW rs, NEW o \in Containers,
         Fill(g, rs, o)
  PROVE  UNCHANGED <<boxes, looks>>
<1>1. boxes' = boxes
  BY DEF IInv, Core, Types, boxes, Holds, Fill, Making
<1>2. looks' = looks
  BY DEF IInv, Core, Types, looks, Looking, Fill, Call, Idle, Goto, Threads
<1> QED
  BY <1>1, <1>2

LEMMA FillInsideBox ==
  ASSUME IInv, NEW g \in Threads,
         \/ FillLen(g) \/ FillAlloc(g) \/ FillAbort(g) \/ FillDerive(g)
         \/ FillZero(g)
  PROVE  UNCHANGED <<boxes, looks>>
<1>1. UNCHANGED <<buf, state>>
  BY DEF FillLen, FillAlloc, FillAbort, FillDerive, FillZero, memory
<1>2. boxes' = boxes
  BY <1>1 DEF boxes, Holds
<1>3. /\ pc[g] \in Filling \ {"fill.copy"}
      /\ pc'[g] \in (Filling \ {"fill.copy"}) \cup {"idle"}
      /\ \A h \in Threads \ {g} : pc'[h] = pc[h] /\ arg'[h] = arg[h]
  <2>1. CASE FillLen(g)
    <3>1. pc[g] = "fill.len" /\ NextRole(g, "fill.len", "fill.alloc")
      BY <2>1 DEF FillLen
    <3>2. pc[g] \in Filling \ {"fill.copy"}
      BY <3>1 DEF Filling
    <3>3. /\ pc'[g] \in {"fill.len", "fill.alloc"}
          /\ \A h \in Threads \ {g} : pc'[h] = pc[h] /\ arg'[h] = arg[h]
      BY <3>1, <3>2, NextRoleGoesOn
    <3> QED
      BY <3>2, <3>3 DEF Filling
  <2>2. CASE FillAlloc(g) \/ FillAbort(g) \/ FillDerive(g) \/ FillZero(g)
    BY <2>2 DEF IInv, Core, Types, FillAlloc, FillAbort, FillDerive, FillZero,
       Return, Goto, Filling, locals
  <2> QED
    BY <2>1, <2>2
<1>4. looks' = looks
  BY <1>3 DEF looks, Looking, Filling
<1> QED
  BY <1>2, <1>4

(* A call that only starts leaves every box as it is.                       *)
LEMMA DestroyBox ==
  ASSUME IInv, NEW g \in Goroutines, NEW c \in Containers, Destroy(g, c)
  PROVE  UNCHANGED <<boxes, looks>>
<1>1. boxes' = boxes
  BY DEF IInv, Core, Types, boxes, Holds, Destroy, Usable, Call, Idle, Goto,
      memory, Threads
<1>2. looks' = looks
  BY DEF IInv, Core, Types, looks, Looking, Destroy, Usable, Call, Idle, Goto,
      memory, Threads
<1> QED
  BY <1>1, <1>2

(* SecretBox does not see this step of NewRefused.                         *)
LEMMA NewRefusedBox ==
  ASSUME IInv, NEW g \in Threads, NewRefused(g)
  PROVE  UNCHANGED <<boxes, looks>>
<1>1. boxes' = boxes
  BY DEF IInv, Core, Types, Makers, Unfinished, Filling, boxes, Holds,
      NewRefused, Return, Goto, buffers, Threads
<1>2. looks' = looks
  BY DEF IInv, Core, Types, looks, Looking, NewRefused, Return, Goto, buffers,
      Threads
<1> QED
  BY <1>1, <1>2

(* SecretBox does not see this step of NewPinned.                          *)
LEMMA NewPinnedBox ==
  ASSUME IInv, NEW g \in Threads, NewPinned(g)
  PROVE  UNCHANGED <<boxes, looks>>
<1>1. boxes' = boxes
  BY DEF IInv, Core, Types, boxes, Holds, NewPinned, Goto, locals, Threads
<1>2. looks' = looks
  BY DEF IInv, Core, Types, looks, Looking, NewPinned, Goto, locals, Threads
<1> QED
  BY <1>1, <1>2

(* SecretBox does not see this step of UseDestroyed.                       *)
LEMMA UseDestroyedBox ==
  ASSUME IInv, NEW g \in Threads, UseDestroyed(g)
  PROVE  UNCHANGED <<boxes, looks>>
<1>1. boxes' = boxes
  BY DEF IInv, Core, Types, boxes, Holds, UseDestroyed, Unlock, Return, Goto,
      memory, buffers, Threads
<1>2. looks' = looks
  BY DEF IInv, Core, Types, looks, Looking, UseDestroyed, Unlock, Return, Goto,
      memory, buffers, Threads
<1> QED
  BY <1>1, <1>2

(* SecretBox does not see this step of CloneCopy.                          *)
LEMMA CloneCopyBox ==
  ASSUME IInv, NEW g \in Threads, CloneCopy(g)
  PROVE  UNCHANGED <<boxes, looks>>
<1>1. boxes' = boxes
  BY DEF IInv, Core, Types, Makers, Unfinished, Filling, boxes, Holds,
      CloneCopy, Goto, Threads
<1>2. looks' = looks
  BY DEF IInv, Core, Types, looks, Looking, CloneCopy, Goto, Threads
<1> QED
  BY <1>1, <1>2

(* SecretBox does not see this step of DestroyLock.                        *)
LEMMA DestroyLockBox ==
  ASSUME IInv, NEW g \in Threads, DestroyLock(g)
  PROVE  UNCHANGED <<boxes, looks>>
<1>1. boxes' = boxes
  BY DEF IInv, Core, Types, boxes, Holds, DestroyLock, Lock, Goto, memory,
      locals, Threads
<1>2. looks' = looks
  BY DEF IInv, Core, Types, looks, Looking, DestroyLock, Lock, Goto, memory,
      locals, Threads
<1> QED
  BY <1>1, <1>2

(* SecretBox does not see this step of DestroyAgain.                       *)
LEMMA DestroyAgainBox ==
  ASSUME IInv, NEW g \in Threads, DestroyAgain(g)
  PROVE  UNCHANGED <<boxes, looks>>
<1>1. boxes' = boxes
  BY DEF IInv, Core, Types, boxes, Holds, DestroyAgain, Unlock, Return, Goto,
      memory, buffers, Threads
<1>2. looks' = looks
  BY DEF IInv, Core, Types, looks, Looking, DestroyAgain, Unlock, Return, Goto,
      memory, buffers, Threads
<1> QED
  BY <1>1, <1>2

(* SecretBox does not see this step of DestroyDone.                        *)
LEMMA DestroyDoneBox ==
  ASSUME IInv, NEW g \in Threads, DestroyDone(g)
  PROVE  UNCHANGED <<boxes, looks>>
<1>1. boxes' = boxes
  BY SecureBytesAssumption DEF IInv, Core, Types, Callers, NeedsLive, Idle,
      boxes, Holds, DestroyDone, Return, Goto, Unlock, buffers, Threads
<1>2. looks' = looks
  BY DEF IInv, Core, Types, looks, Looking, DestroyDone, Return, Goto, Unlock,
      buffers, Threads
<1> QED
  BY <1>1, <1>2

(* A call that only starts leaves every box as it is.                       *)
LEMMA DropBox ==
  ASSUME IInv, NEW c \in Containers, Drop(c)
  PROVE  UNCHANGED <<boxes, looks>>
<1>1. boxes' = boxes
  BY DEF IInv, Core, Types, boxes, Holds, Drop, Threads, Idle, memory, locals
<1>2. looks' = looks
  BY DEF IInv, Core, Types, looks, Looking, Drop, Threads, Idle, memory, locals
<1> QED
  BY <1>1, <1>2

(* A call that only starts leaves every box as it is.                       *)
LEMMA FinalizeBox ==
  ASSUME IInv, NEW c \in Containers, Finalize(c)
  PROVE  UNCHANGED <<boxes, looks>>
<1>1. boxes' = boxes
  BY DEF IInv, Core, Types, boxes, Holds, Finalize, Idle, Goto, memory,
      buffers, Threads
<1>2. looks' = looks
  BY DEF IInv, Core, Types, looks, Looking, Finalize, Idle, Goto, memory,
      buffers, Threads
<1> QED
  BY <1>1, <1>2

(* The step that creates a box.                                            *)
LEMMA NewDoneBox ==
  ASSUME IInv, NEW g \in Threads, NewDone(g)
  PROVE  Box!Create(out[g])
<1>1. boxes[out[g]] = "unborn"
  BY DEF IInv, Core, Types, Makers, Unfinished, Filling, boxes, Holds, NewDone,
      Return, Goto, Threads
<1>2. boxes' = [boxes EXCEPT ![out[g]] = buf[out[g]]]
  <2>1. out[g] \in Containers
    BY DEF IInv, Core, Types, Makers, Unfinished, Filling, Idle, NewDone,
        Return, Goto, Threads
  <2>2. boxes'[out[g]] = buf[out[g]]
    BY <2>1 DEF IInv, Core, Types, Makers, Unfinished, Filling, boxes, Holds,
        NewDone, Return, Goto, Threads
  <2>3. \A c \in Containers \ {out[g]} : boxes'[c] = boxes[c]
    BY <2>1 DEF IInv, Core, Types, boxes, Holds, NewDone, Return, Goto, Threads
  <2> QED
    BY <2>1, <2>2, <2>3, BoxesExcept
<1>3. buf[out[g]] \in Payloads
  BY DEF IInv, Core, Types, Makers, Unfinished, Filling, NewDone, Return, Goto,
      Threads
<1>4. looks' = looks
  BY DEF IInv, Core, Types, looks, Looking, NewDone, Return, Goto, Threads
<1> QED
  BY <1>1, <1>2, <1>3, <1>4 DEF Box!Create

(* Taking the lock of a live container is looking into its box.            *)
LEMMA UseLockBox ==
  ASSUME IInv, NEW g \in Threads, UseLock(g)
  PROVE  \/ Box!Look(g, arg[g])
         \/ UNCHANGED <<boxes, looks>>
<1>1. boxes' = boxes
  BY DEF IInv, Core, Types, boxes, Holds, UseLock, Lock, Goto, memory, locals,
      Threads
<1>2. boxes[arg[g]] \in Payloads \/ state[arg[g]] = "destroyed"
  BY DEF IInv, Core, Types, Locks, Callers, Buffers, HoldsArg, NeedsLive,
      Idle, boxes, Holds, UseLock, Lock, Goto, memory, locals, Threads
<1>3. looks[g] = Nobody
  BY DEF IInv, Core, Types, looks, Looking, UseLock, Lock, Goto, memory,
      locals, Threads
<1>4. state[arg[g]] = "destroyed" => looks' = looks
  BY DEF IInv, Core, Types, looks, Looking, UseLock, Lock, Goto, memory,
      locals, Threads
<1>5. state[arg[g]] # "destroyed" =>
        /\ looks'[g] = arg[g]
        /\ \A h \in Threads \ {g} : looks'[h] = looks[h]
  BY DEF IInv, Core, Types, looks, Looking, UseLock, Lock, Goto, memory,
      locals, Threads
<1> QED
  BY <1>1, <1>2, <1>3, <1>4, <1>5, LooksExcept DEF Box!Look

(* So is the inner Use of a role.                                          *)
LEMMA FillLockBox ==
  ASSUME IInv, NEW g \in Threads, FillLock(g)
  PROVE  Box!Look(g, arg[g])
<1>1. boxes' = boxes
  BY DEF boxes, Holds, FillLock, memory
<1>2. boxes[arg[g]] \in Payloads
  BY DEF IInv, Core, Types, Locks, Callers, Buffers, HoldsArg, NeedsLive, Idle,
     boxes, Holds, FillLock, Lock
<1>3. looks[g] = Nobody
  BY DEF looks, Looking, FillLock
<1>4. /\ looks'[g] = arg[g]
      /\ \A h \in Threads \ {g} : looks'[h] = looks[h]
  BY DEF IInv, Core, Types, looks, Looking, FillLock, Goto, locals
<1> QED
  BY <1>1, <1>2, <1>3, <1>4, LooksExcept DEF Box!Look

(* The copy of a role ends the look.                                       *)
LEMMA FillCopyBox ==
  ASSUME IInv, NEW g \in Threads, FillCopy(g)
  PROVE  Box!LookAway(g)
<1>1. boxes' = boxes
  BY DEF boxes, Holds, FillCopy, memory
<1>2. /\ pc'[g] \in {"fill.lock", "fill.derive"}
      /\ \A h \in Threads \ {g} : pc'[h] = pc[h] /\ arg'[h] = arg[h]
  <2>1. pc[g] \in Filling /\ NextRole(g, "fill.lock", "fill.derive")
    BY DEF FillCopy, Filling
  <2> QED
    BY <2>1, NextRoleGoesOn
<1>3. /\ looks'[g] = Nobody
      /\ \A h \in Threads \ {g} : looks'[h] = looks[h]
  BY <1>2 DEF looks, Looking
<1> QED
  BY <1>1, <1>3, LooksExcept DEF Box!LookAway

(* A callback that returns or panics looks away.                           *)
LEMMA UseDoneBox ==
  ASSUME IInv, NEW g \in Threads, UseDone(g)
  PROVE  Box!LookAway(g)
<1>1. boxes' = boxes
  BY DEF IInv, Core, Types, boxes, Holds, UseDone, Unlock, Return, Goto,
      memory, buffers, Threads
<1>2. looks' = [looks EXCEPT ![g] = Nobody]
  <2>1. g \in Threads
    BY DEF IInv, Core, Types, Idle, UseDone, Unlock, Return, Goto, memory,
        buffers, Threads
  <2>2. looks'[g] = Nobody
    BY <2>1 DEF IInv, Core, Types, looks, Looking, UseDone, Unlock, Return,
        Goto, memory, buffers, Threads
  <2>3. \A h \in Threads \ {g} : looks'[h] = looks[h]
    BY <2>1 DEF IInv, Core, Types, looks, Looking, UseDone, Unlock, Return,
        Goto, memory, buffers, Threads
  <2> QED
    BY <2>1, <2>2, <2>3, LooksExcept
<1> QED
  BY <1>1, <1>2 DEF Box!LookAway

(* So does a Clone that is refused its page.                               *)
LEMMA CloneRefusedBox ==
  ASSUME IInv, NEW g \in Threads, CloneRefused(g)
  PROVE  Box!LookAway(g)
<1>1. boxes' = boxes
  BY DEF IInv, Core, Types, Makers, Unfinished, Filling, boxes, Holds,
      CloneRefused, Unlock, Return, Goto, buffers, Threads
<1>2. looks' = [looks EXCEPT ![g] = Nobody]
  <2>1. g \in Threads
    BY DEF IInv, Core, Types, Idle, CloneRefused, Unlock, Return, Goto,
        buffers, Threads
  <2>2. looks'[g] = Nobody
    BY <2>1 DEF IInv, Core, Types, looks, Looking, CloneRefused, Unlock,
        Return, Goto, buffers, Threads
  <2>3. \A h \in Threads \ {g} : looks'[h] = looks[h]
    BY <2>1 DEF IInv, Core, Types, looks, Looking, CloneRefused, Unlock,
        Return, Goto, buffers, Threads
  <2> QED
    BY <2>1, <2>2, <2>3, LooksExcept
<1> QED
  BY <1>1, <1>2 DEF Box!LookAway

(* Clone's last step copies a box.                                         *)
LEMMA CloneDoneBox ==
  ASSUME IInv, NEW g \in Threads, CloneDone(g)
  PROVE  Box!Copy(g, out[g])
<1>1. looks[g] = arg[g] /\ arg[g] # Nobody
  BY LooksAtPayload, SecureBytesAssumption DEF IInv, Core, Types, looks,
      Looking, CloneDone, Unlock, Return, Goto, Threads
<1>2. boxes[out[g]] = "unborn"
  BY DEF IInv, Core, Types, Makers, Unfinished, Filling, boxes, Holds,
      CloneDone, Unlock, Return, Goto, Threads
<1>3. boxes[arg[g]] = buf[arg[g]]
  BY LooksAtPayload DEF IInv, Core, Types, boxes, Holds, Looking, CloneDone,
      Unlock, Return, Goto, Threads
<1>4. boxes' = [boxes EXCEPT ![out[g]] = buf[arg[g]]]
  <2>1. out[g] \in Containers
    BY DEF IInv, Core, Types, Makers, Unfinished, Filling, Idle, CloneDone,
        Unlock, Return, Goto, Threads
  <2>2. boxes'[out[g]] = buf[arg[g]]
    BY <2>1 DEF IInv, Core, Types, Locks, Callers, Makers, Buffers, HoldsArg,
        NeedsLive, Idle, Unfinished, Filling, boxes, Holds, Looking,
        CloneDone, Unlock, Return, Goto, Threads
  <2>3. \A c \in Containers \ {out[g]} : boxes'[c] = boxes[c]
    BY <2>1 DEF IInv, Core, Types, boxes, Holds, Looking, CloneDone, Unlock,
        Return, Goto, Threads
  <2> QED
    BY <2>1, <2>2, <2>3, BoxesExcept
<1>5. looks' = [looks EXCEPT ![g] = Nobody]
  <2>1. g \in Threads
    BY DEF IInv, Core, Types, Idle, CloneDone, Unlock, Return, Goto, Threads
  <2>2. looks'[g] = Nobody
    BY <2>1 DEF IInv, Core, Types, looks, Looking, CloneDone, Unlock, Return,
        Goto, Threads
  <2>3. \A h \in Threads \ {g} : looks'[h] = looks[h]
    BY <2>1 DEF IInv, Core, Types, looks, Looking, CloneDone, Unlock, Return,
        Goto, Threads
  <2> QED
    BY <2>1, <2>2, <2>3, LooksExcept
<1> QED
  BY <1>1, <1>2, <1>3, <1>4, <1>5 DEF Box!Copy

(* Wiping the payload is what destroys the box: nobody else looks at it.   *)
LEMMA DestroyZeroBox ==
  ASSUME IInv, NEW g \in Threads, DestroyZero(g)
  PROVE  Box!Destroy(arg[g])
<1>1. arg[g] \in Containers /\ boxes[arg[g]] \in Payloads
  BY DEF IInv, Core, Types, Locks, Callers, Buffers, HoldsArg, NeedsLive,
      Idle, boxes, Holds, DestroyZero, Goto, locals, Threads
<1>2. boxes' = [boxes EXCEPT ![arg[g]] = "gone"]
  <2>1. arg[g] \in Containers
    BY DEF IInv, Core, Types, Callers, NeedsLive, Idle, Idle, DestroyZero,
        Goto, locals, Threads
  <2>2. boxes'[arg[g]] = "gone"
    BY <2>1, SecureBytesAssumption DEF IInv, Core, Types, Callers, NeedsLive,
        Idle, boxes, Holds, DestroyZero, Goto, locals, Threads
  <2>3. \A c \in Containers \ {arg[g]} : boxes'[c] = boxes[c]
    BY <2>1 DEF IInv, Core, Types, boxes, Holds, DestroyZero, Goto, locals,
        Threads
  <2> QED
    BY <2>1, <2>2, <2>3, BoxesExcept
<1>3. \A h \in Threads : looks[h] # arg[g]
  BY LooksAtPayload, SecureBytesAssumption DEF IInv, Core, Types, Locks,
      Callers, Buffers, HoldsArg, NeedsLive, Idle, looks, Looking, DestroyZero,
      Goto, locals, Threads
<1>4. looks' = looks
  BY DEF IInv, Core, Types, looks, Looking, DestroyZero, Goto, locals, Threads
<1> QED
  BY <1>1, <1>2, <1>3, <1>4 DEF Box!Destroy

(* Key material is a container that never held a payload of its own.       *)
LEMMA FillDoneBox ==
  ASSUME IInv, NEW g \in Threads, FillDone(g)
  PROVE  Box!Discard(out[g])
<1>1. out[g] \in Containers /\ boxes[out[g]] = "unborn"
  BY DEF IInv, Core, Types, Makers, Unfinished, Filling, boxes, FillDone
<1>2. boxes'[out[g]] = "gone"
  BY <1>1 DEF IInv, Core, Types, boxes, Holds, FillDone
<1>3. \A c \in Containers \ {out[g]} : boxes'[c] = boxes[c]
  BY <1>1 DEF IInv, Core, Types, boxes, Holds, FillDone
<1>4. boxes' = [boxes EXCEPT ![out[g]] = "gone"]
  BY <1>1, <1>2, <1>3, BoxesExcept
<1>5. looks' = looks
  BY DEF IInv, Core, Types, looks, Looking, FillDone, Return, Goto
<1> QED
  BY <1>1, <1>4, <1>5 DEF Box!Discard

(* Every step is a step of SecretBox, or leaves its state alone.           *)
LEMMA NextBox ==
  ASSUME IInv, [Next]_vars
  PROVE  [Box!Next]_<<boxes, looks>>
<1>1. ASSUME NEW g \in Goroutines, Start(g) PROVE UNCHANGED <<boxes, looks>>
  BY <1>1, NewBox, UseBox, DestroyBox, CloneBox, FillBox DEF Start
<1>2. ASSUME NEW g \in Threads, Step(g) PROVE [Box!Next]_<<boxes, looks>>
  <2> USE <1>2 DEF Box!Next
  <2>1. CASE UseLock(g) \/ FillLock(g)
    <3>1. arg[g] \in Containers
      BY <2>1 DEF IInv, Core, Callers, Idle, UseLock, FillLock
    <3> QED
      BY <2>1, <3>1, UseLockBox, FillLockBox
  <2>2. CASE UseDone(g) \/ CloneRefused(g) \/ FillCopy(g)
    BY <2>2, UseDoneBox, CloneRefusedBox, FillCopyBox
  <2>3. CASE CloneDone(g)
    <3>1. out[g] \in Containers
      BY <2>3 DEF IInv, Core, Makers, Unfinished, Filling, CloneDone
    <3> QED
      BY <2>3, <3>1, CloneDoneBox
  <2>4. CASE NewDone(g) \/ FillDone(g)
    <3>1. out[g] \in Containers
      BY <2>4 DEF IInv, Core, Makers, Unfinished, Filling, NewDone, FillDone
    <3> QED
      BY <2>4, <3>1, NewDoneBox, FillDoneBox
  <2>5. CASE DestroyZero(g)
    <3>1. arg[g] \in Containers
      BY <2>5 DEF IInv, Core, Callers, Idle, DestroyZero
    <3> QED
      BY <2>5, <3>1, DestroyZeroBox
  <2>6. CASE \/ NewRefused(g) \/ NewPinned(g) \/ UseDestroyed(g)
             \/ CloneCopy(g) \/ FillLen(g) \/ FillAlloc(g) \/ FillAbort(g)
             \/ FillDerive(g) \/ FillZero(g)
             \/ DestroyLock(g) \/ DestroyAgain(g) \/ DestroyDone(g)
    BY <2>6, NewRefusedBox, NewPinnedBox, UseDestroyedBox, CloneCopyBox,
       FillInsideBox, DestroyLockBox, DestroyAgainBox, DestroyDoneBox
  <2> QED
    BY <2>1, <2>2, <2>3, <2>4, <2>5, <2>6 DEF Step
<1>3. ASSUME NEW c \in Containers, Drop(c) \/ Finalize(c)
      PROVE  UNCHANGED <<boxes, looks>>
  BY <1>3, DropBox, FinalizeBox
<1>4. CASE UNCHANGED vars
  BY <1>4 DEF vars, boxes, looks, Holds, Looking
<1> QED
  BY <1>1, <1>2, <1>3, <1>4 DEF Next, Quiet

(* Containers shared by goroutines, a collector and a kernel that refuses  *)
(* are secret boxes: one payload from creation to destruction, destroyed   *)
(* for good and never under a goroutine that looks at it.                  *)
THEOREM ContainersAreSecretBoxes == Spec => BoxSpec
<1>1. Init => Box!Init
  BY DEF Init, Box!Init, boxes, looks, Looking
<1>2. IInv /\ [Next]_vars => [Box!Next]_<<boxes, looks>>
  BY NextBox
<1> QED
  BY <1>1, <1>2, Invariance, PTL DEF Spec, BoxSpec, Box!Spec
=============================================================================
