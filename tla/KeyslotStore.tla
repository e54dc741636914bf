----------------------------- MODULE KeyslotStore -----------------------------
(***************************************************************************)
(* What an envelope promises to a careful caller, with every call one      *)
(* atomic step: a set of slots of one policy around one data key, in       *)
(* memory and on disk.  There are no lists, no steps inside a call, no     *)
(* cryptography and no errors: what fails does not happen.                 *)
(***************************************************************************)
CONSTANTS
  Ids,       \* slot identities
  Policies,
  DataKeys,
  Nothing    \* no envelope, no file, no key

VARIABLES
  memory,    \* the slots of the envelope in memory, or Nothing
  disk,      \* those of the saved one, or Nothing
  key        \* the data key the caller holds, or Nothing

vars == <<memory, disk, key>>

(* kind is the policy a slot implies, or "recovery".                       *)
Slots == [id : Ids, kind : Policies \cup {"recovery"}, dek : DataKeys]

OnePolicy(S) == \E p \in Policies : {s.kind : s \in S} \ {"recovery"} = {p}
OneKey(S) == \E d \in DataKeys : \A s \in S : s.dek = d

Held(S) == IF S = Nothing THEN {} ELSE {s.id : s \in S}
Fresh(id) == id \notin Held(memory) \cup Held(disk)

(* Rotation starts a new envelope.                                         *)
Generate == key' \in DataKeys /\ memory' = Nothing /\ UNCHANGED disk

Drop == key' = Nothing /\ UNCHANGED <<memory, disk>>

Create ==
  /\ memory' # Nothing
  /\ memory' \subseteq Slots
  /\ OnePolicy(memory')
  /\ OneKey(memory')
  /\ \A s \in memory' : Fresh(s.id) /\ key \in {s.dek, Nothing}
  /\ UNCHANGED <<disk, key>>

Add ==
  /\ Nothing \notin {memory, memory'}
  /\ \E s \in memory' :
       /\ memory' = memory \cup {s}
       /\ s \in Slots
       /\ Fresh(s.id)
       /\ s.dek = key
  /\ OnePolicy(memory')
  /\ OneKey(memory')
  /\ UNCHANGED <<disk, key>>

Remove ==
  /\ memory # Nothing
  /\ \E s \in memory : memory' = memory \ {s}
  /\ OnePolicy(memory')
  /\ UNCHANGED <<disk, key>>

Persist ==
  /\ memory # Nothing
  /\ disk' = memory
  /\ UNCHANGED <<memory, key>>

Load ==
  /\ disk # Nothing
  /\ key = Nothing
  /\ memory' = disk
  /\ UNCHANGED <<disk, key>>

Open ==
  /\ memory # Nothing
  /\ key' \in {s.dek : s \in memory}
  /\ UNCHANGED <<memory, disk>>

Forget == memory' = Nothing /\ key' = Nothing /\ UNCHANGED disk

Init == memory = Nothing /\ disk = Nothing /\ key = Nothing

Next ==
  \/ Generate
  \/ Drop
  \/ Create
  \/ Add
  \/ Remove
  \/ Persist
  \/ Load
  \/ Open
  \/ Forget

Spec == Init /\ [][Next]_vars
=============================================================================
