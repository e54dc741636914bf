------------------------------ MODULE SecretBox ------------------------------
(***************************************************************************)
(* What securebytes promises, with every call one atomic step and no locks,*)
(* pages or failures: a container holds one payload from its creation to   *)
(* its destruction, it is destroyed for good, and never while a goroutine  *)
(* is looking at the payload.                                              *)
(***************************************************************************)
CONSTANTS Goroutines, Containers, Payloads, Unborn, Gone, Nobody

VARIABLES
  box,      \* the payload of each container, or Unborn or Gone
  looking   \* the container whose payload a goroutine looks at, or Nobody

Create(c) ==
  /\ box[c] = Unborn
  /\ \E v \in Payloads : box' = [box EXCEPT ![c] = v]
  /\ UNCHANGED looking

(* A new container with the payload of one that is being looked at.        *)
Copy(g, o) ==
  /\ looking[g] # Nobody
  /\ box[o] = Unborn
  /\ box' = [box EXCEPT ![o] = box[looking[g]]]
  /\ looking' = [looking EXCEPT ![g] = Nobody]

(* A container given up before it held anything.                           *)
Discard(c) ==
  /\ box[c] = Unborn
  /\ box' = [box EXCEPT ![c] = Gone]
  /\ UNCHANGED looking

Look(g, c) ==
  /\ box[c] \in Payloads
  /\ looking[g] = Nobody
  /\ looking' = [looking EXCEPT ![g] = c]
  /\ UNCHANGED box

LookAway(g) ==
  /\ looking' = [looking EXCEPT ![g] = Nobody]
  /\ UNCHANGED box

Destroy(c) ==
  /\ box[c] \in Payloads
  /\ \A g \in Goroutines : looking[g] # c
  /\ box' = [box EXCEPT ![c] = Gone]
  /\ UNCHANGED looking

Init ==
  /\ box = [c \in Containers |-> Unborn]
  /\ looking = [g \in Goroutines |-> Nobody]

Next ==
  \/ \E c \in Containers : Create(c) \/ Discard(c) \/ Destroy(c)
  \/ \E g \in Goroutines :
       LookAway(g) \/ \E c \in Containers : Look(g, c) \/ Copy(g, c)

Spec == Init /\ [][Next]_<<box, looking>>
=============================================================================
