--------------------------- MODULE ValidatedCopy ---------------------------
(***************************************************************************)
(* What the schema cache promises, apart from how it is stored: a copy of  *)
(* the upstream's descriptions, and a validator that names a revision the  *)
(* whole copy is at least as new as.  The copy may run ahead of the        *)
(* validator, never behind; a reader is served a copy at least as new as   *)
(* the validator it saw.                                                   *)
(***************************************************************************)
EXTENDS Naturals

CONSTANTS MaxRev, Readers

VARIABLES
    floor,    \* oldest revision in the copy, 0 when there is none
    tag,      \* revision named by the validator, 0 when there is none
    owed,     \* each reader: the validator it saw
    served    \* each reader: oldest revision in the copy it got

vars == <<floor, tag, owed, served>>

Init ==
    /\ floor \in 0..MaxRev
    /\ tag \in 0..floor
    /\ owed = [r \in Readers |-> 0]
    /\ served = [r \in Readers |-> 0]

\* A new copy is put in place under the old validator.
Install ==
    /\ floor' \in tag..MaxRev
    /\ UNCHANGED <<tag, owed, served>>

\* The validator catches up with the copy.
Vouch ==
    /\ tag' \in tag..floor
    /\ UNCHANGED <<floor, owed, served>>

Begin(r) ==
    /\ owed[r] = 0 /\ served[r] = 0
    /\ owed' = [owed EXCEPT ![r] = tag]
    /\ UNCHANGED <<floor, tag, served>>

Serve(r) ==
    /\ served[r] = 0
    /\ served' = [served EXCEPT ![r] = floor]
    /\ UNCHANGED <<floor, tag, owed>>

GiveUp(r) ==
    /\ served[r] = 0
    /\ owed' = [owed EXCEPT ![r] = 0]
    /\ UNCHANGED <<floor, tag, served>>

Next == Install \/ Vouch \/ \E r \in Readers : Begin(r) \/ Serve(r) \/ GiveUp(r)

Spec == Init /\ [][Next]_vars

Served == \A r \in Readers : served[r] # 0 => served[r] >= owed[r]
=============================================================================
