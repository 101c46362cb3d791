---------------------------- MODULE ServiceWalk ----------------------------
(***************************************************************************)
(* What the fan-out of fetchAPISpace promises: each entry of the index is  *)
(* settled exactly once, in some order, and the walk ends when all are.    *)
(* SchemaCache uses this walk (FetchService, ServiceFails, WalkEnds) in    *)
(* place of the goroutines.                                                *)
(***************************************************************************)
EXTENDS Naturals, Sequences

CONSTANT Index     \* the paths listed by the index, in order; may repeat

Entries  == DOMAIN Index
Paths    == {Index[i] : i \in Entries}
Outcomes == {"ok", "failed", "cut"}

VARIABLES todo, got, ended

Init == /\ todo = Entries
        /\ got = [q \in Paths |-> "none"]
        /\ ended = FALSE

Settle(i) == /\ i \in todo
             /\ todo' = todo \ {i}
             /\ \E o \in Outcomes : got' = [got EXCEPT ![Index[i]] = o]
             /\ UNCHANGED ended

End == /\ todo = {} /\ ~ended
       /\ ended' = TRUE
       /\ UNCHANGED <<todo, got>>

Next == End \/ \E i \in Entries : Settle(i)

Spec == Init /\ [][Next]_<<todo, got, ended>>
=============================================================================
