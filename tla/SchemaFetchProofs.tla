------------------------- MODULE SchemaFetchProofs --------------------------
(***************************************************************************)
(* Proofs about SchemaFetch, for every index (repeated paths too) and      *)
(* every limit.  The tokens and the wait count are counted by the places   *)
(* of the goroutines; the rest of the invariant is about each goroutine.   *)
(***************************************************************************)
EXTENDS SchemaFetch, FiniteSetTheorems, TLAPS

Holding == {"request", "lock", "write", "unlock", "release"}
Stored  == {"unlock", "release", "done", "gone"}
Holders == {i \in Entries : gpc[i] \in Holding}
Counted == {i \in Entries : gpc[i] \in Holding \cup {"done"}}

Tokens ==
    sem = Cardinality(Holders) + IF caller = "launch" THEN 1 ELSE 0
Count == wg = Cardinality(Counted)
Control ==
    /\ \A i \in Entries : gpc[i] = "unborn" <=> i > spawned
    /\ caller = "launch" => spawned < Len(Index)
    /\ caller = "wait" => spawned = Len(Index)
    /\ result = "modified" =>
         caller = "returned" /\ \A i \in Entries : gpc[i] = "gone"
Mutex == \A i \in Entries : gpc[i] \in {"write", "unlock"} <=> mu = i
Kept ==
    \A i \in Entries :
      /\ gpc[i] \notin {"unborn", "request"} => resp[i] # "none"
      /\ gpc[i] \in Stored => services[Index[i]] # "none"

Inv == TypeOK /\ Tokens /\ Count /\ Control /\ Mutex /\ Kept

-----------------------------------------------------------------------------
(* The two counts.                                                         *)

LEMMA LimitPositive == Limit \in Nat /\ Limit > 0
BY FetchAssumption DEF FetchAssumption

LEMMA EntriesFinite ==
    /\ Entries = 1..Len(Index) /\ Len(Index) \in Nat
    /\ \A i \in Entries : Index[i] \in Paths
    /\ \A S \in SUBSET Entries : IsFiniteSet(S) /\ Cardinality(S) \in 0..Len(Index)
<1>1. Entries = 1..Len(Index) /\ Len(Index) \in Nat /\ \A i \in Entries : Index[i] \in Paths
  <2>1. Len(Index) \in Nat /\ DOMAIN Index = 1..Len(Index)
    BY FetchAssumption DEF FetchAssumption
  <2> QED BY <2>1 DEF Entries, Paths
<1>2. IsFiniteSet(Entries) /\ Cardinality(Entries) = Len(Index)
  <2>1. ASSUME NEW n \in Nat PROVE IsFiniteSet(1..n) /\ Cardinality(1..n) = n
    <3>1. IsFiniteSet(1..n) /\ Cardinality(1..n) = IF 1 > n THEN 0 ELSE n - 1 + 1
      BY FS_Interval
    <3> QED BY <3>1
  <2>2. IsFiniteSet(1..Len(Index)) /\ Cardinality(1..Len(Index)) = Len(Index)
    BY <1>1, <2>1
  <2> QED BY <1>1, <2>2
<1>3. ASSUME NEW S \in SUBSET Entries
      PROVE  IsFiniteSet(S) /\ Cardinality(S) \in 0..Len(Index)
  <2>1. IsFiniteSet(S) /\ Cardinality(S) <= Len(Index)
    BY <1>2, FS_Subset
  <2>2. Cardinality(S) \in Nat
    BY <2>1, FS_CardinalityType
  <2> QED BY <1>1, <2>1, <2>2
<1> QED BY <1>1, <1>3

\* A goroutine that moves changes a count by its own membership.
LEMMA MoveCounts ==
    ASSUME TypeOK, NEW i \in Entries, NEW from, NEW to \in Places, Move(i, from, to)
    PROVE  /\ gpc[i] = from /\ gpc' \in [Entries -> Places]
           /\ gpc'[i] = to /\ \A j \in Entries \ {i} : gpc'[j] = gpc[j]
           /\ Cardinality(Holders') = Cardinality(Holders)
                + (IF to \in Holding THEN 1 ELSE 0) - (IF from \in Holding THEN 1 ELSE 0)
           /\ Cardinality(Counted') = Cardinality(Counted)
                + (IF to \in Holding \cup {"done"} THEN 1 ELSE 0)
                - (IF from \in Holding \cup {"done"} THEN 1 ELSE 0)
<1>1. /\ gpc[i] = from /\ gpc' \in [Entries -> Places]
      /\ gpc'[i] = to /\ \A j \in Entries \ {i} : gpc'[j] = gpc[j]
  BY DEF TypeOK, Move
<1>2. ASSUME NEW H
      PROVE  Cardinality({j \in Entries : gpc'[j] \in H})
               = Cardinality({j \in Entries : gpc[j] \in H})
                 + (IF to \in H THEN 1 ELSE 0) - (IF from \in H THEN 1 ELSE 0)
  <2> DEFINE A == {j \in Entries : gpc[j] \in H}
             B == {j \in Entries : gpc'[j] \in H}
  <2>1. IsFiniteSet(A) /\ Cardinality(A) \in Int
    BY EntriesFinite
  <2>2. CASE to \in H
    <3>1. B = A \cup {i} /\ (i \in A <=> from \in H)
      BY <1>1, <2>2
    <3> HIDE DEF A, B
    <3>2. Cardinality(B) = IF from \in H THEN Cardinality(A) ELSE Cardinality(A) + 1
      BY <2>1, <3>1, FS_AddElement
    <3>3. Cardinality(B) = Cardinality(A)
            + (IF to \in H THEN 1 ELSE 0) - (IF from \in H THEN 1 ELSE 0)
      BY <2>1, <2>2, <3>2
    <3> QED BY <3>3 DEF A, B
  <2>3. CASE to \notin H
    <3>1. B = A \ {i} /\ (i \in A <=> from \in H)
      BY <1>1, <2>3
    <3> HIDE DEF A, B
    <3>2. Cardinality(B) = IF from \in H THEN Cardinality(A) - 1 ELSE Cardinality(A)
      BY <2>1, <3>1, FS_RemoveElement
    <3>3. Cardinality(B) = Cardinality(A)
            + (IF to \in H THEN 1 ELSE 0) - (IF from \in H THEN 1 ELSE 0)
      BY <2>1, <2>3, <3>2
    <3> QED BY <3>3 DEF A, B
  <2> QED BY <2>2, <2>3
<1> HIDE DEF Holding
<1>3. /\ Holders' = {j \in Entries : gpc'[j] \in Holding}
      /\ Counted' = {j \in Entries : gpc'[j] \in Holding \cup {"done"}}
  BY DEF Holders, Counted, Holding
<1> QED BY <1>1, <1>2, <1>3 DEF Holders, Counted

-----------------------------------------------------------------------------
LEMMA InvInit == ASSUME Init PROVE Inv
<1>1. TypeOK
  <2>1. spawned \in 0..Len(Index) /\ sem \in 0..Limit /\ wg \in 0..Len(Index)
    BY EntriesFinite, LimitPositive DEF Init
  <2> QED BY <2>1 DEF Init, TypeOK, Places, Outcomes
<1>2. Holders = {} /\ Counted = {}
  BY DEF Init, Holders, Counted, Holding
<1>3. Tokens /\ Count
  BY <1>2, FS_EmptySet DEF Init, Tokens, Count
<1>4. Control /\ Mutex /\ Kept
  BY EntriesFinite DEF Init, Control, Mutex, Kept, Nobody, Stored
<1> QED BY <1>1, <1>3, <1>4 DEF Inv

\* The caller's steps that start no goroutine.
LEMMA CallerKeeps ==
    ASSUME Inv,
           IndexAnswer \/ Acquire \/ AllLaunched \/ Wait \/ Cancel \/ UNCHANGED vars
    PROVE  Inv'
<1>1. gpc' = gpc /\ resp' = resp /\ services' = services /\ mu' = mu /\ wg' = wg
      /\ spawned' = spawned /\ Holders' = Holders /\ Counted' = Counted
  BY DEF IndexAnswer, IndexFails, IndexNotModified, IndexModified, Acquire,
         AllLaunched, Wait, Cancel, vars, group, Holders, Counted
<1>2. TypeOK'
  <2>1. sem' \in 0..Limit
    BY LimitPositive DEF Inv, TypeOK, IndexAnswer, IndexFails, IndexNotModified,
       IndexModified, Acquire, AllLaunched, Wait, Cancel, vars, group
  <2>2. /\ caller' \in {"index", "spawn", "launch", "wait", "returned"}
        /\ result' \in {"none", "error", "notmodified", "modified"}
        /\ cancelled' \in BOOLEAN
    BY DEF Inv, TypeOK, IndexAnswer, IndexFails, IndexNotModified, IndexModified,
       Acquire, AllLaunched, Wait, Cancel, vars, Return
  <2> QED BY <1>1, <2>1, <2>2 DEF Inv, TypeOK
<1>3. Count' /\ Mutex' /\ Kept'
  BY <1>1 DEF Inv, Count, Mutex, Kept
<1>4. Tokens'
  <2>1. Cardinality(Holders) \in Int
    BY EntriesFinite DEF Holders
  <2> QED
    BY <1>1, <2>1
    DEF Inv, TypeOK, Tokens, IndexAnswer, IndexFails, IndexNotModified, IndexModified,
        Acquire, AllLaunched, Wait, Cancel, vars, group, Return
<1>5. Control'
  <2>1. CASE Wait
    <3>1. Counted = {}
      <4>1. IsFiniteSet(Counted) /\ Cardinality(Counted) = 0
        BY <2>1, EntriesFinite DEF Wait, Inv, Count, Counted
      <4> QED BY <4>1, FS_EmptySet
    <3>2. \A i \in Entries : gpc[i] = "gone"
      BY <2>1, <3>1, EntriesFinite
      DEF Wait, Inv, TypeOK, Control, Counted, Holding, Places
    <3> QED BY <1>1, <2>1, <3>2 DEF Wait, Return, Inv, Control
  <2>2. CASE IndexAnswer
    BY <1>1, <2>2 DEF IndexAnswer, IndexFails, IndexNotModified, IndexModified, Return, Inv,
                      TypeOK, Control
  <2>3. CASE Acquire \/ AllLaunched
    BY <1>1, <2>3, EntriesFinite DEF Acquire, AllLaunched, Inv, TypeOK, Control
  <2>4. CASE Cancel \/ UNCHANGED vars
    BY <1>1, <2>4 DEF Cancel, vars, Inv, Control
  <2> QED BY <2>1, <2>2, <2>3, <2>4
<1> QED BY <1>2, <1>3, <1>4, <1>5 DEF Inv

\* Launch: the token was taken before, the goroutine is counted now.
LEMMA LaunchKeeps ==
    ASSUME Inv, Launch
    PROVE  Inv'
<1> DEFINE i == spawned + 1
<1>1. i \in Entries /\ gpc[i] = "unborn" /\ spawned \in Nat
  BY EntriesFinite DEF Inv, TypeOK, Control, Launch
<1>2. Move(i, "unborn", "request")
  BY <1>1 DEF Launch, Move
<1> HIDE DEF i
<1>3. /\ gpc' \in [Entries -> Places] /\ gpc'[i] = "request"
      /\ \A j \in Entries \ {i} : gpc'[j] = gpc[j]
      /\ Cardinality(Holders') = Cardinality(Holders) + 1
      /\ Cardinality(Counted') = Cardinality(Counted) + 1
  <2>1. "request" \in Places
    BY DEF Places
  <2>2. /\ Cardinality(Holders') = Cardinality(Holders) + 1 - 0
        /\ Cardinality(Counted') = Cardinality(Counted) + 1 - 0
    BY <1>1, <1>2, <2>1, MoveCounts DEF Holding, Inv
  <2>3. Cardinality(Holders) \in Int /\ Cardinality(Counted) \in Int
    BY EntriesFinite DEF Holders, Counted
  <2> QED BY <1>1, <1>2, <2>1, <2>2, <2>3, MoveCounts DEF Inv
<1>4. TypeOK'
  <2>1. wg' \in 0..Len(Index)
    <3>1. Cardinality(Counted') \in 0..Len(Index)
      BY EntriesFinite DEF Counted
    <3> QED BY <1>3, <3>1 DEF Inv, Count, Launch
  <2> QED BY <1>1, <1>3, <2>1, EntriesFinite DEF Inv, TypeOK, Launch, i
<1>5. Tokens' /\ Count'
  <2>1. Cardinality(Holders) \in Int
    BY EntriesFinite DEF Holders
  <2> QED BY <1>3, <2>1 DEF Inv, Tokens, Count, Launch
<1>6. Control'
  <2>1. \A j \in Entries : gpc'[j] = "unborn" <=> j > spawned'
    BY <1>1, <1>3, EntriesFinite DEF Inv, Control, Launch, i
  <2>2. result' # "modified" /\ caller' = "spawn"
    BY <1>1 DEF Inv, Control, Launch
  <2> QED BY <2>1, <2>2 DEF Control
<1>7. Mutex' /\ Kept'
  BY <1>1, <1>3 DEF Inv, Mutex, Kept, Stored, Launch
<1> QED BY <1>4, <1>5, <1>6, <1>7 DEF Inv

\* A step of a goroutine: it keeps its token until Release and its count until
\* Done, so the caller is still there.
LEMMA GoroutineKeeps ==
    ASSUME Inv, NEW i \in Entries, Answered(i) \/ LocalStep(i)
    PROVE  Inv'
<1> DEFINE to == CASE gpc[i] = "request" -> "lock"  [] gpc[i] = "lock" -> "write"
                   [] gpc[i] = "write" -> "unlock"  [] gpc[i] = "unlock" -> "release"
                   [] gpc[i] = "release" -> "done"  [] OTHER -> "gone"
<1>1. /\ gpc[i] \in Holding \cup {"done"} /\ Move(i, gpc[i], to) /\ to \in Places
      /\ UNCHANGED <<caller, spawned, cancelled, result>>
  BY DEF Answered, LocalStep, GivesUp, Lock, Write, Unlock, Release, Done, Move, Holding,
         Places, group
<1>2. /\ gpc' \in [Entries -> Places] /\ gpc'[i] = to
      /\ \A j \in Entries \ {i} : gpc'[j] = gpc[j]
      /\ Cardinality(Holders') = Cardinality(Holders)
           + (IF to \in Holding THEN 1 ELSE 0) - (IF gpc[i] \in Holding THEN 1 ELSE 0)
      /\ Cardinality(Counted') = Cardinality(Counted)
           + (IF to \in Holding \cup {"done"} THEN 1 ELSE 0)
           - (IF gpc[i] \in Holding \cup {"done"} THEN 1 ELSE 0)
  <2> HIDE DEF to
  <2> QED BY <1>1, MoveCounts DEF Inv
<1>3. /\ Cardinality(Holders) \in Int /\ Cardinality(Holders') \in Nat
      /\ Cardinality(Counted) \in Int /\ Cardinality(Counted') \in 0..Len(Index)
  BY EntriesFinite DEF Holders, Counted
<1>4. /\ sem' = Cardinality(Holders') + IF caller' = "launch" THEN 1 ELSE 0
      /\ wg' = Cardinality(Counted')
      /\ sem' \in 0..Limit
  <2>1. CASE Release(i)
    <3>1. gpc[i] = "release" /\ to = "done" /\ sem' = sem - 1 /\ wg' = wg
      BY <2>1 DEF Release, Move
    <3> QED BY <1>1, <1>2, <1>3, <3>1, LimitPositive
            DEF Inv, TypeOK, Tokens, Count, Holding
  <2>2. CASE Done(i)
    <3>1. gpc[i] = "done" /\ to = "gone" /\ sem' = sem /\ wg' = wg - 1
      BY <2>2 DEF Done, Move
    <3> QED BY <1>1, <1>2, <1>3, <3>1 DEF Inv, TypeOK, Tokens, Count, Holding
  <2>3. CASE Answered(i) \/ GivesUp(i) \/ Lock(i) \/ Write(i) \/ Unlock(i)
    <3>1. /\ gpc[i] \in Holding /\ to \in Holding /\ sem' = sem /\ wg' = wg
      BY <2>3 DEF Answered, GivesUp, Lock, Write, Unlock, Move, Holding, group
    <3> HIDE DEF to
    <3> QED BY <1>1, <1>2, <1>3, <3>1 DEF Inv, TypeOK, Tokens, Count
  <2> QED BY <2>1, <2>2, <2>3 DEF LocalStep
<1>5. TypeOK'
  <2>1. mu' \in Entries \cup {Nobody} /\ resp' \in [Entries -> Outcomes \cup {"none"}]
    BY DEF Inv, TypeOK, Answered, LocalStep, GivesUp, Lock, Write, Unlock, Release, Done,
           Outcomes
  <2>2. services' \in [Paths -> Outcomes \cup {"none"}]
    BY DEF Inv, TypeOK, Answered, LocalStep, GivesUp, Lock, Write, Unlock, Release, Done
  <2> QED BY <1>1, <1>2, <1>3, <1>4, <2>1, <2>2 DEF Inv, TypeOK
<1>6. Tokens' /\ Count'
  BY <1>4 DEF Tokens, Count
<1>7. Control'
  BY <1>1, <1>2, EntriesFinite DEF Inv, Control, Holding
<1>8. Mutex'
  <2>1. CASE Lock(i)
    BY <1>2, <2>1, EntriesFinite DEF Lock, Move, Inv, Mutex, Nobody
  <2>2. CASE Unlock(i)
    BY <1>2, <2>2, EntriesFinite DEF Unlock, Move, Inv, Mutex, Nobody
  <2>3. CASE Answered(i) \/ GivesUp(i) \/ Write(i) \/ Release(i) \/ Done(i)
    BY <1>2, <2>3 DEF Answered, GivesUp, Write, Release, Done, Move, Inv, Mutex
  <2> QED BY <2>1, <2>2, <2>3 DEF LocalStep
<1>9. Kept'
  <2>1. CASE Answered(i) \/ GivesUp(i)
    BY <1>2, <2>1 DEF Answered, GivesUp, Move, Inv, TypeOK, Kept, Outcomes, Stored
  <2>2. CASE Write(i)
    BY <1>2, <2>2, EntriesFinite DEF Write, Move, Inv, TypeOK, Kept, Stored
  <2>3. CASE Lock(i) \/ Unlock(i) \/ Release(i) \/ Done(i)
    BY <1>2, <2>3 DEF Lock, Unlock, Release, Done, Move, Inv, Kept, Stored
  <2> QED BY <2>1, <2>2, <2>3 DEF LocalStep
<1> QED BY <1>5, <1>6, <1>7, <1>8, <1>9 DEF Inv

-----------------------------------------------------------------------------
THEOREM FetchInvariant == Spec => []Inv
<1>1. ASSUME Inv, [Next]_vars PROVE Inv'
  BY <1>1, CallerKeeps, LaunchKeeps, GoroutineKeeps DEF Next, CallerStep, Finished
<1> QED BY <1>1, InvInit, PTL DEF Spec

\* Types hold; in particular the wait count and the tokens never go below zero,
\* where the runtime would panic or block.  (errgroup.go:36-102)
THEOREM FetchTypeCorrect == Spec => []TypeOK
<1>1. Inv => TypeOK
  BY DEF Inv
<1> QED BY <1>1, FetchInvariant, PTL

\* Never more than Limit service requests are in flight, for any index and limit.
\* (fetch.go:15-16, 76)
THEOREM FanOutBounded == Spec => []RequestsBounded
<1>1. ASSUME Inv PROVE RequestsBounded
  <2> DEFINE R == {i \in Entries : gpc[i] = "request"}
  <2>1. IsFiniteSet(Holders) /\ Cardinality(Holders) \in Int /\ Cardinality(R) \in Int
    BY EntriesFinite DEF Holders
  <2>2. R \subseteq Holders
    BY DEF Holders, Holding
  <2>3. Cardinality(R) <= Cardinality(Holders)
    BY <2>1, <2>2, FS_Subset
  <2>4. Cardinality(Holders) <= sem /\ sem <= Limit /\ sem \in Int /\ Limit \in Int
    BY <1>1, <2>1, LimitPositive DEF Inv, TypeOK, Tokens
  <2>5. Cardinality(R) <= Limit
    BY <2>1, <2>3, <2>4
  <2> QED BY <2>5 DEF RequestsBounded
<1> QED BY <1>1, FetchInvariant, PTL

\* The services map is never shared between two writers, nor between a writer and
\* the caller that reads it after Wait.  (fetch.go:72-105)
THEOREM MapOwned == Spec => []MapNotShared
<1>1. Inv => MapNotShared
  BY DEF Inv, Control, Mutex, MapNotShared
<1> QED BY <1>1, FetchInvariant, PTL

\* A walk that returns has an entry for every listed path.  (fetch.go:72-94)
THEOREM WalkCovers == Spec => []WalkComplete
<1>1. ASSUME Inv PROVE WalkComplete
  <2>1. \A q \in Paths : \E i \in Entries : Index[i] = q
    BY DEF Paths
  <2> QED BY <1>1, <2>1 DEF Inv, Control, Kept, Stored, WalkComplete
<1> QED BY <1>1, FetchInvariant, PTL

-----------------------------------------------------------------------------
(* SchemaFetch implements ServiceWalk.                                     *)

Pending == {i \in Entries : gpc[i] \in {"unborn", "request", "lock", "write"}}

LEMMA WalkInit == ASSUME Init PROVE Walk!Init
BY DEF Init, Walk!Init, Walk!Entries, Walk!Paths, Entries, Paths

\* A write settles its entry, the return of Wait ends the walk, and nothing else
\* is seen.
LEMMA WalkStep ==
    ASSUME Inv, [Next]_vars
    PROVE  [Walk!Next]_<<Pending, services, result = "modified">>
<1> USE DEF Pending
<1>1. ASSUME NEW i \in Entries, Write(i)
      PROVE  Walk!Settle(i)
  <2>1. /\ gpc[i] = "write" /\ gpc' = [gpc EXCEPT ![i] = "unlock"]
        /\ services' = [services EXCEPT ![Index[i]] = resp[i]] /\ result' = result
    BY <1>1 DEF Write, Move
  <2>2. Pending' = Pending \ {i} /\ i \in Pending
    BY <2>1 DEF Inv, TypeOK
  <2>3. resp[i] \in Outcomes
    BY <2>1 DEF Inv, TypeOK, Kept
  <2> QED BY <2>1, <2>2, <2>3 DEF Walk!Settle, Walk!Outcomes, Outcomes
<1>2. ASSUME Wait PROVE Walk!End
  <2>1. Inv'
    BY <1>2, CallerKeeps
  <2>2. gpc' = gpc /\ services' = services /\ result' = "modified"
    BY <1>2 DEF Wait, Return
  <2>3. \A i \in Entries : gpc[i] = "gone"
    BY <2>1, <2>2 DEF Inv, Control
  <2>4. Pending = {} /\ Pending' = {}
    BY <2>2, <2>3
  <2>5. result # "modified"
    BY <1>2 DEF Wait, Inv, Control
  <2> QED BY <2>2, <2>4, <2>5 DEF Walk!End
<1>3. ASSUME NEW i \in Entries,
             \/ Answered(i) \/ GivesUp(i) \/ Lock(i) \/ Unlock(i) \/ Release(i) \/ Done(i)
      PROVE  UNCHANGED <<Pending, services, result>>
  <2>1. services' = services /\ result' = result
    BY <1>3 DEF Answered, GivesUp, Lock, Unlock, Release, Done
  <2>2. \E from, to \in Places :
          /\ gpc[i] = from /\ gpc' = [gpc EXCEPT ![i] = to]
          /\ from \in {"unborn", "request", "lock", "write"}
               <=> to \in {"unborn", "request", "lock", "write"}
    BY <1>3 DEF Answered, GivesUp, Lock, Unlock, Release, Done, Move, Places
  <2>3. Pending' = Pending
    BY <2>2 DEF Inv, TypeOK
  <2> QED BY <2>1, <2>3
<1>4. ASSUME Launch PROVE UNCHANGED <<Pending, services, result>>
  <2>1. /\ gpc[spawned + 1] = "unborn" /\ gpc' = [gpc EXCEPT ![spawned + 1] = "request"]
        /\ services' = services /\ result' = result
    BY <1>4, EntriesFinite DEF Launch, Inv, TypeOK, Control
  <2>2. Pending' = Pending
    BY <2>1 DEF Inv, TypeOK
  <2> QED BY <2>1, <2>2
<1>5. ASSUME IndexAnswer \/ Acquire \/ AllLaunched \/ Cancel \/ UNCHANGED vars
      PROVE  UNCHANGED <<Pending, services, result = "modified">>
  BY <1>5 DEF IndexAnswer, IndexFails, IndexNotModified, IndexModified, Acquire,
     AllLaunched, Cancel, vars, Return, Inv, TypeOK, Control
<1> HIDE DEF Pending
<1> QED
  BY <1>1, <1>2, <1>3, <1>4, <1>5
  DEF Next, CallerStep, LocalStep, Finished, Walk!Next, Walk!Entries, Entries

\* The goroutines together do what the abstract walk does.  (fetch.go:72-106)
THEOREM WalkRefined == Spec => ImplementsWalk
<1>1. Inv /\ [Next]_vars => [Walk!Next]_<<Pending, services, result = "modified">>
  BY WalkStep
<1> QED BY <1>1, WalkInit, FetchInvariant, PTL DEF Spec, ImplementsWalk, Walk!Spec, Pending
=============================================================================
