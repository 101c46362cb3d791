---------------------- MODULE SchemaCacheRefinementProofs ----------------------
(***************************************************************************)
(* The two-file cache implements the validated copy, and an acknowledged   *)
(* refresh leaves a matching pair: for any services, readers, revisions    *)
(* and faults, with one refresh at a time.                                 *)
(***************************************************************************)
EXTENDS SchemaCacheRefinement, SchemaCacheProofs, WellFoundedInduction

-----------------------------------------------------------------------------
(* The oldest description of a copy.                                       *)

LEMMA LeastExists ==
    ASSUME NEW S \in SUBSET Nat, S # {}
    PROVE  \E x \in S : \A y \in S : x <= y
<1>1. PICK x \in S : \A y \in S : ~(<<y, x>> \in OpToRel(<, Nat))
  BY NatLessThanWellFounded, WFMin
<1>2. \A y \in S : ~(y < x)
  BY <1>1 DEF OpToRel
<1> QED BY <1>2

\* It is a revision, and at least any that the copy is as new as.
LEMMA FloorIs ==
    ASSUME NEW svc \in Content
    PROVE  /\ Floor(svc) \in 0..MaxRev
           /\ \A t \in 0..MaxRev : AtLeast(svc, t) => t <= Floor(svc)
<1> DEFINE S == {MaxRev} \cup {svc[s] : s \in {t \in Services : svc[t] # Failed}}
<1>1. S \in SUBSET Nat /\ S # {} /\ MaxRev \in S /\ MaxRev \in Nat
  BY CacheAssumption DEF CacheAssumption, Content
<1>2. \E x \in S : \A y \in S : x <= y
  <2> HIDE DEF S
  <2> QED BY <1>1, LeastExists
<1>3. Floor(svc) \in S /\ \A y \in S : Floor(svc) <= y
  BY <1>2 DEF Floor, Min
<1>4. Floor(svc) \in 0..MaxRev
  <2>1. Floor(svc) \in Nat /\ Floor(svc) <= MaxRev
    BY <1>1, <1>3
  <2> QED BY <1>1, <2>1
<1>5. ASSUME NEW t \in 0..MaxRev, AtLeast(svc, t) PROVE \A y \in S : t <= y
  BY <1>5, CacheAssumption DEF CacheAssumption, AtLeast, Content
<1> QED BY <1>3, <1>4, <1>5

-----------------------------------------------------------------------------
(***************************************************************************)
(* What the proofs need beside VInv.  A copy that is fetched will be       *)
(* vouched for by a tag no older than the stored one, because the upstream *)
(* always sends one and never goes back; and a 200 answer means that the   *)
(* stored tag, which was read, is not the upstream's any more.             *)
(***************************************************************************)
Torn == meta.st = "good" /\ meta.hash # spec.svc

NewerInv == Tagged => \A p \in Refreshers :
              pc[p] \in Fetching /\ meta.st = "good" => meta.tag <= etag[p]

PairInv ==
    /\ Tagged /\ Torn => meta.tag < headTag
    /\ \A p \in Refreshers :
         /\ pc[p] = "index" /\ meta.st = "good" => prev[p] = meta.tag
         /\ Tagged /\ pc[p] \in Fetching /\ meta.st = "good" => meta.tag < headTag
         /\ pc[p] \in {"mkdir304", "readMeta"} => meta.hash = spec.svc
         /\ pc[p] = "bumpMeta" => seen[p].hash = spec.svc

\* What a step of a refresh, or anything else, does to the two files and to the
\* variables the invariants are about.
Others == UNCHANGED <<spec, meta, pc, prev, etag, seen>> /\ headTag <= headTag'

LEMMA OthersAre ==
    ASSUME VInv,
           \/ Publish \/ Tick \/ (\E p \in Refreshers : Cancel(p)) \/ (\E r \in Readers : Read(r))
           \/ (\E p \in Refreshers, s \in Services : FetchService(p, s) \/ ServiceFails(p, s))
           \/ UNCHANGED vars
    PROVE  Others
<1>1. CASE Publish
  BY <1>1 DEF Publish, Others, VInv, HeadInv, TypeOK, Revs, disk, locals
<1>2. CASE Tick \/ UNCHANGED vars \/ \E p \in Refreshers : Cancel(p)
  BY <1>2 DEF Tick, Cancel, Others, VInv, TypeOK, Revs, vars, disk, upstream, locals
<1>3. CASE \E r \in Readers : Read(r)
  BY <1>3 DEF Read, Open, AssertSecureDir, ReadMeta, ReadSpec, OpenFails, Others, VInv, TypeOK,
     Revs, disk, upstream, locals
<1>4. CASE \E p \in Refreshers, s \in Services : FetchService(p, s) \/ ServiceFails(p, s)
  BY <1>4 DEF FetchService, ServiceFails, Others, VInv, TypeOK, Revs, disk, upstream
<1> QED BY <1>1, <1>2, <1>3, <1>4

LEMMA NewerInit == Init => NewerInv
BY DEF Init, NewerInv, Fetching

LEMMA NewerStep ==
    ASSUME OneRefresher, VInv, NewerInv, [Next]_vars
    PROVE  NewerInv'
<1>1. CASE Others
  BY <1>1 DEF Others, NewerInv
<1>2. ASSUME NEW p \in Refreshers, IndexModified(p) PROVE NewerInv'
  <2>1. Tagged => etag'[p] = headTag /\ meta' = meta
    BY <1>2 DEF IndexModified, VInv, TypeOK, disk
  <2> QED BY <2>1 DEF OneRefresher, NewerInv, VInv, HeadInv
<1>3. ASSUME NEW p \in Refreshers, pc'[p] \notin Fetching PROVE NewerInv'
  BY <1>3 DEF OneRefresher, NewerInv
<1>4. ASSUME NEW p \in Refreshers, pc[p] \in Fetching, UNCHANGED <<meta, etag>>
      PROVE  NewerInv'
  BY <1>4 DEF OneRefresher, NewerInv
<1>5. ASSUME NEW p \in Refreshers,
             \/ Start(p) \/ Crash(p) \/ ReadPreviousETag(p) \/ IndexFails(p) \/ IndexNotModified(p)
             \/ WriteMeta(p) \/ ReadMetaToBump(p) \/ BumpMeta(p) \/ DiskStepFails(p)
      PROVE  pc'[p] \notin Fetching
  BY <1>5 DEF Start, Crash, ReadPreviousETag, IndexFails, IndexNotModified, WriteMeta,
     ReadMetaToBump, BumpMeta, DiskStepFails, Goto, Leave, Fetching, VInv, TypeOK
<1>6. ASSUME NEW p \in Refreshers, WalkEnds(p) \/ MakeDir(p) \/ WriteSpec(p)
      PROVE  pc'[p] \notin Fetching \/ (pc[p] \in Fetching /\ UNCHANGED <<meta, etag>>)
  BY <1>6 DEF WalkEnds, MakeDir, WriteSpec, Goto, Fetching, VInv, TypeOK, disk, locals
<1> QED BY <1>1, <1>2, <1>3, <1>4, <1>5, <1>6, OthersAre DEF Next, Work
LEMMA PairInit == ASSUME MatchedDisks PROVE Init => PairInv
BY DEF MatchedDisks, Init, PairInv, Torn, Fetching

LEMMA PairStep ==
    ASSUME OneRefresher, ~ReadFaults, VInv, PairInv, VInv', [Next]_vars
    PROVE  PairInv'
<1>t. /\ meta.tag \in Nat /\ meta.st \in {"absent", "corrupt", "good"}
      /\ headTag \in Nat \ {0} /\ headTag' \in Nat \ {0} /\ (meta.st = "good" => meta.tag <= headTag)
  BY DEF VInv, TypeOK, HeadInv, MetaFiles, Revs
<1>1. CASE Others
  BY <1>1, <1>t DEF Others, PairInv, Torn
<1> DEFINE Kept == UNCHANGED <<spec, meta, headTag>>
<1>2. ASSUME NEW p \in Refreshers, Kept,
             pc'[p] \notin Fetching \cup {"index", "mkdir304", "readMeta", "bumpMeta"}
      PROVE  PairInv'
  BY <1>2 DEF OneRefresher, PairInv, Torn
<1>3. ASSUME NEW p \in Refreshers,
             Start(p) \/ IndexFails(p) \/ DiskStepFails(p) \/ Crash(p)
      PROVE  PairInv'
  <2>1. Kept /\ pc'[p] \notin Fetching \cup {"index", "mkdir304", "readMeta", "bumpMeta"}
    BY <1>3 DEF Start, IndexFails, DiskStepFails, Crash, Goto, Leave, Fetching, VInv, TypeOK,
       disk, upstream
  <2> QED BY <1>2, <2>1
<1>4. ASSUME NEW p \in Refreshers, ReadPreviousETag(p) PROVE PairInv'
  <2>1. Kept /\ pc'[p] = "index" /\ (meta.st = "good" => prev'[p] = meta.tag)
    BY <1>4 DEF ReadPreviousETag, Goto, VInv, TypeOK, disk, upstream
  <2> QED BY <2>1 DEF OneRefresher, PairInv, Torn, Fetching
<1>5. ASSUME NEW p \in Refreshers, IndexNotModified(p) PROVE PairInv'
  <2>1. /\ Kept /\ pc'[p] = "mkdir304" /\ pc[p] = "index" /\ Tagged
        /\ prev[p] # NoTag /\ prev[p] = headTag
    BY <1>5 DEF IndexNotModified, Goto, VInv, TypeOK, disk, upstream
  <2>2. meta.st = "good" /\ meta.tag = headTag
    BY <2>1 DEF VInv, ProcInv
  <2>3. meta.hash = spec.svc
    BY <1>t, <2>1, <2>2 DEF PairInv, Torn
  <2> QED BY <2>1, <2>3 DEF OneRefresher, PairInv, Torn, Fetching
<1>6. ASSUME NEW p \in Refreshers, IndexModified(p) PROVE PairInv'
  <2>1. Kept /\ pc'[p] = "walk" /\ pc[p] = "index" /\ ~(Tagged /\ prev[p] = headTag)
    BY <1>6 DEF IndexModified, Goto, VInv, TypeOK, disk, upstream
  <2>2. Tagged /\ meta.st = "good" => meta.tag < headTag
    BY <1>t, <2>1 DEF PairInv
  <2> QED BY <2>1, <2>2 DEF OneRefresher, PairInv, Torn, Fetching
<1>7. ASSUME NEW p \in Refreshers, WalkEnds(p) \/ MakeDir(p) PROVE PairInv'
  <2>1. /\ Kept /\ pc'[p] \in Fetching \cup {"readMeta"}
        /\ pc'[p] \in Fetching => pc[p] \in Fetching
        /\ pc'[p] = "readMeta" => pc[p] = "mkdir304"
    BY <1>7 DEF WalkEnds, MakeDir, Goto, Fetching, VInv, TypeOK, disk, upstream
  <2> QED BY <2>1 DEF OneRefresher, PairInv, Torn, Fetching
<1>8. ASSUME NEW p \in Refreshers, WriteSpec(p) PROVE PairInv'
  <2>1. pc[p] \in Fetching /\ pc'[p] = "writeMeta" /\ UNCHANGED <<meta, headTag>>
    BY <1>8 DEF WriteSpec, Goto, Fetching, VInv, TypeOK, upstream
  <2> QED BY <2>1 DEF OneRefresher, PairInv, Torn, Fetching
<1>9. ASSUME NEW p \in Refreshers, WriteMeta(p) \/ BumpMeta(p) PROVE PairInv'
  <2>1. pc'[p] = "ok"
    BY <1>9 DEF WriteMeta, BumpMeta, Leave, VInv, TypeOK
  <2>2. meta'.hash = spec'.svc
    BY <1>9 DEF WriteMeta, BumpMeta, VInv, ProcInv, PairInv
  <2> QED BY <2>1, <2>2 DEF OneRefresher, PairInv, Torn, Fetching
<1>10. ASSUME NEW p \in Refreshers, ReadMetaToBump(p) PROVE PairInv'
  <2>1. /\ Kept /\ pc'[p] = "bumpMeta" /\ seen'[p].hash = meta.hash /\ pc[p] = "readMeta"
    BY <1>10 DEF ReadMetaToBump, Goto, VInv, TypeOK, disk, upstream
  <2> QED BY <2>1 DEF OneRefresher, PairInv, Torn, Fetching
<1> QED
  BY <1>1, <1>3, <1>4, <1>5, <1>6, <1>7, <1>8, <1>9, <1>10, OthersAre DEF Next, Work

\* A refresh that returns nil leaves a meta file whose hash is that of the services
\* beside it, although earlier runs died or failed between the renames: the 304
\* path never confirms a torn pair, because the tag that was left with it is not
\* the upstream's any more.  It needs one refresh at a time and a meta file that
\* can be read: with two of them, or after a failed read, the tag may be the
\* upstream's.  (refresh.go:60-73, 133-145)
THEOREM PairsMatch ==
    ASSUME OneRefresher, SoundDisks, MatchedDisks, ~ReadFaults
    PROVE  Spec => AckedPairMatches
<1>1. VInv /\ PairInv /\ [Next]_vars =>
        [\A p \in Refreshers : Acknowledged(p) => meta'.hash = spec'.svc]_vars
  <2> SUFFICES ASSUME VInv, PairInv, Next, NEW p \in Refreshers, Acknowledged(p)
               PROVE  meta'.hash = spec'.svc
    OBVIOUS
  <2>1. WriteMeta(p) \/ BumpMeta(p)
    <3>1. ~Others
      BY DEF Acknowledged, Others
    <3>2. PICK q \in Refreshers : Start(q) \/ Work(q) \/ Crash(q)
      BY <3>1, OthersAre DEF Next
    <3>3. q = p
      BY DEF OneRefresher
    <3>4. WriteMeta(p) \/ BumpMeta(p) \/ Others \/ pc'[p] # "ok"
      BY <3>2, <3>3, OthersAre DEF Start, Crash, Work, ReadPreviousETag, IndexFails,
         IndexNotModified, IndexModified, WalkEnds, MakeDir, WriteSpec, ReadMetaToBump,
         DiskStepFails, Goto, Leave, VInv, TypeOK
    <3> QED BY <3>1, <3>4 DEF Acknowledged
  <2> QED BY <2>1 DEF WriteMeta, BumpMeta, VInv, ProcInv, PairInv
<1>2. VInv /\ VInv' /\ PairInv /\ [Next]_vars => PairInv'
  BY PairStep
<1>3. Init => PairInv
  BY PairInit
<1> QED
  BY <1>1, <1>2, <1>3, ValidatorInvariant, PTL DEF Spec, AckedPairMatches
-----------------------------------------------------------------------------
(* The refinement: one lemma per kind of step.                             *)

\* The copy, its validator and what a reader owes and was served, for a step that
\* is not of that reader.
ReadersKept == UNCHANGED <<rpc, rmeta, rsvc>>

LEMMA MappedReaders ==
    ASSUME ReadersKept
    PROVE  UNCHANGED <<MappedOwed, MappedServed>>
BY DEF ReadersKept, MappedOwed, MappedServed

LEMMA MappedFiles ==
    ASSUME UNCHANGED <<spec, meta>>
    PROVE  UNCHANGED <<MappedFloor, MappedTag>>
BY DEF MappedFloor, MappedTag

LEMMA CopyInit == ASSUME SoundDisks, PairedDisks, Init PROVE Copy!Init
<1>1. spec.svc \in Content /\ meta.tag \in 0..MaxRev /\ NoTag = 0 /\ MaxRev \in Nat
  BY CacheAssumption DEF Init, CacheAssumption, Disk, SpecFiles, MetaFiles, NoTag
<1>2. MappedFloor \in 0..MaxRev
  BY <1>1, FloorIs DEF MappedFloor
<1>3. MappedTag \in 0..MappedFloor
  <2>1. CASE meta.st = "good"
    <3>1. spec.st = "good" /\ AtLeast(spec.svc, meta.tag)
      BY <2>1 DEF Init, PairedDisks, SoundDisks, AtLeast
    <3>2. Floor(spec.svc) \in 0..MaxRev /\ meta.tag <= Floor(spec.svc)
      BY <1>1, <3>1, FloorIs
    <3> QED BY <1>1, <2>1, <3>1, <3>2 DEF MappedTag, MappedFloor
  <2>2. CASE meta.st # "good"
    BY <1>1, <1>2, <2>2 DEF MappedTag
  <2> QED BY <2>1, <2>2
<1>4. MappedOwed = [r \in Readers |-> 0] /\ MappedServed = [r \in Readers |-> 0]
  BY <1>1 DEF Init, MappedOwed, MappedServed
<1> QED BY <1>2, <1>3, <1>4 DEF Copy!Init

\* The rename of apispace.json puts a copy in place that the old tag covers.
LEMMA InstallStep ==
    ASSUME VInv, NEW p \in Refreshers, WriteSpec(p)
    PROVE  Copy!Install
<1>1. /\ spec' = [st |-> "good", svc |-> got[p]] /\ meta' = meta /\ ReadersKept
      /\ pc[p] = "writeSpec"
  BY DEF WriteSpec, ReadersKept, readers
<1>2. got[p] \in Content /\ meta.tag \in 0..MaxRev /\ NoTag = 0 /\ MaxRev \in Nat
  BY CacheAssumption DEF VInv, TypeOK, MetaFiles, NoTag, CacheAssumption
<1>3. meta.st = "good" => AtLeast(got[p], meta.tag)
  BY <1>1 DEF VInv, ProcInv, Fetching, Fetched, AtLeast
<1>4. Floor(got[p]) \in 0..MaxRev /\ (meta.st = "good" => meta.tag <= Floor(got[p]))
  BY <1>2, <1>3, FloorIs
<1>5. MappedFloor' = Floor(got[p]) /\ MappedTag' = MappedTag
  BY <1>1 DEF MappedFloor, MappedTag, Floor
<1>6. MappedFloor' \in MappedTag..MaxRev
  BY <1>2, <1>4, <1>5 DEF MappedTag
<1> QED BY <1>1, <1>5, <1>6, MappedReaders DEF Copy!Install

\* The rename of the meta file lets the tag catch up with the copy.
LEMMA VouchStep ==
    ASSUME Tagged, VInv, NewerInv, NEW p \in Refreshers, WriteMeta(p)
    PROVE  Copy!Vouch
<1>1. /\ meta'.st = "good" /\ meta'.tag = etag[p] /\ spec' = spec /\ ReadersKept
      /\ pc[p] = "writeMeta"
  BY DEF WriteMeta, ReadersKept, readers
<1>2. /\ got[p] \in Content /\ etag[p] \in 0..MaxRev /\ meta.tag \in 0..MaxRev
      /\ NoTag = 0 /\ MaxRev \in Nat
  BY CacheAssumption DEF VInv, TypeOK, MetaFiles, NoTag, CacheAssumption
<1>3. spec.st = "good" /\ spec.svc = got[p] /\ AtLeast(got[p], etag[p])
  BY <1>1 DEF VInv, ProcInv, Fetching, Fetched, AtLeast
<1>4. Floor(got[p]) \in 0..MaxRev /\ etag[p] <= Floor(got[p])
  BY <1>2, <1>3, FloorIs
<1>5. meta.st = "good" => meta.tag <= etag[p]
  BY <1>1 DEF NewerInv, Fetching
<1>6. MappedFloor' = MappedFloor /\ MappedFloor = Floor(got[p]) /\ MappedTag' = etag[p]
  BY <1>1, <1>3 DEF MappedFloor, MappedTag
<1>7. MappedTag' \in MappedTag..MappedFloor
  BY <1>2, <1>4, <1>5, <1>6 DEF MappedTag
<1> QED BY <1>1, <1>6, <1>7, MappedReaders DEF Copy!Vouch

\* A reader begins at the meta file, is served at the services or gives up.
LEMMA ReaderStep ==
    ASSUME TypeOK, NEW r \in Readers, Read(r)
    PROVE  Copy!Begin(r) \/ Copy!Serve(r) \/ Copy!GiveUp(r) \/ UNCHANGED Copy!vars
<1>1. UNCHANGED <<spec, meta>> /\ UNCHANGED <<MappedFloor, MappedTag>>
  <2>1. UNCHANGED <<spec, meta>>
    BY DEF Read, Open, AssertSecureDir, ReadMeta, ReadSpec, OpenFails, disk
  <2> QED BY <2>1, MappedFiles
<1> DEFINE Owed(x, m)   == IF x \in {"spec", "opened"} THEN m.tag ELSE NoTag
           Served(x, c) == IF x = "opened" THEN Floor(c) ELSE 0
<1>2. /\ rpc \in [Readers -> ReadSteps \cup Verdicts]
      /\ \A q \in Readers : q # r => rpc'[q] = rpc[q] /\ rmeta'[q] = rmeta[q] /\ rsvc'[q] = rsvc[q]
  BY DEF TypeOK, Read, Open, AssertSecureDir, ReadMeta, ReadSpec, OpenFails
<1>3. /\ MappedOwed' = [MappedOwed EXCEPT ![r] = Owed(rpc'[r], rmeta'[r])]
      /\ MappedOwed[r] = Owed(rpc[r], rmeta[r])
  BY <1>2 DEF MappedOwed
<1>4. /\ MappedServed' = [MappedServed EXCEPT ![r] = Served(rpc'[r], rsvc'[r])]
      /\ MappedServed[r] = Served(rpc[r], rsvc[r])
  <2>1. MappedServed' = [q \in Readers |-> Served(rpc'[q], rsvc'[q])]
    BY DEF MappedServed, Floor, Min
  <2>2. MappedServed = [q \in Readers |-> Served(rpc[q], rsvc[q])]
    BY DEF MappedServed
  <2> HIDE DEF Served
  <2> QED BY <1>2, <2>1, <2>2
<1>5. CASE rpc[r] # "spec" /\ rpc'[r] \notin {"spec", "opened"} /\ rpc[r] # "opened"
  BY <1>1, <1>3, <1>4, <1>5 DEF MappedOwed, MappedServed, Copy!vars
<1>6. CASE rpc[r] = "meta" /\ rpc'[r] = "spec" /\ rmeta'[r] = meta /\ meta.st = "good"
  BY <1>1, <1>3, <1>4, <1>6 DEF MappedServed, MappedTag, NoTag, Copy!Begin
<1>7. CASE rpc[r] = "spec" /\ rpc'[r] = "opened" /\ rmeta'[r] = rmeta[r]
           /\ rsvc'[r] = spec.svc /\ spec.st = "good"
  <2>1. MappedOwed' = MappedOwed
    BY <1>3, <1>7 DEF MappedOwed
  <2>2. MappedServed[r] = 0 /\ MappedServed' = [MappedServed EXCEPT ![r] = MappedFloor]
    BY <1>4, <1>7 DEF MappedFloor
  <2> QED BY <1>1, <2>1, <2>2 DEF Copy!Serve
<1>8. CASE rpc[r] = "spec" /\ rpc'[r] \notin {"spec", "opened"}
  <2>1. MappedServed' = MappedServed /\ MappedServed[r] = 0
    BY <1>4, <1>8 DEF MappedServed
  <2>2. MappedOwed' = [MappedOwed EXCEPT ![r] = 0]
    BY <1>3, <1>8 DEF NoTag
  <2> QED BY <1>1, <2>1, <2>2 DEF Copy!GiveUp
<1>9. CASE Open(r) \/ AssertSecureDir(r) \/ OpenFails(r)
  BY <1>2, <1>5, <1>8, <1>9 DEF Open, AssertSecureDir, OpenFails, DirVerdict, TypeOK, DirStates
<1>10. CASE ReadMeta(r)
  <2>1. /\ rpc[r] = "meta" /\ rmeta'[r] = meta
        /\ rpc'[r] = Outcome(meta.st, IF meta.stamp = "current" THEN "spec" ELSE "corrupt")
    BY <1>10 DEF ReadMeta, TypeOK
  <2>2. (rpc'[r] = "spec" /\ meta.st = "good") \/ rpc'[r] \notin {"spec", "opened"}
    BY <2>1 DEF Outcome
  <2> QED BY <1>5, <1>6, <2>1, <2>2
<1>11. CASE ReadSpec(r)
  <2>1. /\ rpc[r] = "spec" /\ rmeta'[r] = rmeta[r] /\ rsvc'[r] = spec.svc
        /\ rpc'[r] = Outcome(spec.st, "opened")
    BY <1>11 DEF ReadSpec, TypeOK
  <2>2. (rpc'[r] = "opened" /\ spec.st = "good") \/ rpc'[r] \notin {"spec", "opened"}
    BY <2>1 DEF Outcome
  <2> QED BY <1>7, <1>8, <2>1, <2>2
<1> QED BY <1>9, <1>10, <1>11 DEF Read

\* Every other step leaves the copy alone, the second write of the 304 path too.
LEMMA SilentStep ==
    ASSUME VInv,
           \/ Publish \/ Tick \/ UNCHANGED vars
           \/ \E p \in Refreshers : Start(p) \/ Cancel(p) \/ Crash(p)
           \/ \E p \in Refreshers :
                \/ ReadPreviousETag(p) \/ IndexFails(p) \/ IndexNotModified(p) \/ IndexModified(p)
                \/ (\E s \in Services : FetchService(p, s) \/ ServiceFails(p, s))
                \/ WalkEnds(p) \/ MakeDir(p) \/ ReadMetaToBump(p) \/ BumpMeta(p) \/ DiskStepFails(p)
    PROVE  UNCHANGED Copy!vars
<1>1. CASE UNCHANGED <<spec, meta, readers>>
  BY <1>1, MappedFiles, MappedReaders DEF ReadersKept, readers, Copy!vars
<1>2. CASE \E p \in Refreshers : BumpMeta(p)
  <2>1. PICK p \in Refreshers : BumpMeta(p)
    BY <1>2
  <2>2. spec' = spec /\ meta' = seen[p] /\ ReadersKept /\ pc[p] = "bumpMeta"
    BY <2>1 DEF BumpMeta, ReadersKept, readers
  <2>3. meta.st = "good" /\ seen[p].st = "good" /\ seen[p].tag = meta.tag
    BY <2>2 DEF VInv, ProcInv
  <2>4. MappedFloor' = MappedFloor /\ MappedTag' = MappedTag
    BY <2>2, <2>3 DEF MappedFloor, MappedTag
  <2> QED BY <2>2, <2>4, MappedReaders DEF Copy!vars
<1>3. CASE Publish \/ Tick \/ UNCHANGED vars
  BY <1>1, <1>3 DEF Publish, Tick, vars, disk
<1>4. CASE \E p \in Refreshers : Start(p) \/ Cancel(p) \/ Crash(p) \/ ReadPreviousETag(p)
             \/ IndexFails(p) \/ IndexNotModified(p) \/ IndexModified(p)
  BY <1>1, <1>4 DEF Start, Cancel, Crash, ReadPreviousETag, IndexFails, IndexNotModified,
     IndexModified, disk
<1>5. CASE \E p \in Refreshers, s \in Services : FetchService(p, s) \/ ServiceFails(p, s)
  BY <1>1, <1>5 DEF FetchService, ServiceFails, disk
<1>6. CASE \E p \in Refreshers : WalkEnds(p) \/ MakeDir(p) \/ ReadMetaToBump(p) \/ DiskStepFails(p)
  BY <1>1, <1>6 DEF WalkEnds, MakeDir, ReadMetaToBump, DiskStepFails, disk
<1> QED BY <1>2, <1>3, <1>4, <1>5, <1>6

\* With one refresh at a time and an upstream that sends ETags, the two files, the
\* three reads of each reader and every failure between them are steps of the
\* validated copy: one installs, one vouches, the others are not seen.
\* (refresh.go:78-108, 127-146, cache.go:38-57)
THEOREM CacheIsValidatedCopy ==
    ASSUME OneRefresher, SoundDisks, PairedDisks, Tagged
    PROVE  Spec => ImplementsValidatedCopy
<1>1. Init => Copy!Init
  BY CopyInit
<1>2. VInv /\ NewerInv /\ [Next]_vars => [Copy!Next]_(Copy!vars)
  <2> SUFFICES ASSUME VInv, NewerInv, [Next]_vars PROVE Copy!Next \/ UNCHANGED Copy!vars
    OBVIOUS
  <2>1. ASSUME NEW p \in Refreshers, WriteSpec(p) PROVE Copy!Next
    BY <2>1, InstallStep DEF Copy!Next
  <2>2. ASSUME NEW p \in Refreshers, WriteMeta(p) PROVE Copy!Next
    BY <2>2, VouchStep DEF Copy!Next
  <2>3. ASSUME NEW r \in Readers, Read(r) PROVE Copy!Next \/ UNCHANGED Copy!vars
    BY <2>3, ReaderStep DEF VInv, Copy!Next
  <2> QED BY <2>1, <2>2, <2>3, SilentStep DEF Next, Work
<1>3. VInv /\ NewerInv /\ [Next]_vars => NewerInv'
  BY NewerStep
<1>4. Init => NewerInv
  BY NewerInit
<1> QED
  BY <1>1, <1>2, <1>3, <1>4, ValidatorInvariant, PTL
  DEF Spec, ImplementsValidatedCopy, Copy!Spec
=============================================================================
