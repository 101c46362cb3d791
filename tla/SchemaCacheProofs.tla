------------------------- MODULE SchemaCacheProofs -------------------------
(***************************************************************************)
(* Theorems about SchemaCache for every set of processes and services,     *)
(* every bound and every setting of the fault switches.                    *)
(***************************************************************************)
EXTENDS SchemaCache, TLAPS

LEMMA Blank ==
    /\ NoContent \in Content
    /\ NoMeta \in MetaFiles
    /\ NoTag \in 0..MaxRev
    /\ 0 \in 0..MaxClock
  BY CacheAssumption DEF NoContent, Content, NoMeta, MetaFiles, NoTag, Failed

\* Leaving Refresh keeps the types of the process's variables.
LEMMA LeaveType ==
    ASSUME TypeOK, NEW p \in Refreshers, NEW how \in Finished, Leave(p, how)
    PROVE  /\ pc' \in [Refreshers -> Finished \cup Steps]
           /\ cancelled' \in [Refreshers -> BOOLEAN]
           /\ prev' \in [Refreshers -> 0..MaxRev]
           /\ etag' \in [Refreshers -> 0..MaxRev]
           /\ todo' \in [Refreshers -> SUBSET Services]
           /\ got' \in [Refreshers -> Content]
           /\ at' \in [Refreshers -> 0..MaxClock]
           /\ seen' \in [Refreshers -> MetaFiles]
           /\ started' \in [Refreshers -> 0..MaxClock]
  BY Blank DEF TypeOK, Leave

\* The disk, the upstream, the processes and the readers stay in their types.
THEOREM TypeCorrect == Spec => []TypeOK
<1>1. Init => TypeOK
  BY Blank, CacheAssumption
  DEF Init, TypeOK, Disk, Revs, Finished, ReadSteps
<1>2. TypeOK /\ [Next]_vars => TypeOK'
  <2> SUFFICES ASSUME TypeOK, [Next]_vars PROVE TypeOK'
    OBVIOUS
  <2> USE CacheAssumption
  <2>1. CASE Publish
    BY <2>1 DEF TypeOK, Publish, Revs, disk, locals, readers
  <2>2. CASE Tick
    BY <2>2 DEF TypeOK, Tick, disk, upstream, locals, readers
  <2>3. ASSUME NEW p \in Refreshers, Start(p) PROVE TypeOK'
    BY <2>3 DEF TypeOK, Start, Goto, Steps, disk, upstream, locals, readers
  <2>4. ASSUME NEW p \in Refreshers, Work(p) PROVE TypeOK'
    <3>1. CASE ReadPreviousETag(p)
      BY <3>1, Blank DEF TypeOK, ReadPreviousETag, Goto, Steps, MetaFiles, disk, upstream, readers
    <3>2. CASE IndexFails(p)
      BY <3>2, LeaveType DEF TypeOK, IndexFails, Finished, disk, upstream, readers
    <3>3. CASE IndexNotModified(p)
      BY <3>3 DEF TypeOK, IndexNotModified, Goto, Steps, disk, upstream, readers
    <3>4. CASE IndexModified(p)
      BY <3>4, Blank DEF TypeOK, IndexModified, Goto, Steps, Revs, disk, upstream, readers
    <3>5. ASSUME NEW s \in Services, FetchService(p, s) PROVE TypeOK'
      BY <3>5 DEF TypeOK, FetchService, Revs, Content, disk, upstream, readers
    <3>6. ASSUME NEW s \in Services, ServiceFails(p, s) PROVE TypeOK'
      BY <3>6 DEF TypeOK, ServiceFails, Failed, Content, disk, upstream, readers
    <3>7. CASE WalkEnds(p)
      BY <3>7 DEF TypeOK, WalkEnds, Goto, Steps, disk, upstream, readers
    <3>8. CASE MakeDir(p)
      BY <3>8 DEF TypeOK, MakeDir, Goto, Steps, DirStates, upstream, locals, readers
    <3>9. CASE WriteSpec(p)
      BY <3>9 DEF TypeOK, WriteSpec, Goto, Steps, SpecFiles, upstream, locals, readers
    <3>10. CASE WriteMeta(p)
      BY <3>10, LeaveType DEF TypeOK, WriteMeta, MetaFiles, Finished, upstream, readers
    <3>11. CASE ReadMetaToBump(p)
      BY <3>11 DEF TypeOK, ReadMetaToBump, Goto, Steps, MetaFiles, disk, upstream, readers
    <3>12. CASE BumpMeta(p)
      BY <3>12, LeaveType DEF TypeOK, BumpMeta, Finished, upstream, readers
    <3>13. CASE DiskStepFails(p)
      BY <3>13, LeaveType DEF TypeOK, DiskStepFails, Finished, disk, upstream, readers
    <3> QED
      BY <2>4, <3>1, <3>2, <3>3, <3>4, <3>5, <3>6, <3>7, <3>8, <3>9, <3>10,
         <3>11, <3>12, <3>13 DEF Work
  <2>5. ASSUME NEW p \in Refreshers, Cancel(p) PROVE TypeOK'
    BY <2>5 DEF TypeOK, Cancel, disk, upstream, locals, readers
  <2>6. ASSUME NEW p \in Refreshers, Crash(p) PROVE TypeOK'
    BY <2>6, LeaveType DEF TypeOK, Crash, Finished, disk, upstream, readers
  <2>7. ASSUME NEW r \in Readers, Read(r) PROVE TypeOK'
    <3>1. CASE Open(r)
      BY <3>1 DEF TypeOK, Open, Openable, ReadSteps, disk, upstream, locals
    <3>2. CASE AssertSecureDir(r)
      BY <3>2 DEF TypeOK, AssertSecureDir, DirVerdict, DirStates, ReadSteps, Verdicts, disk, upstream, locals
    <3>3. CASE ReadMeta(r)
      BY <3>3 DEF TypeOK, ReadMeta, Outcome, MetaFiles, ReadSteps, Verdicts, disk, upstream, locals
    <3>4. CASE ReadSpec(r)
      BY <3>4 DEF TypeOK, ReadSpec, Outcome, SpecFiles, ReadSteps, Verdicts, disk, upstream, locals
    <3>5. CASE OpenFails(r)
      BY <3>5 DEF TypeOK, OpenFails, Verdicts, disk, upstream, locals
    <3> QED
      BY <2>7, <3>1, <3>2, <3>3, <3>4, <3>5 DEF Read
  <2>8. CASE UNCHANGED vars
    BY <2>8 DEF TypeOK, vars, disk, upstream, locals, readers
  <2> QED
    BY <2>1, <2>2, <2>3, <2>4, <2>5, <2>6, <2>7, <2>8 DEF Next
<1> QED
  BY <1>1, <1>2, PTL DEF Spec

-----------------------------------------------------------------------------
(***************************************************************************)
(* The validator never runs ahead of the copy.  TagCoversSpec is not       *)
(* inductive: that the rename of apispace.json keeps it depends on what    *)
(* the refresher fetched, which depends on when it read the ETag.  VInv    *)
(* adds what the refresher's variables owe to the stored ETag at each step *)
(* and what a reader's open call owes to the ETag it read.                 *)
(***************************************************************************)
Fetching == {"walk", "mkdir200", "writeSpec", "writeMeta"}

\* The descriptions p has fetched are at least as new as tag.
Fetched(p, tag) ==
    \A s \in Services : s \notin todo[p] => got[p][s] = Failed \/ got[p][s] >= tag

HeadInv == /\ headTag <= head
           /\ meta.st = "good" => meta.tag <= headTag

ProcInv(p) ==
    /\ pc[p] = "index" =>
         prev[p] = NoTag \/ (meta.st = "good" /\ prev[p] = meta.tag)
    /\ pc[p] \in {"mkdir304", "readMeta"} => meta.st = "good" /\ etag[p] = meta.tag
    /\ pc[p] = "bumpMeta" =>
         /\ meta.st = "good"
         /\ seen[p].st = "good" /\ seen[p].tag = meta.tag
    /\ pc[p] \in Fetching =>
         /\ etag[p] <= headTag
         /\ Fetched(p, etag[p])
         /\ meta.st = "good" => Fetched(p, meta.tag)
    /\ pc[p] \in Fetching \ {"walk"} => todo[p] = {}
    /\ pc[p] = "writeMeta" => spec.st = "good" /\ spec.svc = got[p]

ReadInv(r) ==
    /\ rpc[r] = "spec" =>
         /\ spec.st = "good" => AtLeast(spec.svc, rmeta[r].tag)
         /\ rmeta[r].tag <= headTag
         /\ \A p \in Refreshers : pc[p] \in Fetching => Fetched(p, rmeta[r].tag)
    /\ rpc[r] = "opened" => AtLeast(rsvc[r], rmeta[r].tag)

VInv == /\ TypeOK
        /\ HeadInv
        /\ TagCoversSpec
        /\ \A p \in Refreshers : ProcInv(p)
        /\ \A r \in Readers : ReadInv(r)

LEMMA VInvInit == ASSUME SoundDisks PROVE Init => VInv
<1> SUFFICES ASSUME Init PROVE VInv
  OBVIOUS
<1>1. TypeOK
  BY Blank, CacheAssumption DEF Init, TypeOK, Disk, Revs, Finished, ReadSteps
<1>2. HeadInv /\ TagCoversSpec
  BY DEF Init, SoundDisks, HeadInv, TagCoversSpec, AtLeast
<1>3. \A p \in Refreshers : ProcInv(p)
  BY DEF Init, ProcInv, Fetching
<1>4. \A r \in Readers : ReadInv(r)
  BY DEF Init, ReadInv
<1> QED
  BY <1>1, <1>2, <1>3, <1>4 DEF VInv

LEMMA VInvStep ==
    ASSUME OneRefresher, VInv, TypeOK', [Next]_vars
    PROVE  VInv'
<1> USE CacheAssumption
<1> DEFINE Goal == /\ HeadInv' /\ TagCoversSpec'
                   /\ \A p \in Refreshers : ProcInv(p)'
                   /\ \A r \in Readers : ReadInv(r)'
<1> SUFFICES Goal
  BY DEF VInv
<1>a. TypeOK /\ HeadInv /\ TagCoversSpec
  BY DEF VInv
<1>b. \A p \in Refreshers : ProcInv(p)
  BY DEF VInv
<1>c. \A r \in Readers : ReadInv(r)
  BY DEF VInv
<1>1. CASE Publish
  <2>1. headTag <= headTag' /\ headTag' <= head' /\ headTag' \in Nat
    BY <1>1, <1>a DEF Publish, HeadInv, TypeOK, Revs
  <2>2. HeadInv' /\ TagCoversSpec'
    BY <1>1, <1>a, <2>1
    DEF Publish, HeadInv, TagCoversSpec, AtLeast, TypeOK, Revs, MetaFiles, disk
  <2>3. \A p \in Refreshers : ProcInv(p)'
    BY <1>1, <1>a, <1>b, <2>1
    DEF Publish, ProcInv, Fetched, TypeOK, Revs, disk, locals
  <2>4. \A r \in Readers : ReadInv(r)'
    BY <1>1, <1>a, <1>c, <2>1
    DEF Publish, ReadInv, Fetched, AtLeast, TypeOK, Revs, MetaFiles, disk, locals, readers
  <2> QED
    BY <2>2, <2>3, <2>4
<1>2. CASE Tick \/ UNCHANGED vars \/ \E p \in Refreshers : Cancel(p)
  BY <1>2, <1>a, <1>b, <1>c
  DEF Tick, Cancel, HeadInv, TagCoversSpec, ProcInv, ReadInv, Fetched, AtLeast,
      vars, disk, upstream, locals, readers
<1>3. ASSUME NEW p \in Refreshers, Start(p) \/ ReadPreviousETag(p) PROVE Goal
  <2>1. HeadInv' /\ TagCoversSpec'
    BY <1>3, <1>a DEF Start, ReadPreviousETag, HeadInv, TagCoversSpec, AtLeast, disk, upstream
  <2>2. \A q \in Refreshers : ProcInv(q)'
    BY <1>3, <1>a, <1>b
    DEF OneRefresher, Start, ReadPreviousETag, Goto, ProcInv, Fetched, Fetching, NoTag,
        TypeOK, disk, upstream, locals
  <2>3. \A r \in Readers : ReadInv(r)'
    BY <1>3, <1>a, <1>c
    DEF Start, ReadPreviousETag, Goto, ReadInv, AtLeast, Fetched, Fetching, TypeOK,
        disk, upstream, locals, readers
  <2> QED
    BY <2>1, <2>2, <2>3
<1>4. ASSUME NEW p \in Refreshers, IndexFails(p) \/ DiskStepFails(p) \/ Crash(p) PROVE Goal
  <2>1. HeadInv' /\ TagCoversSpec'
    BY <1>4, <1>a DEF IndexFails, DiskStepFails, Crash, HeadInv, TagCoversSpec, AtLeast, disk, upstream
  <2>2. pc'[p] \notin Fetching \cup {"index", "mkdir304", "readMeta", "bumpMeta"}
    BY <1>4, <1>a DEF IndexFails, DiskStepFails, Crash, Leave, Fetching, TypeOK
  <2>3. \A q \in Refreshers : ProcInv(q)'
    BY <2>2 DEF OneRefresher, ProcInv, Fetching
  <2>4. \A r \in Readers : ReadInv(r)'
    BY <1>4, <1>a, <1>c, <2>2
    DEF OneRefresher, IndexFails, DiskStepFails, Crash, ReadInv, AtLeast, disk, upstream, readers
  <2> QED
    BY <2>1, <2>3, <2>4
<1>5. ASSUME NEW p \in Refreshers, IndexNotModified(p) PROVE Goal
  <2>1. HeadInv' /\ TagCoversSpec'
    BY <1>5, <1>a DEF IndexNotModified, HeadInv, TagCoversSpec, AtLeast, disk, upstream
  <2>2. \A q \in Refreshers : ProcInv(q)'
    BY <1>5, <1>a, <1>b
    DEF OneRefresher, IndexNotModified, Goto, ProcInv, Fetching, TypeOK, disk, upstream
  <2>3. \A r \in Readers : ReadInv(r)'
    BY <1>5, <1>a, <1>c
    DEF OneRefresher, IndexNotModified, Goto, ReadInv, AtLeast, Fetching, TypeOK, disk, upstream, readers
  <2> QED
    BY <2>1, <2>2, <2>3
<1>6. ASSUME NEW p \in Refreshers, IndexModified(p) PROVE Goal
  <2>1. HeadInv' /\ TagCoversSpec'
    BY <1>6, <1>a DEF IndexModified, HeadInv, TagCoversSpec, AtLeast, disk, upstream
  <2>2. pc'[p] = "walk" /\ todo'[p] = Services /\ etag'[p] <= headTag /\ headTag' = headTag
    BY <1>6, <1>a DEF IndexModified, Goto, TypeOK, Revs, NoTag, upstream
  <2>3. \A q \in Refreshers : ProcInv(q)'
    BY <2>2 DEF OneRefresher, ProcInv, Fetching, Fetched
  <2>4. \A r \in Readers : ReadInv(r)'
    BY <1>6, <1>a, <1>c, <2>2
    DEF OneRefresher, IndexModified, ReadInv, AtLeast, Fetched, disk, upstream, readers
  <2> QED
    BY <2>1, <2>3, <2>4
<1>7. ASSUME NEW p \in Refreshers, NEW s \in Services,
             FetchService(p, s) \/ ServiceFails(p, s)
      PROVE  Goal
  <2>1. HeadInv' /\ TagCoversSpec'
    BY <1>7, <1>a DEF FetchService, ServiceFails, HeadInv, TagCoversSpec, AtLeast, disk, upstream
  <2>2. ASSUME NEW tag \in Nat, tag <= headTag, Fetched(p, tag)
        PROVE  \A t \in Services : t \notin todo'[p] =>
                 got'[p][t] = Failed \/ got'[p][t] >= tag
    <3> SUFFICES ASSUME NEW t \in Services, t \notin todo'[p]
                 PROVE  got'[p][t] = Failed \/ got'[p][t] >= tag
      OBVIOUS
    <3>1. head \in Nat /\ headTag \in Nat /\ head >= tag
      BY <1>a, <2>2 DEF HeadInv, TypeOK, Revs
    <3>2. got'[p][s] \in {Failed, head} /\ (t # s => got'[p][t] = got[p][t] /\ t \notin todo[p])
      BY <1>7, <1>a DEF FetchService, ServiceFails, TypeOK, Content
    <3> QED
      BY <2>2, <3>1, <3>2 DEF Fetched
  <2>3. pc' = pc /\ pc[p] = "walk" /\ UNCHANGED <<disk, upstream, prev, etag, seen, readers>>
    BY <1>7 DEF FetchService, ServiceFails
  <2>4. etag[p] \in Nat /\ (meta.st = "good" => meta.tag \in Nat /\ meta.tag <= headTag)
    BY <1>a DEF TypeOK, HeadInv, MetaFiles
  <2>5. ProcInv(p)'
    BY <2>2, <2>3, <2>4, <1>b DEF ProcInv, Fetched, Fetching, disk, upstream
  <2>6. \A q \in Refreshers : ProcInv(q)'
    BY <2>5 DEF OneRefresher
  <2>7. ASSUME NEW r \in Readers PROVE ReadInv(r)'
    <3>1. rmeta[r].tag \in Nat
      BY <1>a DEF TypeOK, MetaFiles
    <3> QED
      BY <1>c, <2>2, <2>3, <3>1 DEF OneRefresher, ReadInv, AtLeast, Fetched, Fetching, disk, upstream, readers
  <2> QED
    BY <2>1, <2>6, <2>7
<1>8. ASSUME NEW p \in Refreshers, WalkEnds(p) \/ MakeDir(p) PROVE Goal
  <2>1. HeadInv' /\ TagCoversSpec'
    BY <1>8, <1>a DEF WalkEnds, MakeDir, HeadInv, TagCoversSpec, AtLeast, disk, upstream
  <2>2. \A q \in Refreshers : ProcInv(q)'
    BY <1>8, <1>a, <1>b
    DEF OneRefresher, WalkEnds, MakeDir, Goto, ProcInv, Fetched, Fetching, TypeOK, disk, upstream, locals
  <2>3. \A r \in Readers : ReadInv(r)'
    BY <1>8, <1>a, <1>c
    DEF OneRefresher, WalkEnds, MakeDir, Goto, ReadInv, AtLeast, Fetched, Fetching, TypeOK,
        disk, upstream, locals, readers
  <2> QED
    BY <2>1, <2>2, <2>3
<1>9. ASSUME NEW p \in Refreshers, WriteSpec(p) PROVE Goal
  <2>0. /\ pc[p] = "writeSpec" /\ pc'[p] = "writeMeta"
        /\ spec' = [st |-> "good", svc |-> got[p]] /\ todo[p] = {}
        /\ UNCHANGED <<meta, headTag, head, prev, etag, todo, got, seen, rpc, rmeta, rsvc>>
    BY <1>9, <1>a, <1>b DEF WriteSpec, Goto, ProcInv, Fetching, TypeOK, upstream, locals, readers
  <2>1. HeadInv' /\ TagCoversSpec'
    BY <2>0, <1>a, <1>b DEF HeadInv, TagCoversSpec, AtLeast, ProcInv, Fetched, Fetching
  <2>2. ProcInv(p)'
    BY <2>0, <1>b DEF ProcInv, Fetched, Fetching
  <2>3. \A q \in Refreshers : ProcInv(q)'
    BY <2>2 DEF OneRefresher
  <2>4. \A r \in Readers : ReadInv(r)'
    BY <2>0, <1>c DEF OneRefresher, ReadInv, AtLeast, Fetched, Fetching
  <2> QED
    BY <2>1, <2>3, <2>4
<1>10. ASSUME NEW p \in Refreshers, WriteMeta(p) PROVE Goal
  <2>0. /\ pc[p] = "writeMeta" /\ pc'[p] = "ok" /\ todo[p] = {}
        /\ meta'.tag = etag[p] /\ meta'.st = "good"
        /\ UNCHANGED <<spec, headTag, head, rpc, rmeta, rsvc>>
    BY <1>10, <1>a, <1>b DEF WriteMeta, Leave, ProcInv, Fetching, TypeOK, upstream, readers
  <2>1. HeadInv' /\ TagCoversSpec'
    BY <2>0, <1>a, <1>b DEF HeadInv, TagCoversSpec, AtLeast, ProcInv, Fetched, Fetching
  <2>2. \A q \in Refreshers : ProcInv(q)'
    BY <2>0 DEF OneRefresher, ProcInv, Fetching
  <2>3. \A r \in Readers : ReadInv(r)'
    BY <2>0, <1>c DEF OneRefresher, ReadInv, AtLeast, Fetching
  <2> QED
    BY <2>1, <2>2, <2>3
<1>11. ASSUME NEW p \in Refreshers, ReadMetaToBump(p) PROVE Goal
  <2>1. HeadInv' /\ TagCoversSpec'
    BY <1>11, <1>a DEF ReadMetaToBump, HeadInv, TagCoversSpec, AtLeast, disk, upstream
  <2>2. \A q \in Refreshers : ProcInv(q)'
    BY <1>11, <1>a, <1>b
    DEF OneRefresher, ReadMetaToBump, Goto, ProcInv, Fetching, TypeOK, disk, upstream
  <2>3. \A r \in Readers : ReadInv(r)'
    BY <1>11, <1>a, <1>c
    DEF OneRefresher, ReadMetaToBump, Goto, ReadInv, AtLeast, Fetching, TypeOK, disk, upstream, readers
  <2> QED
    BY <2>1, <2>2, <2>3
<1>12. ASSUME NEW p \in Refreshers, BumpMeta(p) PROVE Goal
  <2>0. /\ pc'[p] = "ok" /\ meta.st = "good"
        /\ meta'.tag = meta.tag /\ meta'.st = "good"
        /\ UNCHANGED <<spec, headTag, head, rpc, rmeta, rsvc>>
    BY <1>12, <1>a, <1>b DEF BumpMeta, Leave, ProcInv, TypeOK, upstream, readers
  <2>1. HeadInv' /\ TagCoversSpec'
    BY <2>0, <1>a DEF HeadInv, TagCoversSpec, AtLeast
  <2>2. \A q \in Refreshers : ProcInv(q)'
    BY <2>0 DEF OneRefresher, ProcInv, Fetching
  <2>3. \A r \in Readers : ReadInv(r)'
    BY <2>0, <1>c DEF OneRefresher, ReadInv, AtLeast, Fetching
  <2> QED
    BY <2>1, <2>2, <2>3
<1>13. ASSUME NEW r \in Readers, Read(r) PROVE Goal
  <2>0. UNCHANGED <<dir, spec, meta, head, headTag, pc, prev, etag, todo, got, seen>>
    BY <1>13 DEF Read, Open, AssertSecureDir, ReadMeta, ReadSpec, OpenFails, disk, upstream, locals
  <2>1. HeadInv' /\ TagCoversSpec'
    BY <2>0, <1>a DEF HeadInv, TagCoversSpec, AtLeast
  <2>2. \A p \in Refreshers : ProcInv(p)'
    BY <2>0, <1>b DEF ProcInv, Fetched
  <2>3. ASSUME NEW x \in Readers PROVE ReadInv(x)'
    <3>1. CASE Open(r) \/ AssertSecureDir(r) \/ OpenFails(r)
      BY <3>1, <2>0, <1>a, <1>c
      DEF Open, AssertSecureDir, OpenFails, DirVerdict, DirStates, ReadInv, AtLeast, Fetched, TypeOK
    <3>2. CASE ReadMeta(r)
      <4>1. CASE rpc'[r] = "spec"
        <5>1. meta.st = "good" /\ rmeta'[r] = meta
          BY <4>1, <3>2, <1>a DEF ReadMeta, Outcome, TypeOK
        <5>2. ReadInv(r)'
          BY <4>1, <5>1, <2>0, <1>a, <1>b
          DEF ReadInv, HeadInv, TagCoversSpec, AtLeast, ProcInv, Fetched
        <5> QED
          BY <5>2, <3>2, <2>0, <1>a, <1>c DEF ReadMeta, ReadInv, AtLeast, Fetched, TypeOK
      <4>2. CASE rpc'[r] # "spec"
        <5>1. rpc'[r] # "opened"
          BY <3>2, <1>a DEF ReadMeta, Outcome, TypeOK
        <5> QED
          BY <4>2, <5>1, <3>2, <2>0, <1>a, <1>c DEF ReadMeta, ReadInv, AtLeast, Fetched, TypeOK
      <4> QED
        BY <4>1, <4>2
    <3>3. CASE ReadSpec(r)
      <4>1. rpc'[r] # "spec" /\ (rpc'[r] = "opened" => spec.st = "good" /\ rsvc'[r] = spec.svc)
        BY <3>3, <1>a DEF ReadSpec, Outcome, TypeOK
      <4> QED
        BY <4>1, <3>3, <2>0, <1>a, <1>c DEF ReadSpec, ReadInv, AtLeast, Fetched, TypeOK
    <3> QED
      BY <1>13, <3>1, <3>2, <3>3 DEF Read
  <2> QED
    BY <2>1, <2>2, <2>3
<1> QED
  BY <1>1, <1>2, <1>3, <1>4, <1>5, <1>6, <1>7, <1>8, <1>9, <1>10, <1>11, <1>12, <1>13
  DEF Next, Work

LEMMA ValidatorInvariant ==
    ASSUME OneRefresher, SoundDisks
    PROVE  Spec => []VInv
<1>1. Init => VInv
  BY VInvInit
<1>2. VInv /\ TypeOK' /\ [Next]_vars => VInv'
  BY VInvStep
<1> QED
  BY <1>1, <1>2, TypeCorrect, PTL DEF Spec

\* For any number of services, readers, revisions and ticks, and with every
\* fault switched on: as long as refreshes do not overlap, no description in
\* apispace.json is older than the revision the stored ETag names.
THEOREM ValidatorCovers ==
    ASSUME OneRefresher, SoundDisks
    PROVE  Spec => []TagCoversSpec
<1>1. VInv => TagCoversSpec
  BY DEF VInv
<1> QED
  BY <1>1, ValidatorInvariant, PTL

\* Nor is a reader served services older than the meta file it read, wherever
\* its three reads fall among the steps of the refreshes.
THEOREM ReadersCovered ==
    ASSUME OneRefresher, SoundDisks
    PROVE  Spec => []ReaderNotBehind
<1>1. VInv => ReaderNotBehind
  BY DEF VInv, ReadInv, ReaderNotBehind
<1> QED
  BY <1>1, ValidatorInvariant, PTL

-----------------------------------------------------------------------------
(***************************************************************************)
(* The documented postcondition of Refresh, and that an openable cache     *)
(* stays openable, for any number of overlapping refreshes.  The           *)
(* invariant carries, from step to step of each refresh, that what it is   *)
(* about to write completes an openable cache.                             *)
(***************************************************************************)
Writing == {"writeSpec", "writeMeta", "readMeta", "bumpMeta"}

DiskInv == /\ dir # "loose"
           /\ meta.st = "good" => meta.stamp = "current" /\ spec.st = "good"

WriteInv(p) ==
    /\ pc[p] \in Writing => dir = "secure"
    /\ pc[p] = "writeMeta" => spec.st = "good"
    /\ pc[p] = "bumpMeta" =>
         /\ spec.st = "good"
         /\ seen[p].st = "good" /\ seen[p].stamp = "current"
         /\ seen[p].at \in started[p]..clock
    /\ started[p] <= clock
    /\ pc[p] \in {"mkdir200", "writeSpec", "writeMeta"} => at[p] \in started[p]..clock

OpenInv(r) ==
    promised[r] => Openable /\ rpc[r] \notin {"nocache", "corrupt", "perms"}

OInv == /\ TypeOK
        /\ DiskInv
        /\ \A p \in Refreshers : WriteInv(p)
        /\ \A r \in Readers : OpenInv(r)

\* One step keeps the invariant, and acknowledges only an openable cache.
LEMMA OInvStep ==
    ASSUME OInv, TypeOK', [Next]_vars
    PROVE  /\ OInv'
           /\ \A p \in Refreshers :
                Acknowledged(p) => Openable' /\ meta'.at \in started[p]..clock
<1> USE CacheAssumption
<1> DEFINE Goal == /\ DiskInv' /\ \A p \in Refreshers : WriteInv(p)'
                   /\ \A r \in Readers : OpenInv(r)'
           Post == \A p \in Refreshers :
                     Acknowledged(p) => Openable' /\ meta'.at \in started[p]..clock
<1> SUFFICES Goal /\ Post
  BY DEF OInv
<1>a. TypeOK /\ DiskInv
  BY DEF OInv
<1>b. \A p \in Refreshers : WriteInv(p)
  BY DEF OInv
<1>c. \A r \in Readers : OpenInv(r)
  BY DEF OInv
<1>1. CASE Publish \/ Tick \/ UNCHANGED vars
  <2>1. /\ UNCHANGED <<dir, spec, meta, pc, at, seen, started, rpc, promised>>
        /\ clock <= clock' /\ clock \in Nat /\ clock' \in Nat
    BY <1>1, <1>a DEF Publish, Tick, vars, disk, upstream, locals, readers, TypeOK
  <2>2. DiskInv' /\ \A r \in Readers : OpenInv(r)'
    BY <2>1, <1>a, <1>c DEF DiskInv, OpenInv, Openable
  <2>3. \A p \in Refreshers : WriteInv(p)'
    BY <2>1, <1>a, <1>b DEF WriteInv, TypeOK, MetaFiles
  <2> QED
    BY <2>1, <2>2, <2>3 DEF Acknowledged
<1>2. ASSUME NEW p \in Refreshers,
             Start(p) \/ ReadPreviousETag(p) \/ IndexNotModified(p) \/ IndexModified(p)
             \/ WalkEnds(p) \/ ReadMetaToBump(p) \/ Cancel(p)
             \/ \E s \in Services : FetchService(p, s) \/ ServiceFails(p, s)
      PROVE  Goal /\ Post
  <2>1. UNCHANGED <<dir, spec, meta, clock, rpc, promised>>
    BY <1>2 DEF Start, ReadPreviousETag, IndexNotModified, IndexModified, WalkEnds,
       ReadMetaToBump, Cancel, FetchService, ServiceFails, disk, upstream, locals, readers
  <2>2. DiskInv' /\ \A r \in Readers : OpenInv(r)'
    BY <2>1, <1>a, <1>c DEF DiskInv, OpenInv, Openable
  <2>3. \A q \in Refreshers : q # p =>
          pc'[q] = pc[q] /\ at'[q] = at[q] /\ seen'[q] = seen[q] /\ started'[q] = started[q]
    BY <1>2, <1>a DEF Start, ReadPreviousETag, IndexNotModified, IndexModified, WalkEnds,
       ReadMetaToBump, Cancel, FetchService, ServiceFails, Goto, TypeOK, locals
  <2>4. WriteInv(p)'
    <3>1. CASE Start(p)
      BY <3>1, <2>1, <1>a DEF Start, Goto, WriteInv, Writing, TypeOK
    <3>2. CASE ReadPreviousETag(p) \/ IndexNotModified(p) \/ IndexModified(p)
      BY <3>2, <2>1, <1>a, <1>b
      DEF ReadPreviousETag, IndexNotModified, IndexModified, Goto, WriteInv, Writing, TypeOK
    <3>3. CASE WalkEnds(p)
      BY <3>3, <2>1, <1>a, <1>b DEF WalkEnds, Goto, WriteInv, Writing, TypeOK
    <3>4. CASE ReadMetaToBump(p)
      BY <3>4, <2>1, <1>a, <1>b DEF ReadMetaToBump, Goto, WriteInv, Writing, DiskInv, TypeOK
    <3>5. CASE Cancel(p) \/ \E s \in Services : FetchService(p, s) \/ ServiceFails(p, s)
      BY <3>5, <2>1, <1>b DEF Cancel, FetchService, ServiceFails, WriteInv, locals
    <3> QED
      BY <1>2, <3>1, <3>2, <3>3, <3>4, <3>5
  <2>5. \A q \in Refreshers : WriteInv(q)'
    BY <2>1, <2>3, <2>4, <1>b DEF WriteInv
  <2>6. Post
    BY <2>3, <1>2, <1>a
    DEF Acknowledged, Start, ReadPreviousETag, IndexNotModified, IndexModified, WalkEnds,
        ReadMetaToBump, Cancel, FetchService, ServiceFails, Goto, TypeOK
  <2> QED
    BY <2>2, <2>5, <2>6
<1>3. ASSUME NEW p \in Refreshers, NEW how \in Finished, Leave(p, how),
             UNCHANGED <<clock, readers>>,
             \/ UNCHANGED disk /\ how # "ok"
             \/ WriteMeta(p) \/ BumpMeta(p)
      PROVE  Goal /\ Post
  <2>1. \A q \in Refreshers : q # p =>
          pc'[q] = pc[q] /\ at'[q] = at[q] /\ seen'[q] = seen[q] /\ started'[q] = started[q]
    BY <1>3, <1>a DEF Leave, TypeOK
  <2>2. pc'[p] = how /\ started'[p] = 0
    BY <1>3, <1>a DEF Leave, TypeOK
  <2>3. /\ dir' = dir /\ spec' = spec
        /\ \/ meta' = meta /\ how # "ok"
           \/ /\ dir = "secure" /\ spec.st = "good"
              /\ meta'.st = "good" /\ meta'.stamp = "current"
              /\ meta'.at \in started[p]..clock
    BY <1>3, <1>b DEF WriteMeta, BumpMeta, WriteInv, Writing, disk
  <2>4. DiskInv'
    BY <2>3, <1>a DEF DiskInv
  <2>5. \A q \in Refreshers : WriteInv(q)'
    BY <2>1, <2>2, <2>3, <1>3, <1>a, <1>b DEF WriteInv, Writing, Finished, TypeOK
  <2>6. \A r \in Readers : OpenInv(r)'
    BY <2>3, <1>3, <1>c DEF OpenInv, Openable, readers
  <2>7. Post
    BY <2>1, <2>2, <2>3 DEF Acknowledged, Openable
  <2> QED
    BY <2>4, <2>5, <2>6, <2>7
<1>4. ASSUME NEW p \in Refreshers, MakeDir(p) \/ WriteSpec(p) PROVE Goal /\ Post
  <2>1. /\ UNCHANGED <<meta, clock, at, seen, started, rpc, promised>>
        /\ dir' \in {dir, "secure"}
        /\ spec' = spec \/ spec'.st = "good"
    BY <1>4 DEF MakeDir, WriteSpec, locals, readers
  <2>2. DiskInv'
    BY <2>1, <1>a DEF DiskInv
  <2>3. \A q \in Refreshers : WriteInv(q)'
    <3>1. \A q \in Refreshers : q # p => pc'[q] = pc[q]
      BY <1>4, <1>a DEF MakeDir, WriteSpec, Goto, TypeOK
    <3>2. CASE MakeDir(p)
      <4>1. dir' = "secure"
        BY <3>2, <1>a, <1>b DEF MakeDir, DiskInv, TypeOK, DirStates
      <4> QED
        BY <3>1, <3>2, <4>1, <2>1, <1>a, <1>b DEF MakeDir, Goto, WriteInv, Writing, TypeOK
    <3>3. CASE WriteSpec(p)
      BY <3>1, <3>3, <2>1, <1>a, <1>b DEF WriteSpec, Goto, WriteInv, Writing, TypeOK
    <3> QED
      BY <1>4, <3>2, <3>3
  <2>4. \A r \in Readers : OpenInv(r)'
    BY <2>1, <1>c DEF OpenInv, Openable
  <2>5. Post
    BY <1>4, <1>a DEF Acknowledged, MakeDir, WriteSpec, Goto, TypeOK
  <2> QED
    BY <2>2, <2>3, <2>4, <2>5
<1>5. ASSUME NEW r \in Readers, Read(r) PROVE Goal /\ Post
  <2>1. UNCHANGED <<dir, spec, meta, clock, pc, at, seen, started>>
    BY <1>5 DEF Read, Open, AssertSecureDir, ReadMeta, ReadSpec, OpenFails, disk, locals
  <2>2. DiskInv' /\ (\A p \in Refreshers : WriteInv(p)') /\ Post
    BY <2>1, <1>a, <1>b DEF DiskInv, WriteInv, Acknowledged
  <2>3. ASSUME NEW x \in Readers PROVE OpenInv(x)'
    <3>1. CASE Open(r)
      BY <3>1, <2>1, <1>a, <1>c DEF Open, OpenInv, Openable, TypeOK
    <3>2. CASE AssertSecureDir(r)
      BY <3>2, <2>1, <1>a, <1>c DEF AssertSecureDir, DirVerdict, OpenInv, Openable, TypeOK
    <3>3. CASE ReadMeta(r)
      BY <3>3, <2>1, <1>a, <1>c DEF ReadMeta, Outcome, OpenInv, Openable, TypeOK
    <3>4. CASE ReadSpec(r) \/ OpenFails(r)
      BY <3>4, <2>1, <1>a, <1>c DEF ReadSpec, OpenFails, Outcome, OpenInv, Openable, TypeOK
    <3> QED
      BY <1>5, <3>1, <3>2, <3>3, <3>4 DEF Read
  <2> QED
    BY <2>2, <2>3
<1>6. ASSUME NEW p \in Refreshers,
             IndexFails(p) \/ DiskStepFails(p) \/ Crash(p) \/ WriteMeta(p) \/ BumpMeta(p)
      PROVE  Goal /\ Post
  <2>1. CASE IndexFails(p) \/ DiskStepFails(p)
    BY <2>1, <1>3 DEF IndexFails, DiskStepFails, Finished
  <2>2. CASE Crash(p)
    BY <2>2, <1>3 DEF Crash, Finished
  <2>3. CASE WriteMeta(p)
    BY <2>3, <1>3 DEF WriteMeta, Finished
  <2>4. CASE BumpMeta(p)
    BY <2>4, <1>3 DEF BumpMeta, Finished
  <2> QED
    BY <1>6, <2>1, <2>2, <2>3, <2>4
<1> QED
  BY <1>1, <1>2, <1>4, <1>5, <1>6 DEF Next, Work

LEMMA OInvInit == ASSUME CleanStart PROVE Init => OInv
<1> SUFFICES ASSUME Init PROVE OInv
  OBVIOUS
<1>1. TypeOK
  BY Blank, CacheAssumption DEF Init, TypeOK, Disk, Revs, Finished, ReadSteps
<1>2. DiskInv
  BY DEF Init, CleanStart, DiskInv
<1>3. (\A p \in Refreshers : WriteInv(p)) /\ (\A r \in Readers : OpenInv(r))
  BY DEF Init, WriteInv, Writing, OpenInv
<1> QED
  BY <1>1, <1>2, <1>3 DEF OInv

LEMMA OpenInvariant == ASSUME CleanStart PROVE Spec => []OInv
<1>1. Init => OInv
  BY OInvInit
<1>2. OInv /\ TypeOK' /\ [Next]_vars => OInv'
  BY OInvStep
<1> QED
  BY <1>1, <1>2, TypeCorrect, PTL DEF Spec

\* From disks this binary left, with any number of refreshes and readers
\* overlapping, failing and dying: Refresh returns nil only when the cache opens
\* with a FetchedAt inside the call.
THEOREM RefreshContract == ASSUME CleanStart PROVE Spec => RefreshPost
<1>1. OInv /\ TypeOK' /\ [Next]_vars =>
        [\A p \in Refreshers :
           Acknowledged(p) => Openable' /\ meta'.at \in started[p]..clock]_vars
  BY OInvStep
<1> QED
  BY <1>1, OpenInvariant, TypeCorrect, PTL DEF Spec, RefreshPost

\* A reader that starts on an openable cache opens it or meets an I/O error,
\* from the same disks and among the same refreshes.
THEOREM KeepsOpening == ASSUME CleanStart PROVE Spec => []ReaderOpens
<1>1. OInv => ReaderOpens
  BY DEF OInv, OpenInv, ReaderOpens
<1> QED
  BY <1>1, OpenInvariant, PTL
=============================================================================
