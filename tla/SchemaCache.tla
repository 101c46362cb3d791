---------------------------- MODULE SchemaCache ----------------------------
(***************************************************************************)
(* The on-disk schema cache of one region (internal/schema): the two files *)
(* apispace.json (`spec`) and apispace.meta.json (`meta`) in a directory   *)
(* (`dir`), the processes that refresh them (`ovh schema refresh`) and the *)
(* processes that open them (`ovh schema show | path | diff`).             *)
(*                                                                         *)
(* Each `ovh` invocation is an operating-system process of its own: there  *)
(* is no lock, so every file read and every rename is a separate step.     *)
(* renameio makes ONE file's replacement atomic; nothing makes the pair    *)
(* atomic.                                                                 *)
(*                                                                         *)
(* Data is abstracted to what the properties tell apart.  The upstream     *)
(* has revisions 1..MaxRev; a service description is the revision it was   *)
(* served at, or Failed; an ETag is the revision it vouches for; the hash  *)
(* of a set of services is that set of services (SHA-256 without           *)
(* collisions).                                                            *)
(***************************************************************************)
EXTENDS Naturals

CONSTANTS
    Refreshers,      \* processes that run Refresh, each again and again
    Readers,         \* processes that run OpenCache once
    Services,        \* paths listed by the upstream's index
    MaxRev,          \* bound on the number of upstream revisions
    MaxClock,        \* bound on the wall clock
    InitialDisks,    \* what earlier runs, older binaries or the user left
    Tagged,          \* the upstream sends an ETag with the index
    IndexCovers,     \* the index's ETag changes with any service description
    Flaky,           \* a service may fail although nothing was cancelled
    ReadFaults,      \* reading a file or the directory may fail
    WriteFaults,     \* mkdir and the writes may fail
    Cancels,         \* a caller may cancel its context
    Crashes          \* a process may be killed between two steps

Failed  == 0         \* Service{Error: ...}
NoTag   == 0         \* the empty ETag
Revs    == 1..MaxRev
Content == [Services -> 0..MaxRev]
NoContent == [s \in Services |-> Failed]

\* apispace.json: its state on disk and, when it parses, the services in it.
SpecFiles == [st : {"absent", "corrupt", "good"}, svc : Content]

\* apispace.meta.json; stamp is "current" when version and region are those
\* of the binary and of the directory.
MetaFiles == [st : {"absent", "corrupt", "good"}, stamp : {"current", "older"},
              tag : 0..MaxRev, at : 0..MaxClock, hash : Content]

DirStates == {"absent", "secure", "loose", "file"}
Disk      == [dir : DirStates, spec : SpecFiles, meta : MetaFiles]

NoSpec == [st |-> "absent", svc |-> NoContent]
NoMeta == [st |-> "absent", stamp |-> "current", tag |-> NoTag, at |-> 0,
           hash |-> NoContent]

ASSUME CacheAssumption ==
    /\ MaxRev \in Nat \ {0}
    /\ MaxClock \in Nat
    /\ InitialDisks \subseteq Disk
    /\ {Tagged, IndexCovers, Flaky} \subseteq BOOLEAN
    /\ {ReadFaults, WriteFaults, Cancels, Crashes} \subseteq BOOLEAN

VARIABLES
    dir, spec, meta,   \* the disk
    head, headTag,     \* the upstream: content revision, ETag of the index
    clock,             \* wall clock
    pc, cancelled,     \* each refresher: where it is, is its context cancelled
    prev, etag,        \* prevETag that was read, ETag the index answered with
    todo, got,         \* services still to fetch, services map built so far
    at, seen,          \* FetchedAt of the fetch, Meta read on the 304 path
    started,           \* clock when Refresh was called
    rpc, rmeta, rsvc,  \* each reader: where it is, what it has read
    promised           \* was the cache openable when the reader started

disk     == <<dir, spec, meta>>
upstream == <<head, headTag>>
locals   == <<prev, etag, todo, got, at, seen>>
readers  == <<rpc, rmeta, rsvc, promised>>
vars     == <<disk, upstream, clock, pc, cancelled, locals, started, readers>>

Finished == {"idle", "ok", "err"}
Steps    == {"readTag", "index", "walk", "mkdir200", "mkdir304",
             "writeSpec", "writeMeta", "readMeta", "bumpMeta"}
Verdicts == {"opened", "nocache", "corrupt", "perms", "ioerr"}
ReadSteps == {"closed", "stat", "meta", "spec"}

TypeOK ==
    /\ dir \in DirStates /\ spec \in SpecFiles /\ meta \in MetaFiles
    /\ head \in Revs /\ headTag \in Revs
    /\ clock \in 0..MaxClock
    /\ pc \in [Refreshers -> Finished \cup Steps]
    /\ cancelled \in [Refreshers -> BOOLEAN]
    /\ prev \in [Refreshers -> 0..MaxRev]
    /\ etag \in [Refreshers -> 0..MaxRev]
    /\ todo \in [Refreshers -> SUBSET Services]
    /\ got \in [Refreshers -> Content]
    /\ at \in [Refreshers -> 0..MaxClock]
    /\ seen \in [Refreshers -> MetaFiles]
    /\ started \in [Refreshers -> 0..MaxClock]
    /\ rpc \in [Readers -> ReadSteps \cup Verdicts]
    /\ rmeta \in [Readers -> MetaFiles]
    /\ rsvc \in [Readers -> Content]
    /\ promised \in [Readers -> BOOLEAN]

Init ==
    /\ \E d \in InitialDisks : dir = d.dir /\ spec = d.spec /\ meta = d.meta
    /\ head = 1 /\ headTag = 1
    /\ clock = 0
    /\ pc = [p \in Refreshers |-> "idle"]
    /\ cancelled = [p \in Refreshers |-> FALSE]
    /\ prev = [p \in Refreshers |-> NoTag]
    /\ etag = [p \in Refreshers |-> NoTag]
    /\ todo = [p \in Refreshers |-> {}]
    /\ got = [p \in Refreshers |-> NoContent]
    /\ at = [p \in Refreshers |-> 0]
    /\ seen = [p \in Refreshers |-> NoMeta]
    /\ started = [p \in Refreshers |-> 0]
    /\ rpc = [r \in Readers |-> "closed"]
    /\ rmeta = [r \in Readers |-> NoMeta]
    /\ rsvc = [r \in Readers |-> NoContent]
    /\ promised = [r \in Readers |-> FALSE]

-----------------------------------------------------------------------------
(* The upstream and the clock.                                             *)

\* The provider publishes: descriptions change, and with them the validator
\* of the index unless it covers only the list of paths.
Publish ==
    /\ head < MaxRev
    /\ head' = head + 1
    /\ headTag' \in IF IndexCovers THEN {head + 1} ELSE {headTag, head + 1}
    /\ UNCHANGED <<disk, clock, pc, cancelled, locals, started, readers>>

Tick ==
    /\ clock < MaxClock
    /\ clock' = clock + 1
    /\ UNCHANGED <<disk, upstream, pc, cancelled, locals, started, readers>>

-----------------------------------------------------------------------------
(* Refresh.                                                                *)

\* The process leaves Refresh (or dies): its variables are gone.
Leave(p, how) ==
    /\ pc' = [pc EXCEPT ![p] = how]
    /\ prev' = [prev EXCEPT ![p] = NoTag]
    /\ etag' = [etag EXCEPT ![p] = NoTag]
    /\ todo' = [todo EXCEPT ![p] = {}]
    /\ got' = [got EXCEPT ![p] = NoContent]
    /\ at' = [at EXCEPT ![p] = 0]
    /\ seen' = [seen EXCEPT ![p] = NoMeta]
    /\ cancelled' = [cancelled EXCEPT ![p] = FALSE]
    /\ started' = [started EXCEPT ![p] = 0]

Goto(p, step) == pc' = [pc EXCEPT ![p] = step]

\* refreshFrom is entered; its four preconditions hold (the command resolves
\* region, endpoint and allowed hosts from the region table).
Start(p) ==
    /\ pc[p] \in Finished
    /\ Goto(p, "readTag")
    /\ started' = [started EXCEPT ![p] = clock]
    /\ UNCHANGED <<disk, upstream, clock, cancelled, locals, readers>>

\* readPreviousETag: any failure to read or parse counts as "no ETag".
ReadPreviousETag(p) ==
    /\ pc[p] = "readTag"
    /\ \/ prev' = [prev EXCEPT ![p] = IF meta.st = "good" THEN meta.tag ELSE NoTag]
       \/ ReadFaults /\ prev' = [prev EXCEPT ![p] = NoTag]
    /\ Goto(p, "index")
    /\ UNCHANGED <<disk, upstream, clock, cancelled, etag, todo, got, at, seen,
                   started, readers>>

\* getConditional fails: transport error, cancelled context, a status other
\* than 200 and 304, or a body that does not decode.
IndexFails(p) ==
    /\ pc[p] = "index"
    /\ Leave(p, "err")
    /\ UNCHANGED <<disk, upstream, clock, readers>>

\* 304: the upstream still has the revision the previous ETag vouches for.
IndexNotModified(p) ==
    /\ pc[p] = "index" /\ ~cancelled[p]
    /\ Tagged /\ prev[p] # NoTag /\ prev[p] = headTag
    /\ etag' = [etag EXCEPT ![p] = prev[p]]
    /\ Goto(p, "mkdir304")
    /\ UNCHANGED <<disk, upstream, clock, cancelled, prev, todo, got, at, seen,
                   started, readers>>

\* 200: the ETag is fixed now, the descriptions are fetched afterwards.
IndexModified(p) ==
    /\ pc[p] = "index" /\ ~cancelled[p]
    /\ ~(Tagged /\ prev[p] = headTag)
    /\ etag' = [etag EXCEPT ![p] = IF Tagged THEN headTag ELSE NoTag]
    /\ todo' = [todo EXCEPT ![p] = Services]
    /\ Goto(p, "walk")
    /\ UNCHANGED <<disk, upstream, clock, cancelled, prev, got, at, seen,
                   started, readers>>

\* One goroutine of the fan-out stores the description it was answered with.
FetchService(p, s) ==
    /\ pc[p] = "walk" /\ s \in todo[p] /\ ~cancelled[p]
    /\ todo' = [todo EXCEPT ![p] = @ \ {s}]
    /\ got' = [got EXCEPT ![p][s] = head]
    /\ UNCHANGED <<disk, upstream, clock, pc, cancelled, prev, etag, at, seen,
                   started, readers>>

\* One goroutine records an error in place of the description; so does every
\* goroutine left once the context is cancelled.
ServiceFails(p, s) ==
    /\ pc[p] = "walk" /\ s \in todo[p]
    /\ cancelled[p] \/ Flaky
    /\ todo' = [todo EXCEPT ![p] = @ \ {s}]
    /\ got' = [got EXCEPT ![p][s] = Failed]
    /\ UNCHANGED <<disk, upstream, clock, pc, cancelled, prev, etag, at, seen,
                   started, readers>>

\* Mutant: FetchedAt is left zero.
WalkEndsUndated(p) ==
    /\ pc[p] = "walk" /\ todo[p] = {}
    /\ Goto(p, "mkdir200")
    /\ UNCHANGED <<disk, upstream, clock, cancelled, prev, etag, todo, got, at, seen,
                   started, readers>>

\* errgroup.Wait returns nil whatever the goroutines recorded.
WalkEnds(p) ==
    /\ pc[p] = "walk" /\ todo[p] = {}
    /\ at' = [at EXCEPT ![p] = clock]
    /\ Goto(p, "mkdir200")
    /\ UNCHANGED <<disk, upstream, clock, cancelled, prev, etag, todo, got, seen,
                   started, readers>>

\* MkdirAll creates a missing directory with mode 0700 and leaves the mode of
\* an existing one alone.
MakeDir(p) ==
    /\ pc[p] \in {"mkdir200", "mkdir304"}
    /\ dir # "file"
    /\ dir' = IF dir = "absent" THEN "secure" ELSE dir
    /\ Goto(p, IF pc[p] = "mkdir304" THEN "readMeta" ELSE "writeSpec")
    /\ UNCHANGED <<spec, meta, upstream, clock, cancelled, locals, started, readers>>

\* writeFresh, first rename.
WriteSpec(p) ==
    /\ pc[p] = "writeSpec"
    /\ spec' = [st |-> "good", svc |-> got[p]]
    /\ Goto(p, "writeMeta")
    /\ UNCHANGED <<dir, meta, upstream, clock, cancelled, locals, started, readers>>

\* Mutants: the ETag is asked for after the walk; the hash is carried over from
\* the file that is replaced.
WriteMetaWith(p, tag, hash) ==
    /\ pc[p] = "writeMeta"
    /\ meta' = [st |-> "good", stamp |-> "current", tag |-> tag, at |-> at[p],
                hash |-> hash]
    /\ Leave(p, "ok")
    /\ UNCHANGED <<dir, spec, upstream, clock, readers>>
WriteMetaLateTag(p) == WriteMetaWith(p, headTag, got[p])
WriteMetaOldHash(p) == WriteMetaWith(p, etag[p], meta.hash)

\* writeFresh, second rename; Refresh returns nil.
WriteMeta(p) ==
    /\ pc[p] = "writeMeta"
    /\ meta' = [st |-> "good", stamp |-> "current", tag |-> etag[p],
                at |-> at[p], hash |-> got[p]]
    /\ Leave(p, "ok")
    /\ UNCHANGED <<dir, spec, upstream, clock, readers>>

\* Mutant: the 304 path stores the ETag the upstream has by now.
ReadMetaToBumpLateTag(p) ==
    /\ pc[p] = "readMeta" /\ meta.st = "good"
    /\ seen' = [seen EXCEPT ![p] =
                 [st |-> "good", stamp |-> meta.stamp, tag |-> headTag,
                  at |-> clock, hash |-> meta.hash]]
    /\ Goto(p, "bumpMeta")
    /\ UNCHANGED <<disk, upstream, clock, cancelled, prev, etag, todo, got, at,
                   started, readers>>

\* rewriteMetaFetchedAt, read and modify: version, region and hash are kept.
ReadMetaToBump(p) ==
    /\ pc[p] = "readMeta" /\ meta.st = "good"
    /\ seen' = [seen EXCEPT ![p] = 
                 [st |-> "good", stamp |-> meta.stamp, tag |-> etag[p],
                  at |-> clock, hash |-> meta.hash]]
    /\ Goto(p, "bumpMeta")
    /\ UNCHANGED <<disk, upstream, clock, cancelled, prev, etag, todo, got, at,
                   started, readers>>

\* rewriteMetaFetchedAt, write; Refresh returns nil.
BumpMeta(p) ==
    /\ pc[p] = "bumpMeta"
    /\ meta' = seen[p]
    /\ Leave(p, "ok")
    /\ UNCHANGED <<dir, spec, upstream, clock, readers>>

\* A step on the disk fails and Refresh returns the error: a full disk or an
\* I/O error when faults occur, a cache path that is not a directory, and on
\* the 304 path a meta file that is gone or does not parse.
DiskStepFails(p) ==
    /\ \/ WriteFaults /\ pc[p] \in {"mkdir200", "mkdir304", "writeSpec",
                                    "writeMeta", "bumpMeta"}
       \/ ReadFaults /\ pc[p] = "readMeta"
       \/ pc[p] \in {"mkdir200", "mkdir304"} /\ dir = "file"
       \/ pc[p] = "readMeta" /\ meta.st # "good"
    /\ Leave(p, "err")
    /\ UNCHANGED <<disk, upstream, clock, readers>>

\* The caller's context is cancelled (SIGINT, SIGTERM).
Cancel(p) ==
    /\ Cancels /\ pc[p] \in Steps /\ ~cancelled[p]
    /\ cancelled' = [cancelled EXCEPT ![p] = TRUE]
    /\ UNCHANGED <<disk, upstream, clock, pc, locals, started, readers>>

\* Mutant: files are truncated and written in place.
CrashInPlace(p) ==
    /\ Crashes /\ pc[p] \in Steps
    /\ Leave(p, "idle")
    /\ spec' = IF pc[p] = "writeSpec" THEN [spec EXCEPT !.st = "corrupt"] ELSE spec
    /\ UNCHANGED <<dir, meta, upstream, clock, readers>>

\* The process is killed; renameio leaves no half-written file.
Crash(p) ==
    /\ Crashes /\ pc[p] \in Steps
    /\ Leave(p, "idle")
    /\ UNCHANGED <<disk, upstream, clock, readers>>

-----------------------------------------------------------------------------
(* OpenCache.                                                              *)

\* A disk from which openCacheAt returns a Querier.
Openable == /\ dir = "secure"
            /\ meta.st = "good" /\ meta.stamp = "current"
            /\ spec.st = "good"

Open(r) ==
    /\ rpc[r] = "closed"
    /\ rpc' = [rpc EXCEPT ![r] = "stat"]
    /\ promised' = [promised EXCEPT ![r] = Openable]
    /\ UNCHANGED <<disk, upstream, clock, pc, cancelled, locals, started, rmeta, rsvc>>

\* assertSecureDir: what each kind of directory leads to.
DirVerdict == [absent |-> "nocache", file |-> "ioerr", loose |-> "perms",
               secure |-> "meta"]

AssertSecureDir(r) ==
    /\ rpc[r] = "stat"
    /\ rpc' = [rpc EXCEPT ![r] = DirVerdict[dir]]
    /\ UNCHANGED <<disk, upstream, clock, pc, cancelled, locals, started,
                   rmeta, rsvc, promised>>

\* Mutant: an absent file is not mapped to ErrNoCache.
OutcomeUnmapped(st, next) == IF st = "good" THEN next ELSE st

\* What reading a file in state st yields: next when it parses.
Outcome(st, next) == IF st = "good" THEN next
                     ELSE IF st = "corrupt" THEN "corrupt" ELSE "nocache"

\* readMeta and the version and region check.
ReadMeta(r) ==
    /\ rpc[r] = "meta"
    /\ rpc' = [rpc EXCEPT ![r] =
                 Outcome(meta.st, IF meta.stamp = "current" THEN "spec" ELSE "corrupt")]
    /\ rmeta' = [rmeta EXCEPT ![r] = meta]
    /\ UNCHANGED <<disk, upstream, clock, pc, cancelled, locals, started,
                   rsvc, promised>>

\* readServices: the services are served as they are, whatever their hash.
ReadSpec(r) ==
    /\ rpc[r] = "spec"
    /\ rpc' = [rpc EXCEPT ![r] = Outcome(spec.st, "opened")]
    /\ rsvc' = [rsvc EXCEPT ![r] = spec.svc]
    /\ UNCHANGED <<disk, upstream, clock, pc, cancelled, locals, started,
                   rmeta, promised>>

\* Reading the directory or a file fails for another reason.
OpenFails(r) ==
    /\ ReadFaults /\ rpc[r] \in {"stat", "meta", "spec"}
    /\ rpc' = [rpc EXCEPT ![r] = "ioerr"]
    /\ UNCHANGED <<disk, upstream, clock, pc, cancelled, locals, started,
                   rmeta, rsvc, promised>>

-----------------------------------------------------------------------------
Work(p) ==
    \/ ReadPreviousETag(p)
    \/ IndexFails(p) \/ IndexNotModified(p) \/ IndexModified(p)
    \/ \E s \in Services : FetchService(p, s) \/ ServiceFails(p, s)
    \/ WalkEnds(p) \/ MakeDir(p) \/ WriteSpec(p) \/ WriteMeta(p)
    \/ ReadMetaToBump(p) \/ BumpMeta(p) \/ DiskStepFails(p)

Read(r) == Open(r) \/ AssertSecureDir(r) \/ ReadMeta(r) \/ ReadSpec(r) \/ OpenFails(r)

Next ==
    \/ Publish \/ Tick
    \/ \E p \in Refreshers : Start(p) \/ Work(p) \/ Cancel(p) \/ Crash(p)
    \/ \E r \in Readers : Read(r)

Spec == Init /\ [][Next]_vars

\* A user who keeps refreshing, against an upstream that answers each request
\* in the end and answers the index properly if it is asked often enough.
PersistentUser ==
    \A p \in Refreshers :
        /\ WF_vars(Start(p))
        /\ WF_vars(Work(p))
        /\ SF_vars(IndexModified(p) \/ IndexNotModified(p))
PersistentSpec == Spec /\ PersistentUser

-----------------------------------------------------------------------------
(* Properties.                                                             *)

\* One process refreshes at a time (a killed one may be followed by the next).
OneRefresher == \A p, q \in Refreshers : p = q

\* Disks that satisfy TagCoversSpec and name a revision already published.
SoundDisks ==
    \A d \in InitialDisks : d.meta.st = "good" =>
        /\ d.meta.tag <= 1
        /\ d.spec.st = "good" =>
             \A s \in Services : d.spec.svc[s] = Failed \/ d.spec.svc[s] >= d.meta.tag

\* Disks without a directory others may read, without a meta file of another
\* version and without a meta file whose services are missing or damaged.
CleanStart ==
    \A d \in InitialDisks :
        /\ d.dir # "loose"
        /\ d.meta.st = "good" => d.meta.stamp = "current" /\ d.spec.st = "good"

AtLeast(svc, tag) == \A s \in Services : svc[s] = Failed \/ svc[s] >= tag

\* The validator never runs ahead of the copy it vouches for: no description
\* in apispace.json is older than the revision named by the stored ETag, so a
\* later 304 never confirms a stale copy.  It rests on the ETag being taken
\* before the walk and on apispace.json being renamed before its meta file,
\* through crashes and failed writes.  (fetch.go:64-94, refresh.go:90-104)
TagCoversSpec ==
    spec.st = "good" /\ meta.st = "good" => AtLeast(spec.svc, meta.tag)

\* A reader that overlaps a refresh may see the old meta file with the new
\* services, never the new meta file with old services: the reads are in the
\* opposite order of the renames.  (cache.go:45-52, refresh.go:90-104)
ReaderNotBehind ==
    \A r \in Readers : rpc[r] = "opened" => AtLeast(rsvc[r], rmeta[r].tag)

\* Once a cache opens it keeps opening: a reader that started on an openable
\* cache is never told there is no cache, that it is corrupt or insecure,
\* whatever refreshes overlap, fail or die.  (cache.go:38-57, refresh.go:78-108)
ReaderOpens ==
    \A r \in Readers : rpc[r] \in {"nocache", "corrupt", "perms"} => ~promised[r]

Acknowledged(p) == pc[p] # "ok" /\ pc'[p] = "ok"

\* The documented postcondition of Refresh: when it returns nil the cache opens
\* and its FetchedAt lies within the call.  (refresh.go:31-32)
RefreshPost ==
    [][\A p \in Refreshers :
         Acknowledged(p) => Openable' /\ meta'.at \in started[p]..clock]_vars

\* A refresh that returns nil leaves a meta file whose hash is that of the
\* services beside it, also when an earlier run died or failed between the two
\* renames: a torn pair is never vouched for by a 304.  (refresh.go:60-73, 133-145)
AckedPairMatches ==
    [][\A p \in Refreshers : Acknowledged(p) => meta'.hash = spec'.svc]_vars

\* "Non-nil, non-stale Querier" on nil (refresh.go:31), from any disk.
NilMeansOpenable ==
    [][\A p \in Refreshers : Acknowledged(p) => Openable']_vars

\* Once the upstream stops changing, a user who keeps refreshing ends up with,
\* and keeps, its last revision: no 304 freezes an older copy.  (fetch.go:64-70)
EventuallyCurrent ==
    <>[](spec.st = "good" /\ \A s \in Services : spec.svc[s] = head)
=============================================================================
