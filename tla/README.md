# Verification of ovh-cli

TLA+ modules that model the stateful parts of `ovh`, TLC configurations that
check them on small instances, and theorems checked by TLAPS. Paths below are
relative to the repository; `file.go:n` is a line of the Go source.

Run a model with `tlc -config <Run>.cfg <Module>` and the proofs with
`tlapm <Module>Proofs.tla` (`SchemaCacheProofs`,
`SchemaCacheRefinementProofs`, `SchemaFetchProofs`, `CredStoreProofs`,
`CredContractProofs`, `OAuthRefreshProofs`, `LoopbackProofs`, `CKFlowProofs`).

## 1. The system

Each `ovh` invocation is a short-lived operating-system process. There is no
daemon and no lock: processes share only files, the OS keyring and the provider.

| Component | State | Operations | Hard behaviour | What makes it correct |
|---|---|---|---|---|
| Schema cache (`internal/schema` cache.go, refresh.go) | `apispace.json`, `apispace.meta.json`, the mode of their directory | `Refresh`, `OpenCache` | two renames that are not atomic together; the 304 path; other processes; kills and failed writes; an upstream that changes during the walk | the ETag never vouches for older services; a cache that opens keeps opening; nil means usable; it ends up current |
| Schema fetch (fetch.go) | services map, mutex, errgroup's token channel and wait count, context | conditional index request, one goroutine per service | interleaving goroutines, cancellation, requests that are never answered | bounded requests, unshared map, complete map, a cancelled fetch returns |
| Schema queries (querier_impl.go, diff.go) | none (reads the opened cache) | `HasPath`, `Describe`, `Search`, `Compare` | a path declared by two services | sorted, complete, a partition |
| Credential store (`internal/auth` store.go, ovhconf.go, hostsyml.go, keyring.go) | the OVH_* variables, four places for ovh.conf, `hosts.yml`, the OS keyring | `LoadCredentials`, `StoreCredentials`, `DeleteCredentials` | three stores written one after another; read-modify-write by several processes; keyring failures; kills; first file read, third file written | round trip, deletion, isolation of regions and profiles, one source at a time |
| Loopback listener (oauth.go:65-156) | a channel of capacity one, the HTTP server | `Wait`, `Close`, the callback handler | callback, timeout, cancellation and close race | a sent result is returned at most once and never lost; nobody hangs |
| OAuth2 exchange and refresh (oauth.go:158-294) | singleflight group, the stored refresh token | `ExchangePKCE`, `RefreshOAuth2` | concurrent callers share a leader and its context; token rotation; lost answers and kills after the exchange; the store is shared with other profiles and processes | one exchange per process and key; the session survives unless somebody is told; nobody waits in vain |
| Consumer-key flow (flow.go) | deadline and delay of the polling loop, the timeout of its HTTP client | `RunConsumerKeyFlow` | backoff, deadline, cancellation, hung requests | ends, within a bound; a validation in time is seen |
| Regions and host checks (regions.go, fetch.go:164-182) | constant table | lookups | none | a pure function |
| Commands, exit codes, paths, version, completion | none | argument parsing, printing | none | - |

Interactions: `ovh schema refresh` calls `Refresh`, which calls `fetchAPISpace`
and then writes the two files; `show`, `path` and `diff` call `OpenCache`. The
context is that of `main` (SIGINT, SIGTERM). `RefreshOAuth2` loads and stores
through the credential store; `RunConsumerKeyFlow` and `ExchangePKCE` return what
their caller stores. Only a signal cancels; the HTTP clients of the schema fetch
and of the token exchange have no timeout.

## 2. The modules

| Module | What it is |
|---|---|
| `SchemaCache` | refreshing and opening processes over the two files, the directory and the upstream |
| `ValidatedCopy` | abstract: a copy of the upstream and a validator that never runs ahead of it |
| `SchemaCacheRefinement` | the mapping from `SchemaCache` to `ValidatedCopy` |
| `SchemaCacheProofs` | theorems about `SchemaCache` |
| `SchemaCacheRefinementProofs` | the refinement of `ValidatedCopy`, and that acknowledged pairs match |
| `SchemaFetch` | the goroutines of `fetchAPISpace` |
| `SchemaFetchProofs` | theorems about `SchemaFetch` |
| `ServiceWalk` | abstract: each entry is settled once, in some order; then the walk ends |
| `CredStore` | load, store and delete, step by step |
| `CredStoreProofs` | types of `CredStore`, and which variables each step touches |
| `CredContractProofs` | what load, store and delete promise: five theorems about `CredStore` |
| `OAuthRefresh` | extends `CredStore`: goroutines refresh sessions, the provider rotates tokens or not |
| `OAuthRefreshProofs` | theorems about `OAuthRefresh` |
| `CKFlow` | the consumer-key flow in seconds |
| `CKFlowProofs` | theorems about `CKFlow` |
| `Loopback` | the callback listener: handlers, `Wait`, `Close` |
| `LoopbackProofs` | theorems about `Loopback` |
| `MC*` | instances for TLC: initial disks, indexes, credential sets |

### SchemaCache

`dir`, `spec`, `meta` are the cache directory and its two files. A file is
absent, corrupt or good; a renamed file is never half-written (renameio), so
only the initial disks hold corrupt ones. A service is the number of the
upstream revision it was served at (0 for `Service{Error}`), an ETag the revision
it vouches for (0 for none), the hash of a set of services the set itself.

A refresher's `pc` follows refresh.go:60-73: `readTag` (`readPreviousETag`),
`index` (`getConditional`), `walk` (one `FetchService` or `ServiceFails` per
service, then `WalkEnds`), `mkdir200`/`mkdir304` (`MakeDir`), `writeSpec` and
`writeMeta` (`writeFresh`), `readMeta` and `bumpMeta` (`rewriteMetaFetchedAt`).
Every read of a file and every rename is an action, so other processes come
between any two. `Crash` kills a process anywhere; `Cancel` cancels its context.
A reader (`openCacheAt`) stats the directory, reads the meta file, then the
services. `Publish` is the provider changing its descriptions, `Tick` the clock.
`IndexCovers` says whether the ETag of the index changes with each description;
the code relies on it, and the runs that need it set it. Revisions and ETags only
grow: a provider that rolls its descriptions back to earlier ones, and sends the
ETag it sent then, is not represented. That is an assumption about the provider,
as the code compares ETags for equality and keeps no order of its own; under a
rollback "newer" has no meaning, and the order of revisions is what the properties
are stated with.

### SchemaFetch

The caller's loop (`Acquire` a token, `Launch` a goroutine), `Wait`, and for each
goroutine request, lock, write, unlock, release the token, decrement the wait
count. An index may list a path twice: the instance does. `SchemaFetch` is shown
to implement `ServiceWalk`, which is the walk that `SchemaCache` uses in place of
the goroutines (its service values forget how a request failed).

### CredStore

`near` stands for a file that loadDefaultConf finds before `xdg`, the one that is
always written; `far` for `/etc/ovh.conf`. `InProject` names the processes that
see `near`: with some of the processes it is a `./ovh.conf`, with all of them
`~/.ovh.conf`. One of each at once is not represented; the first would hide the
second. `hosts.yml` is good, absent, `loose` (others may access it) or `bad` (it
cannot be looked at, read or parsed): `Refused` says that no operation that opens
it gets past the last two, `Refusal` with which error. Every field is the number of
the credential set it was issued with, so a mixture of two sets is visible as one; `Placeholder` is `keyring:...`. Each
keyring call, each read and each rename is one action; keyring errors
(`KeyringFaults`), failed writes (`WriteFaults`) and kills (`Crashes`) can come at
each of them. `Envs` holds what the OVH_* variables of a load may be: each `ovh`
has an environment of its own, so a call brings it (`Brought`, `ReadEnv`), and
`LoadEnv` returns it before any file is read. `Loaded` is what a load returns when nothing else runs; the run
`CredSequence` checks that the step-by-step load agrees with it
(`LoadIsSnapshot`), and the other properties are stated with it. A file that is
absent is `NoConf` or `NoHosts`, which hold nothing: the assumption asks that of
the initial files, and the code never removes one.

### OAuthRefresh

The processes of `CredStore` become goroutines, grouped by `Process`. `at` says
where each one's `RefreshOAuth2` is: `load` (inside `LoadCredentials`), `endpoint`
(`resolveTokenEndpoint`), `exchange` (the request is on its way), `granted` (the
provider has answered, the answer is not there yet), `store` (inside
`StoreCredentials`), or `follow`: some goroutine of the same process `Leads` for
the same key and the result of `Land` is shared with all who follow it. Loads and
stores run through the actions of `CredStore` (`StoreStep`), so every keyring
call and rename of a refresh is a step here. `live` is the refresh token that the
provider accepts for a key. A provider that rotates (`rotates`, one of `Rotations`)
retires it with each `Grant` and issues the next, and `Refuse` turns an older one
down; another issues access tokens alone and goes on accepting the first refresh
token, which `Renewed` then leaves in the credentials (oauth.go:230-232). A request or its
answer may be lost, the leader's context cancelled (`ExchangeFails`), and `Kill` takes a process with all its
goroutines. Only a leader's context is ever looked at, so only a leader is
cancelled. A provider that handles a request only after its sender gave up is
`Grant` followed by `ExchangeFails`.

### CKFlow

`now` counts seconds from the start of the polling. A request takes one of
`Durations` or `limit`, the Timeout of the HTTP client at that moment: `Request`
sets it to go-ovh's default first, as `NewRequest` does, whatever the flow set.
The first signed request is preceded by `/auth/time` (`AuthTime`) until that has
succeeded once (`delta`). `Me` is answered by whether the user validated before
the server looked (any time within the request), or fails. The context may be
cancelled before the polling begins, at a prompt or during the first POST, which does
not look at it: the polling sees it at its first look. `Sleep` is lines
191-206: the deadline, then the context or the timer, whichever is first, then
the next delay. The instance has the real constants: 2 s, 30 s, 600 s, 10 s and 180 s.

### Loopback

`slot` is the channel of capacity one, `hpc` where each connection's goroutine is
(accepted, in `handleCallback` before or after its `select`, over), `wpc` where
each call to `Wait` is, with its timer and context, `once` and `cpc` `closeOnce`
and the calls to `Close`. `Accept`, `HeaderTimeout` and the wait of `Shutdown`
for open connections are net/http's. A `Wait` whose result, timer and context
are ready at once takes any of the three, as Go's `select` does. `sent`
remembers the callbacks whose send went through.

## 3. The runs

| Run | Module | Checks | Bounds |
|---|---|---|---|
| `RefreshAlone` | `MCSchemaCache` | `TypeOK`, `TagCoversSpec`, `ReaderNotBehind`, `AckedPairMatches`, `ImplementsValidatedCopy` | 1 refresher (again and again), 1 reader, 2 services, 3 revisions, 2 clock values, kills, failed writes, failing services, cancellation |
| `RefreshOverlap` | `MCSchemaCache` | `RefreshPost`, `ReaderOpens` | 2 refreshers, 1 reader, 1 service, 2 revisions, 2 clock values, kills, read and write faults |
| `RefreshConverges` | `MCSchemaCache` | `EventuallyCurrent` | 1 refresher, 2 services, 3 revisions |
| `Fetch` | `MCSchemaFetch` | `TypeOK`, `RequestsBounded`, `MapNotShared`, `WalkComplete`, `ImplementsWalk`, `CancelledFetchReturns` | 4 entries, one path twice, limit 2 |
| `CredSequence` | `MCCredStore` | `TypeOK`, `StoreRoundTrip`, `DeleteForgets`, `RegionIsolation`, `SessionIsolation`, `LoadIsSnapshot` | 1 process, 3 calls, 2 regions, 2 profiles, 3 credential sets, 2 environments, 12 starting points, all faults |
| `OAuthRefresh` | `MCOAuthRefresh` | `RefreshTypeOK`, `OneExchange`, `FollowersLed`, `SessionWhole`, `SessionKept`, `RefreshStored`, `FollowersReturn` | 2 goroutines of one process and 1 of another, 1 call each, 1 key, 2 sessions after the first, a provider that rotates with either storage mode and one that does not with `storage=file`, all faults |
| `CKFlow` | `MCCKFlow` | `TypeOK`, `Overrun`, `CancelSeen`, `ValidationSeen`, `FlowEnds` | the real constants; requests of 0, 1, 179 and 180 s; 5 times of cancellation, 6 of validation |
| `LoopbackRaces` | `MCLoopback` | `TypeOK`, `Conserved`, `QuietAfterClose`, `CallbackAnswered`, `WaitReturns`, `CloseReturns` | 2 callbacks, 2 calls to `Wait`, 2 to `Close` |

Why these bounds. One process per role is enough for a property of one
refresher; two refreshers and a reader give every overlap of two renames with two
reads and of two read-modify-writes. Three revisions allow one change between
the ETag and the walk and another between two services of it. Two clock values
tell a date inside the call from one before it. A limit of two with four
entries makes the loop wait for a token while goroutines wait for the mutex.
Three calls are the shortest sequence with a state left by an earlier call, an
operation that fails half-way, and one that comes back to it; two regions and two
profiles give one of each that must not change.
Two callbacks fill the channel and find it full; two calls to `Wait` compete, or one
follows one that gave up; two calls to `Close` meet in `closeOnce`.
In `OAuthRefresh` one call each is enough for a retry: the second goroutine may
call after the first has failed; two rotations let a second refresh build on
the session of a first, and a third goroutine hold a retired token. The combination
of a provider that does not rotate with `storage=keyring` is left out
(`CONSTRAINT Instance`), for time alone: 244,000 states take two minutes and a
half. The constraint speaks of the initial state only (neither variable it
names ever changes), so it cuts no behaviour short, and the liveness property is
not affected.
In `CKFlow` `now` needs no bound: the loop ends by its deadline. Durations just
below the timeout and times around the deadline reach both bounds exactly.

`RefreshAlone` starts from a missing, an empty or a filled directory, from a
first refresh that died between its renames, from a meta file that does not
parse and from a file in place of the directory. `CredSequence` starts with
nothing, with a hand-written `/etc/ovh.conf`, with an ovh.conf of the user that does
not parse, with a file of the project in which the process runs, each with no
`hosts.yml`, one that others may read or one that does not parse; the properties
speak of loads from inside the project and from outside; the three sets are a
classic one, an OAuth2 client with its session, and a session without a client,
as `ExchangePKCE` returns it. `OAuthRefresh` starts after a login, with the
session in the files and `storage` either `file` or, changed since, `keyring`.

Fairness. `EventuallyCurrent` assumes `PersistentUser`: the user keeps running
`ovh schema refresh`, steps of a running process are taken, and an upstream that
is asked again and again answers the index properly in the end. Kills, faults,
cancellation and failing services are switched off there: nothing in the code
retries, and a service that failed stays failed until the ETag changes.
`CancelledFetchReturns` assumes only that the Go scheduler runs what can run and
that a request whose context is cancelled ends; a request nobody cancels may
never be answered, as the client has no timeout (fetch.go:54).
`CallbackAnswered`, `WaitReturns` and `CloseReturns` assume that runnable goroutines
run, that a header arrives or its timeout ends the connection, and that timers
fire (oauth.go:109-112 caps them); no one has to call, connect or cancel.
`FollowersReturn` assumes that goroutines run and that a request whose context is
cancelled ends; the provider may never answer (the exchange has no timeout), so
without a cancellation nothing is promised. `FlowEnds` assumes that requests end
by the client's timeout and that timers fire; prompts and the first POST, which
has no timeout, may last for ever, so the property begins with the polling.

Runs that expect a violation show where the code and a statement about it part:

| Run | Statement | What happens |
|---|---|---|
| `CodeNilOpenable` | refresh.go:31 "nil error => OpenCache(region) returns a non-nil, non-stale Querier" | on 304 only the meta file is looked at: apispace.json may be missing or damaged, the version old, the directory loose |
| `CodeCancelledFetch` | fetch_test.go:145 "fetch should fail on cancelled ctx" | a cancellation during the walk yields a successful fetch of failed services, which replaces the cache |
| `CodeRefreshLost` | oauth.go:189 "Idempotent; safe to call concurrently", 03-auth.md:227 "Returned Credentials supersedes the previously stored value" | refreshes of two profiles both rewrite hosts.yml as they read it; the later write brings a retired refresh token back |
| `CodeHungCall` | flow.go:177-178 "We add a per-call timeout so a hung /auth/time or /me doesn't block the polling loop's ctx-check" | go-ovh overwrites the 10 s by its own 180 s before each request |

Met while modelling, and outside what the runs assume:

- refresh.go:33-34 says that after an error the cached files are unchanged; when
  the second rename fails the first file is already replaced. The schema hash is
  never compared when a cache is opened (errors.go:12-13 names a mismatch among
  the reasons for `ErrCacheCorrupt`). Two overlapping refreshes may leave the
  services of one with the ETag of the other, which is why `TagCoversSpec` and
  `ReaderNotBehind` are stated for one refresher at a time.
- A nearer ovh.conf is read and the XDG one written (03-auth.md:164-165 promises
  that the next load returns what was stored); the write also replaces the whole
  XDG file by a copy of the nearer one. So the statements about the store are
  weaker there: a load that sees the nearer file need not return what was stored
  (`StoreRoundTrip`), a delete that sees one may forget nothing (`DeleteForgets`), and
  an operation on one region from inside a project may change what the others load
  outside it (`RegionIsolation`). A keyring that fails at the second secret
  leaves the first one replaced (ovhconf.go:156-157 says the previous state
  stands). OAuth2 credentials stored without a session leave an earlier session
  in `hosts.yml` (store.go:132). A delete removes the section that all profiles
  share (store.go:143-147 announces it, 03-auth.md:175-177 says otherwise) and
  ignores keyring errors. Two processes that store at once lose one region's
  section (03-auth.md:16). With `storage=keyring` a load that overlaps a store
  may mix two sets, which is why `SessionWhole` speaks of `storage=file`.
- A delete that overlaps a refresh is undone by the refresh's store. With an
  OAuth2 client in the OVH_* variables `RefreshOAuth2` finds no refresh token and
  reports expired credentials, whatever session is stored. A follower's own
  cancellation does not release it.
- A second `Wait` may return a second callback (oauth.go:107 says it returns an
  error), and with the context cancelled and the timer fired `Wait` returns either
  error (03-auth.md:209-211 gives the context precedence).

## 4. The proofs

`SchemaCacheProofs` proves, for any sets of processes and services, any number of
revisions and clock values, and any combination of faults:

- `TypeCorrect`: `Spec => []TypeOK`, with no assumption but `CacheAssumption`.
- `ValidatorCovers` and `ReadersCovered`: with one refresher at a time
  (`OneRefresher`) and initial disks that satisfy it (`SoundDisks`),
  `TagCoversSpec` and `ReaderNotBehind` hold always. Neither is inductive. `VInv`
  adds what makes them so: the ETag a refresher carries is not newer than any
  service it has fetched; between the renames the services on disk are its own,
  at least as new as its ETag; on the 304 path the ETag it will write is the one
  already on disk; what a reader holds of the meta file is not newer than the
  services still on disk. The assumption on one refresher is needed: the formulas
  are false without it.
- `RefreshContract` and `KeepsOpening`: from disks of `CleanStart` (no directory
  others may read, no meta file of another version, no meta file without
  services), for any number of overlapping refreshers, `RefreshPost` and
  `ReaderOpens` hold. `OInv` adds that a good meta file is current and comes with
  good services, that a process about to write has made the directory, carries a
  date within its call, and that a promised reader still has an openable cache
  before it.

`LeaveType` and `Blank` are the lemmas on a process that leaves. Each step lemma has
one case per action of `Next`.

`SchemaCacheRefinementProofs` builds on `VInv`:

- `PairsMatch`: `AckedPairMatches`. Kills and failed writes do leave services
  beside a meta file of others; the question is why a later 304 never confirms
  them. `PairInv` says that the tag of such a pair is older than the upstream's,
  since services are only replaced after a 200 answer, which means that the
  stored tag, which was read, is not the upstream's any more. So the next answer
  is a 200 again, and the pair is replaced. It assumes `OneRefresher` and
  `~ReadFaults`: with two refreshers, or a meta file that exists and cannot be
  read, a torn pair may carry the current tag, and TLC finds the counterexample
  to each. `MatchedDisks` asks the same of the initial disks.
- `CacheIsValidatedCopy`: `Spec => ImplementsValidatedCopy`. `WriteSpec` is the
  installation (`InstallStep`), `WriteMeta` and `BumpMeta` vouch (`VouchStep`), a
  reader begins at the meta file and is served at the services (`ReaderStep`), and
  every other step is a stutter (`SilentStep`). The revision of the copy is that of
  the oldest service on disk, a minimum over any set of services, finite or not,
  which exists because revisions are natural numbers (`LeastExists`). `NewerInv` says that the
  tag being written is never older than the one on disk; it needs an upstream that
  sends ETags (`Tagged`), as without one the tag falls back to none. `PairedDisks`
  excludes initial disks with a meta file alone, whose tag would vouch for no copy
  at all.

`CredStoreProofs` proves `StoreTypeCorrect` for any processes, regions, profiles
and credential sets. It needs `Index`: only inside a loop over fields is the index
past the first, and never past the last. The lemmas after it (`OthersKept`,
`ConfSecretIs`, `Writes` and their like) say what each step changes and what it
leaves alone; `CredContractProofs` and `OAuthRefreshProofs` rest on them.

`CredContractProofs` proves the five contracts of the credential store, with
keyring failures, failed writes and kills at every step:

- `DeleteContract`: `DeleteForgets`, for any number of processes. The file that a
  delete writes last has no section for its region, whatever others write
  meanwhile (`DeleteInv`).
- `StoreContract`: `StoreRoundTrip`. `RoundInv` follows a store from field to field:
  the fields behind it are in the file it prepares, or in the keyring with a
  placeholder in that file, and the XDG file it has already renamed still says so
  while it writes the session.
- `LoadContract`: `LoadIsSnapshot`. `SnapshotInv` says that what a load has read so
  far is what one look at the files and the keyring gives, with the outcome of each
  failure.
- `SessionContract` and `RegionContract`: `SessionIsolation` and `RegionIsolation`.
  What a call is about to rename into place agrees, outside its own region and
  profile, with what it replaces (`SessionInv`, `RegionInv`).

Their hypotheses. `DeleteContract` has none. `OneProcess` (the others): two processes
that read, modify and write the same file lose each other's changes, as section 3
lists. No theorem excludes a nearer file: the properties themselves say what it
spoils (`Shadowed`). `CompleteSets` (`StoreContract`): an OAuth2 set without a session leaves an earlier one in
`hosts.yml`, so it would not be what the next load returns; the sets that the two
login flows and a refresh store all satisfy it. The instance of `CredSequence`
satisfies both (`ContractInstance` in `MCCredStore`).

`LoopbackProofs` proves, for any number of connections and calls:

- `LoopbackTypeCorrect`: `TypeOK`, from `OnceInv`, which adds that `closeOnce` lets
  one call in and that the listener closes with it.
- `ResultConserved`: `Conserved`, from `SentOnce`: a handler sends once, what is in
  the channel was sent, and a `Wait` still in its `select` holds no result.
- `CloseIsQuiet`: `QuietAfterClose`, from `OnceInv`.

`SchemaFetchProofs` proves, for every index (with repeated paths) and every limit,
`FetchTypeCorrect`, `FanOutBounded`, `MapOwned` and `WalkCovers`: the four
invariants of the run `Fetch`. The inductive `Inv` says that the tokens in the
channel are the goroutines that hold one, plus one between `Acquire` and `Launch`
(`Tokens`); that the wait count is the number of goroutines at work (`Count`);
that goroutines are started in order and a returned walk has none left
(`Control`); who owns the mutex (`Mutex`); and that a goroutine past its write has
an entry in the map (`Kept`). None of the four is inductive alone: the type of
`sem` already needs `Tokens`. `MoveCounts` is the lemma on cardinalities. `WalkRefined`
proves the refinement, `ImplementsWalk`: under `Inv` the write of a goroutine is
`Settle`, the return of `Wait` is `End`, and every other step is a stutter
(`WalkStep`).

`OAuthRefreshProofs` proves, for any goroutines, processes, regions and profiles,
with every fault:

- `ExchangesCoalesced`: `OneExchange`. It follows from `OneLeader`: of the callers
  for a key in one process one flies, from its load to the end of its store.
- `NoneLeftBehind`: `FollowersLed`, inductive together with `OneLeader` (were there
  two leaders, the landing of one could strand the followers of the other).

`CredStore`'s steps leave the variables of these two alone, so its own invariants
are not needed for them. The lemmas `AdvanceKeeps`, `LandKeeps`, `RefreshKeeps` and
`KillKeeps` are the four ways the variables change.

- `RefreshTypeCorrect`: `RefreshTypeOK`, which says besides the types that a refresh
  past its load has a refresh token in hand until it is stored. It follows from
  `RefreshInv`, which adds the types of the store and that a goroutine between its
  load and its store, or one that follows, is at rest in the store: `Answer` may
  then start a store for it, and nothing else touches what it carries.
- `NoMixedSession`: `SessionWhole`, for any goroutines and processes that also
  store, load and delete. `FilesInv` says that hosts.yml holds whole sessions only;
  that the one a store prepares is whole but for the tokens still to come; that a
  load has its copy of the whole file; and that where tokens go is settled by the
  `storage` of the first ovh.conf at the start, as every write of that file keeps
  it. With a provider that does not rotate, whole means that the access token and
  the expiry are of one session (`Unmixed`); the refresh token is the first one's.
  The mode never changes (`ModeKept`), so the lemmas take it as a constant. It assumes `OutsideProjects` (a near file could say otherwise) and
  `WholeStart`: the sessions of the initial hosts.yml and of callers are no
  mixtures themselves (`SessionInstance` in `MCOAuthRefresh`).

`CKFlowProofs` proves, for any intervals, timeouts, durations and times that
satisfy `FlowAssumption`, `FlowTypeCorrect`, `FlowBounded`, `FlowCancelled` and
`FlowSeesValidation`, from `FlowInv`, which bounds `now` at each step of the loop by the deadline or the
cancellation and the requests since.

Every invariant that a run checks is stated by a theorem. Model-checked only:
liveness (`EventuallyCurrent`, `CancelledFetchReturns`, `FollowersReturn`, `FlowEnds`
and the three of `Loopback`), which is out of the prover's reach, and the action
properties `SessionKept` and `RefreshStored` of `OAuthRefresh`.

## 5. What is not modelled

Host allowlist and region table (pure checks on constants; their verdicts are
choices where a model meets them), the schema queries (read-only functions over
services that nothing changes), printing and argument
parsing, path construction, PKCE and state generation, hand-edited placeholders that name another
entry, secrets that begin with `keyring:`, file modes of ovh.conf (renameio keeps
the mode of an existing file). A kill of the machine as opposed to the process is
not distinguished: renameio syncs the file before the rename. `account`,
`last_validated_at` and `scopes_granted` in hosts.yml are carried along and
never set.

## 6. Plan

In this order:

1. `SchemaCache`, its abstraction and proofs; `SchemaFetch` and its proofs;
   `CredStore`; `Loopback` and its proofs (done).
2. `OAuthRefresh`, extending `CredStore`, and the proof of its coalescing (done).
3. `CKFlow` and its proofs (done).
4. Proofs: types and contracts of `CredStore`; `AckedPairMatches` and the
   refinement of `ValidatedCopy`; types of `OAuthRefresh` and `SessionWhole` (done).
5. Proofs of `RefreshStored` and `SessionKept`: the loads and stores of a refresh
   are those of `CredStore`, so `RoundInv` and `SnapshotInv` carry over for one
   process; with several, both need to say which write of hosts.yml came last.
