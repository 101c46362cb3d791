---------------------------- MODULE SchemaFetch ----------------------------
(***************************************************************************)
(* fetchAPISpace (internal/schema/fetch.go): the conditional request for   *)
(* the index, then one goroutine per entry under an errgroup whose limit   *)
(* is a channel of tokens.  The goroutines share the services map behind a *)
(* mutex and the context behind no lock at all.                            *)
(*                                                                         *)
(* A goroutine is the entry of the index it fetches.  A services value is  *)
(* how its request ended: "ok", "failed" (an HTTP or decoding error) or    *)
(* "cut" (the context was cancelled); the last two are both stored as      *)
(* Service{Error: ...}.                                                    *)
(***************************************************************************)
EXTENDS Naturals, Sequences, FiniteSets

CONSTANTS
    Index,      \* the paths listed by the index, in order
    Limit       \* maxConcurrentServiceFetches

Entries  == DOMAIN Index
Paths    == {Index[i] : i \in Entries}
Outcomes == {"ok", "failed", "cut"}
Nobody   == 0

ASSUME FetchAssumption == Limit \in Nat \ {0} /\ Index \in Seq(Paths)

VARIABLES
    caller,      \* where the calling goroutine is
    spawned,     \* number of goroutines it has launched
    sem,         \* tokens in the errgroup's channel
    wg,          \* the errgroup's wait count
    mu,          \* the entry whose goroutine holds the mutex, or Nobody
    gpc,         \* each goroutine: where it is
    resp,        \* each goroutine: how its request ended
    services,    \* the shared map
    cancelled,   \* is the caller's context cancelled
    result       \* what fetchAPISpace returned

group == <<sem, wg>>
vars  == <<caller, spawned, group, mu, gpc, resp, services, cancelled, result>>

Places == {"unborn", "request", "lock", "write", "unlock", "release", "done", "gone"}

TypeOK ==
    /\ caller \in {"index", "spawn", "launch", "wait", "returned"}
    /\ spawned \in 0..Len(Index)
    /\ sem \in 0..Limit
    /\ wg \in 0..Len(Index)
    /\ mu \in Entries \cup {Nobody}
    /\ gpc \in [Entries -> Places]
    /\ resp \in [Entries -> Outcomes \cup {"none"}]
    /\ services \in [Paths -> Outcomes \cup {"none"}]
    /\ cancelled \in BOOLEAN
    /\ result \in {"none", "error", "notmodified", "modified"}

Init ==
    /\ caller = "index"
    /\ spawned = 0
    /\ sem = 0 /\ wg = 0 /\ mu = Nobody
    /\ gpc = [i \in Entries |-> "unborn"]
    /\ resp = [i \in Entries |-> "none"]
    /\ services = [q \in Paths |-> "none"]
    /\ cancelled = FALSE
    /\ result = "none"

-----------------------------------------------------------------------------
(* The calling goroutine.                                                  *)

Return(r) == caller' = "returned" /\ result' = r

\* The index cannot be had, or the context is cancelled before it arrives.
IndexFails ==
    /\ caller = "index"
    /\ Return("error")
    /\ UNCHANGED <<spawned, group, mu, gpc, resp, services, cancelled>>

IndexNotModified ==
    /\ caller = "index" /\ ~cancelled
    /\ Return("notmodified")
    /\ UNCHANGED <<spawned, group, mu, gpc, resp, services, cancelled>>

IndexModified ==
    /\ caller = "index" /\ ~cancelled
    /\ caller' = "spawn"
    /\ UNCHANGED <<spawned, group, mu, gpc, resp, services, cancelled, result>>

\* Mutant: the limit is never set.
AcquireAlways ==
    /\ caller = "spawn" /\ spawned < Len(Index)
    /\ sem' = sem + 1
    /\ caller' = "launch"
    /\ UNCHANGED <<spawned, wg, mu, gpc, resp, services, cancelled, result>>

\* Group.Go puts a token into the channel; it blocks while the channel is full.
Acquire ==
    /\ caller = "spawn" /\ spawned < Len(Index)
    /\ sem < Limit
    /\ sem' = sem + 1
    /\ caller' = "launch"
    /\ UNCHANGED <<spawned, wg, mu, gpc, resp, services, cancelled, result>>

\* Group.Go counts the goroutine and starts it.
Launch ==
    /\ caller = "launch"
    /\ wg' = wg + 1
    /\ spawned' = spawned + 1
    /\ gpc' = [gpc EXCEPT ![spawned + 1] = "request"]
    /\ caller' = "spawn"
    /\ UNCHANGED <<sem, mu, resp, services, cancelled, result>>

AllLaunched ==
    /\ caller = "spawn" /\ spawned = Len(Index)
    /\ caller' = "wait"
    /\ UNCHANGED <<spawned, group, mu, gpc, resp, services, cancelled, result>>

\* Mutant: the group is not waited for.
WaitNot ==
    /\ caller = "wait"
    /\ Return("modified")
    /\ UNCHANGED <<spawned, group, mu, gpc, resp, services, cancelled>>

\* Group.Wait; no goroutine ever returns an error, so it returns nil.
Wait ==
    /\ caller = "wait" /\ wg = 0
    /\ Return("modified")
    /\ UNCHANGED <<spawned, group, mu, gpc, resp, services, cancelled>>

\* The caller's context is cancelled.
Cancel ==
    /\ ~cancelled /\ caller # "returned"
    /\ cancelled' = TRUE
    /\ UNCHANGED <<caller, spawned, group, mu, gpc, resp, services, result>>

-----------------------------------------------------------------------------
(* The goroutine of entry i.                                               *)

Move(i, from, to) == gpc[i] = from /\ gpc' = [gpc EXCEPT ![i] = to]

\* getJSON is answered, for good or ill.
Answered(i) ==
    /\ Move(i, "request", "lock")
    /\ ~cancelled
    /\ \E o \in {"ok", "failed"} : resp' = [resp EXCEPT ![i] = o]
    /\ UNCHANGED <<caller, spawned, group, mu, services, cancelled, result>>

\* getJSON gives up because the context is cancelled.
GivesUp(i) ==
    /\ Move(i, "request", "lock")
    /\ cancelled
    /\ resp' = [resp EXCEPT ![i] = "cut"]
    /\ UNCHANGED <<caller, spawned, group, mu, services, cancelled, result>>

\* Mutant: the map is written without the mutex.
LockNot(i) ==
    /\ Move(i, "lock", "write")
    /\ mu' = i
    /\ UNCHANGED <<caller, spawned, group, resp, services, cancelled, result>>

Lock(i) ==
    /\ Move(i, "lock", "write")
    /\ mu = Nobody
    /\ mu' = i
    /\ UNCHANGED <<caller, spawned, group, resp, services, cancelled, result>>

\* Mutant: a failed service is left out of the map.
WriteOkOnly(i) ==
    /\ Move(i, "write", "unlock")
    /\ services' = IF resp[i] = "ok" THEN [services EXCEPT ![Index[i]] = "ok"] ELSE services
    /\ UNCHANGED <<caller, spawned, group, mu, resp, cancelled, result>>

\* The description or the error is stored under the path.
Write(i) ==
    /\ Move(i, "write", "unlock")
    /\ services' = [services EXCEPT ![Index[i]] = resp[i]]
    /\ UNCHANGED <<caller, spawned, group, mu, resp, cancelled, result>>

\* Mutant: the mutex is not released on the error path.
UnlockOnSuccess(i) ==
    /\ Move(i, "unlock", "release")
    /\ mu' = IF resp[i] = "ok" THEN Nobody ELSE mu
    /\ UNCHANGED <<caller, spawned, group, resp, services, cancelled, result>>

Unlock(i) ==
    /\ Move(i, "unlock", "release")
    /\ mu' = Nobody
    /\ UNCHANGED <<caller, spawned, group, resp, services, cancelled, result>>

\* Group.done takes a token out ...
Release(i) ==
    /\ Move(i, "release", "done")
    /\ sem' = sem - 1
    /\ UNCHANGED <<caller, spawned, wg, mu, resp, services, cancelled, result>>

\* ... and counts the goroutine as finished.
Done(i) ==
    /\ Move(i, "done", "gone")
    /\ wg' = wg - 1
    /\ UNCHANGED <<caller, spawned, sem, mu, resp, services, cancelled, result>>

-----------------------------------------------------------------------------
CallerStep  == Acquire \/ Launch \/ AllLaunched \/ Wait
IndexAnswer == IndexFails \/ IndexNotModified \/ IndexModified
LocalStep(i) == GivesUp(i) \/ Lock(i) \/ Write(i) \/ Unlock(i) \/ Release(i) \/ Done(i)

Finished == caller = "returned" /\ UNCHANGED vars

Next == \/ CallerStep \/ IndexAnswer \/ Cancel \/ Finished
        \/ \E i \in Entries : Answered(i) \/ LocalStep(i)

Spec == Init /\ [][Next]_vars

\* The scheduler runs every goroutine that can run; a request is sure to end
\* only after the context is cancelled.
LocalFairness == /\ WF_vars(CallerStep)
                 /\ WF_vars(cancelled /\ IndexFails)
                 /\ \A i \in Entries : WF_vars(LocalStep(i))
LiveSpec == Spec /\ LocalFairness

-----------------------------------------------------------------------------
(* Properties.                                                             *)

\* Never more than Limit service requests are in flight: the bound holds for
\* requests although a goroutine outlives its request by its wait for the
\* mutex.  (fetch.go:15-16, 76; errgroup.go:73-75)
RequestsBounded == Cardinality({i \in Entries : gpc[i] = "request"}) <= Limit

\* The services map is never touched by two goroutines at once, nor read by the
\* caller while a goroutine may still write it (Go aborts the program on a
\* concurrent map access).  (fetch.go:72-89, 92-105)
MapNotShared ==
    /\ \A i, j \in Entries :
         gpc[i] \in {"write", "unlock"} /\ gpc[j] \in {"write", "unlock"} => i = j
    /\ result = "modified" => \A i \in Entries : gpc[i] \notin {"lock", "write"}

\* A walk that returns has an entry, description or error, for every listed
\* path.  (fetch.go:72-94)
WalkComplete == result = "modified" => \A q \in Paths : services[q] # "none"

\* Cancelling the context ends the fetch, whatever the number of goroutines that
\* wait for a token, for the mutex or for an answer.  (fetch.go:75-94)
CancelledFetchReturns == cancelled ~> caller = "returned"

\* The walk ends the fetch's other phases aside: it settles each entry once and
\* returns when all are settled.  (fetch.go:72-106)
Walk == INSTANCE ServiceWalk WITH
            todo  <- {i \in Entries : gpc[i] \in {"unborn", "request", "lock", "write"}},
            got   <- services,
            ended <- result = "modified"
ImplementsWalk == Walk!Spec

\* "fetch should fail on cancelled ctx" (fetch_test.go:145): a fetch that returns
\* without an error contains no service whose request the cancellation cut off.
CancelledFetchFails ==
    result = "modified" => \A q \in Paths : services[q] # "cut"
=============================================================================
