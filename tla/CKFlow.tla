------------------------------- MODULE CKFlow -------------------------------
(***************************************************************************)
(* The consumer-key flow (internal/auth/flow.go): ask for the application  *)
(* keys, request a consumer key, open its validation page, and poll /me    *)
(* until the user has validated it, the context is cancelled or time is up.*)
(*                                                                         *)
(* `now` counts the seconds since the polling began; what comes before is  *)
(* over at 0, and so is a cancellation before it.  Each request takes one  *)
(* of Durations or runs into the HTTP client's timeout.                    *)
(***************************************************************************)
EXTENDS Naturals

CONSTANTS
    PollInterval, MaxPollInterval, FlowTimeout,
    CallTimeout,       \* the timeout pollUntilValidated gives the HTTP client
    DefaultTimeout,    \* go-ovh's own
    Durations,         \* how long requests take that are answered or fail
    CancelTimes,       \* when the context may be cancelled
    ValidTimes         \* when the user may validate the key

ASSUME FlowAssumption ==
    /\ {PollInterval, FlowTimeout, CallTimeout, DefaultTimeout} \subseteq Nat \ {0}
    /\ MaxPollInterval \in Nat /\ PollInterval <= MaxPollInterval
    /\ Durations \subseteq Nat /\ CancelTimes \subseteq Nat /\ ValidTimes \subseteq Nat

VARIABLES
    step, result,
    now, cancelAt, validAt,
    delay,             \* before the next poll
    limit,             \* the Timeout of client.Client
    delta,             \* has go-ovh learnt the server's time
    refused            \* did the last poll fail because the key is not validated

clock  == <<cancelAt, validAt>>
poll   == <<delay, limit, delta, refused>>
vars   == <<step, result, now, clock, poll>>

\* The delay never leaves its two bounds.
TypeOK ==
    /\ step \in {"ask", "askAgain", "post", "open", "time", "me", "failed", "done"}
    /\ result \in {"none", "ok", "error", "timedout", "cancelled"}
    /\ now \in Nat /\ cancelAt \in CancelTimes /\ validAt \in ValidTimes
    /\ delay \in PollInterval..MaxPollInterval
    /\ limit \in {CallTimeout, DefaultTimeout}
    /\ delta \in BOOLEAN /\ refused \in BOOLEAN

Init ==
    /\ step = "ask" /\ result = "none"
    /\ now = 0 /\ cancelAt \in CancelTimes /\ validAt \in ValidTimes
    /\ delay = PollInterval /\ limit = CallTimeout
    /\ delta = FALSE /\ refused = FALSE

Finish(r) == step' = "done" /\ result' = r
Goto(s)   == step' = s /\ UNCHANGED result

-----------------------------------------------------------------------------
(* RunConsumerKeyFlow.                                                     *)

\* Both keys, none of them (the portal is opened and the user asked once more),
\* or an error: of the prompt, of the browser, or because one key is missing.
Ask ==
    /\ step \in {"ask", "askAgain"}
    /\ \/ Goto("post")
       \/ step = "ask" /\ Goto("askAgain")
       \/ Finish("error")
    /\ UNCHANGED <<now, clock, poll>>

\* POST /auth/credential, under the caller's context: it may fail, and does when
\* the context is cancelled before its answer.  A cancellation after that, while
\* the page is opened, is first seen by the polling.
Post ==
    /\ step = "post"
    /\ Goto("open") \/ Finish("error")
    /\ UNCHANGED <<now, clock, poll>>

\* The host of the validation page is checked and the page opened; go-ovh's
\* client is built.
Open ==
    /\ step = "open"
    /\ Goto("time") \/ Finish("error")
    /\ UNCHANGED <<now, clock, poll>>

-----------------------------------------------------------------------------
(* pollUntilValidated: client.Get("/me").                                  *)

\* go-ovh's NewRequest sets the client's timeout, then the request is sent.
Request(d) ==
    /\ limit' = DefaultTimeout
    /\ (d \in Durations /\ d < limit') \/ d = limit'
    /\ now' = now + d

\* The first signed request asks for the server's time.
AuthTime == \E d \in Durations \cup {DefaultTimeout} :
    /\ step = "time"
    /\ Request(d)
    /\ \/ d < limit' /\ Goto("me") /\ delta' = TRUE
       \/ Goto("failed") /\ UNCHANGED delta
    /\ refused' = FALSE
    /\ UNCHANGED <<clock, delay>>

\* Answered by whether the key was validated when the server looked, or failed.
Me == \E d \in Durations \cup {DefaultTimeout} :
    /\ step = "me"
    /\ Request(d)
    /\ \/ d < limit' /\ validAt <= now' /\ Finish("ok") /\ UNCHANGED refused
       \/ d < limit' /\ validAt > now /\ Goto("failed") /\ refused' = TRUE
       \/ Goto("failed") /\ refused' = FALSE
    /\ UNCHANGED <<clock, delay, delta>>

TimedOut  == now > FlowTimeout /\ Finish("timedout") /\ UNCHANGED <<now, poll>>
Cancelled ==
    /\ now <= FlowTimeout /\ cancelAt <= now + delay
    /\ now' = IF cancelAt < now THEN now ELSE cancelAt
    /\ Finish("cancelled") /\ UNCHANGED poll
Again ==
    /\ now' = now + delay
    /\ delay' = IF delay < MaxPollInterval /\ 2 * delay <= MaxPollInterval
                THEN 2 * delay ELSE MaxPollInterval
    /\ Goto(IF delta THEN "me" ELSE "time")
    /\ UNCHANGED <<limit, delta, refused>>
Elapsed == now <= FlowTimeout /\ now + delay <= cancelAt /\ Again

\* Mutants: the wait does not look at the context; it waits for nothing else;
\* no poll starts that could end after the deadline; the delay is not capped;
\* the deadline is looked at only when the server has refused.
SleepDeaf == step = "failed" /\ UNCHANGED clock
    /\ (TimedOut \/ (now <= FlowTimeout /\ Again))
SleepForever == step = "failed" /\ UNCHANGED clock /\ (TimedOut \/ Cancelled)
SleepCautious == step = "failed" /\ UNCHANGED clock
    /\ \/ now + delay + limit > FlowTimeout /\ Finish("timedout") /\ UNCHANGED <<now, poll>>
       \/ Cancelled
       \/ now + delay + limit <= FlowTimeout /\ Elapsed
SleepUncapped == step = "failed" /\ UNCHANGED clock
    /\ \/ TimedOut \/ Cancelled
       \/ /\ now <= FlowTimeout /\ now + delay <= cancelAt
          /\ now' = now + delay /\ delay' = 2 * delay
          /\ Goto(IF delta THEN "me" ELSE "time") /\ UNCHANGED <<limit, delta, refused>>
SleepOnError == step = "failed" /\ UNCHANGED clock
    /\ \/ refused /\ TimedOut
       \/ Cancelled \/ Elapsed
       \/ ~refused /\ now \in FlowTimeout..2*FlowTimeout /\ now + delay <= cancelAt /\ Again

\* After a failed call: the deadline, then the wait for the context or the
\* delay, whichever is first.
Sleep ==
    /\ step = "failed"
    /\ TimedOut \/ Cancelled \/ Elapsed
    /\ UNCHANGED clock

-----------------------------------------------------------------------------
Poll == AuthTime \/ Me \/ Sleep
Next == Ask \/ Post \/ Open \/ Poll

\* Requests end, by their timeout at the latest, and timers fire; nobody has to
\* answer a prompt, and the POST has no timeout.
Spec == Init /\ [][Next]_vars /\ WF_vars(Poll)

-----------------------------------------------------------------------------
(* Properties.                                                             *)

\* The deadline is looked at only after a failed call, so the flow may outlast
\* it: by the last wait and by two requests, never more.  (flow.go:183-207)
Overrun == now <= FlowTimeout + MaxPollInterval + 2 * DefaultTimeout

\* A cancelled flow returns before it sends a third request, within the two
\* timeouts of go-ovh.  (flow.go:187, 196-199)
CancelSeen == step # "done" => now <= cancelAt + 2 * DefaultTimeout

\* A flow that ends as timed out on a refusal has not overlooked a validation:
\* the user validated too late for the last request before the deadline to be
\* answered after it.  (flow.go:187-206)
ValidationSeen ==
    result = "timedout" /\ refused => validAt + DefaultTimeout > FlowTimeout

\* Once the polling has begun the flow ends, although the user never validates
\* and nobody cancels.  (flow.go:183-207)
FlowEnds == step = "time" ~> step = "done"

\* "We add a per-call timeout so a hung /auth/time or /me doesn't block the
\* polling loop's ctx-check" (flow.go:177-178): two calls, each within the timeout
\* set there.
HungCallBounded == step # "done" => now <= cancelAt + 2 * CallTimeout
=============================================================================
