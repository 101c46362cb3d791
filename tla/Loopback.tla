------------------------------ MODULE Loopback ------------------------------
(***************************************************************************)
(* LoopbackServer (internal/auth/oauth.go): the listener that captures the *)
(* OAuth2 callback.  net/http runs each connection in a goroutine of its   *)
(* own; the handler hands its result to Wait through a channel of capacity *)
(* one, without ever blocking.  Wait and Close may be called by several    *)
(* goroutines, and Wait again after it gave up.                            *)
(*                                                                         *)
(* A callback is the connection that carries it; whether it holds a code   *)
(* or an error makes no difference to what happens to it.  A connection    *)
(* kept alive carries several: each is accepted when the connection is.    *)
(***************************************************************************)
EXTENDS Naturals

CONSTANTS
    Callbacks,     \* connections the browser, or anything local, opens
    Waiters,       \* calls to Wait
    Closers,       \* calls to Close
    None           \* no result

ASSUME LoopbackAssumption == None \notin Callbacks

VARIABLES
    listening,     \* is the listener open
    slot,          \* resultCh
    hpc,           \* each connection: where its goroutine is
    sent,          \* the callbacks whose send went through (history)
    wpc,           \* each call to Wait: where it is
    fired, ctx,    \* ... has its timer fired, is its context cancelled
    got,           \* ... the result it received
    once,          \* closeOnce: "free", "running" or "done"
    cpc            \* each call to Close: where it is

waits  == <<wpc, fired, ctx, got>>
closes == <<once, cpc>>
vars   == <<listening, slot, hpc, sent, waits, closes>>

\* closeOnce is held exactly while a Close is in Shutdown.
TypeOK ==
    /\ listening \in BOOLEAN
    /\ slot \in Callbacks \cup {None}
    /\ hpc \in [Callbacks -> {"none", "accepted", "handling", "replying", "over"}]
    /\ sent \subseteq Callbacks
    /\ wpc \in [Waiters -> {"none", "select", "result", "cancelled", "timeout"}]
    /\ fired \in [Waiters -> BOOLEAN]
    /\ ctx \in [Waiters -> BOOLEAN]
    /\ got \in [Waiters -> Callbacks \cup {None}]
    /\ once \in {"free", "running", "done"}
    /\ cpc \in [Closers -> {"none", "once", "shutdown", "ok", "deadline", "skipped"}]
    /\ once = "running" <=> \E x \in Closers : cpc[x] = "shutdown"

\* NewLoopbackServer has returned.
Init ==
    /\ listening = TRUE
    /\ slot = None
    /\ hpc = [c \in Callbacks |-> "none"]
    /\ sent = {}
    /\ wpc = [w \in Waiters |-> "none"]
    /\ fired = [w \in Waiters |-> FALSE]
    /\ ctx = [w \in Waiters |-> FALSE]
    /\ got = [w \in Waiters |-> None]
    /\ once = "free"
    /\ cpc = [x \in Closers |-> "none"]

-----------------------------------------------------------------------------
(* The HTTP server and handleCallback.                                     *)

Step(c, from, to) == hpc[c] = from /\ hpc' = [hpc EXCEPT ![c] = to]

\* Mutant: connections are accepted after Shutdown closed the listener.
AcceptAlways(c) ==
    /\ Step(c, "none", "accepted")
    /\ UNCHANGED <<listening, slot, sent, waits, closes>>

Accept(c) ==
    /\ listening
    /\ Step(c, "none", "accepted")
    /\ UNCHANGED <<listening, slot, sent, waits, closes>>

\* The request is read, or its header does not arrive within five seconds.
Begin(c) ==
    /\ Step(c, "accepted", "handling")
    /\ UNCHANGED <<listening, slot, sent, waits, closes>>

HeaderTimeout(c) ==
    /\ Step(c, "accepted", "over")
    /\ UNCHANGED <<listening, slot, sent, waits, closes>>

\* Mutants: the send blocks while a result is unread; the latest result wins.
SendBlocks(c) ==
    /\ slot = None
    /\ Step(c, "handling", "replying")
    /\ slot' = c /\ sent' = sent \cup {c}
    /\ UNCHANGED <<listening, waits, closes>>
SendLatest(c) ==
    /\ Step(c, "handling", "replying")
    /\ slot' = c /\ sent' = sent \cup {c}
    /\ UNCHANGED <<listening, waits, closes>>

\* The non-blocking send: the result is dropped while another one is unread.
Send(c) ==
    /\ Step(c, "handling", "replying")
    /\ IF slot = None THEN slot' = c /\ sent' = sent \cup {c}
       ELSE UNCHANGED <<slot, sent>>
    /\ UNCHANGED <<listening, waits, closes>>

Reply(c) ==
    /\ Step(c, "replying", "over")
    /\ UNCHANGED <<listening, slot, sent, waits, closes>>

-----------------------------------------------------------------------------
(* Wait.                                                                   *)

CallWait(w) ==
    /\ wpc[w] = "none"
    /\ wpc' = [wpc EXCEPT ![w] = "select"]
    /\ UNCHANGED <<listening, slot, hpc, sent, fired, ctx, got, closes>>

\* Mutant: Wait looks at the result and leaves it in the channel.
Peek(w) ==
    /\ wpc[w] = "select" /\ slot # None
    /\ got' = [got EXCEPT ![w] = slot]
    /\ wpc' = [wpc EXCEPT ![w] = "result"]
    /\ UNCHANGED <<listening, slot, hpc, sent, fired, ctx, closes>>

\* The three cases of the select; when several are ready, any is taken.
Receive(w) ==
    /\ wpc[w] = "select" /\ slot # None
    /\ got' = [got EXCEPT ![w] = slot]
    /\ slot' = None
    /\ wpc' = [wpc EXCEPT ![w] = "result"]
    /\ UNCHANGED <<listening, hpc, sent, fired, ctx, closes>>

GiveUp(w) ==
    /\ wpc[w] = "select"
    /\ \/ ctx[w] /\ wpc' = [wpc EXCEPT ![w] = "cancelled"]
       \/ fired[w] /\ wpc' = [wpc EXCEPT ![w] = "timeout"]
    /\ UNCHANGED <<listening, slot, hpc, sent, fired, ctx, got, closes>>

\* Mutant: a timeout of zero or less means no timer.
FireMaybe(w) ==
    /\ wpc[w] = "select" /\ ctx[w] /\ ~fired[w]
    /\ fired' = [fired EXCEPT ![w] = TRUE]
    /\ UNCHANGED <<listening, slot, hpc, sent, wpc, ctx, got, closes>>

\* The timer fires: whatever the caller asked for, within five minutes.
Fire(w) ==
    /\ wpc[w] = "select" /\ ~fired[w]
    /\ fired' = [fired EXCEPT ![w] = TRUE]
    /\ UNCHANGED <<listening, slot, hpc, sent, wpc, ctx, got, closes>>

Cancel(w) ==
    /\ ~ctx[w] /\ wpc[w] \in {"none", "select"}
    /\ ctx' = [ctx EXCEPT ![w] = TRUE]
    /\ UNCHANGED <<listening, slot, hpc, sent, wpc, fired, got, closes>>

-----------------------------------------------------------------------------
(* Close.                                                                  *)

CallClose(x) ==
    /\ cpc[x] = "none"
    /\ cpc' = [cpc EXCEPT ![x] = "once"]
    /\ UNCHANGED <<listening, slot, hpc, sent, waits, once>>

\* closeOnce.Do: the first call goes in and Shutdown closes the listener; the
\* others wait until it is out and return nil.
Shutdown(x) ==
    /\ cpc[x] = "once" /\ once = "free"
    /\ once' = "running"
    /\ cpc' = [cpc EXCEPT ![x] = "shutdown"]
    /\ listening' = FALSE
    /\ UNCHANGED <<slot, hpc, sent, waits>>

Skip(x) ==
    /\ cpc[x] = "once" /\ once = "done"
    /\ cpc' = [cpc EXCEPT ![x] = "skipped"]
    /\ UNCHANGED <<listening, slot, hpc, sent, waits, once>>

\* No connection is open any more.
ShutdownDone(x) ==
    /\ cpc[x] = "shutdown"
    /\ \A c \in Callbacks : hpc[c] \in {"none", "over"}
    /\ once' = "done"
    /\ cpc' = [cpc EXCEPT ![x] = "ok"]
    /\ UNCHANGED <<listening, slot, hpc, sent, waits>>

\* Mutant: an error leaves Close without releasing closeOnce.
ShutdownStuck(x) ==
    /\ cpc[x] = "shutdown"
    /\ cpc' = [cpc EXCEPT ![x] = "deadline"]
    /\ UNCHANGED <<listening, slot, hpc, sent, waits, once>>

\* Connections are still open after a second; their goroutines go on.
ShutdownDeadline(x) ==
    /\ cpc[x] = "shutdown"
    /\ \E c \in Callbacks : hpc[c] \notin {"none", "over"}
    /\ once' = "done"
    /\ cpc' = [cpc EXCEPT ![x] = "deadline"]
    /\ UNCHANGED <<listening, slot, hpc, sent, waits>>

-----------------------------------------------------------------------------
Handle(c) == Begin(c) \/ HeaderTimeout(c) \/ Send(c) \/ Reply(c)
Select(w) == Receive(w) \/ GiveUp(w)
Closing(x) == Shutdown(x) \/ Skip(x) \/ ShutdownDone(x) \/ ShutdownDeadline(x)

Next == \/ \E c \in Callbacks : Accept(c) \/ Handle(c)
        \/ \E w \in Waiters : CallWait(w) \/ Select(w) \/ Fire(w) \/ Cancel(w)
        \/ \E x \in Closers : CallClose(x) \/ Closing(x)

\* Goroutines that can run do, header timeouts and timers come due; nobody has to
\* call, connect or cancel.
Fairness == /\ \A c \in Callbacks : WF_vars(Handle(c))
            /\ \A w \in Waiters : WF_vars(Select(w)) /\ WF_vars(Fire(w))
            /\ \A x \in Closers : WF_vars(Closing(x))

Spec == Init /\ [][Next]_vars /\ Fairness

-----------------------------------------------------------------------------
(* Properties.                                                             *)

\* A result that went through is in one place: unread in the channel, or with
\* one call to Wait, which returned it.  Later callbacks, timeouts, cancellation
\* and Close neither lose nor repeat it.  (oauth.go:114-121, 143-147)
Conserved ==
    /\ \A c \in sent : slot = c \/ \E w \in Waiters : got[w] = c
    /\ \A w \in Waiters : got[w] # None => got[w] # slot /\ got[w] \in sent
    /\ \A v, w \in Waiters : got[v] # None /\ got[v] = got[w] => v = w

\* After a Close that returned nil from Shutdown, no connection is open: no
\* result can still arrive.  (oauth.go:125-133)
QuietAfterClose ==
    (\E x \in Closers : cpc[x] = "ok") =>
        \A c \in Callbacks : hpc[c] \in {"none", "over"}

\* The browser is answered although nobody waits or a result is unread.
\* (oauth.go:143-155)
CallbackAnswered == \A c \in Callbacks : hpc[c] = "handling" ~> hpc[c] = "over"

\* Every Wait returns, also one that nobody cancels and no callback answers.
\* (oauth.go:109-121)
WaitReturns == \A w \in Waiters :
    wpc[w] = "select" ~> wpc[w] \in {"result", "cancelled", "timeout"}

\* Every Close returns, also one that comes while another is at work or after
\* one that ran into its deadline.  (oauth.go:125-133)
CloseReturns == \A x \in Closers :
    cpc[x] = "once" ~> cpc[x] \in {"ok", "deadline", "skipped"}
=============================================================================
