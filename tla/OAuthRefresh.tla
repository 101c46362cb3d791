---------------------------- MODULE OAuthRefresh ----------------------------
(***************************************************************************)
(* RefreshOAuth2 (internal/auth/oauth.go) over the credential store: the   *)
(* stored refresh token is loaded, exchanged at the provider and the new   *)
(* session stored, by the leader of a singleflight group; whoever calls    *)
(* for the same region and profile meanwhile waits for the leader's result.*)
(*                                                                         *)
(* Procs of CredStore are goroutines here; Process says which process each *)
(* belongs to.  A provider that rotates issues a new refresh token with    *)
(* each access token and accepts the latest only; another answers without  *)
(* one and goes on accepting the first.                                    *)
(***************************************************************************)
EXTENDS CredStore

CONSTANTS
    Process,       \* the process of each goroutine
    Refreshes,     \* the keys <<region, profile>> each goroutine refreshes
    Rotations,     \* whether the provider rotates refresh tokens: one mode or both
    AnswersLost,   \* requests to the provider may fail
    Cancels        \* contexts may be cancelled

Keys == Regions \X Profiles

ASSUME RefreshAssumption ==
    /\ DOMAIN Process = Procs
    /\ Refreshes \in [Procs -> SUBSET Keys]
    /\ MaxSet >= 1 /\ Rotations \subseteq BOOLEAN
    /\ {AnswersLost, Cancels} \subseteq BOOLEAN

VARIABLES
    at, key,       \* each goroutine: where its RefreshOAuth2 is, for which key
    out,           \* ... how its last one ended
    ctx,           \* ... is its context cancelled
    live,          \* the provider: the refresh token it accepts for a key
    issued,        \* ... the number of the last session it issued
    rotates        \* ... does it rotate refresh tokens

calls    == <<at, key, out, ctx>>
provider == <<live, issued, rotates>>
allVars  == <<vars, calls, provider>>

Flying == {"load", "endpoint", "exchange", "granted", "store"}

Token(p)   == creds[p].token["refresh_token"]
Storing(p) == op[p].creds.token["refresh_token"]

\* A refresh that has come past the load holds a refresh token until it is stored.
RefreshTypeOK ==
    /\ TypeOK
    /\ at \in [Procs -> Flying \cup {"out", "follow"}]
    /\ key \in [Procs -> Keys]
    /\ out \in [Procs -> {"none", "ok", "expired", "error"}]
    /\ ctx \in [Procs -> BOOLEAN]
    /\ live \in [Keys -> 1..MaxSet]
    /\ issued \in 1..MaxSet /\ rotates \in BOOLEAN
    /\ \A p \in Procs : /\ at[p] \in {"endpoint", "exchange", "granted"} => Token(p) # 0
                        /\ at[p] = "store" => Storing(p) # 0

RefreshInit ==
    /\ Init
    /\ at = [p \in Procs |-> "out"]
    /\ key = [p \in Procs |-> CHOOSE x \in Keys : TRUE]
    /\ out = [p \in Procs |-> "none"]
    /\ ctx = [p \in Procs |-> FALSE]
    /\ live = [x \in Keys |-> 1] /\ issued = 1 /\ rotates \in Rotations

-----------------------------------------------------------------------------
(* singleflight.                                                           *)

Leads(p, x, P) == at[p] \in Flying /\ key[p] = x /\ Process[p] = P
Follows(p, leader) == at[p] = "follow" /\ Leads(leader, key[p], Process[p])

\* Start an operation of the credential store.
Begin(p, kind, c) ==
    /\ op' = [op EXCEPT ![p] = [kind |-> kind, region |-> key'[p][1],
                                profile |-> key'[p][2], creds |-> c]]
    /\ pc' = [pc EXCEPT ![p] = FirstStep[kind]]
    /\ ret' = [ret EXCEPT ![p] = "none"]
    /\ UNCHANGED <<disk, keyring, locals>>

\* Mutant: every caller flies by itself.
RefreshAlways(p) == \E x \in Refreshes[p] :
    /\ at[p] = "out" /\ pc[p] = "idle" /\ left[p] > 0
    /\ key' = [key EXCEPT ![p] = x]
    /\ left' = [left EXCEPT ![p] = @ - 1]
    /\ out' = [out EXCEPT ![p] = "none"] /\ UNCHANGED ctx
    /\ at' = [at EXCEPT ![p] = "load"] /\ \E e \in Brought("load") : Begin(p, "load", e)
    /\ UNCHANGED provider
\* RefreshOAuth2 is called: follow whoever flies for the key, or take off.
Refresh(p) == \E x \in Refreshes[p] :
    /\ at[p] = "out" /\ pc[p] = "idle" /\ left[p] > 0
    /\ key' = [key EXCEPT ![p] = x]
    /\ left' = [left EXCEPT ![p] = @ - 1]
    /\ out' = [out EXCEPT ![p] = "none"] /\ UNCHANGED ctx
    /\ IF \E l \in Procs : Leads(l, x, Process[p])
       THEN /\ at' = [at EXCEPT ![p] = "follow"]
            /\ UNCHANGED <<disk, keyring, locals, pc, op, ret>>
       ELSE /\ at' = [at EXCEPT ![p] = "load"]
            /\ \E e \in Brought("load") : Begin(p, "load", e)
    /\ UNCHANGED provider

\* Mutant: the followers are not woken.
LandAlone(p, r) ==
    /\ at' = [at EXCEPT ![p] = "out"]
    /\ out' = [out EXCEPT ![p] = r] /\ ctx' = [ctx EXCEPT ![p] = FALSE]
    /\ UNCHANGED key
\* doCall: the leader and its followers return the same result.
Land(p, r) ==
    LET crew == {p} \cup {f \in Procs : Follows(f, p)}
    IN  /\ at'  = [x \in Procs |-> IF x \in crew THEN "out" ELSE at[x]]
        /\ out' = [x \in Procs |-> IF x \in crew THEN r ELSE out[x]]
        /\ ctx' = [x \in Procs |-> x \notin crew /\ ctx[x]]
        /\ UNCHANGED key

Advance(p, step) == at' = [at EXCEPT ![p] = step] /\ UNCHANGED <<key, out, ctx>>

-----------------------------------------------------------------------------
(* refreshOnce and the provider.                                           *)

\* LoadCredentials has returned.
HaveCreds(p) ==
    /\ at[p] = "load" /\ pc[p] = "idle"
    /\ IF ret[p] # "ok" THEN Land(p, "error")
       ELSE IF Token(p) = 0 THEN Land(p, "expired")
       ELSE Advance(p, "endpoint")
    /\ UNCHANGED <<vars, provider>>

\* The endpoint that OIDC discovery names, or without an answer in time the
\* issuer's own, must be on a host of the region.
ResolveTokenEndpoint(p) ==
    /\ at[p] = "endpoint"
    /\ Advance(p, "exchange") \/ Land(p, "error")
    /\ UNCHANGED <<vars, provider>>

\* Mutant: the refresh token of the answer is taken although there is none.
RenewedBlank(c, n) ==
    [c EXCEPT !.token = [t \in TokenNames |->
                           IF t = "access_token" \/ rotates THEN n ELSE 0],
              !.expiry = n]
\* The credentials with session n in place of the earlier one: an answer without a
\* refresh token leaves the old one.
Renewed(c, n) ==
    [c EXCEPT !.token = [t \in TokenNames |->
                           IF t = "access_token" \/ rotates THEN n ELSE c.token[t]],
              !.expiry = n]

\* The provider has the request: it issues a session and, if it rotates, retires
\* the token (issued is bounded by MaxSet), or refuses an old one.
Grant(p) ==
    /\ at[p] = "exchange" /\ Token(p) = live[key[p]] /\ issued < MaxSet
    /\ issued' = issued + 1
    /\ live' = IF rotates THEN [live EXCEPT ![key[p]] = issued + 1] ELSE live
    /\ Advance(p, "granted")
    /\ creds' = [creds EXCEPT ![p] = Renewed(@, issued + 1)]
    /\ UNCHANGED <<rotates, disk, keyring, pc, op, left, k, conf, hyml, ret>>
Refuse(p) ==
    /\ at[p] = "exchange" /\ Token(p) # live[key[p]]
    /\ Land(p, "error")
    /\ UNCHANGED <<vars, provider>>

\* Mutant: the session is returned and not stored.
AnswerUnstored(p) ==
    /\ at[p] = "granted"
    /\ Land(p, "ok")
    /\ UNCHANGED <<vars, provider>>
\* The answer arrives and is stored.
Answer(p) ==
    /\ at[p] = "granted"
    /\ Advance(p, "store")
    /\ Begin(p, "store", creds[p])
    /\ UNCHANGED <<left, provider>>

\* The request or its answer is lost, or the leader's context is cancelled.
ExchangeFails(p) ==
    /\ at[p] \in {"exchange", "granted"} /\ (AnswersLost \/ ctx[p])
    /\ Land(p, "error")
    /\ UNCHANGED <<vars, provider>>

\* StoreCredentials has returned.
Refreshed(p) ==
    /\ at[p] = "store" /\ pc[p] = "idle"
    /\ Land(p, IF ret[p] = "ok" THEN "ok" ELSE "error")
    /\ UNCHANGED <<vars, provider>>

\* The context of a leader is cancelled; nobody looks at a follower's.
Cancel(p) ==
    /\ Cancels /\ at[p] \in Flying /\ ~ctx[p]
    /\ ctx' = [ctx EXCEPT ![p] = TRUE]
    /\ UNCHANGED <<vars, at, key, out, provider>>

\* A process is killed with all its goroutines.
Kill(P) ==
    LET gone == {p \in Procs : Process[p] = P}
        reset(f, v) == [p \in Procs |-> IF p \in gone THEN v ELSE f[p]]
    IN  /\ Crashes /\ \E p \in gone : at[p] # "out" \/ pc[p] # "idle"
        /\ pc' = reset(pc, "idle") /\ ret' = reset(ret, "none") /\ k' = reset(k, 1)
        /\ conf' = reset(conf, NoConf) /\ hyml' = reset(hyml, NoHosts)
        /\ creds' = reset(creds, NoCreds)
        /\ at' = reset(at, "out") /\ out' = reset(out, "none")
        /\ ctx' = reset(ctx, FALSE)
        /\ UNCHANGED <<disk, keyring, op, left, key, provider>>

-----------------------------------------------------------------------------
\* A step inside the credential store, by a refresh or by another call.
StoreStep(p) == (Store(p) \/ Delete(p) \/ Load(p)) /\ UNCHANGED <<calls, provider>>

Work(p) == \/ StoreStep(p) \/ HaveCreds(p) \/ ResolveTokenEndpoint(p) \/ Refuse(p)
           \/ Answer(p) \/ Refreshed(p)

RefreshNext ==
    \/ \E p \in Procs :
         \/ Refresh(p) \/ Work(p) \/ Grant(p) \/ ExchangeFails(p) \/ Cancel(p)
         \/ at[p] = "out" /\ Call(p) /\ UNCHANGED <<calls, provider>>
         \/ WriteFails(p) /\ UNCHANGED <<calls, provider>>
    \/ \E P \in {Process[p] : p \in Procs} : Kill(P)

\* Goroutines that can run do, and a request whose context is cancelled ends.
\* The client has no timeout: the provider may never answer.
RefreshFairness ==
    \A p \in Procs : WF_allVars(Work(p) \/ (ctx[p] /\ ExchangeFails(p)))

RefreshSpec == RefreshInit /\ [][RefreshNext]_allVars /\ RefreshFairness

-----------------------------------------------------------------------------
(* Properties.                                                             *)

\* "At most ONE token-exchange RPC is in flight per (region, profile)" in a
\* process (docs/specs/03-auth.md:229-231), across failures and cancellations.
OneExchange ==
    \A p, x \in Procs :
      /\ {at[p], at[x]} \subseteq {"exchange", "granted"}
      /\ key[p] = key[x] /\ Process[p] = Process[x]
      => p = x

\* Whoever waits, waits for a leader of its own process and key: none is left
\* behind by a leader that failed or was killed.  (oauth.go:198)
FollowersLed ==
    \A f \in Procs : at[f] = "follow" => \E l \in Procs : Follows(f, l)

Stored(x) == Loaded(FALSE, x[1], x[2])
StoredToken(x) == Stored(x).creds.token["refresh_token"]

\* The user can go on with the session: the token the provider accepts is stored,
\* or a refresh is about to store it.
Usable(x) ==
    \/ StoredToken(x) = live[x]
    \/ \E p \in Procs : key[p] = x /\ live[x] = IF at[p] = "granted" THEN Token(p)
                                              ELSE IF at[p] = "store" THEN Storing(p) ELSE 0

\* The provider retires a token with each exchange; the session it stands for is
\* lost only with a refresh that was killed or reports an error, whatever other
\* goroutines and processes do for the same key.  (oauth.go:220-243)
SessionKept ==
    [][\A x \in Keys : Usable(x) /\ ~Usable(x)' =>
         \E p \in Procs : /\ at[p] \in {"granted", "store"} /\ key[p] = x
                          /\ at'[p] = "out" /\ out'[p] # "ok"]_allVars

\* "Nil error => ... StoreCredentials has been called with the new value before
\* return" (docs/specs/03-auth.md:227-228): a load finds this session, or one that
\* another process was issued since.
RefreshStored ==
    [][\A p \in Procs :
         at[p] # "out" /\ at'[p] = "out" /\ out'[p] = "ok" =>
           \E l \in Procs :
             /\ l = p \/ Follows(p, l)
             /\ Stored(key[p])'.status = "ok" /\ StoredToken(key[p])' >= Token(l)]_allVars

\* No mixture of two sessions: the access token is that of the expiry and, where
\* each session has its own, so is the refresh token.
Unmixed(c, rotating) ==
    \A n \in TokenNames : n = "access_token" \/ rotating => c.token[n] = c.expiry
WholeSession(c) == Unmixed(c, rotates)

\* The sessions of the start, of callers and of the environment are whole.
WholeStart ==
    \A m \in Rotations :
      /\ \A c \in StoredSets \cup Envs : Unmixed(c, m)
      /\ \A h \in InitialHosts, r \in Regions, q \in Profiles : Unmixed(h.entry[r][q], m)

\* A session loaded from hosts.yml is one that the provider issued, not a mixture
\* of two, although refreshes overlap and die.  (hostsyml.go:81-161)
SessionWhole ==
    \A p \in Procs :
      /\ xdg.storage = "file" /\ pc[p] = "idle" /\ ret[p] = "ok" /\ op[p].kind = "load"
      => WholeSession(creds[p])

\* When the leader is cancelled everybody who follows it returns.  (oauth.go:198-205)
\* A goroutine that is alone in its process has nobody to follow.
FollowersReturn ==
    \A f \in {f \in Procs : \E l \in Procs \ {f} : Process[l] = Process[f]} :
      (\E l \in Procs : Follows(f, l) /\ ctx[l]) ~> at[f] = "out"

\* "Returned Credentials supersedes the previously stored value"
\* (docs/specs/03-auth.md:227), "safe to call concurrently" (oauth.go:189): no
\* earlier session of a key comes back.
Superseded ==
    [][\A x \in Keys : {Stored(x).status, Stored(x)'.status} = {"ok"} =>
         StoredToken(x)' >= StoredToken(x)]_allVars
=============================================================================
