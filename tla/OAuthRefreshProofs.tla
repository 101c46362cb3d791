------------------------- MODULE OAuthRefreshProofs -------------------------
(***************************************************************************)
(* Proofs about OAuthRefresh, for any number of goroutines, processes and  *)
(* keys and with every fault: types, one leader per process and key,       *)
(* nobody waits without one, and no session is a mixture of two.           *)
(***************************************************************************)
EXTENDS OAuthRefresh, CredStoreProofs

Places == Flying \cup {"out", "follow"}

CallTypes ==
    /\ at \in [Procs -> Places]
    /\ key \in [Procs -> Keys]

OneLeader ==
    \A p, x \in Procs :
      at[p] \in Flying /\ at[x] \in Flying /\ key[p] = key[x] /\ Process[p] = Process[x]
      => p = x

CallInv == CallTypes /\ OneLeader /\ FollowersLed

-----------------------------------------------------------------------------
(* The ways a step changes `at` and `key`.                                 *)

\* A step that leaves them alone keeps the invariant.
LEMMA CallsUnchanged ==
    ASSUME CallInv, UNCHANGED <<at, key>>
    PROVE  CallInv'
BY DEF CallInv, CallTypes, OneLeader, FollowersLed, Follows, Leads

\* A leader stays one as it goes on.
LEMMA AdvanceKeeps ==
    ASSUME CallInv, NEW p \in Procs, at[p] \in Flying, NEW step \in Flying,
           Advance(p, step)
    PROVE  CallInv'
<1>1. at' = [at EXCEPT ![p] = step] /\ key' = key /\ at'[p] = step
  BY DEF Advance, CallInv, CallTypes
<1>2. \A q \in Procs : (at'[q] \in Flying <=> at[q] \in Flying)
                       /\ (at'[q] = "follow" <=> at[q] = "follow")
  BY <1>1 DEF CallInv, CallTypes, Flying
<1>3. CallTypes'
  BY <1>1 DEF CallInv, CallTypes, Places
<1>4. OneLeader' /\ FollowersLed'
  BY <1>1, <1>2 DEF CallInv, OneLeader, FollowersLed, Follows, Leads
<1> QED BY <1>3, <1>4 DEF CallInv

\* When it lands nobody is left waiting for it.
LEMMA LandKeeps ==
    ASSUME CallInv, NEW p \in Procs, at[p] \in Flying, NEW r, Land(p, r)
    PROVE  CallInv'
<1>1. /\ key' = key
      /\ at' = [x \in Procs |-> IF x \in {p} \cup {f \in Procs : Follows(f, p)}
                                THEN "out" ELSE at[x]]
  BY DEF Land
<1>2. CallTypes'
  BY <1>1 DEF CallInv, CallTypes, Places
<1>3. \A q \in Procs : at'[q] \in Flying => at[q] \in Flying
  BY <1>1 DEF Flying
<1>4. OneLeader'
  BY <1>1, <1>3 DEF CallInv, OneLeader
<1>5. ASSUME NEW f \in Procs, at'[f] = "follow"
      PROVE  \E l \in Procs : Follows(f, l)'
  <2>1. at[f] = "follow" /\ ~Follows(f, p) /\ f # p
    BY <1>1, <1>5
  <2>2. PICK l \in Procs : Follows(f, l)
    BY <2>1 DEF CallInv, FollowersLed
  <2>3. l # p /\ at[l] # "follow"
    BY <2>1, <2>2 DEF Follows, Leads, Flying
  <2>4. at'[l] = at[l]
    BY <1>1, <2>3 DEF Follows
  <2> QED BY <1>1, <2>1, <2>2, <2>4, <1>5 DEF Follows, Leads
<1>6. FollowersLed'
  BY <1>5 DEF FollowersLed
<1> QED BY <1>2, <1>4, <1>6 DEF CallInv

-----------------------------------------------------------------------------
LEMMA CallInit == ASSUME RefreshInit PROVE CallInv
<1>1. \A p \in Procs : at[p] = "out"
  BY DEF RefreshInit
<1>2. \E x \in Keys : TRUE
  <2>1. PICK r \in Regions : TRUE
    BY StoreAssumption DEF StoreAssumption
  <2>2. <<r, Default>> \in Keys
    BY <2>1, StoreAssumption DEF Keys, StoreAssumption
  <2> QED BY <2>2
<1>3. (CHOOSE x \in Keys : TRUE) \in Keys
  BY <1>2
<1> QED
  BY <1>1, <1>3 DEF RefreshInit, CallInv, CallTypes, OneLeader, FollowersLed, Places, Flying

\* RefreshOAuth2 takes off only when nobody flies for the key.
LEMMA RefreshKeeps ==
    ASSUME CallInv, NEW p \in Procs, Refresh(p)
    PROVE  CallInv'
<1>1. PICK x \in Refreshes[p] :
        /\ at[p] = "out" /\ key' = [key EXCEPT ![p] = x]
        /\ IF \E l \in Procs : Leads(l, x, Process[p])
           THEN at' = [at EXCEPT ![p] = "follow"] ELSE at' = [at EXCEPT ![p] = "load"]
  BY DEF Refresh
<1>2. x \in Keys
  BY RefreshAssumption DEF RefreshAssumption
<1>3. CallTypes' /\ key'[p] = x /\ \A q \in Procs \ {p} : at'[q] = at[q] /\ key'[q] = key[q]
  BY <1>1, <1>2 DEF CallInv, CallTypes, Places, Flying
<1>4. \A f, l \in Procs : Follows(f, l) => Follows(f, l)'
  BY <1>1, <1>3 DEF Follows, Leads, Flying
<1>5. CASE \E l \in Procs : Leads(l, x, Process[p])
  <2>1. at'[p] = "follow"
    BY <1>1, <1>5 DEF CallInv, CallTypes
  <2>2. \E l \in Procs : Follows(p, l)'
    BY <1>1, <1>3, <1>5, <2>1 DEF Follows, Leads, Flying
  <2>3. FollowersLed'
    BY <1>3, <1>4, <2>2 DEF CallInv, FollowersLed
  <2>4. OneLeader'
    BY <1>3, <2>1 DEF CallInv, OneLeader, Flying
  <2> QED BY <1>3, <2>3, <2>4 DEF CallInv
<1>6. CASE ~\E l \in Procs : Leads(l, x, Process[p])
  <2>1. at'[p] = "load"
    BY <1>1, <1>6 DEF CallInv, CallTypes
  <2>2. FollowersLed'
    BY <1>3, <1>4, <2>1 DEF CallInv, FollowersLed
  <2>3. OneLeader'
    BY <1>3, <1>6, <2>1 DEF CallInv, OneLeader, Leads
  <2> QED BY <1>3, <2>2, <2>3 DEF CallInv
<1> QED BY <1>5, <1>6

\* A kill takes leaders and followers of a process alike.
LEMMA KillKeeps ==
    ASSUME CallInv, NEW P, Kill(P)
    PROVE  CallInv'
<1>1. /\ key' = key
      /\ at' = [p \in Procs |-> IF Process[p] = P THEN "out" ELSE at[p]]
  BY DEF Kill
<1>2. CallTypes'
  BY <1>1 DEF CallInv, CallTypes, Places
<1>3. OneLeader'
  BY <1>1 DEF CallInv, OneLeader, Flying
<1>4. FollowersLed'
  BY <1>1 DEF CallInv, FollowersLed, Follows, Leads
<1> QED BY <1>2, <1>3, <1>4 DEF CallInv

-----------------------------------------------------------------------------
LEMMA CallStep == ASSUME CallInv, [RefreshNext]_allVars PROVE CallInv'
<1>1. ASSUME NEW p \in Procs, Refresh(p) PROVE CallInv'
  BY <1>1, RefreshKeeps
<1>2. ASSUME NEW p \in Procs, StoreStep(p) PROVE CallInv'
  BY <1>2, CallsUnchanged DEF StoreStep, calls
<1>3. ASSUME NEW p \in Procs, HaveCreds(p) PROVE CallInv'
  <2>1. at[p] \in Flying
    BY <1>3 DEF HaveCreds, Flying
  <2>2. Land(p, "error") \/ Land(p, "expired") \/ Advance(p, "endpoint")
    BY <1>3 DEF HaveCreds
  <2> QED BY <2>1, <2>2, LandKeeps, AdvanceKeeps DEF Flying
<1>4. ASSUME NEW p \in Procs, ResolveTokenEndpoint(p) PROVE CallInv'
  <2>1. at[p] \in Flying /\ (Advance(p, "exchange") \/ Land(p, "error"))
    BY <1>4 DEF ResolveTokenEndpoint, Flying
  <2> QED BY <2>1, LandKeeps, AdvanceKeeps DEF Flying
<1>5. ASSUME NEW p \in Procs, Grant(p) PROVE CallInv'
  <2>1. at[p] \in Flying /\ Advance(p, "granted")
    BY <1>5 DEF Grant, Flying
  <2> QED BY <2>1, AdvanceKeeps DEF Flying
<1>6. ASSUME NEW p \in Procs, Refuse(p) PROVE CallInv'
  <2>1. at[p] \in Flying /\ Land(p, "error")
    BY <1>6 DEF Refuse, Flying
  <2> QED BY <2>1, LandKeeps
<1>7. ASSUME NEW p \in Procs, Answer(p) PROVE CallInv'
  <2>1. at[p] \in Flying /\ Advance(p, "store")
    BY <1>7 DEF Answer, Flying
  <2> QED BY <2>1, AdvanceKeeps DEF Flying
<1>8. ASSUME NEW p \in Procs, ExchangeFails(p) PROVE CallInv'
  <2>1. at[p] \in Flying /\ Land(p, "error")
    BY <1>8 DEF ExchangeFails, Flying
  <2> QED BY <2>1, LandKeeps
<1>9. ASSUME NEW p \in Procs, Refreshed(p) PROVE CallInv'
  <2>1. at[p] \in Flying /\ (Land(p, "ok") \/ Land(p, "error"))
    BY <1>9 DEF Refreshed, Flying
  <2> QED BY <2>1, LandKeeps
<1>10. ASSUME NEW p \in Procs,
              \/ Cancel(p)
              \/ Call(p) /\ UNCHANGED <<calls, provider>>
              \/ WriteFails(p) /\ UNCHANGED <<calls, provider>>
       PROVE  CallInv'
  BY <1>10, CallsUnchanged DEF Cancel, calls
<1>11. ASSUME NEW P \in {Process[p] : p \in Procs}, Kill(P) PROVE CallInv'
  BY <1>11, KillKeeps
<1>12. CASE UNCHANGED allVars
  BY <1>12, CallsUnchanged DEF allVars, calls
<1> QED
  BY <1>1, <1>2, <1>3, <1>4, <1>5, <1>6, <1>7, <1>8, <1>9, <1>10, <1>11, <1>12
  DEF RefreshNext, Work

\* "At most ONE token-exchange RPC is in flight per (region, profile)": in every
\* process, however calls overlap, fail, are cancelled or are killed.
\* (oauth.go:184-205)
THEOREM ExchangesCoalesced == RefreshSpec => []OneExchange
<1>1. CallInv => OneExchange
  BY DEF CallInv, OneLeader, OneExchange, Flying
<1> QED BY <1>1, CallInit, CallStep, PTL DEF RefreshSpec

\* Nobody ever waits for a leader that is gone.  (oauth.go:198)
THEOREM NoneLeftBehind == RefreshSpec => []FollowersLed
<1>1. CallInv => FollowersLed
  BY DEF CallInv
<1> QED BY <1>1, CallInit, CallStep, PTL DEF RefreshSpec

-----------------------------------------------------------------------------
(***************************************************************************)
(* Types.  A refresh between its two calls of the store, and a follower,   *)
(* are outside the store: its variables are at rest when Answer starts the *)
(* second one.                                                             *)
(***************************************************************************)
Resting == {"endpoint", "exchange", "granted", "follow"}
Rests(p) == at[p] \in Resting => pc[p] = "idle"

\* A refresh carries a refresh token, to the provider and back to the store.
Carries(p) ==
    /\ at[p] \in {"endpoint", "exchange", "granted"} => Token(p) # 0
    /\ at[p] = "store" => Storing(p) # 0

RefreshInv == RefreshTypeOK /\ StoreInv /\ \A p \in Procs : Rests(p)

LEMMA CarriesKept ==
    ASSUME NEW p \in Procs, Carries(p), at'[p] \in {at[p], "out", "load", "follow"},
           creds'[p] = creds[p], at'[p] = "store" => op'[p] = op[p]
    PROVE  Carries(p)'
BY DEF Carries, Token, Storing

LEMMA Carried == ASSUME RefreshInv PROVE \A p \in Procs : Carries(p)
BY Zenon DEF RefreshInv, RefreshTypeOK, Carries

CallsTypeOK ==
    /\ at \in [Procs -> Places] /\ key \in [Procs -> Keys]
    /\ out \in [Procs -> {"none", "ok", "expired", "error"}]
    /\ ctx \in [Procs -> BOOLEAN]

\* A call ends: whoever leaves is out, the others are where they were.
LEMMA LandTypes ==
    ASSUME RefreshInv, NEW p \in Procs, NEW r \in {"ok", "expired", "error"}, Land(p, r)
    PROVE  CallsTypeOK' /\ \A x \in Procs : at'[x] \in {at[x], "out"}
<1>1. at' \in [Procs -> Places] /\ \A x \in Procs : at'[x] \in {at[x], "out"}
  BY DEF Land, RefreshInv, RefreshTypeOK, Places
<1>2. out' \in [Procs -> {"none", "ok", "expired", "error"}]
  BY DEF Land, RefreshInv, RefreshTypeOK
<1>3. ctx' \in [Procs -> BOOLEAN]
  BY DEF Land, RefreshInv, RefreshTypeOK
<1> QED BY <1>1, <1>2, <1>3 DEF Land, RefreshInv, RefreshTypeOK, CallsTypeOK

LEMMA AdvanceTypes ==
    ASSUME RefreshInv, NEW p \in Procs, NEW step \in Flying, Advance(p, step)
    PROVE  /\ CallsTypeOK' /\ at'[p] = step
           /\ \A x \in Procs : x # p => at'[x] = at[x]
BY DEF Advance, RefreshInv, RefreshTypeOK, CallsTypeOK, Places

\* Only the calls change.
LEMMA CallsKeep ==
    ASSUME RefreshInv, NEW p \in Procs, UNCHANGED <<vars, provider>>, CallsTypeOK',
           \/ \A x \in Procs : at'[x] \in {at[x], "out"}
           \/ /\ pc[p] = "idle"
              /\ \A x \in Procs : x # p => at'[x] = at[x]
              /\ at'[p] \in {"endpoint", "exchange"} /\ Token(p) # 0
    PROVE  RefreshInv'
<1>1. StoreInv'
  BY StoreNext DEF RefreshInv
<1>2. UNCHANGED <<pc, op, creds, live, issued, rotates>>
  BY DEF vars, locals, provider
<1>5. ASSUME NEW x \in Procs PROVE Carries(x)'
  <2>1. CASE at'[x] \in {at[x], "out"}
    BY <1>2, <2>1, Carried, CarriesKept
  <2>2. CASE at'[x] \in {"endpoint", "exchange"} /\ Token(x) # 0
    BY <1>2, <2>2 DEF Carries, Token
  <2> QED BY <2>1, <2>2
<1>3. RefreshTypeOK'
  BY <1>1, <1>2, <1>5 DEF Carries, RefreshInv, RefreshTypeOK, StoreInv, CallsTypeOK, Places
<1>4. \A x \in Procs : Rests(x)'
  BY <1>2 DEF RefreshInv, Rests, Resting
<1> QED BY <1>1, <1>3, <1>4 DEF RefreshInv

\* Only the store changes, by a process that is not at rest or that comes to rest.
LEMMA StoreOnlyKeeps ==
    ASSUME RefreshInv, StoreInv', UNCHANGED <<calls, provider>>, NEW p \in Procs,
           \A x \in Procs : x # p => /\ pc'[x] = pc[x] /\ creds'[x] = creds[x]
                                     /\ op'[x] = op[x],
           at[p] \notin Resting, at[p] = "store" => op'[p] = op[p]
    PROVE  RefreshInv'
<1>1. UNCHANGED <<at, key, out, ctx, live, issued, rotates>>
  BY DEF calls, provider
<1>3. ASSUME NEW x \in Procs PROVE Carries(x)'
  <2>1. CASE x # p
    BY <1>1, <2>1, Carried, CarriesKept
  <2>2. CASE x = p
    BY <1>1, <2>2, Carried DEF Carries, Storing, Resting
  <2> QED BY <2>1, <2>2
<1>2. RefreshTypeOK' /\ \A x \in Procs : Rests(x)'
  BY <1>1, <1>3 DEF Carries, RefreshInv, RefreshTypeOK, StoreInv, Rests
<1> QED BY <1>2 DEF RefreshInv

\* A process at rest starts an operation.
LEMMA BeginKeeps ==
    ASSUME StoreInv, NEW p \in Procs, NEW kind \in {"load", "store", "delete"}, NEW c \in Creds,
           Begin(p, kind, c), key'[p] \in Keys, pc[p] = "idle",
           left' \in [Procs -> 0..MaxOps]
    PROVE  /\ StoreInv' /\ creds' = creds /\ op'[p].creds = c
           /\ \A x \in Procs : x # p => pc'[x] = pc[x] /\ op'[x] = op[x]
<1>6. creds' = creds /\ op'[p].creds = c /\ \A x \in Procs : x # p => op'[x] = op[x]
  BY DEF Begin, locals, StoreInv, TypeOK
<1>1. op' \in [Procs -> Ops]
  <2>1. key'[p][1] \in Regions /\ key'[p][2] \in Profiles
    BY DEF Keys
  <2> QED BY <2>1 DEF Begin, Ops, StoreInv, TypeOK
<1>2. /\ pc' \in [Procs -> Steps \cup {"idle"}] /\ ret' \in [Procs -> Outcomes]
      /\ pc'[p] \in {"loadConf", "storeConf", "delSecrets"}
      /\ \A x \in Procs : x # p => pc'[x] = pc[x]
  BY DEF Begin, FirstStep, Steps, Outcomes, StoreInv, TypeOK
<1>3. TypeOK'
  BY <1>1, <1>2 DEF Begin, StoreInv, TypeOK, disk, locals
<1>4. k' = k /\ k[p] = 1
  BY DEF Begin, locals, StoreInv, Index, SecretLoops, TokenLoops
<1>5. \A x \in Procs : Index(x)'
  BY <1>2, <1>3, <1>4 DEF StoreInv, TypeOK, Index
<1> QED BY <1>2, <1>3, <1>5, <1>6 DEF StoreInv

LEMMA RefreshTypes ==
    ASSUME RefreshInv, NEW p \in Procs, Refresh(p)
    PROVE  RefreshInv'
<1>1. PICK x \in Refreshes[p] :
        /\ at[p] = "out" /\ pc[p] = "idle" /\ left[p] > 0
        /\ key' = [key EXCEPT ![p] = x]
        /\ left' = [left EXCEPT ![p] = @ - 1]
        /\ out' = [out EXCEPT ![p] = "none"] /\ UNCHANGED ctx
        /\ \/ /\ at' = [at EXCEPT ![p] = "follow"]
              /\ UNCHANGED <<disk, keyring, locals, pc, op, ret>>
           \/ /\ at' = [at EXCEPT ![p] = "load"]
              /\ \E e \in Brought("load") : Begin(p, "load", e)
  BY DEF Refresh
<1>2. UNCHANGED provider
  BY DEF Refresh
<1>3. x \in Keys
  BY RefreshAssumption DEF RefreshAssumption
<1>4. left' \in [Procs -> 0..MaxOps]
  BY <1>1, StoreAssumption DEF RefreshInv, StoreInv, TypeOK, StoreAssumption
<1>5. CallsTypeOK' /\ key'[p] = x /\ \A q \in Procs : q # p => at'[q] = at[q]
  BY <1>1, <1>3 DEF RefreshInv, RefreshTypeOK, CallsTypeOK, Places, Flying
<1>6. /\ StoreInv' /\ (\A q \in Procs : q # p => pc'[q] = pc[q] /\ op'[q] = op[q])
      /\ creds' = creds /\ (at'[p] = "load" \/ (at'[p] = "follow" /\ pc' = pc))
  <2>1. CASE at' = [at EXCEPT ![p] = "follow"]
             /\ UNCHANGED <<disk, keyring, locals, pc, op, ret>>
    BY <1>4, <2>1 DEF RefreshInv, RefreshTypeOK, StoreInv, TypeOK, Index, disk, locals
  <2>2. ASSUME NEW e \in Brought("load"), Begin(p, "load", e),
               at' = [at EXCEPT ![p] = "load"]
        PROVE  /\ StoreInv' /\ (\A q \in Procs : q # p => pc'[q] = pc[q] /\ op'[q] = op[q])
               /\ creds' = creds /\ at'[p] = "load"
    BY <1>1, <1>3, <1>4, <1>5, <2>2, BroughtType, BeginKeeps DEF RefreshInv, RefreshTypeOK
  <2> QED BY <1>1, <2>1, <2>2
<1>9. ASSUME NEW q \in Procs PROVE Carries(q)'
  <2>1. CASE q = p
    BY <1>6, <2>1, Carried, CarriesKept
  <2>2. CASE q # p
    BY <1>5, <1>6, <2>2, Carried, CarriesKept
  <2> QED BY <2>1, <2>2
<1>7. RefreshTypeOK'
  BY <1>2, <1>5, <1>6, <1>9 DEF Carries, RefreshInv, RefreshTypeOK, StoreInv, CallsTypeOK,
         Places, provider
<1>8. \A q \in Procs : Rests(q)'
  BY <1>1, <1>5, <1>6 DEF RefreshInv, Rests, Resting
<1> QED BY <1>6, <1>7, <1>8 DEF RefreshInv

\* The answer's session is in the credentials, whole if it comes with a refresh token,
\* beside the old refresh token otherwise.
LEMMA RenewedIs ==
    ASSUME NEW c \in Creds, NEW n \in Plain
    PROVE  /\ Renewed(c, n) \in Creds /\ Renewed(c, n).expiry = n
           /\ Renewed(c, n).token["access_token"] = n
           /\ Renewed(c, n).token["refresh_token"] =
                IF rotates THEN n ELSE c.token["refresh_token"]
<1> DEFINE t == [x \in TokenNames |-> IF x = "access_token" \/ rotates THEN n ELSE c.token[x]]
<1>1. c.token \in [TokenNames -> Plain]
  BY DEF Creds
<1>2. t \in [TokenNames -> Plain] /\ Renewed(c, n) = [c EXCEPT !.token = t, !.expiry = n]
  BY <1>1 DEF Renewed
<1>3. t["access_token"] = n
      /\ t["refresh_token"] = IF rotates THEN n ELSE c.token["refresh_token"]
  BY Names
<1> HIDE DEF t
<1> QED BY <1>2, <1>3 DEF Creds

LEMMA GrantTypes ==
    ASSUME RefreshInv, NEW p \in Procs, Grant(p)
    PROVE  RefreshInv'
<1> DEFINE n == issued + 1
           c == Renewed(creds[p], n)
<1>1. /\ at[p] = "exchange" /\ issued < MaxSet /\ issued' = n
      /\ live' = (IF rotates THEN [live EXCEPT ![key[p]] = n] ELSE live)
      /\ Advance(p, "granted") /\ creds' = [creds EXCEPT ![p] = c]
      /\ UNCHANGED <<rotates, disk, keyring, pc, op, left, k, conf, hyml, ret>>
  BY DEF Grant
<1>2. issued \in 1..MaxSet /\ MaxSet \in Nat /\ creds \in [Procs -> Creds] /\ creds[p] \in Creds
      /\ live \in [Keys -> 1..MaxSet] /\ key[p] \in Keys
  BY StoreAssumption DEF RefreshInv, RefreshTypeOK, TypeOK, StoreAssumption
<1>3. n \in 1..MaxSet /\ n \in Plain
  BY <1>1, <1>2 DEF Plain
<1> HIDE DEF n
<1>5. c \in Creds /\ c.token["refresh_token"] # 0
  <2>1. Token(p) # 0 /\ n # 0
    BY <1>1, <1>2, <1>3, Carried DEF Carries
  <2> QED BY <1>2, <1>3, <2>1, RenewedIs DEF Token
<1> HIDE DEF c
<1>6. live' \in [Keys -> 1..MaxSet] /\ issued' \in 1..MaxSet
  BY <1>1, <1>2, <1>3
<1>7. creds' \in [Procs -> Creds]
  BY <1>1, <1>2, <1>5
<1>8. StoreInv'
  BY <1>1, <1>7 DEF RefreshInv, StoreInv, TypeOK, Index, disk
<1>9. CallsTypeOK' /\ at'[p] = "granted" /\ \A x \in Procs : x # p => at'[x] = at[x]
  BY <1>1, AdvanceTypes DEF Flying
<1>12. ASSUME NEW x \in Procs PROVE Carries(x)'
  <2>1. CASE x = p
    BY <1>1, <1>2, <1>5, <1>9, <2>1 DEF Carries, Token
  <2>2. CASE x # p
    BY <1>1, <1>2, <1>9, <2>2, Carried, CarriesKept
  <2> QED BY <2>1, <2>2
<1>10. RefreshTypeOK'
  BY <1>1, <1>6, <1>8, <1>9, <1>12 DEF RefreshInv, Carries, StoreInv, RefreshTypeOK,
         CallsTypeOK, Places
<1>11. \A x \in Procs : Rests(x)'
  BY <1>1, <1>9 DEF RefreshInv, Rests, Resting
<1> QED BY <1>8, <1>10, <1>11 DEF RefreshInv

LEMMA AnswerTypes ==
    ASSUME RefreshInv, NEW p \in Procs, Answer(p)
    PROVE  RefreshInv'
<1>1. /\ at[p] = "granted" /\ pc[p] = "idle" /\ Advance(p, "store")
      /\ Begin(p, "store", creds[p]) /\ UNCHANGED <<left, provider>>
  BY DEF Answer, RefreshInv, Rests, Resting
<1>2. CallsTypeOK' /\ at'[p] = "store" /\ \A x \in Procs : x # p => at'[x] = at[x]
  BY <1>1, AdvanceTypes DEF Flying
<1>3. /\ StoreInv' /\ creds' = creds /\ op'[p].creds = creds[p]
      /\ \A x \in Procs : x # p => pc'[x] = pc[x] /\ op'[x] = op[x]
  <2>1. creds[p] \in Creds /\ key'[p] \in Keys /\ left' \in [Procs -> 0..MaxOps]
    BY <1>1, <1>2 DEF RefreshInv, StoreInv, TypeOK, CallsTypeOK
  <2> QED BY <1>1, <2>1, BeginKeeps DEF RefreshInv
<1>6. ASSUME NEW x \in Procs PROVE Carries(x)'
  <2>1. CASE x = p
    BY <1>1, <1>2, <1>3, <2>1, Carried DEF Carries, Token, Storing
  <2>2. CASE x # p
    BY <1>2, <1>3, <2>2, Carried, CarriesKept
  <2> QED BY <2>1, <2>2
<1>4. RefreshTypeOK'
  BY <1>1, <1>2, <1>3, <1>6 DEF Carries, RefreshInv, RefreshTypeOK, StoreInv, CallsTypeOK,
         Places, provider
<1>5. \A x \in Procs : Rests(x)'
  BY <1>2, <1>3 DEF RefreshInv, Rests, Resting
<1> QED BY <1>3, <1>4, <1>5 DEF RefreshInv

LEMMA KillTypes ==
    ASSUME RefreshInv, NEW P, Kill(P)
    PROVE  RefreshInv'
<1>1. /\ UNCHANGED <<disk, keyring, op, left, key, provider>>
      /\ pc' = [p \in Procs |-> IF Process[p] = P THEN "idle" ELSE pc[p]]
      /\ ret' = [p \in Procs |-> IF Process[p] = P THEN "none" ELSE ret[p]]
      /\ k' = [p \in Procs |-> IF Process[p] = P THEN 1 ELSE k[p]]
      /\ conf' = [p \in Procs |-> IF Process[p] = P THEN NoConf ELSE conf[p]]
      /\ hyml' = [p \in Procs |-> IF Process[p] = P THEN NoHosts ELSE hyml[p]]
      /\ creds' = [p \in Procs |-> IF Process[p] = P THEN NoCreds ELSE creds[p]]
      /\ at' = [p \in Procs |-> IF Process[p] = P THEN "out" ELSE at[p]]
      /\ out' = [p \in Procs |-> IF Process[p] = P THEN "none" ELSE out[p]]
      /\ ctx' = [p \in Procs |-> IF Process[p] = P THEN FALSE ELSE ctx[p]]
  BY DEF Kill
<1>2. StoreInv'
  <2>1. /\ pc' \in [Procs -> Steps \cup {"idle"}] /\ ret' \in [Procs -> Outcomes]
        /\ k' \in [Procs -> 1..3]
    BY <1>1 DEF RefreshInv, StoreInv, TypeOK, Outcomes
  <2>2. /\ conf' \in [Procs -> ConfFiles] /\ hyml' \in [Procs -> HostsFiles]
        /\ creds' \in [Procs -> Creds]
    BY <1>1, Empty DEF RefreshInv, StoreInv, TypeOK
  <2>3. \A p \in Procs : Index(p)'
    BY <1>1 DEF RefreshInv, StoreInv, Index, SecretLoops, TokenLoops
  <2> QED BY <1>1, <2>1, <2>2, <2>3 DEF RefreshInv, StoreInv, TypeOK, disk
<1>5. ASSUME NEW p \in Procs PROVE Carries(p)'
  <2>1. CASE Process[p] = P
    BY <1>1, <2>1 DEF Carries
  <2>2. CASE Process[p] # P
    BY <1>1, <2>2, Carried, CarriesKept
  <2> QED BY <2>1, <2>2
<1>3. RefreshTypeOK'
  BY <1>1, <1>2, <1>5 DEF Carries, RefreshInv, RefreshTypeOK, StoreInv, provider
<1>4. \A p \in Procs : Rests(p)'
  BY <1>1 DEF RefreshInv, Rests, Resting
<1> QED BY <1>2, <1>3, <1>4 DEF RefreshInv

LEMMA RefreshTypesInit == ASSUME RefreshInit PROVE RefreshInv
<1>1. StoreInv
  BY StoreInit DEF RefreshInit
<1>2. CallTypes
  BY CallInit DEF CallInv
<1>3. 1 \in 1..MaxSet
  BY StoreAssumption, RefreshAssumption DEF StoreAssumption, RefreshAssumption
<1>4. RefreshTypeOK
  BY <1>1, <1>2, <1>3, RefreshAssumption DEF RefreshAssumption, RefreshInit,
         RefreshTypeOK, StoreInv, CallTypes, Places
<1>5. \A p \in Procs : Rests(p)
  BY DEF RefreshInit, Rests, Resting
<1> QED BY <1>1, <1>4, <1>5 DEF RefreshInv

LEMMA RefreshTypesNext == ASSUME RefreshInv, [RefreshNext]_allVars PROVE RefreshInv'
<1>1. ASSUME NEW p \in Procs, Refresh(p) PROVE RefreshInv'
  BY <1>1, RefreshTypes
<1>2. ASSUME NEW p \in Procs, StoreStep(p) PROVE RefreshInv'
  <2>1. StoreInv'
    BY <1>2, StoreKeeps, DeleteKeeps, LoadKeeps DEF StoreStep, RefreshInv
  <2>2. /\ op' = op
        /\ \A x \in Procs : x # p => pc'[x] = pc[x] /\ creds'[x] = creds[x]
    BY <1>2, OthersKept, OpKept DEF StoreStep, RefreshInv
  <2>3. pc[p] # "idle"
    BY <1>2, StoreMoves, DeleteMoves, LoadMoves
       DEF StoreStep, RefreshInv, StorePcs, DeletePcs, LoadPcs
  <2> QED BY <1>2, <2>1, <2>2, <2>3, StoreOnlyKeeps DEF StoreStep, RefreshInv, Rests
<1>3. ASSUME NEW p \in Procs,
             \/ HaveCreds(p) \/ ResolveTokenEndpoint(p) \/ Refuse(p)
             \/ ExchangeFails(p) \/ Refreshed(p)
      PROVE  RefreshInv'
  <2>1. /\ UNCHANGED <<vars, provider>>
        /\ \/ \E r \in {"ok", "expired", "error"} : Land(p, r)
           \/ /\ pc[p] = "idle" /\ Token(p) # 0
              /\ Advance(p, "endpoint") \/ Advance(p, "exchange")
    <3>1. CASE HaveCreds(p)
      BY <3>1 DEF HaveCreds
    <3>2. CASE ResolveTokenEndpoint(p)
      BY <3>2, Carried DEF ResolveTokenEndpoint, RefreshInv, Rests, Resting, Carries
    <3>3. CASE Refuse(p) \/ ExchangeFails(p) \/ Refreshed(p)
      BY <3>3 DEF Refuse, ExchangeFails, Refreshed
    <3> QED BY <1>3, <3>1, <3>2, <3>3
  <2>2. CASE \E r \in {"ok", "expired", "error"} : Land(p, r)
    BY <2>1, <2>2, LandTypes, CallsKeep
  <2>3. CASE pc[p] = "idle" /\ Token(p) # 0 /\ (Advance(p, "endpoint") \/ Advance(p, "exchange"))
    <3>1. /\ CallsTypeOK' /\ at'[p] \in {"endpoint", "exchange"}
          /\ \A x \in Procs : x # p => at'[x] = at[x]
      BY <2>3, AdvanceTypes DEF Flying
    <3> QED BY <2>1, <2>3, <3>1, CallsKeep
  <2> QED BY <2>1, <2>2, <2>3
<1>4. ASSUME NEW p \in Procs, Grant(p) \/ Answer(p) PROVE RefreshInv'
  BY <1>4, GrantTypes, AnswerTypes
<1>5. ASSUME NEW p \in Procs, Cancel(p) PROVE RefreshInv'
  <2>1. UNCHANGED <<vars, provider>> /\ at' = at /\ CallsTypeOK'
    BY <1>5 DEF Cancel, provider, RefreshInv, RefreshTypeOK, CallsTypeOK, Places
  <2> QED BY <2>1, CallsKeep
<1>6. ASSUME NEW p \in Procs, at[p] = "out", Call(p), UNCHANGED <<calls, provider>>
      PROVE  RefreshInv'
  <2>1. /\ StoreInv' /\ at[p] \notin Resting /\ at[p] # "store"
        /\ \A x \in Procs : x # p => /\ pc'[x] = pc[x] /\ creds'[x] = creds[x]
                                     /\ op'[x] = op[x]
    BY <1>6, CallKeeps, OthersKept DEF RefreshInv, Resting
  <2> QED BY <1>6, <2>1, StoreOnlyKeeps
<1>7. ASSUME NEW p \in Procs, WriteFails(p), UNCHANGED <<calls, provider>>
      PROVE  RefreshInv'
  <2>1. /\ StoreInv' /\ op' = op
        /\ \A x \in Procs : x # p => pc'[x] = pc[x] /\ creds'[x] = creds[x]
    BY <1>7, StopKeeps, OthersKept, OpKept DEF RefreshInv
  <2>2. at[p] \notin Resting
    BY <1>7 DEF WriteFails, RefreshInv, Rests
  <2> QED BY <1>7, <2>1, <2>2, StoreOnlyKeeps
<1>8. ASSUME NEW P \in {Process[p] : p \in Procs}, Kill(P) PROVE RefreshInv'
  BY <1>8, KillTypes
<1>9. CASE UNCHANGED allVars
  <2>1. UNCHANGED <<vars, calls, provider>>
    BY <1>9 DEF allVars
  <2>2. UNCHANGED <<vars, provider>> /\ at' = at /\ CallsTypeOK'
    BY <2>1 DEF calls, RefreshInv, RefreshTypeOK, CallsTypeOK, Places
  <2>3. StoreInv' /\ RefreshTypeOK' /\ \A x \in Procs : Rests(x)'
    BY <2>1, StoreNext
       DEF calls, provider, vars, locals, RefreshInv, RefreshTypeOK, StoreInv, Rests,
           Token, Storing
  <2> QED BY <2>3 DEF RefreshInv
<1> QED
  BY <1>1, <1>2, <1>3, <1>4, <1>5, <1>6, <1>7, <1>8, <1>9 DEF RefreshNext, Work

\* The refreshes, the store beneath them and the provider keep their types, and no
\* refresh loses the token that it loaded before it is stored again, also when the
\* provider's answer brings no other.  (oauth.go:216-238)
THEOREM RefreshTypeCorrect == RefreshSpec => []RefreshTypeOK
<1>1. RefreshInv => RefreshTypeOK
  BY DEF RefreshInv
<1> QED BY <1>1, RefreshTypesInit, RefreshTypesNext, PTL DEF RefreshSpec

-----------------------------------------------------------------------------
(***************************************************************************)
(* No mixture of two sessions, with the tokens in the files: a rename      *)
(* installs a whole hosts.yml, and a load takes its tokens from one.       *)
(***************************************************************************)
FileMode == FirstConf(FALSE).storage = "file"
HostsWhole(h, mode) == \A r \in Regions, q \in Profiles : Unmixed(h.entry[r][q], mode)

\* The tokens that tell which session this is.
Fits(n, mode) == n = "access_token" \/ mode

\* Where the tokens go is settled by the file at the start.
SameStorage(p) ==
    pc[p] \in {"storeSecrets", "storeWriteConf", "storeHosts", "storeTokens", "delWriteConf"} =>
      conf[p].st = "good" /\ conf[p].storage = FirstConf(FALSE).storage

\* A store has set the first tokens of its entry, a load has read them.
WholeWork(p, mode) ==
    LET e == hyml[p].entry[Region(p)][Profile(p)]
        sofar(token) == \A i \in 1..(k[p] - 1) :
                          Fits(Tokens[i], mode) => token[Tokens[i]] = e.expiry
    IN  /\ Unmixed(op[p].creds, mode)
        /\ pc[p] = "storeTokens" =>
             /\ \A r \in Regions, q \in Profiles :
                  <<r, q>> # <<Region(p), Profile(p)>> => Unmixed(hyml[p].entry[r][q], mode)
             /\ e.expiry = op[p].creds.expiry /\ sofar(e.token)
        /\ pc[p] \in {"storeWriteHosts", "delWriteHosts", "loadTokens"} =>
             HostsWhole(hyml[p], mode)
        /\ pc[p] = "loadTokens" => creds[p].expiry = e.expiry /\ sofar(creds[p].token)
        /\ pc[p] # "loadTokens" => Unmixed(creds[p], mode)

FilesAt(mode) ==
    /\ xdg.st = "absent" => xdg = NoConf
    /\ \A p \in Procs : SameStorage(p)
    /\ FileMode => HostsWhole(hosts, mode) /\ \A p \in Procs : WholeWork(p, mode)

\* With the provider's mode as a constant.
FilesInv == \E mode \in Rotations : rotates = mode /\ FilesAt(mode)

LEMMA StorageKept ==
    ASSUME NEW mode, StoreInv, FilesAt(mode), NEW p \in Procs, Act(p)
    PROVE  /\ FirstConf(FALSE)'.storage = FirstConf(FALSE).storage
           /\ (xdg.st = "absent" => xdg = NoConf)'
<1>1. CASE xdg' = xdg
  <2>1. FirstConf(FALSE)' = FirstConf(FALSE)
    BY <1>1, Writes DEF FirstConf
  <2> QED BY <1>1, <2>1 DEF FilesAt, NoConf, NoSection
<1>2. CASE xdg' # xdg
  <2>1. xdg' = conf[p] /\ conf[p].st = "good" /\ conf[p].storage = FirstConf(FALSE).storage
    BY <1>2, Writes DEF FilesAt, SameStorage
  <2> QED BY <2>1 DEF FirstConf
<1> QED BY <1>1, <1>2

LEMMA SameStorageKept ==
    ASSUME NEW mode, OutsideProjects, StoreInv, FilesAt(mode), NEW p \in Procs, Act(p)
    PROVE  SameStorage(p)'
<1> DEFINE r == Region(p)
           f == FirstConf(p \in InProject)
           After == {"storeSecrets", "storeWriteConf", "storeHosts", "storeTokens", "delWriteConf"}
<1>1. /\ r \in Regions /\ f \in ConfFiles /\ conf[p] \in ConfFiles
      /\ conf \in [Procs -> ConfFiles]
  BY ProcType
<1>2. f = FirstConf(FALSE) /\ FirstConf(FALSE)'.storage = FirstConf(FALSE).storage
  BY StorageKept DEF OutsideProjects, FirstConf
<1> HIDE DEF f
<1>3. CASE StoreConf(p)
  <2>1. CASE f.st = "bad"
    BY <1>3, <2>1 DEF StoreConf, Return, StoreInv, TypeOK, SameStorage, f
  <2>2. CASE f.st # "bad"
    <3>1. PICK s : conf' = [conf EXCEPT ![p] = [f EXCEPT !.st = "good", !.section[r] = s]]
      BY <1>3, <2>2 DEF StoreConf, f
    <3>2. conf'[p].st = "good" /\ conf'[p].storage = f.storage
      BY <1>1, <3>1 DEF ConfFiles
    <3> QED BY <1>2, <3>2 DEF SameStorage
  <2> QED BY <2>1, <2>2
<1>4. CASE StoreSecret(p)
  <2>1. PICK v : conf'[p] = SecretSet(conf[p], r, Secrets[k[p]], v)
    BY <1>1, <1>4 DEF StoreSecret, SecretSet
  <2>2. pc[p] = "storeSecrets" /\ Secrets[k[p]] \in SecretNames
    BY <1>4, Names DEF StoreSecret, StoreInv, TypeOK
  <2>3. conf'[p].st = conf[p].st /\ conf'[p].storage = conf[p].storage
    BY <1>1, <2>1, <2>2, ConfSecretIs
  <2> QED BY <1>2, <2>2, <2>3 DEF FilesAt, SameStorage
<1>5. CASE DelConf(p)
  <2>1. CASE pc'[p] # "delWriteConf"
    BY <1>5, <2>1 DEF DelConf, Return, Goto, StoreInv, TypeOK, SameStorage
  <2>2. CASE pc'[p] = "delWriteConf"
    <3>1. /\ conf' = [conf EXCEPT ![p] = [f EXCEPT !.section[r] = NoSection]]
          /\ f.st # "bad" /\ f.st # "absent"
      BY <1>5, <2>2 DEF DelConf, Return, Goto, StoreInv, TypeOK, f
    <3>2. conf'[p].st = "good" /\ conf'[p].storage = f.storage
      BY <1>1, <3>1 DEF ConfFiles
    <3> QED BY <1>2, <3>2 DEF SameStorage
  <2> QED BY <2>1, <2>2
<1>6. CASE StoreWriteConf(p) \/ StoreHosts(p) \/ StoreToken(p)
  <2>1. pc[p] \in After
    BY <1>6 DEF StoreWriteConf, StoreHosts, StoreToken
  <2>2. conf'[p] = conf[p] \/ pc'[p] = "idle"
    BY <1>6 DEF StoreWriteConf, StoreHosts, StoreToken, Return, StoreInv, TypeOK, locals
  <2> QED BY <1>2, <2>1, <2>2 DEF FilesAt, SameStorage
<1>7. pc'[p] \in After => \/ StoreConf(p) \/ StoreSecret(p) \/ DelConf(p)
                          \/ StoreWriteConf(p) \/ StoreHosts(p) \/ StoreToken(p)
  <2> USE DEF StoreInv, TypeOK
  <2>1. ~(Call(p) \/ Load(p)) \/ pc'[p] \notin After
    BY CallMoves, LoadMoves DEF LoadPcs
  <2>2. ~(WriteFails(p) \/ Crash(p)) \/ pc'[p] \notin After
    BY DEF WriteFails, Crash, Return
  <2>3. ~(StoreKeyringFails(p) \/ StoreWriteHosts(p)) \/ pc'[p] \notin After
    BY DEF StoreKeyringFails, StoreWriteHosts, Return
  <2>4. ~(DelSecret(p) \/ DelToken(p) \/ DelWriteHosts(p) \/ DelHosts(p) \/ DelWriteConf(p))
          \/ pc'[p] \notin After
    BY DEF DelSecret, DelToken, DelWriteHosts, DelHosts, DelWriteConf, Return, Goto, Loop
  <2> QED BY <2>1, <2>2, <2>3, <2>4 DEF Act, Store, Delete
<1> QED BY <1>3, <1>4, <1>5, <1>6, <1>7 DEF SameStorage

LEMMA NothingWhole == \A mode : Unmixed(NoCreds, mode) /\ Unmixed(NoEntry, mode)
BY DEF Unmixed, NoCreds, NoEntry

\* A call that ends keeps whole credentials or none.
LEMMA ReturnWhole ==
    ASSUME NEW mode, StoreInv, NEW p \in Procs, WholeWork(p, mode), NEW r,
           Return(p, r), op' = op,
           r = "ok" => pc[p] # "loadTokens"
    PROVE  WholeWork(p, mode)'
<1>1. pc'[p] = "idle" /\ creds'[p] \in {creds[p], NoCreds} /\ (r # "ok" => creds'[p] = NoCreds)
  BY DEF Return, StoreInv, TypeOK
<1>2. Unmixed(creds[p], mode)' /\ Unmixed(op[p].creds, mode)'
  BY <1>1, NothingWhole DEF WholeWork, Unmixed
<1> QED BY <1>1, <1>2 DEF WholeWork

\* A step that neither touches hosts.yml nor a session.
LEMMA ElsewhereWhole ==
    ASSUME NEW mode, StoreInv, NEW p \in Procs, WholeWork(p, mode), op'[p] = op[p],
           pc[p] # "loadTokens",
           pc'[p] \notin {"storeTokens", "storeWriteHosts", "delWriteHosts", "loadTokens"},
           creds'[p].token = creds[p].token, creds'[p].expiry = creds[p].expiry
    PROVE  WholeWork(p, mode)'
<1>1. Unmixed(creds[p], mode)' /\ Unmixed(op[p].creds, mode)'
  BY DEF WholeWork, Unmixed
<1> QED BY <1>1 DEF WholeWork

LEMMA WholeStoreHosts ==
    ASSUME NEW mode, StoreInv, NEW p \in Procs, WholeWork(p, mode),
           HostsWhole(hosts, mode), StoreHosts(p)
    PROVE  WholeWork(p, mode)'
<1> DEFINE r == Region(p)
           q == Profile(p)
           e == hosts.entry[r][q]
           d == [e EXCEPT !.has = TRUE, !.expiry = op[p].creds.expiry]
           h == [hosts EXCEPT !.st = "good", !.entry[r][q] = d]
<1>1. CASE Refused
  BY <1>1, ReturnWhole DEF StoreHosts, Refusal
<1>2. CASE ~Refused
  <2>1. /\ hyml' = [hyml EXCEPT ![p] = h] /\ pc' = [pc EXCEPT ![p] = "storeTokens"]
        /\ UNCHANGED <<op, k, creds>> /\ pc[p] = "storeHosts"
    BY <1>2 DEF StoreHosts, Goto
  <2>2. pc'[p] = "storeTokens" /\ hyml'[p] = h /\ k'[p] = 1
    BY <2>1 DEF StoreInv, TypeOK, Index, SecretLoops, TokenLoops
  <2>3. r \in Regions /\ q \in Profiles /\ hosts \in HostsFiles /\ e \in Entries
    BY ProcType, EntryType
  <2>4. d.expiry = op[p].creds.expiry
    BY <2>3 DEF Entries
  <2>5. h.entry[r][q] = d /\ \A x \in Regions, y \in Profiles :
          <<x, y>> # <<r, q>> => h.entry[x][y] = hosts.entry[x][y]
    <3> HIDE DEF d
    <3> QED BY <2>3 DEF HostsFiles
  <2> HIDE DEF h, d
  <2>6. \A x \in Regions, y \in Profiles :
          <<x, y>> # <<r, q>> => Unmixed(h.entry[x][y], mode)
    BY <2>5 DEF HostsWhole
  <2>7. Unmixed(op[p].creds, mode) /\ Unmixed(creds[p], mode)
    BY <2>1 DEF WholeWork
  <2> QED BY <2>1, <2>2, <2>4, <2>5, <2>6, <2>7 DEF WholeWork, Unmixed, Region, Profile
<1> QED BY <1>1, <1>2

LEMMA WholeStoreToken ==
    ASSUME NEW mode, StoreInv, NEW p \in Procs, WholeWork(p, mode), StoreToken(p),
           conf[p].storage = "file"
    PROVE  WholeWork(p, mode)'
<1> DEFINE r == Region(p)
           q == Profile(p)
           name == Tokens[k[p]]
           v == op[p].creds.token[name]
           e == hyml[p].entry[r][q]
           d == hyml'[p].entry[r][q]
<1>1. /\ pc[p] = "storeTokens" /\ Loop(p, Tokens, "storeWriteHosts")
      /\ hyml' = [hyml EXCEPT ![p].entry[r][q].token[name] = v]
      /\ UNCHANGED <<disk, op, left, conf, creds>>
  BY DEF StoreToken
<1>2. /\ r \in Regions /\ q \in Profiles /\ hyml[p] \in HostsFiles
      /\ k[p] \in 1..2 /\ name \in TokenNames /\ hyml \in [Procs -> HostsFiles]
  <2>1. k[p] \in 1..2 /\ name \in TokenNames
    BY <1>1, Names DEF StoreInv, Index, TokenLoops
  <2> QED BY <2>1, ProcType
<1>3. hyml'[p] = TokenSet(hyml[p], r, q, name, v)
  BY <1>1, <1>2 DEF TokenSet
<1>4. /\ Unmixed(op[p].creds, mode) /\ Unmixed(creds[p], mode)
      /\ e.expiry = op[p].creds.expiry
      /\ \A i \in 1..(k[p] - 1) : Fits(Tokens[i], mode) => e.token[Tokens[i]] = e.expiry
      /\ \A x \in Regions, y \in Profiles :
           <<x, y>> # <<r, q>> => Unmixed(hyml[p].entry[x][y], mode)
  BY <1>1 DEF WholeWork
<1>5. Fits(name, mode) => v = op[p].creds.expiry
  BY <1>2, <1>4 DEF Unmixed, Fits
<1> HIDE DEF v
<1>6. /\ d.token[name] = v /\ d.expiry = e.expiry
      /\ \A n \in TokenNames \ {name} : d.token[n] = e.token[n]
      /\ \A x \in Regions, y \in Profiles :
           <<x, y>> # <<r, q>> => hyml'[p].entry[x][y] = hyml[p].entry[x][y]
  <2> HIDE DEF name, r, q
  <2> QED BY <1>2, <1>3, HostsTokenIs
<1>7. ASSUME NEW i \in 1..k[p], Fits(Tokens[i], mode)
      PROVE  d.token[Tokens[i]] = d.expiry
  <2>1. CASE i = k[p]
    BY <1>4, <1>5, <1>6, <1>7, <2>1
  <2>2. CASE i # k[p]
    <3>1. i \in 1..(k[p] - 1) /\ Tokens[i] \in TokenNames \ {name}
      BY <1>2, <2>2, Names
    <3> QED BY <1>4, <1>6, <1>7, <3>1
  <2> QED BY <2>1, <2>2
<1>8. \A x \in Regions, y \in Profiles :
        <<x, y>> # <<r, q>> => Unmixed(hyml'[p].entry[x][y], mode)
  BY <1>4, <1>6
<1>9. /\ Unmixed(op[p].creds, mode)' /\ Unmixed(creds[p], mode)'
      /\ Region(p)' = r /\ Profile(p)' = q
  <2>1. op' = op /\ creds' = creds
    BY <1>1, SMTT(40)
  <2> QED BY <1>4, <2>1 DEF Region, Profile
<1>10. d.expiry = op'[p].creds.expiry
  BY <1>1, <1>4, <1>6
<1> HIDE DEF name, e, d
<1>11. CASE k[p] = 2
  <2>1. pc'[p] = "storeWriteHosts"
    BY <1>1, <1>11, Names DEF Loop, StoreInv, TypeOK
  <2>2. Unmixed(d, mode)
    BY <1>7, <1>11, Names DEF Unmixed, Fits
  <2>3. HostsWhole(hyml[p], mode)'
    BY <1>8, <2>2 DEF HostsWhole, Unmixed, d
  <2> QED BY <1>9, <2>1, <2>3 DEF WholeWork
<1>12. CASE k[p] # 2
  <2>1. pc'[p] = "storeTokens" /\ k'[p] - 1 = k[p]
    BY <1>1, <1>2, <1>12, Names DEF Loop, StoreInv, TypeOK
  <2> QED BY <1>7, <1>8, <1>9, <1>10, <2>1 DEF WholeWork, Unmixed, d
<1> QED BY <1>11, <1>12
\* deleteHostsCreds takes an entry out.
LEMMA WholeDelHosts ==
    ASSUME NEW mode, StoreInv, NEW p \in Procs, WholeWork(p, mode),
           HostsWhole(hosts, mode), DelHosts(p)
    PROVE  WholeWork(p, mode)'
<1> DEFINE r == Region(p)
           q == Profile(p)
           h == [hosts EXCEPT !.entry[r][q] = NoEntry]
<1>1. CASE Return(p, Refusal)
  BY <1>1, ReturnWhole DEF DelHosts, Refusal
<1>2. CASE Goto(p, "delConf") /\ UNCHANGED locals
  BY <1>2, ElsewhereWhole DEF DelHosts, Goto, locals, StoreInv, TypeOK
<1>3. CASE hyml' = [hyml EXCEPT ![p] = h] /\ Goto(p, "delWriteHosts") /\ UNCHANGED <<k, conf, creds>>
  <2>1. r \in Regions /\ q \in Profiles /\ hosts \in HostsFiles
    BY ProcType
  <2>2. h.entry[r][q] = NoEntry /\ \A x \in Regions, y \in Profiles :
          <<x, y>> # <<r, q>> => h.entry[x][y] = hosts.entry[x][y]
    BY <2>1 DEF HostsFiles
  <2> HIDE DEF h
  <2>3. HostsWhole(h, mode)
    BY <2>2, NothingWhole DEF HostsWhole
  <2>4. hyml'[p] = h /\ pc'[p] = "delWriteHosts" /\ op' = op /\ creds' = creds
        /\ pc[p] = "delHosts"
    BY <1>3 DEF DelHosts, Goto, StoreInv, TypeOK
  <2>5. HostsWhole(hyml[p], mode)' /\ Unmixed(creds[p], mode)' /\ Unmixed(op[p].creds, mode)'
    BY <2>3, <2>4 DEF WholeWork, HostsWhole, Unmixed
  <2> QED BY <2>4, <2>5 DEF WholeWork
<1> QED BY <1>1, <1>2, <1>3 DEF DelHosts

\* A load reads the file once and takes its expiry and its tokens from it.
LEMMA WholeLoadHosts ==
    ASSUME NEW mode, StoreInv, NEW p \in Procs, WholeWork(p, mode),
           HostsWhole(hosts, mode), LoadHosts(p)
    PROVE  WholeWork(p, mode)'
<1> DEFINE h == hosts.entry[Region(p)][Profile(p)]
<1>1. CASE \E r \in {Refusal, "ok"} : Return(p, r)
  BY <1>1, ReturnWhole DEF LoadHosts, Refusal
<1>2. CASE /\ hyml' = [hyml EXCEPT ![p] = hosts]
           /\ creds' = [creds EXCEPT ![p].expiry = h.expiry]
           /\ Goto(p, "loadTokens") /\ UNCHANGED <<k, conf>>
  <2>1. /\ hyml'[p] = hosts /\ pc'[p] = "loadTokens" /\ op' = op /\ k'[p] = 1
        /\ pc[p] = "loadHosts"
    BY <1>2 DEF LoadHosts, Goto, StoreInv, TypeOK, Index, SecretLoops, TokenLoops
  <2>2. creds'[p].expiry = h.expiry
    BY <1>2, ProcType DEF Creds
  <2>3. HostsWhole(hyml[p], mode)' /\ Unmixed(op[p].creds, mode)'
    BY <2>1 DEF WholeWork, HostsWhole, Unmixed
  <2> QED BY <2>1, <2>2, <2>3 DEF WholeWork, Region, Profile
<1> QED BY <1>1, <1>2 DEF LoadHosts

LEMMA WholeLoadToken ==
    ASSUME NEW mode, StoreInv, NEW p \in Procs, WholeWork(p, mode), LoadToken(p)
    PROVE  WholeWork(p, mode)'
<1> DEFINE r == Region(p)
           q == Profile(p)
           name == Tokens[k[p]]
           e == hyml[p].entry[r][q]
           v == Resolve(e.token[name], r, q, name)
<1>1. /\ r \in Regions /\ q \in Profiles /\ hyml[p] \in HostsFiles /\ creds[p] \in Creds
      /\ creds \in [Procs -> Creds] /\ pc[p] = "loadTokens" /\ op' = op
      /\ k[p] \in 1..2 /\ name \in TokenNames
  <2>1. pc[p] = "loadTokens" /\ op' = op
    BY DEF LoadToken
  <2>2. k[p] \in 1..2 /\ name \in TokenNames
    BY <2>1, Names DEF StoreInv, Index, TokenLoops
  <2> QED BY <2>1, <2>2, ProcType
<1>2. /\ HostsWhole(hyml[p], mode) /\ creds[p].expiry = e.expiry /\ Unmixed(op[p].creds, mode)
      /\ \A i \in 1..(k[p] - 1) :
           Fits(Tokens[i], mode) => creds[p].token[Tokens[i]] = e.expiry
  BY <1>1 DEF WholeWork
<1>3. e.expiry \in Plain /\ (Fits(name, mode) => e.token[name] = e.expiry)
  BY <1>1, <1>2, EntryType DEF HostsWhole, Unmixed, Fits
<1>4. Fits(name, mode) => e.token[name] # Placeholder /\ v = e.expiry
  BY <1>3 DEF Plain, Placeholder, Resolve
<1>12. CASE Return(p, "notconfigured")
  BY <1>1, <1>12, ReturnWhole
<1> SUFFICES ASSUME ~Return(p, "notconfigured") PROVE WholeWork(p, mode)'
  BY <1>12
<1>5. /\ creds' = [creds EXCEPT ![p].token[name] = v]
      /\ Loop(p, Tokens, "loadEnd") /\ hyml' = hyml
  BY DEF LoadToken
<1> HIDE DEF v
<1>6. /\ creds'[p].expiry = e.expiry /\ creds'[p].token[name] = v
      /\ \A n \in TokenNames \ {name} : creds'[p].token[n] = creds[p].token[n]
  <2> HIDE DEF name, e
  <2>1. creds[p].token \in [TokenNames -> Plain]
    BY <1>1 DEF Creds
  <2>2. creds'[p] = [creds[p] EXCEPT !.token[name] = v]
    BY <1>1, <1>5
  <2> QED BY <1>1, <1>2, <2>1, <2>2 DEF Creds
<1>7. ASSUME NEW i \in 1..k[p], Fits(Tokens[i], mode)
      PROVE  creds'[p].token[Tokens[i]] = e.expiry
  <2>1. CASE i = k[p]
    BY <1>4, <1>6, <1>7, <2>1
  <2>2. CASE i # k[p]
    <3>1. i \in 1..(k[p] - 1) /\ Tokens[i] \in TokenNames \ {name}
      BY <1>1, <2>2, Names, SMTT(40)
    <3> QED BY <1>2, <1>6, <1>7, <3>1
  <2> QED BY <2>1, <2>2
<1>8. /\ Unmixed(op[p].creds, mode)' /\ HostsWhole(hyml[p], mode)'
      /\ Region(p)' = r /\ Profile(p)' = q
  BY <1>1, <1>2, <1>5 DEF Region, Profile, Unmixed, HostsWhole
<1>9. hyml'[p].entry[Region(p)'][Profile(p)'] = e
  BY <1>5, <1>8
<1> HIDE DEF name, e, r, q
<1>10. CASE k[p] = 2
  <2>1. pc'[p] = "loadEnd"
    BY <1>5, <1>10, Names DEF Loop, StoreInv, TypeOK
  <2>2. Unmixed(creds[p], mode)'
    BY <1>6, <1>7, <1>10, Names DEF Unmixed, Fits
  <2> QED BY <1>8, <2>1, <2>2 DEF WholeWork
<1>11. CASE k[p] # 2
  <2>1. pc'[p] = "loadTokens" /\ k'[p] - 1 = k[p]
    BY <1>1, <1>5, <1>11, Names DEF Loop, StoreInv, TypeOK
  <2> QED BY <1>6, <1>7, <1>8, <1>9, <2>1 DEF WholeWork
<1> QED BY <1>10, <1>11

\* The steps of a load that come before hosts.yml, and its last one.
LEMMA WholeLoad ==
    ASSUME NEW mode, StoreInv, NEW p \in Procs, WholeWork(p, mode),
           HostsWhole(hosts, mode), Load(p)
    PROVE  WholeWork(p, mode)'
<1> DEFINE Inside == {"storeTokens", "storeWriteHosts", "delWriteHosts", "loadTokens"}
<1>1. ASSUME op' = op, pc'[p] \notin Inside, Unmixed(creds[p], mode)' PROVE WholeWork(p, mode)'
  BY <1>1 DEF WholeWork, Unmixed
<1>2. CASE LoadEnv(p)
  <2>1. op' = op /\ pc'[p] = "idle" /\ creds'[p] = op[p].creds
    BY <1>2 DEF LoadEnv, StoreInv, TypeOK
  <2>2. Unmixed(creds[p], mode)'
    BY <2>1 DEF WholeWork, Unmixed
  <2> QED BY <1>1, <2>1, <2>2
<1>3. CASE LoadConf(p)
  <2>1. CASE \E r \in {"error", "notconfigured"} : Return(p, r)
    BY <1>3, <2>1, ReturnWhole DEF LoadConf
  <2>2. CASE Goto(p, "loadSecrets") /\ \E x, y : creds' = [creds EXCEPT ![p] =
               [NoCreds EXCEPT !.application_key = x, !.client_id = y]]
    <3>1. creds'[p].token = NoCreds.token /\ creds'[p].expiry = NoCreds.expiry
      BY <2>2, ProcType DEF NoCreds
    <3>2. Unmixed(creds[p], mode)'
      BY <3>1, NothingWhole DEF Unmixed
    <3>3. op' = op /\ pc'[p] = "loadSecrets"
      BY <1>3, <2>2 DEF LoadConf, Goto, StoreInv, TypeOK
    <3> QED BY <1>1, <3>2, <3>3
  <2> QED BY <1>3, <2>1, <2>2 DEF LoadConf
<1>4. CASE LoadSecret(p)
  <2>1. CASE Return(p, "notconfigured")
    BY <1>4, <2>1, ReturnWhole DEF LoadSecret
  <2>2. CASE Loop(p, Secrets, "loadMethod")
             /\ \E n, v : creds' = [creds EXCEPT ![p].secret[n] = v]
    <3>1. creds'[p].token = creds[p].token /\ creds'[p].expiry = creds[p].expiry
      BY <2>2, ProcType DEF Creds
    <3>2. op' = op /\ pc'[p] \in {"loadSecrets", "loadMethod"} /\ pc[p] = "loadSecrets"
      BY <1>4, <2>2 DEF LoadSecret, Loop, StoreInv, TypeOK
    <3> QED BY <3>1, <3>2, ElsewhereWhole
  <2> QED BY <1>4, <2>1, <2>2 DEF LoadSecret
<1>5. CASE LoadMethod(p)
  <2>1. /\ op' = op /\ pc'[p] \in {"loadHosts", "idle"} /\ pc[p] = "loadMethod"
        /\ \/ creds'[p] = NoCreds
           \/ \E x : creds' = [creds EXCEPT ![p] = [@ EXCEPT !.method = x]]
    BY <1>5, ProcType DEF LoadMethod, Goto, StoreInv, TypeOK
  <2>2. CASE creds'[p] = NoCreds
    BY <1>1, <2>1, <2>2, NothingWhole DEF Unmixed
  <2>3. CASE \E x : creds' = [creds EXCEPT ![p] = [@ EXCEPT !.method = x]]
    <3>1. creds'[p].token = creds[p].token /\ creds'[p].expiry = creds[p].expiry
      BY <2>3, ProcType DEF Creds
    <3> QED BY <2>1, <3>1, ElsewhereWhole
  <2> QED BY <2>1, <2>2, <2>3
<1>6. CASE LoadEnd(p)
  <2>1. Return(p, "ok") /\ op' = op /\ pc[p] # "loadTokens"
    BY <1>6 DEF LoadEnd
  <2> QED BY <2>1, ReturnWhole
<1>7. CASE LoadKeyringFails(p)
  <2>1. Return(p, "unavailable") /\ op' = op
    BY <1>7 DEF LoadKeyringFails
  <2> QED BY <2>1, ReturnWhole
<1> QED BY <1>2, <1>3, <1>4, <1>5, <1>6, <1>7, WholeLoadHosts, WholeLoadToken DEF Load
LEMMA WholeStore ==
    ASSUME NEW mode, StoreInv, FilesAt(mode), FileMode, NEW p \in Procs, Store(p)
    PROVE  WholeWork(p, mode)'
<1>1. WholeWork(p, mode) /\ HostsWhole(hosts, mode) /\ SameStorage(p)
  BY DEF FilesAt
<1>2. CASE StoreConf(p)
  <2>1. CASE Return(p, "error")
    BY <1>1, <1>2, <2>1, ReturnWhole DEF StoreConf
  <2>2. CASE Goto(p, "storeSecrets") /\ UNCHANGED creds
    BY <1>1, <1>2, <2>2, ElsewhereWhole DEF StoreConf, Goto, StoreInv, TypeOK
  <2> QED BY <1>2, <2>1, <2>2 DEF StoreConf
<1>3. CASE StoreSecret(p)
  <2>1. /\ op' = op /\ creds' = creds /\ pc[p] = "storeSecrets"
        /\ pc'[p] \in {"storeSecrets", "storeWriteConf"}
    BY <1>3 DEF StoreSecret, Loop, StoreInv, TypeOK
  <2> QED BY <1>1, <2>1, ElsewhereWhole
<1>4. CASE StoreKeyringFails(p)
  <2>1. Return(p, "unavailable") /\ op' = op
    BY <1>4 DEF StoreKeyringFails
  <2> QED BY <1>1, <2>1, ReturnWhole
<1>5. CASE StoreWriteConf(p)
  <2>1. CASE Return(p, "ok")
    BY <1>1, <1>5, <2>1, ReturnWhole DEF StoreWriteConf
  <2>2. CASE Goto(p, "storeHosts") /\ UNCHANGED locals
    BY <1>1, <1>5, <2>2, ElsewhereWhole DEF StoreWriteConf, Goto, locals, StoreInv, TypeOK
  <2> QED BY <1>5, <2>1, <2>2 DEF StoreWriteConf
<1>6. CASE StoreToken(p)
  <2>1. conf[p].storage = "file"
    BY <1>1, <1>6 DEF StoreToken, SameStorage, FileMode
  <2> QED BY <1>1, <1>6, <2>1, WholeStoreToken
<1>7. CASE StoreWriteHosts(p)
  <2>1. Return(p, "ok") /\ op' = op /\ pc[p] # "loadTokens"
    BY <1>7 DEF StoreWriteHosts
  <2> QED BY <1>1, <2>1, ReturnWhole
<1> QED BY <1>1, <1>2, <1>3, <1>4, <1>5, <1>6, <1>7, WholeStoreHosts DEF Store

LEMMA WholeDelete ==
    ASSUME NEW mode, StoreInv, NEW p \in Procs, WholeWork(p, mode),
           HostsWhole(hosts, mode), Delete(p)
    PROVE  WholeWork(p, mode)'
<1>1. CASE DelSecret(p) \/ DelToken(p)
  <2>1. /\ op' = op /\ creds' = creds /\ pc[p] # "loadTokens"
        /\ pc'[p] \in {"delSecrets", "delTokens", "delHosts"}
    BY <1>1 DEF DelSecret, DelToken, Loop, StoreInv, TypeOK
  <2> QED BY <2>1, ElsewhereWhole
<1>2. CASE DelWriteHosts(p)
  <2>1. op' = op /\ creds' = creds /\ pc[p] # "loadTokens" /\ pc'[p] = "delConf"
    BY <1>2 DEF DelWriteHosts, Goto, locals, StoreInv, TypeOK
  <2> QED BY <2>1, ElsewhereWhole
<1>3. CASE DelConf(p)
  <2>1. CASE \E r \in {"error", "ok"} : Return(p, r)
    BY <1>3, <2>1, ReturnWhole DEF DelConf
  <2>2. CASE Goto(p, "delWriteConf") /\ UNCHANGED creds
    BY <1>3, <2>2, ElsewhereWhole DEF DelConf, Goto, StoreInv, TypeOK
  <2> QED BY <1>3, <2>1, <2>2 DEF DelConf
<1>4. CASE DelWriteConf(p)
  <2>1. Return(p, "ok") /\ op' = op /\ pc[p] # "loadTokens"
    BY <1>4 DEF DelWriteConf
  <2> QED BY <2>1, ReturnWhole
<1> QED BY <1>1, <1>2, <1>3, <1>4, WholeDelHosts DEF Delete

\* A call brings a whole session.
LEMMA BroughtWhole ==
    ASSUME NEW mode \in Rotations, WholeStart, NEW kind, NEW c \in Brought(kind)
    PROVE  Unmixed(c, mode)
<1>1. \A e \in Envs : Unmixed(ReadEnv(e), mode)
  <2> SUFFICES ASSUME NEW e \in Envs PROVE Unmixed(ReadEnv(e), mode)
    OBVIOUS
  <2>1. e \in Creds /\ Unmixed(e, mode)
    BY StoreAssumption DEF StoreAssumption, WholeStart
  <2>2. CASE Method(e) = "none"
    BY <2>2, NothingWhole DEF ReadEnv
  <2>3. CASE Method(e) # "none"
    <3>1. ReadEnv(e).token = e.token /\ ReadEnv(e).expiry = e.expiry
      BY <2>1, <2>3 DEF ReadEnv, Creds
    <3> QED BY <2>1, <3>1 DEF Unmixed
  <2> QED BY <2>2, <2>3
<1> QED BY <1>1, NothingWhole DEF Brought, WholeStart

\* Nothing in hand changes but the operation that begins or the end of one.
LEMMA BetweenWhole ==
    ASSUME NEW mode, NEW p \in Procs,
           pc'[p] \notin {"storeTokens", "storeWriteHosts", "delWriteHosts", "loadTokens"},
           Unmixed(op'[p].creds, mode), Unmixed(creds'[p], mode)
    PROVE  WholeWork(p, mode)'
BY DEF WholeWork, Unmixed

LEMMA WholeSame ==
    ASSUME NEW mode, NEW p \in Procs, WholeWork(p, mode), pc'[p] = pc[p],
           op'[p] = op[p], k'[p] = k[p],
           hyml'[p] = hyml[p], creds'[p] = creds[p]
    PROVE  WholeWork(p, mode)'
<1>1. Region(p)' = Region(p) /\ Profile(p)' = Profile(p)
  BY DEF Region, Profile
<1>2. HostsWhole(hyml[p], mode) => HostsWhole(hyml[p], mode)'
  BY DEF HostsWhole, Unmixed
<1>3. Unmixed(op[p].creds, mode)' /\ (Unmixed(creds[p], mode) => Unmixed(creds[p], mode)')
  BY DEF WholeWork, Unmixed
<1> QED BY <1>1, <1>2, <1>3 DEF WholeWork, Unmixed

\* A step of the store, and a call by another way than a refresh.
LEMMA FilesAct ==
    ASSUME NEW mode \in Rotations, OutsideProjects, WholeStart, StoreInv,
           FilesAt(mode), NEW p \in Procs, Act(p)
    PROVE  FilesAt(mode)'
<1>1. /\ (xdg.st = "absent" => xdg = NoConf)' /\ SameStorage(p)'
      /\ FirstConf(FALSE)'.storage = FirstConf(FALSE).storage
  BY StorageKept, SameStorageKept
<1>2. ASSUME NEW q \in Procs, q # p
      PROVE  /\ pc'[q] = pc[q] /\ op'[q] = op[q] /\ k'[q] = k[q] /\ conf'[q] = conf[q]
             /\ hyml'[q] = hyml[q] /\ creds'[q] = creds[q]
  BY <1>2, OthersKept DEF Act
<1>3. ASSUME NEW q \in Procs, q # p PROVE SameStorage(q)'
  BY <1>1, <1>2, <1>3 DEF FilesAt, SameStorage
<1>4. ASSUME FileMode' PROVE HostsWhole(hosts, mode)' /\ \A q \in Procs : WholeWork(q, mode)'
  <2>1. FileMode /\ HostsWhole(hosts, mode) /\ \A q \in Procs : WholeWork(q, mode)
    BY <1>1, <1>4 DEF FileMode, FilesAt
  <2>2. HostsWhole(hosts, mode)'
    <3>1. CASE hosts' = hosts
      BY <2>1, <3>1 DEF HostsWhole, Unmixed
    <3>2. CASE hosts' = hyml[p] /\ pc[p] \in {"storeWriteHosts", "delWriteHosts"}
      BY <2>1, <3>2 DEF HostsWhole, Unmixed, WholeWork
    <3> QED BY <3>1, <3>2, Writes
  <2>3. ASSUME NEW q \in Procs, q # p PROVE WholeWork(q, mode)'
    BY <1>2, <2>1, <2>3, WholeSame
  <2>4. WholeWork(p, mode)'
    <3>1. CASE Call(p)
      <4>1. Unmixed(op'[p].creds, mode) /\ creds' = creds /\ pc[p] = "idle"
            /\ pc'[p] \in {"loadConf", "storeConf", "delSecrets"}
        BY <3>1, CallMoves, BroughtWhole DEF locals
      <4> QED BY <2>1, <4>1, BetweenWhole DEF WholeWork
    <3>2. CASE WriteFails(p)
      <4>1. Return(p, "error") /\ op' = op
        BY <3>2 DEF WriteFails
      <4> QED BY <2>1, <4>1, ReturnWhole
    <3>3. CASE Crash(p)
      <4>1. Return(p, "none") /\ op' = op
        BY <3>3 DEF Crash
      <4> QED BY <2>1, <4>1, ReturnWhole
    <3> QED BY <2>1, <3>1, <3>2, <3>3, WholeStore, WholeDelete, WholeLoad DEF Act
  <2> QED BY <2>2, <2>3, <2>4
<1> QED BY <1>1, <1>3, <1>4 DEF FilesAt
\* No file changes, and every process goes on with what it had or is at the start
\* or the end of an operation.
LEMMA FilesStill ==
    ASSUME NEW mode, FilesAt(mode), UNCHANGED disk,
           \A p \in Procs :
             \/ /\ pc'[p] = pc[p] /\ op'[p] = op[p] /\ k'[p] = k[p]
                /\ conf'[p] = conf[p] /\ hyml'[p] = hyml[p] /\ creds'[p] = creds[p]
             \/ /\ pc'[p] \in {"idle", "loadConf", "storeConf"}
                /\ FileMode => Unmixed(op'[p].creds, mode) /\ Unmixed(creds'[p], mode)
    PROVE  FilesAt(mode)'
<1>1. UNCHANGED <<near, xdg, far, hosts>>
  BY DEF disk
<1>2. FirstConf(FALSE)' = FirstConf(FALSE)
  BY <1>1 DEF FirstConf
<1>3. ASSUME NEW p \in Procs PROVE SameStorage(p)'
  BY <1>2, <1>3 DEF FilesAt, SameStorage
<1>4. ASSUME FileMode', NEW p \in Procs PROVE WholeWork(p, mode)'
  <2>1. FileMode /\ WholeWork(p, mode)
    BY <1>2, <1>4 DEF FileMode, FilesAt
  <2>2. CASE /\ pc'[p] = pc[p] /\ op'[p] = op[p] /\ k'[p] = k[p]
             /\ hyml'[p] = hyml[p] /\ creds'[p] = creds[p]
    BY <2>1, <2>2, WholeSame
  <2>3. CASE pc'[p] \in {"idle", "loadConf", "storeConf"}
             /\ Unmixed(op'[p].creds, mode) /\ Unmixed(creds'[p], mode)
    BY <2>3, BetweenWhole
  <2> QED BY <2>1, <2>2, <2>3
<1>5. FileMode' => HostsWhole(hosts, mode)'
  BY <1>1, <1>2 DEF FileMode, FilesAt, HostsWhole, Unmixed
<1>6. (xdg.st = "absent" => xdg = NoConf)'
  BY <1>1 DEF FilesAt, NoConf, NoSection
<1> QED BY <1>3, <1>4, <1>5, <1>6 DEF FilesAt

\* A refresh starts a load or a store.
LEMMA FilesBegin ==
    ASSUME NEW mode, StoreInv, FilesAt(mode), NEW p \in Procs,
           NEW kind \in {"load", "store"}, NEW c,
           FileMode => Unmixed(c, mode), pc[p] = "idle", Begin(p, kind, c)
    PROVE  FilesAt(mode)'
<1>1. ASSUME NEW q \in Procs, q # p
      PROVE  /\ pc'[q] = pc[q] /\ op'[q] = op[q] /\ k'[q] = k[q]
             /\ conf'[q] = conf[q] /\ hyml'[q] = hyml[q] /\ creds'[q] = creds[q]
  BY <1>1 DEF Begin, locals, StoreInv, TypeOK
<1>2. pc'[p] \in {"loadConf", "storeConf"} /\ op'[p].creds = c /\ creds' = creds
  BY DEF Begin, FirstStep, locals, StoreInv, TypeOK
<1>3. FileMode => Unmixed(op'[p].creds, mode) /\ Unmixed(creds'[p], mode)
  BY <1>2 DEF FilesAt, WholeWork
<1> QED BY <1>1, <1>2, <1>3, FilesStill DEF Begin

\* The provider's answer is one session, but for a refresh token that it does not
\* bring.
LEMMA FilesGrant ==
    ASSUME NEW mode, rotates = mode, RefreshInv, FilesAt(mode), NEW p \in Procs, Grant(p)
    PROVE  FilesAt(mode)'
<1> DEFINE c == Renewed(creds[p], issued + 1)
<1>1. /\ pc[p] = "idle" /\ UNCHANGED <<disk, pc, op, k, conf, hyml>>
      /\ creds' = [creds EXCEPT ![p] = c]
  BY DEF Grant, RefreshInv, Rests, Resting
<1>2. creds[p] \in Creds /\ creds \in [Procs -> Creds] /\ issued + 1 \in Plain
  BY StoreAssumption
     DEF Grant, RefreshInv, RefreshTypeOK, StoreInv, TypeOK, StoreAssumption, Plain
<1>3. Unmixed(c, mode)
  <2>1. /\ c.expiry = issued + 1 /\ c.token["access_token"] = issued + 1
        /\ mode => c.token["refresh_token"] = issued + 1
    BY <1>2, RenewedIs
  <2> HIDE DEF c
  <2> QED BY <2>1, Names DEF Unmixed
<1> HIDE DEF c
<1>4. creds'[p] = c /\ \A q \in Procs : q # p => creds'[q] = creds[q]
  BY <1>1, <1>2
<1>5. FileMode => Unmixed(op'[p].creds, mode)
  BY <1>1 DEF FilesAt, WholeWork
<1> QED BY <1>1, <1>3, <1>4, <1>5, FilesStill

LEMMA FilesKill ==
    ASSUME NEW mode, FilesAt(mode), NEW P, Kill(P)
    PROVE  FilesAt(mode)'
<1>1. /\ UNCHANGED <<disk, op>>
      /\ pc' = [p \in Procs |-> IF Process[p] = P THEN "idle" ELSE pc[p]]
      /\ k' = [p \in Procs |-> IF Process[p] = P THEN 1 ELSE k[p]]
      /\ conf' = [p \in Procs |-> IF Process[p] = P THEN NoConf ELSE conf[p]]
      /\ hyml' = [p \in Procs |-> IF Process[p] = P THEN NoHosts ELSE hyml[p]]
      /\ creds' = [p \in Procs |-> IF Process[p] = P THEN NoCreds ELSE creds[p]]
  BY DEF Kill
<1>2. ASSUME NEW p \in Procs, Process[p] # P
      PROVE  /\ pc'[p] = pc[p] /\ op'[p] = op[p] /\ k'[p] = k[p]
             /\ conf'[p] = conf[p] /\ hyml'[p] = hyml[p] /\ creds'[p] = creds[p]
  BY <1>1, <1>2
<1>3. ASSUME NEW p \in Procs, Process[p] = P
      PROVE  /\ pc'[p] = "idle"
             /\ FileMode => Unmixed(op'[p].creds, mode) /\ Unmixed(creds'[p], mode)
  BY <1>1, <1>3, NothingWhole DEF FilesAt, WholeWork
<1> QED BY <1>1, <1>2, <1>3, FilesStill

LEMMA FilesNext ==
    ASSUME OutsideProjects, WholeStart, NEW mode \in Rotations, rotates = mode,
           RefreshInv, FilesAt(mode), [RefreshNext]_allVars
    PROVE  FilesAt(mode)'
<1>1. StoreInv
  BY DEF RefreshInv
<1>2. ASSUME UNCHANGED vars PROVE FilesAt(mode)'
  <2>1. UNCHANGED <<disk, pc, op, k, conf, hyml, creds>>
    BY <1>2 DEF vars, locals
  <2> QED BY <2>1, FilesStill
<1>3. ASSUME NEW p \in Procs, Refresh(p) PROVE FilesAt(mode)'
  <2>1. /\ pc[p] = "idle"
        /\ \/ UNCHANGED <<disk, locals, pc, op>>
           \/ \E e \in Brought("load") : Begin(p, "load", e)
    BY <1>3 DEF Refresh
  <2>2. CASE UNCHANGED <<disk, locals, pc, op>>
    BY <2>2, FilesStill DEF locals
  <2>3. CASE \E e \in Brought("load") : Begin(p, "load", e)
    BY <1>1, <2>1, <2>3, BroughtWhole, FilesBegin
  <2> QED BY <2>1, <2>2, <2>3
<1>4. ASSUME NEW p \in Procs, Answer(p) PROVE FilesAt(mode)'
  <2>1. pc[p] = "idle" /\ Begin(p, "store", creds[p])
    BY <1>4 DEF Answer, RefreshInv, Rests, Resting
  <2>2. FileMode => Unmixed(creds[p], mode)
    BY <2>1 DEF FilesAt, WholeWork
  <2> QED BY <1>1, <2>1, <2>2, FilesBegin
<1>5. ASSUME NEW p \in Procs, Act(p) PROVE FilesAt(mode)'
  BY <1>1, <1>5, FilesAct
<1>6. ASSUME NEW p \in Procs,
             \/ HaveCreds(p) \/ ResolveTokenEndpoint(p) \/ Refuse(p)
             \/ ExchangeFails(p) \/ Refreshed(p) \/ Cancel(p)
      PROVE  UNCHANGED vars
  BY <1>6 DEF HaveCreds, ResolveTokenEndpoint, Refuse, ExchangeFails, Refreshed, Cancel
<1>7. ASSUME NEW p \in Procs, StoreStep(p) \/ Call(p) \/ WriteFails(p) PROVE Act(p)
  BY <1>7 DEF StoreStep, Act
<1>8. UNCHANGED allVars => UNCHANGED vars
  BY DEF allVars
<1> QED
  BY <1>2, <1>3, <1>4, <1>5, <1>6, <1>7, <1>8, FilesGrant, FilesKill DEF RefreshNext, Work

LEMMA FilesInit == ASSUME WholeStart, RefreshInit PROVE FilesInv
<1>1. rotates \in Rotations /\ (xdg.st = "absent" => xdg = NoConf)
  BY StoreAssumption DEF RefreshInit, Init, StoreAssumption
<1>2. ASSUME NEW mode \in Rotations PROVE FilesAt(mode)
  <2>1. HostsWhole(hosts, mode)
    BY DEF RefreshInit, Init, WholeStart, HostsWhole
  <2>2. ASSUME NEW p \in Procs PROVE SameStorage(p) /\ WholeWork(p, mode)
    BY NothingWhole DEF RefreshInit, Init, NoOp, SameStorage, WholeWork
  <2> QED BY <1>1, <2>1, <2>2 DEF FilesAt
<1> QED BY <1>1, <1>2 DEF FilesInv

\* A provider does not change its ways.
LEMMA ModeKept == ASSUME [RefreshNext]_allVars PROVE rotates' = rotates
BY DEF RefreshNext, Refresh, Work, StoreStep, HaveCreds, ResolveTokenEndpoint, Refuse,
       Answer,
       Refreshed, Grant, ExchangeFails, Cancel, Kill, allVars, provider

\* With the tokens in the files a session that a load returns is one that the
\* provider issued, not a mixture of two, for any number of goroutines and
\* processes and although they are killed anywhere: hosts.yml is replaced by a
\* rename and read in one go.  A provider that issues no new refresh tokens leaves
\* the old one beside each session.  (hostsyml.go:81-161, oauth.go:230-232)
THEOREM NoMixedSession ==
    ASSUME OutsideProjects, WholeStart PROVE RefreshSpec => []SessionWhole
<1>1. FilesInv => SessionWhole
  <2> SUFFICES ASSUME NEW mode \in Rotations, rotates = mode, FilesAt(mode),
                      NEW p \in Procs, xdg.storage = "file", pc[p] = "idle"
               PROVE  Unmixed(creds[p], mode)
    BY DEF FilesInv, SessionWhole, WholeSession
  <2>1. xdg.st # "absent"
    BY DEF FilesAt, NoConf
  <2>2. FileMode
    BY <2>1 DEF FileMode, FirstConf
  <2> QED BY <2>2 DEF FilesAt, WholeWork
<1>2. RefreshInit => RefreshInv /\ FilesInv
  BY RefreshTypesInit, FilesInit
<1>3. RefreshInv /\ FilesInv /\ [RefreshNext]_allVars => (RefreshInv /\ FilesInv)'
  <2> SUFFICES ASSUME RefreshInv, FilesInv, [RefreshNext]_allVars
               PROVE  (RefreshInv /\ FilesInv)'
    OBVIOUS
  <2>1. PICK mode \in Rotations : rotates = mode /\ FilesAt(mode)
    BY DEF FilesInv
  <2>2. rotates' = mode /\ FilesAt(mode)'
    BY <2>1, FilesNext, ModeKept
  <2> QED BY <2>2, RefreshTypesNext DEF FilesInv
<1> QED BY <1>1, <1>2, <1>3, PTL DEF RefreshSpec
=============================================================================
