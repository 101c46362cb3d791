------------------------- MODULE CredContractProofs -------------------------
(***************************************************************************)
(* What Load, Store and Delete promise, proved for any regions, profiles,  *)
(* credential sets and initial files, through failed writes, a failing     *)
(* keyring and kills.                                                      *)
(***************************************************************************)
EXTENDS CredStoreProofs

-----------------------------------------------------------------------------
\* A process is inside the operation it was called for.
Kind(p) == /\ pc[p] \in StorePcs => op[p].kind = "store" /\ op[p].creds \in StoredSets
           /\ pc[p] \in DeletePcs => op[p].kind = "delete"
           /\ pc[p] \in LoadPcs => op[p].kind = "load"

LEMMA PcsApart ==
    /\ StorePcs \cap DeletePcs = {} /\ StorePcs \cap LoadPcs = {}
    /\ DeletePcs \cap LoadPcs = {} /\ "idle" \notin StorePcs \cup DeletePcs \cup LoadPcs
BY DEF StorePcs, DeletePcs, LoadPcs

LEMMA KindKept ==
    ASSUME StoreInv, \A p \in Procs : Kind(p), [Next]_vars
    PROVE  \A p \in Procs : Kind(p)'
<1>1. ASSUME NEW p \in Procs, Call(p) PROVE Kind(p)'
  <2>1. op'[p].kind = "store" => op'[p].creds \in StoredSets
    BY <1>1, CallMoves DEF Brought
  <2> QED BY <1>1, <2>1, CallMoves DEF Kind, FirstStep, StorePcs, DeletePcs, LoadPcs
<1>2. ASSUME NEW p \in Procs,
             Store(p) \/ Delete(p) \/ Load(p) \/ WriteFails(p) \/ Crash(p)
      PROVE  Kind(p)'
  <2>1. CASE Store(p) \/ Delete(p) \/ Load(p)
    BY <2>1, StoreMoves, DeleteMoves, LoadMoves, OpKept, PcsApart DEF Kind
  <2>2. CASE WriteFails(p) \/ Crash(p)
    BY <2>2, PcsApart DEF WriteFails, Crash, Return, Kind, StoreInv, TypeOK
  <2> QED BY <1>2, <2>1, <2>2
<1>3. CASE UNCHANGED vars
  BY <1>3 DEF vars, Kind
<1>4. CASE Next
  <2> SUFFICES ASSUME NEW q \in Procs PROVE Kind(q)'
    OBVIOUS
  <2>1. PICK p \in Procs :
          Call(p) \/ Store(p) \/ Delete(p) \/ Load(p) \/ WriteFails(p) \/ Crash(p)
    BY <1>4 DEF Next
  <2>2. CASE q = p
    BY <2>1, <2>2, <1>1, <1>2
  <2>3. CASE q # p
    BY <2>1, <2>3, OthersKept DEF Kind
  <2> QED BY <2>2, <2>3
<1> QED BY <1>3, <1>4

LEMMA KindInit == ASSUME Init PROVE \A p \in Procs : Kind(p)
BY PcsApart DEF Init, Kind

-----------------------------------------------------------------------------
(***************************************************************************)
(* Delete, among any number of processes: whatever the others write        *)
(* meanwhile, the file it writes last has no section for the region.       *)
(***************************************************************************)
Emptied(p) == pc[p] = "delWriteConf" =>
                conf[p].st = "good" /\ ~conf[p].section[Region(p)].has

DeleteInv == StoreInv /\ \A p \in Procs : Kind(p) /\ Emptied(p)

\* No load that sees the user's files finds what p deleted from them.
Forgotten(p) == \A here \in BOOLEAN :
    Acked(p, "delete") /\ ~Shadowed(p \in InProject) /\ ~Shadowed(here) =>
      Loaded(here, Region(p), Profile(p))'.status = "notconfigured"

LEMMA DeleteStep ==
    ASSUME DeleteInv, [Next]_vars
    PROVE  DeleteInv' /\ \A p \in Procs : Forgotten(p)
<1>1. StoreInv' /\ \A p \in Procs : Kind(p)'
  BY StoreNext, KindKept DEF DeleteInv
<1>2. CASE UNCHANGED vars
  BY <1>1, <1>2 DEF DeleteInv, Emptied, Forgotten, Acked, Region, vars, locals
<1>3. ASSUME NEW p \in Procs, DelConf(p)
      PROVE  Emptied(p)' /\ Forgotten(p)
  <2> DEFINE f == FirstConf(p \in InProject)
  <2>1. f \in ConfFiles /\ Region(p) \in Regions /\ Region(p)' = Region(p)
        /\ UNCHANGED <<near, xdg, far>>
    BY <1>3, ProcType DEF DeleteInv, DelConf, Region, disk
  <2>2. CASE f.st = "bad"
    BY <1>3, <2>2 DEF DelConf, Return, Acked, Emptied, Forgotten, DeleteInv, StoreInv, TypeOK
  <2>3. CASE f.st # "bad" /\ (f.st = "absent" \/ ~f.section[Region(p)].has)
    <3>1. pc'[p] = "idle"
      BY <1>3, <2>3 DEF DelConf, Return, DeleteInv, StoreInv, TypeOK
    <3>2. ASSUME NEW here \in BOOLEAN, ~Shadowed(p \in InProject), ~Shadowed(here)
          PROVE  Loaded(here, Region(p), Profile(p))'.status = "notconfigured"
      <4>1. FirstConf(here)' = f
        BY <2>1, <3>2 DEF Shadowed, FirstConf
      <4> HIDE DEF f
      <4> QED BY <2>1, <2>3, <4>1 DEF Loaded
    <3> QED BY <3>1, <3>2 DEF Emptied, Forgotten
  <2>4. CASE f.st # "bad" /\ f.st # "absent" /\ f.section[Region(p)].has
    <3>1. /\ conf'[p] = [f EXCEPT !.section[Region(p)] = NoSection]
          /\ pc'[p] = "delWriteConf"
      BY <1>3, <2>4 DEF DelConf, Goto, DeleteInv, StoreInv, TypeOK
    <3>2. conf'[p].st = "good" /\ ~conf'[p].section[Region(p)].has
      BY <2>1, <2>4, <3>1 DEF ConfFiles, NoSection
    <3> QED BY <2>1, <3>1, <3>2 DEF Emptied, Forgotten, Acked
  <2> QED BY <2>2, <2>3, <2>4
<1>4. ASSUME NEW p \in Procs, DelWriteConf(p)
      PROVE  Emptied(p)' /\ Forgotten(p)
  <2>1. xdg' = conf[p] /\ near' = near /\ pc'[p] = "idle" /\ Region(p)' = Region(p)
        /\ conf[p].st = "good" /\ ~conf[p].section[Region(p)].has
    BY <1>4 DEF DelWriteConf, Return, DeleteInv, Emptied, StoreInv, TypeOK, Region
  <2>2. ASSUME NEW here \in BOOLEAN, ~Shadowed(here)
        PROVE  Loaded(here, Region(p), Profile(p))'.status = "notconfigured"
    <3>1. FirstConf(here)' = conf[p]
      BY <2>1, <2>2 DEF FirstConf, Shadowed
    <3> QED BY <2>1, <3>1 DEF Loaded
  <2> QED BY <2>1, <2>2 DEF Emptied, Forgotten
<1>5. ASSUME NEW p \in Procs,
             DelSecret(p) \/ DelToken(p) \/ DelHosts(p) \/ DelWriteHosts(p)
      PROVE  Emptied(p)' /\ Forgotten(p)
  BY <1>5 DEF DelSecret, DelToken, DelHosts, DelWriteHosts, Loop, Return, Refusal, Goto,
     DeleteInv, StoreInv, TypeOK, Emptied, Forgotten, Acked
<1>6. ASSUME NEW p \in Procs, Call(p) \/ WriteFails(p) \/ Crash(p)
      PROVE  Emptied(p)' /\ Forgotten(p)
  <2>1. CASE Call(p)
    BY <2>1, CallMoves DEF DeleteInv, Emptied, Forgotten, Acked
  <2>2. CASE WriteFails(p) \/ Crash(p)
    BY <2>2 DEF WriteFails, Crash, Return, DeleteInv, StoreInv, TypeOK, Emptied, Forgotten, Acked
  <2> QED BY <1>6, <2>1, <2>2
<1>7. ASSUME NEW p \in Procs, Store(p) \/ Load(p)
      PROVE  Emptied(p)' /\ Forgotten(p)
  <2>1. pc'[p] # "delWriteConf" /\ op[p].kind # "delete"
    BY <1>7, StoreMoves, LoadMoves DEF StorePcs, LoadPcs, DeleteInv, Kind
  <2> QED BY <2>1 DEF Emptied, Forgotten, Acked
<1>8. ASSUME NEW p \in Procs, Act(p)
      PROVE  \A q \in Procs : Emptied(q)' /\ Forgotten(q)
  <2>1. Emptied(p)' /\ Forgotten(p)
    BY <1>8, <1>3, <1>4, <1>5, <1>6, <1>7 DEF Act, Delete
  <2>2. \A q \in Procs : q # p => Emptied(q)' /\ Forgotten(q)
    BY <1>8, OthersKept DEF Act, DeleteInv, Emptied, Forgotten, Acked, Region
  <2> QED BY <2>1, <2>2
<1> QED BY <1>1, <1>2, <1>8 DEF DeleteInv, Next, Act

\* "nil error => LoadCredentials ... returns ErrNotConfigured", whatever other
\* processes load, store and delete meanwhile, wherever the section came from and
\* whatever was killed before; a nearer file is out of the delete's reach.  (store.go:152-177)
THEOREM DeleteContract == Spec => DeleteForgets
<1>1. Init => DeleteInv
  BY StoreInit, KindInit DEF Init, DeleteInv, Emptied
<1>2. DeleteInv /\ [Next]_vars => DeleteInv'
  BY DeleteStep
<1>3. DeleteInv /\ [Next]_vars =>
        [\A p \in Procs, here \in BOOLEAN :
           Acked(p, "delete") /\ ~Shadowed(p \in InProject) /\ ~Shadowed(here) =>
             Loaded(here, Region(p), Profile(p))'.status = "notconfigured"]_vars
  BY DeleteStep DEF Forgotten
<1> QED BY <1>1, <1>2, <1>3, PTL DEF Spec, DeleteForgets

-----------------------------------------------------------------------------
(***************************************************************************)
(* Store, one process at a time.  What it has written so far stands for    *)
(* what it was given: the public fields, the first fields of each loop.    *)
(***************************************************************************)
\* The value v of a file, with `held` in its keyring entry, stands for x.
Right(v, held, x) == IF v = Placeholder THEN held = x /\ x # 0 ELSE v = x

Public(f, p) ==
    LET s == f.section[Region(p)]
        c == op[p].creds
    IN  /\ f.st = "good" /\ s.has /\ s.method = c.method
        /\ s.application_key = c.application_key /\ s.client_id = c.client_id

SecretsTo(f, p, n) ==
    \A i \in 1..n : Right(f.section[Region(p)].secret[Secrets[i]],
                         keyring[Region(p)][Default][Secrets[i]],
                         op[p].creds.secret[Secrets[i]])

Dated(h, p) ==
    /\ h.st = "good" /\ h.entry[Region(p)][Profile(p)].has
    /\ h.entry[Region(p)][Profile(p)].expiry = op[p].creds.expiry

TokensTo(h, p, n) ==
    \A i \in 1..n : Right(h.entry[Region(p)][Profile(p)].token[Tokens[i]],
                         keyring[Region(p)][Profile(p)][Tokens[i]],
                         op[p].creds.token[Tokens[i]])

StoreWork(p) ==
    /\ pc[p] = "storeSecrets" => Public(conf[p], p) /\ SecretsTo(conf[p], p, k[p] - 1)
    /\ pc[p] = "storeWriteConf" => Public(conf[p], p) /\ SecretsTo(conf[p], p, 3)
    /\ pc[p] \in {"storeHosts", "storeTokens", "storeWriteHosts"} =>
         Public(xdg, p) /\ SecretsTo(xdg, p, 3) /\ op[p].creds.method = "oauth2"
    /\ pc[p] = "storeTokens" => Dated(hyml[p], p) /\ TokensTo(hyml[p], p, k[p] - 1)
    /\ pc[p] = "storeWriteHosts" => Dated(hyml[p], p) /\ TokensTo(hyml[p], p, 2)

RoundInv == StoreInv /\ \A p \in Procs : Kind(p) /\ StoreWork(p)

\* What the files and the keyring then hold is what a load returns.
LEMMA LoadedStored ==
    \A p \in Procs, here \in BOOLEAN :
      /\ ~Shadowed(here) /\ StoreInv /\ Public(xdg, p) /\ SecretsTo(xdg, p, 3)
      /\ \/ op[p].creds.method = "consumer_key" /\ ~HasTokens(op[p].creds)
         \/ op[p].creds.method = "oauth2" /\ Dated(hosts, p) /\ TokensTo(hosts, p, 2)
      => Loaded(here, Region(p), Profile(p))
           = [status |-> "ok", creds |-> op[p].creds]
<1> SUFFICES
      ASSUME NEW p \in Procs, NEW here \in BOOLEAN, ~Shadowed(here),
             StoreInv, Public(xdg, p), SecretsTo(xdg, p, 3),
             \/ op[p].creds.method = "consumer_key" /\ ~HasTokens(op[p].creds)
             \/ op[p].creds.method = "oauth2" /\ Dated(hosts, p) /\ TokensTo(hosts, p, 2)
      PROVE  Loaded(here, Region(p), Profile(p))
               = [status |-> "ok", creds |-> op[p].creds]
  OBVIOUS
<1> DEFINE r == Region(p)
           q == Profile(p)
           c == op[p].creds
           s == xdg.section[r]
           h == hosts.entry[r][q]
           usesHosts == Method(s) = "oauth2" /\ hosts.st # "absent" /\ h.has
<1>1. /\ FirstConf(here) = xdg /\ xdg.st = "good" /\ s.has
      /\ s.method = c.method /\ s.application_key = c.application_key
      /\ s.client_id = c.client_id
  BY DEF Shadowed, Public, FirstConf
<1>2. Method(s) = c.method /\ c.method # "none"
  BY <1>1 DEF Method
<1>3. ASSUME NEW n \in SecretNames
      PROVE  /\ Resolve(s.secret[n], r, Default, n) = c.secret[n]
             /\ ~(s.secret[n] = Placeholder /\ keyring[r][Default][n] = 0)
  <2>1. PICK i \in 1..3 : n = Secrets[i]
    BY Names
  <2> QED BY <2>1, SMTT(40) DEF SecretsTo, Right, Resolve
<1>4. usesHosts => c.method = "oauth2" /\ Dated(hosts, p) /\ TokensTo(hosts, p, 2)
  BY <1>2
<1>5. ASSUME usesHosts, NEW n \in TokenNames
      PROVE  /\ Resolve(h.token[n], r, q, n) = c.token[n]
             /\ ~(h.token[n] = Placeholder /\ keyring[r][q][n] = 0)
  <2>1. PICK i \in 1..2 : n = Tokens[i]
    BY Names
  <2> QED BY <1>4, <1>5, <2>1 DEF TokensTo, Right, Resolve
<1>6. usesHosts => h.expiry = c.expiry
  BY <1>4 DEF Dated
<1>7. ~usesHosts => c.expiry = 0 /\ \A n \in TokenNames : c.token[n] = 0
  BY <1>2 DEF HasTokens, Dated
<1>8. ~(Method(s) = "oauth2" /\ Refused)
  BY <1>2 DEF Dated, Refused
<1>9. c \in Creds
  BY ProcType
<1> DEFINE l == [method |-> Method(s), application_key |-> s.application_key,
                 client_id |-> s.client_id,
                 secret |-> [n \in SecretNames |-> Resolve(s.secret[n], r, Default, n)],
                 token |-> [n \in TokenNames |->
                              IF usesHosts THEN Resolve(h.token[n], r, q, n) ELSE 0],
                 expiry |-> IF usesHosts THEN h.expiry ELSE 0]
<1>10. Loaded(here, r, q) = [status |-> "ok", creds |-> l]
  BY <1>1, <1>2, <1>3, <1>5, <1>8 DEF Loaded
<1>11. l.secret = c.secret /\ l.token = c.token /\ l.expiry = c.expiry
  <2>1. c.secret = [n \in SecretNames |-> c.secret[n]] /\ c.token = [n \in TokenNames |-> c.token[n]]
    BY <1>9 DEF Creds
  <2>2. l.secret = [n \in SecretNames |-> c.secret[n]]
    BY <1>3
  <2>3. l.token = [n \in TokenNames |-> c.token[n]]
    BY <1>5, <1>7
  <2> HIDE DEF c, s, h, r, q, usesHosts
  <2> QED BY <1>6, <1>7, <2>1, <2>2, <2>3
<1>12. l = c
  <2> HIDE DEF c, s, h, r, q, usesHosts
  <2> QED BY <1>1, <1>2, <1>9, <1>11 DEF Creds
<1> HIDE DEF l
<1> QED BY <1>10, <1>12

LEMMA LoadedAfterStore ==
    (\A p \in Procs, here \in BOOLEAN :
      /\ ~Shadowed(here) /\ StoreInv /\ Public(xdg, p) /\ SecretsTo(xdg, p, 3)
      /\ \/ op[p].creds.method = "consumer_key" /\ ~HasTokens(op[p].creds)
         \/ op[p].creds.method = "oauth2" /\ Dated(hosts, p) /\ TokensTo(hosts, p, 2)
      => Loaded(here, Region(p), Profile(p))
           = [status |-> "ok", creds |-> op[p].creds])'
BY LoadedStored, PTL

Stored(p) == \A here \in BOOLEAN : Acked(p, "store") /\ ~Shadowed(here) =>
    Loaded(here, Region(p), Profile(p))' = [status |-> "ok", creds |-> op[p].creds]

\* Each of Store's steps adds its field to what stands for the credentials.
LEMMA RoundConf ==
    ASSUME RoundInv, NEW p \in Procs, StoreConf(p)
    PROVE  StoreWork(p)' /\ Stored(p)
<1> DEFINE f == FirstConf(p \in InProject)
           r == Region(p)
           s == [has |-> TRUE, method |-> op[p].creds.method,
                 application_key |-> op[p].creds.application_key,
                 client_id |-> op[p].creds.client_id, secret |-> f.section[r].secret]
<1>1. CASE f.st = "bad"
  BY <1>1 DEF StoreConf, Return, RoundInv, StoreInv, TypeOK, StoreWork, Stored, Acked
<1>2. CASE f.st # "bad"
  <2>1. f \in ConfFiles /\ r \in Regions /\ conf \in [Procs -> ConfFiles]
    BY ProcType DEF RoundInv
  <2>2. /\ conf' = [conf EXCEPT ![p] = [f EXCEPT !.st = "good", !.section[r] = s]]
        /\ pc' = [pc EXCEPT ![p] = "storeSecrets"] /\ UNCHANGED <<op, k>>
    BY <1>2 DEF StoreConf, Goto
  <2>3. pc'[p] = "storeSecrets" /\ k'[p] = 1
    BY <2>2 DEF StoreConf, RoundInv, StoreInv, TypeOK, Index, SecretLoops, TokenLoops
  <2>4. conf'[p].st = "good" /\ conf'[p].section[r] = s
    <3> HIDE DEF f, s
    <3> QED BY <2>1, <2>2 DEF ConfFiles
  <2>5. Public(conf[p], p)'
    BY <2>2, <2>4 DEF Public, Region
  <2>6. SecretsTo(conf[p], p, k[p] - 1)'
    BY <2>3 DEF SecretsTo
  <2> QED BY <2>3, <2>5, <2>6 DEF StoreWork, Stored, Acked
<1> QED BY <1>1, <1>2

LEMMA RoundSecret ==
    ASSUME RoundInv, NEW p \in Procs, StoreSecret(p)
    PROVE  StoreWork(p)' /\ Stored(p)
<1> DEFINE r == Region(p)
           name == Secrets[k[p]]
           v == op[p].creds.secret[name]
           held == conf[p].storage = "keyring"
           x == IF v # 0 /\ held THEN Placeholder ELSE v
<1>1. /\ pc[p] = "storeSecrets" /\ Loop(p, Secrets, "storeWriteConf")
      /\ conf' = [conf EXCEPT ![p].section[r].secret[name] = x]
      /\ UNCHANGED <<disk, op, left, hyml, creds>>
  BY DEF StoreSecret
<1>2. /\ r \in Regions /\ Default \in Profiles /\ conf[p] \in ConfFiles
      /\ k[p] \in 1..3 /\ name \in SecretNames /\ v \in Plain /\ keyring \in Keyrings
      /\ conf \in [Procs -> ConfFiles]
  <2>1. k[p] \in 1..3 /\ name \in SecretNames
    BY Names DEF RoundInv, StoreInv, TypeOK
  <2> QED BY <2>1, ProcType, StoreAssumption DEF StoreAssumption, RoundInv
<1>3. conf'[p] = SecretSet(conf[p], r, name, x)
  BY <1>1, <1>2, SMTT(40) DEF SecretSet
<1>4. Public(conf[p], p)'
  <2>1. Public(conf[p], p)
    BY <1>1 DEF RoundInv, StoreWork
  <2> HIDE DEF name, x, r
  <2>2. /\ conf'[p].st = conf[p].st /\ conf'[p].section[r].has = conf[p].section[r].has
        /\ conf'[p].section[r].method = conf[p].section[r].method
        /\ conf'[p].section[r].application_key = conf[p].section[r].application_key
        /\ conf'[p].section[r].client_id = conf[p].section[r].client_id
    BY <1>2, <1>3, ConfSecretIs
  <2> QED BY <1>1, <2>1, <2>2 DEF Public, Region, r
<1>5. \/ KeyringForget(r, Default, name)
      \/ KeyringPut(r, Default, name, v)
      \/ UNCHANGED keyring
  BY DEF StoreSecret
<1>6. Right(conf'[p].section[r].secret[name], keyring'[r][Default][name], v)
  <2>1. conf'[p].section[r].secret[name] = x
    <3> HIDE DEF x, name, r
    <3> QED BY <1>2, <1>3, ConfSecretIs
  <2>2. CASE v # 0 /\ held
    <3>1. KeyringPut(r, Default, name, v)
      BY <2>2 DEF StoreSecret
    <3>2. keyring'[r][Default][name] = v
      <4> HIDE DEF v, name, r
      <4> QED BY <1>2, <3>1, KeyringIs
    <3> QED BY <2>1, <2>2, <3>2 DEF Right
  <2>3. CASE ~(v # 0 /\ held)
    BY <1>2, <2>1, <2>3, StoreAssumption DEF Right, Plain, Placeholder, StoreAssumption
  <2> QED BY <2>2, <2>3
<1>7. ASSUME NEW i \in 1..3, i # k[p]
      PROVE  /\ conf'[p].section[r].secret[Secrets[i]] = conf[p].section[r].secret[Secrets[i]]
             /\ keyring'[r][Default][Secrets[i]] = keyring[r][Default][Secrets[i]]
  <2>1. Secrets[i] \in SecretNames \ {name}
    BY <1>2, <1>7, Names
  <2> HIDE DEF x, name, r, v
  <2>2. conf'[p].section[r].secret[Secrets[i]] = conf[p].section[r].secret[Secrets[i]]
    BY <1>2, <1>3, <2>1, ConfSecretIs
  <2>3. keyring'[r][Default][Secrets[i]] = keyring[r][Default][Secrets[i]]
    BY <1>2, <1>5, <2>1, KeyringIs
  <2> QED BY <2>2, <2>3
<1>8. \A i \in 1..k[p] : Right(conf'[p].section[r].secret[Secrets[i]],
                              keyring'[r][Default][Secrets[i]], op[p].creds.secret[Secrets[i]])
  <2> SUFFICES ASSUME NEW i \in 1..k[p]
               PROVE  Right(conf'[p].section[r].secret[Secrets[i]],
                            keyring'[r][Default][Secrets[i]], op[p].creds.secret[Secrets[i]])
    OBVIOUS
  <2>1. CASE i = k[p]
    BY <1>6, <2>1
  <2>2. CASE i # k[p]
    <3>1. i \in 1..3 /\ i \in 1..(k[p] - 1)
      BY <1>2, <2>2
    <3>2. SecretsTo(conf[p], p, k[p] - 1)
      BY <1>1 DEF RoundInv, StoreWork
    <3> HIDE DEF r
    <3> QED BY <1>7, <2>2, <3>1, <3>2 DEF SecretsTo, r
  <2> QED BY <2>1, <2>2
<1> HIDE DEF name, v, held, x
<1>9. CASE k[p] = 3
  <2>1. pc'[p] = "storeWriteConf"
    BY <1>1, <1>9, Names, SMTT(40) DEF Loop, RoundInv, StoreInv, TypeOK
  <2>2. SecretsTo(conf[p], p, 3)'
    BY <1>1, <1>8, <1>9 DEF SecretsTo, Region
  <2> QED BY <1>4, <2>1, <2>2 DEF StoreWork, Stored, Acked
<1>10. CASE k[p] # 3
  <2>1. pc'[p] = "storeSecrets" /\ k'[p] - 1 = k[p]
    BY <1>1, <1>2, <1>10, Names DEF Loop, RoundInv, StoreInv, TypeOK
  <2>2. SecretsTo(conf[p], p, k[p] - 1)'
    BY <1>1, <1>8, <2>1 DEF SecretsTo, Region
  <2> QED BY <1>4, <2>1, <2>2 DEF StoreWork, Stored, Acked
<1> QED BY <1>9, <1>10

LEMMA RoundWriteConf ==
    ASSUME CompleteSets, RoundInv, StoreInv', NEW p \in Procs,
           StoreWriteConf(p)
    PROVE  StoreWork(p)' /\ Stored(p)
<1> DEFINE c == op[p].creds
<1>1. /\ pc[p] = "storeWriteConf" /\ xdg' = conf[p]
      /\ UNCHANGED <<near, far, hosts, keyring, op, left>>
  BY SMTT(40) DEF StoreWriteConf
<1>2. Public(xdg, p)' /\ SecretsTo(xdg, p, 3)'
  BY <1>1 DEF RoundInv, StoreWork, Public, SecretsTo, Region
<1>3. CASE c.method = "oauth2" /\ HasTokens(c)
  <2>1. pc'[p] = "storeHosts"
    BY <1>3 DEF StoreWriteConf, Goto, RoundInv, StoreInv, TypeOK
  <2> QED BY <1>1, <1>2, <1>3, <2>1 DEF StoreWork, Stored, Acked
<1>4. CASE ~(c.method = "oauth2" /\ HasTokens(c))
  <2>1. pc'[p] = "idle"
    BY <1>4 DEF StoreWriteConf, Return, RoundInv, StoreInv, TypeOK
  <2>2. c.method = "consumer_key" /\ ~HasTokens(c)
    BY <1>1, <1>4 DEF RoundInv, Kind, StorePcs, CompleteSets
  <2>3. op'[p].creds.method = "consumer_key" /\ ~HasTokens(op'[p].creds)
    BY <1>1, <2>2
  <2>4. Stored(p)
    BY <1>1, <1>2, <2>3, LoadedAfterStore DEF Shadowed, Stored
  <2> QED BY <2>1, <2>4 DEF StoreWork
<1> QED BY <1>3, <1>4

LEMMA RoundHosts ==
    ASSUME RoundInv, NEW p \in Procs, StoreHosts(p)
    PROVE  StoreWork(p)' /\ Stored(p)
<1> DEFINE e == hosts.entry[Region(p)][Profile(p)]
           d == [e EXCEPT !.has = TRUE, !.expiry = op[p].creds.expiry]
           h == [hosts EXCEPT !.st = "good", !.entry[Region(p)][Profile(p)] = d]
<1>1. CASE Refused
  BY <1>1 DEF StoreHosts, Return, Refusal, RoundInv, StoreInv, TypeOK, StoreWork, Stored, Acked
<1>2. CASE ~Refused
  <2>1. /\ pc[p] = "storeHosts" /\ hyml' = [hyml EXCEPT ![p] = h]
        /\ pc' = [pc EXCEPT ![p] = "storeTokens"]
        /\ UNCHANGED <<disk, keyring, op, left, k, conf, creds>>
    BY <1>2 DEF StoreHosts, Goto
  <2>2. pc'[p] = "storeTokens" /\ hyml'[p] = h /\ k'[p] = 1
    BY <2>1 DEF RoundInv, StoreInv, TypeOK, Index, SecretLoops, TokenLoops
  <2>3. h.st = "good" /\ h.entry[Region(p)][Profile(p)] = d
    <3> HIDE DEF d
    <3> QED BY ProcType DEF HostsFiles, RoundInv
  <2>4. d.has /\ d.expiry = op[p].creds.expiry
    <3>1. e \in Entries
      BY ProcType, EntryType DEF RoundInv
    <3> HIDE DEF e
    <3> QED BY <3>1 DEF Entries
  <2> HIDE DEF h, d
  <2>5. Dated(hyml[p], p)'
    BY <2>1, <2>2, <2>3, <2>4, SMTT(40) DEF Dated, Region, Profile
  <2>6. Public(xdg, p)' /\ SecretsTo(xdg, p, 3)' /\ op'[p].creds.method = "oauth2"
    BY <2>1 DEF RoundInv, StoreWork, Public, SecretsTo, Region, disk
  <2>7. TokensTo(hyml[p], p, k[p] - 1)'
    BY <2>2 DEF TokensTo
  <2> QED BY <2>2, <2>5, <2>6, <2>7 DEF StoreWork, Stored, Acked
<1> QED BY <1>1, <1>2

LEMMA RoundToken ==
    ASSUME RoundInv, NEW p \in Procs, StoreToken(p)
    PROVE  StoreWork(p)' /\ Stored(p)
<1> DEFINE r == Region(p)
           q == Profile(p)
           name == Tokens[k[p]]
           v == op[p].creds.token[name]
           held == conf[p].storage = "keyring"
           x == IF v # 0 /\ held THEN Placeholder ELSE v
<1>1. /\ pc[p] = "storeTokens" /\ Loop(p, Tokens, "storeWriteHosts")
      /\ hyml' = [hyml EXCEPT ![p].entry[r][q].token[name] = x]
      /\ UNCHANGED <<disk, op, left, conf, creds>>
  BY DEF StoreToken
<1>2. /\ r \in Regions /\ q \in Profiles /\ Default \in Profiles /\ hyml[p] \in HostsFiles
      /\ k[p] \in 1..2 /\ name \in TokenNames /\ v \in Plain /\ keyring \in Keyrings
      /\ hyml \in [Procs -> HostsFiles]
  <2>1. k[p] \in 1..2 /\ name \in TokenNames
    BY <1>1, Names DEF RoundInv, StoreInv, Index, TokenLoops
  <2> QED BY <2>1, ProcType, StoreAssumption DEF StoreAssumption, RoundInv
<1>3. hyml'[p] = TokenSet(hyml[p], r, q, name, x)
  BY <1>1, <1>2 DEF TokenSet
<1>4. \/ KeyringForget(r, q, name)
      \/ KeyringPut(r, q, name, v)
      \/ UNCHANGED keyring
  BY SMTT(40) DEF StoreToken
<1>5. Public(xdg, p)' /\ SecretsTo(xdg, p, 3)' /\ op'[p].creds.method = "oauth2"
  <2>1. Public(xdg, p) /\ SecretsTo(xdg, p, 3) /\ op[p].creds.method = "oauth2"
    BY <1>1 DEF RoundInv, StoreWork
  <2>2. \A i \in 1..3 : keyring'[r][Default][Secrets[i]] = keyring[r][Default][Secrets[i]]
    <3>1. \A i \in 1..3 : Secrets[i] \in SecretNames /\ Secrets[i] # name
      BY <1>2, Names, SMTT(40)
    <3> HIDE DEF name, v, r, q
    <3> QED BY <1>2, <1>4, <3>1, KeyringIs, SMTT(40)
  <2> QED BY <1>1, <2>1, <2>2 DEF Public, SecretsTo, Region, disk
<1>6. Dated(hyml[p], p)'
  <2>1. Dated(hyml[p], p)
    BY <1>1 DEF RoundInv, StoreWork
  <2> HIDE DEF name, x, r, q
  <2>2. /\ hyml'[p].st = hyml[p].st /\ hyml'[p].entry[r][q].has = hyml[p].entry[r][q].has
        /\ hyml'[p].entry[r][q].expiry = hyml[p].entry[r][q].expiry
    BY <1>2, <1>3, HostsTokenIs
  <2> QED BY <1>1, <2>1, <2>2 DEF Dated, Region, Profile, r, q
<1>7. Right(hyml'[p].entry[r][q].token[name], keyring'[r][q][name], v)
  <2>1. hyml'[p].entry[r][q].token[name] = x
    <3> HIDE DEF x, name, r, q
    <3> QED BY <1>2, <1>3, HostsTokenIs
  <2>2. CASE v # 0 /\ held
    <3>1. KeyringPut(r, q, name, v)
      BY <2>2 DEF StoreToken
    <3>2. keyring'[r][q][name] = v
      <4> HIDE DEF v, name, r, q
      <4> QED BY <1>2, <3>1, KeyringIs
    <3> QED BY <2>1, <2>2, <3>2 DEF Right
  <2>3. CASE ~(v # 0 /\ held)
    BY <1>2, <2>1, <2>3, StoreAssumption DEF Right, Plain, Placeholder, StoreAssumption
  <2> QED BY <2>2, <2>3
<1>8. ASSUME NEW i \in 1..2, i # k[p]
      PROVE  /\ hyml'[p].entry[r][q].token[Tokens[i]] = hyml[p].entry[r][q].token[Tokens[i]]
             /\ keyring'[r][q][Tokens[i]] = keyring[r][q][Tokens[i]]
  <2>1. Tokens[i] \in TokenNames \ {name}
    BY <1>2, <1>8, Names
  <2> HIDE DEF x, name, r, q, v
  <2>2. hyml'[p].entry[r][q].token[Tokens[i]] = hyml[p].entry[r][q].token[Tokens[i]]
    <3>1. \A m \in TokenNames \ {name} :
            hyml'[p].entry[r][q].token[m] = hyml[p].entry[r][q].token[m]
      <4>1. hyml[p] \in HostsFiles /\ r \in Regions /\ q \in Profiles /\ name \in TokenNames
        BY <1>2
      <4>2. \A m \in TokenNames \ {name} :
              TokenSet(hyml[p], r, q, name, x).entry[r][q].token[m]
                = hyml[p].entry[r][q].token[m]
        BY <4>1, HostsTokenIs
      <4> QED BY <1>3, <4>2
    <3> QED BY <2>1, <3>1
  <2>3. keyring'[r][q][Tokens[i]] = keyring[r][q][Tokens[i]]
    BY <1>2, <1>4, <2>1, KeyringIs
  <2> QED BY <2>2, <2>3
<1>9. ASSUME NEW i \in 1..k[p]
      PROVE  Right(hyml'[p].entry[r][q].token[Tokens[i]],
                   keyring'[r][q][Tokens[i]], op[p].creds.token[Tokens[i]])
  <2>1. CASE i = k[p]
    BY <1>7, <2>1
  <2>2. CASE i # k[p]
    <3>1. i \in 1..2 /\ i \in 1..(k[p] - 1)
      BY <1>2, <2>2
    <3>2. TokensTo(hyml[p], p, k[p] - 1)
      BY <1>1 DEF RoundInv, StoreWork
    <3> HIDE DEF r, q
    <3> QED BY <1>8, <2>2, <3>1, <3>2 DEF TokensTo, r, q
  <2> QED BY <2>1, <2>2, SMTT(40)
<1> HIDE DEF name, v, held, x
<1>10. CASE k[p] = 2
  <2>1. pc'[p] = "storeWriteHosts"
    BY <1>1, <1>10, Names, SMTT(40) DEF Loop, RoundInv, StoreInv, TypeOK
  <2>2. TokensTo(hyml[p], p, 2)'
    BY <1>1, <1>9, <1>10 DEF TokensTo, Region, Profile
  <2> QED BY <1>5, <1>6, <2>1, <2>2 DEF StoreWork, Stored, Acked
<1>11. CASE k[p] # 2
  <2>1. pc'[p] = "storeTokens" /\ k'[p] - 1 = k[p]
    BY <1>1, <1>2, <1>11, Names, SMTT(40) DEF Loop, RoundInv, StoreInv, TypeOK
  <2>2. TokensTo(hyml[p], p, k[p] - 1)'
    BY <1>1, <1>9, <2>1 DEF TokensTo, Region, Profile
  <2> QED BY <1>5, <1>6, <2>1, <2>2 DEF StoreWork, Stored, Acked
<1> QED BY <1>10, <1>11

LEMMA RoundWriteHosts ==
    ASSUME RoundInv, StoreInv', NEW p \in Procs, StoreWriteHosts(p)
    PROVE  StoreWork(p)' /\ Stored(p)
<1>1. /\ pc[p] = "storeWriteHosts" /\ hosts' = hyml[p] /\ pc'[p] = "idle"
      /\ UNCHANGED <<near, xdg, far, keyring, op, left>>
  BY SMTT(40) DEF StoreWriteHosts, Return, RoundInv, StoreInv, TypeOK
<1>2. /\ Public(xdg, p)' /\ SecretsTo(xdg, p, 3)' /\ op'[p].creds.method = "oauth2"
      /\ Dated(hosts, p)' /\ TokensTo(hosts, p, 2)'
  BY <1>1 DEF RoundInv, StoreWork, Public, SecretsTo, Dated, TokensTo, Region, Profile
<1>3. Stored(p)
  BY <1>1, <1>2, LoadedAfterStore DEF Shadowed, Stored
<1> QED BY <1>1, <1>3 DEF StoreWork

LEMMA RoundStep ==
    ASSUME OneProcess, CompleteSets, RoundInv, [Next]_vars
    PROVE  RoundInv' /\ \A p \in Procs : Stored(p)
<1>1. StoreInv' /\ \A p \in Procs : Kind(p)'
  BY StoreNext, KindKept DEF RoundInv
<1>2. CASE UNCHANGED vars
  <2>1. /\ UNCHANGED <<xdg, hosts, keyring, op, pc, k, conf, hyml>>
        /\ \A p \in Procs : StoreWork(p) /\ ~Acked(p, "store")
    BY <1>2 DEF RoundInv, Acked, vars, disk, locals
  <2>2. \A p \in Procs : StoreWork(p)'
    <3> SUFFICES ASSUME NEW p \in Procs PROVE StoreWork(p)'
      OBVIOUS
    <3>1. Region(p)' = Region(p) /\ Profile(p)' = Profile(p)
      BY <2>1 DEF Region, Profile
    <3>2. /\ Public(conf[p], p) => Public(conf[p], p)'
          /\ Public(xdg, p) => Public(xdg, p)'
          /\ Dated(hyml[p], p) => Dated(hyml[p], p)'
      BY <2>1, <3>1 DEF Public, Dated
    <3>3. /\ SecretsTo(conf[p], p, k[p] - 1) => SecretsTo(conf[p], p, k[p] - 1)'
          /\ SecretsTo(conf[p], p, 3) => SecretsTo(conf[p], p, 3)'
          /\ SecretsTo(xdg, p, 3) => SecretsTo(xdg, p, 3)'
      BY <2>1, <3>1 DEF SecretsTo
    <3>4. /\ TokensTo(hyml[p], p, k[p] - 1) => TokensTo(hyml[p], p, k[p] - 1)'
          /\ TokensTo(hyml[p], p, 2) => TokensTo(hyml[p], p, 2)'
      BY <2>1, <3>1 DEF TokensTo
    <3> QED BY <2>1, <3>2, <3>3, <3>4 DEF StoreWork
  <2> QED BY <1>1, <2>1, <2>2 DEF RoundInv, Stored
<1>3. ASSUME NEW p \in Procs, Act(p)
      PROVE  StoreWork(p)' /\ Stored(p)
  <2>1. CASE Store(p)
    <3>1. CASE StoreKeyringFails(p)
      BY <3>1 DEF StoreKeyringFails, Return, RoundInv, StoreInv, TypeOK, StoreWork, Stored, Acked
    <3> QED BY <1>1, <2>1, <3>1, RoundConf, RoundSecret, RoundWriteConf, RoundHosts,
            RoundToken, RoundWriteHosts DEF Store
  <2>2. CASE Delete(p) \/ Load(p)
    BY <2>2, DeleteMoves, LoadMoves DEF DeletePcs, LoadPcs, RoundInv, Kind, StoreWork, Stored, Acked
  <2>3. CASE Call(p)
    <3>1. pc[p] = "idle" /\ pc'[p] \in {"loadConf", "storeConf", "delSecrets"}
      BY <2>3, CallMoves DEF RoundInv
    <3> QED BY <3>1 DEF StoreWork, Stored, Acked
  <2>4. CASE WriteFails(p) \/ Crash(p)
    BY <2>4 DEF WriteFails, Crash, Return, RoundInv, StoreInv, TypeOK, StoreWork, Stored, Acked
  <2> QED BY <1>3, <2>1, <2>2, <2>3, <2>4 DEF Act
<1>4. ASSUME NEW p \in Procs, Act(p)
      PROVE  \A x \in Procs : StoreWork(x)' /\ Stored(x)
  BY <1>3, <1>4 DEF OneProcess
<1> QED BY <1>1, <1>2, <1>4 DEF RoundInv, Next, Act

\* "nil error => ... LoadCredentials returns the same Credentials", for what
\* callers store, whatever the files, the keyring and killed calls held before,
\* wherever the store ran: for a load that sees no nearer file.  (store.go:89-150)
THEOREM StoreContract ==
    ASSUME OneProcess, CompleteSets
    PROVE  Spec => StoreRoundTrip
<1>1. Init => RoundInv
  BY StoreInit, KindInit DEF Init, RoundInv, StoreWork
<1>2. RoundInv /\ [Next]_vars => RoundInv'
  BY RoundStep
<1>3. RoundInv /\ [Next]_vars =>
        [\A p \in Procs, here \in BOOLEAN : Acked(p, "store") /\ ~Shadowed(here) =>
           Loaded(here, Region(p), Profile(p))'
             = [status |-> "ok", creds |-> op[p].creds]]_vars
  BY RoundStep DEF Stored
<1> QED BY <1>1, <1>2, <1>3, PTL DEF Spec, StoreRoundTrip

-----------------------------------------------------------------------------
(***************************************************************************)
(* Load, one process at a time: what it has read so far is what the disk   *)
(* and the keyring hold.                                                   *)
(***************************************************************************)
Given(p) == FirstConf(p \in InProject)

PublicRead(c, p) ==
    LET s == Given(p).section[Region(p)]
    IN  /\ Given(p).st = "good" /\ s.has
        /\ c.application_key = s.application_key /\ c.client_id = s.client_id

SecretsRead(c, p, n) ==
    \A i \in 1..n :
      LET v == Given(p).section[Region(p)].secret[Secrets[i]]
      IN  /\ c.secret[Secrets[i]] = Resolve(v, Region(p), Default, Secrets[i])
          /\ v = Placeholder => keyring[Region(p)][Default][Secrets[i]] # 0

TokensRead(c, p, n) ==
    \A i \in 1..n :
      LET v == hosts.entry[Region(p)][Profile(p)].token[Tokens[i]]
      IN  /\ c.token[Tokens[i]] = Resolve(v, Region(p), Profile(p), Tokens[i])
          /\ v = Placeholder => keyring[Region(p)][Profile(p)][Tokens[i]] # 0

EntryRead(c, p) ==
    LET e == hosts.entry[Region(p)][Profile(p)]
    IN  hosts.st = "good" /\ e.has /\ c.expiry = e.expiry

NoSession(c) == c.token = NoCreds.token /\ c.expiry = 0

LoadWork(p) ==
    /\ pc[p] \in LoadPcs \ {"loadConf"} =>
         op[p].creds = NoCreds /\ conf[p] = Given(p) /\ PublicRead(creds[p], p)
    /\ pc[p] \in {"loadSecrets", "loadMethod", "loadHosts"} => NoSession(creds[p])
    /\ pc[p] = "loadSecrets" => SecretsRead(creds[p], p, k[p] - 1)
    /\ pc[p] \in LoadPcs \ {"loadConf", "loadSecrets"} => SecretsRead(creds[p], p, 3)
    /\ pc[p] \in {"loadHosts", "loadTokens", "loadEnd"} =>
         creds[p].method = "oauth2" /\ Method(Given(p).section[Region(p)]) = "oauth2"
    /\ pc[p] \in {"loadTokens", "loadEnd"} => hyml[p] = hosts /\ EntryRead(creds[p], p)
    /\ pc[p] = "loadTokens" => TokensRead(creds[p], p, k[p] - 1)
    /\ pc[p] = "loadEnd" => TokensRead(creds[p], p, 2)

SnapshotInv == StoreInv /\ \A p \in Procs : Kind(p) /\ LoadWork(p)

\* Credentials read to the end are those of one look at the three places.
LEMMA LoadedRead ==
    ASSUME StoreInv, NEW p \in Procs, NEW c \in Creds,
           PublicRead(c, p), SecretsRead(c, p, 3),
           c.method = Method(Given(p).section[Region(p)]), c.method # "none",
           \/ c.method = "oauth2" /\ EntryRead(c, p) /\ TokensRead(c, p, 2)
           \/ /\ c.method = "oauth2" => /\ ~Refused
                                        /\ \/ hosts.st = "absent"
                                           \/ ~hosts.entry[Region(p)][Profile(p)].has
              /\ NoSession(c)
    PROVE  Loaded(p \in InProject, Region(p), Profile(p)) = [status |-> "ok", creds |-> c]
<1> DEFINE r == Region(p)
           q == Profile(p)
           s == Given(p).section[r]
           h == hosts.entry[r][q]
           usesHosts == Method(s) = "oauth2" /\ hosts.st # "absent" /\ h.has
<1>1. /\ Given(p).st = "good" /\ s.has /\ Method(s) = c.method
      /\ c.application_key = s.application_key /\ c.client_id = s.client_id
  BY DEF PublicRead
<1>2. ASSUME NEW n \in SecretNames
      PROVE  /\ Resolve(s.secret[n], r, Default, n) = c.secret[n]
             /\ ~(s.secret[n] = Placeholder /\ keyring[r][Default][n] = 0)
  <2>1. PICK i \in 1..3 : n = Secrets[i]
    BY Names
  <2> QED BY <2>1 DEF SecretsRead
<1>3. usesHosts => c.method = "oauth2" /\ EntryRead(c, p) /\ TokensRead(c, p, 2)
  BY <1>1
<1>4. ASSUME usesHosts, NEW n \in TokenNames
      PROVE  /\ Resolve(h.token[n], r, q, n) = c.token[n]
             /\ ~(h.token[n] = Placeholder /\ keyring[r][q][n] = 0)
  <2>1. PICK i \in 1..2 : n = Tokens[i]
    BY Names
  <2> QED BY <1>3, <1>4, <2>1 DEF TokensRead
<1>5. usesHosts => h.expiry = c.expiry
  BY <1>3 DEF EntryRead
<1>6. ~usesHosts => c.expiry = 0 /\ \A n \in TokenNames : c.token[n] = 0
  BY <1>1 DEF NoSession, NoCreds, EntryRead
<1>7. ~(Method(s) = "oauth2" /\ Refused)
  BY <1>1 DEF EntryRead, Refused
<1> DEFINE l == [method |-> Method(s), application_key |-> s.application_key,
                 client_id |-> s.client_id,
                 secret |-> [n \in SecretNames |-> Resolve(s.secret[n], r, Default, n)],
                 token |-> [n \in TokenNames |->
                              IF usesHosts THEN Resolve(h.token[n], r, q, n) ELSE 0],
                 expiry |-> IF usesHosts THEN h.expiry ELSE 0]
<1>8. Loaded(p \in InProject, r, q) = [status |-> "ok", creds |-> l]
  BY <1>1, <1>2, <1>4, <1>7 DEF Loaded, Given
<1>9. l.secret = c.secret /\ l.token = c.token /\ l.expiry = c.expiry
  <2>1. c.secret = [n \in SecretNames |-> c.secret[n]] /\ c.token = [n \in TokenNames |-> c.token[n]]
    BY DEF Creds
  <2>2. l.secret = [n \in SecretNames |-> c.secret[n]]
    BY <1>2
  <2>3. l.token = [n \in TokenNames |-> c.token[n]]
    BY <1>4, <1>6
  <2> HIDE DEF s, h, r, q, usesHosts
  <2> QED BY <1>5, <1>6, <2>1, <2>2, <2>3
<1>10. l = c
  <2> HIDE DEF s, h, r, q, usesHosts
  <2> QED BY <1>1, <1>9 DEF Creds
<1> HIDE DEF l
<1> QED BY <1>8, <1>10

Answers(p) ==
    /\ op[p].kind = "load"
    /\ pc[p] # "idle" /\ pc'[p] = "idle" /\ ret'[p] \notin {"none", "unavailable"}
    => [status |-> ret'[p], creds |-> creds'[p]] =
         IF op[p].creds # NoCreds THEN [status |-> "ok", creds |-> op[p].creds]
         ELSE Loaded(p \in InProject, Region(p), Profile(p))

\* A load changes nothing of what it looks at.
LEMMA LookKept ==
    ASSUME SnapshotInv, NEW p \in Procs, Load(p)
    PROVE  /\ op' = op /\ keyring' = keyring /\ hosts' = hosts
           /\ Given(p)' = Given(p) /\ Region(p)' = Region(p) /\ Profile(p)' = Profile(p)
<1>1. op' = op /\ keyring' = keyring /\ UNCHANGED disk
  BY OpKept, LoadMoves DEF SnapshotInv
<1> QED BY <1>1 DEF disk, Given, FirstConf, Region, Profile

LEMMA SnapshotConf ==
    ASSUME SnapshotInv, NEW p \in Procs, LoadConf(p)
    PROVE  LoadWork(p)' /\ Answers(p)
<1> DEFINE f == Given(p)
           s == f.section[Region(p)]
           c == [NoCreds EXCEPT !.application_key = s.application_key,
                                !.client_id = s.client_id]
<1>1. f \in ConfFiles /\ op[p].creds = NoCreds /\ pc[p] = "loadConf"
  BY ProcType DEF SnapshotInv, LoadConf, Given
<1>2. CASE f.st = "bad"
  <2>1. pc'[p] = "idle" /\ ret'[p] = "error" /\ creds'[p] = NoCreds
    BY <1>2 DEF LoadConf, Return, SnapshotInv, StoreInv, TypeOK, Given
  <2> QED BY <1>1, <1>2, <2>1 DEF LoadWork, Answers, Loaded, Given, LoadPcs
<1>3. CASE f.st # "bad" /\ (f.st = "absent" \/ ~s.has)
  <2>1. pc'[p] = "idle" /\ ret'[p] = "notconfigured" /\ creds'[p] = NoCreds
    BY <1>3 DEF LoadConf, Return, SnapshotInv, StoreInv, TypeOK, Given
  <2> QED BY <1>1, <1>3, <2>1 DEF LoadWork, Answers, Loaded, Given, LoadPcs
<1>4. CASE f.st # "bad" /\ f.st # "absent" /\ s.has
  <2>1. /\ pc'[p] = "loadSecrets" /\ k'[p] = 1 /\ conf'[p] = f /\ creds'[p] = c
    BY <1>4 DEF LoadConf, Goto, SnapshotInv, StoreInv, TypeOK, Given, Index,
       SecretLoops, TokenLoops
  <2>2. f.st = "good"
    BY <1>1, <1>4 DEF ConfFiles
  <2>3. /\ c.application_key = s.application_key /\ c.client_id = s.client_id
        /\ c.token = NoCreds.token /\ c.expiry = 0
    BY DEF NoCreds
  <2> HIDE DEF c
  <2>4. PublicRead(creds[p], p)' /\ NoSession(creds[p])'
    BY <1>4, <2>1, <2>2, <2>3, LookKept DEF PublicRead, NoSession, Load
  <2>5. SecretsRead(creds[p], p, k[p] - 1)'
    BY <2>1 DEF SecretsRead
  <2>6. op'[p].creds = NoCreds /\ conf'[p] = Given(p)'
    BY <1>1, <2>1, LookKept DEF Load
  <2> QED BY <2>1, <2>4, <2>5, <2>6 DEF LoadWork, Answers
<1> QED BY <1>2, <1>3, <1>4

LEMMA SnapshotSecret ==
    ASSUME SnapshotInv, NEW p \in Procs, LoadSecret(p)
    PROVE  LoadWork(p)' /\ Answers(p)
<1> DEFINE r == Region(p)
           s == Given(p).section[r]
           name == Secrets[k[p]]
           held == s.secret[name]
           v == Resolve(held, r, Default, name)
<1>1. /\ pc[p] = "loadSecrets" /\ op[p].creds = NoCreds /\ conf[p] = Given(p)
      /\ PublicRead(creds[p], p) /\ NoSession(creds[p])
      /\ SecretsRead(creds[p], p, k[p] - 1)
  BY DEF LoadSecret, SnapshotInv, LoadWork, LoadPcs
<1>2. /\ k[p] \in 1..3 /\ name \in SecretNames /\ creds[p] \in Creds
      /\ creds \in [Procs -> Creds]
  BY Names DEF SnapshotInv, StoreInv, TypeOK
<1>3. CASE held = Placeholder /\ v = 0
  <2>1. pc'[p] = "idle" /\ ret'[p] = "notconfigured" /\ creds'[p] = NoCreds
    BY <1>1, <1>3 DEF LoadSecret, Return, SnapshotInv, StoreInv, TypeOK
  <2>2. s.secret[name] = Placeholder /\ keyring[r][Default][name] = 0
    BY <1>3 DEF Resolve
  <2>3. Given(p).st = "good" /\ s.has
    BY <1>1 DEF PublicRead
  <2>4. Loaded(p \in InProject, r, Profile(p)) = [status |-> "notconfigured", creds |-> NoCreds]
    <3> HIDE DEF name
    <3> QED BY <1>2, <2>2, <2>3 DEF Loaded, Given
  <2> QED BY <1>1, <2>1, <2>4 DEF LoadWork, Answers, LoadPcs
<1>4. CASE ~(held = Placeholder /\ v = 0)
  <2>1. /\ creds' = [creds EXCEPT ![p].secret[name] = v]
        /\ Loop(p, Secrets, "loadMethod") /\ UNCHANGED <<conf, hyml>>
    BY <1>1, <1>4 DEF LoadSecret
  <2>2. /\ creds'[p].secret[name] = v
        /\ \A n \in SecretNames \ {name} : creds'[p].secret[n] = creds[p].secret[n]
        /\ creds'[p].application_key = creds[p].application_key
        /\ creds'[p].client_id = creds[p].client_id
        /\ creds'[p].token = creds[p].token /\ creds'[p].expiry = creds[p].expiry
    <3> HIDE DEF name, v
    <3>1. creds'[p] = [creds[p] EXCEPT !.secret[name] = v]
      BY <1>2, <2>1
    <3>2. creds[p].secret \in [SecretNames -> Plain]
      BY <1>2 DEF Creds
    <3> QED BY <1>2, <3>1, <3>2 DEF Creds
  <2>3. PublicRead(creds[p], p)' /\ NoSession(creds[p])'
        /\ op'[p].creds = NoCreds /\ conf'[p] = Given(p)'
    BY <1>1, <2>1, <2>2, LookKept DEF PublicRead, NoSession, Load
  <2>4. ASSUME NEW i \in 1..k[p]
        PROVE  /\ creds'[p].secret[Secrets[i]] = Resolve(s.secret[Secrets[i]], r, Default, Secrets[i])
               /\ s.secret[Secrets[i]] = Placeholder => keyring[r][Default][Secrets[i]] # 0
    <3>1. CASE i = k[p]
      BY <1>4, <2>2, <3>1 DEF Resolve
    <3>2. CASE i # k[p]
      <4>1. i \in 1..(k[p] - 1) /\ Secrets[i] \in SecretNames \ {name}
        BY <1>2, <3>2, Names
      <4> HIDE DEF name, v
      <4> QED BY <1>1, <2>2, <4>1 DEF SecretsRead
    <3> QED BY <3>1, <3>2
  <2> HIDE DEF name, v, held
  <2>5. CASE k[p] = 3
    <3>1. pc'[p] = "loadMethod"
      BY <1>1, <2>1, <2>5, Names DEF Loop, SnapshotInv, StoreInv, TypeOK
    <3>2. SecretsRead(creds[p], p, 3)'
      BY <2>4, <2>5, LookKept DEF SecretsRead, Resolve, Load
    <3> QED BY <2>3, <3>1, <3>2 DEF LoadWork, Answers
  <2>6. CASE k[p] # 3
    <3>1. pc'[p] = "loadSecrets" /\ k'[p] - 1 = k[p]
      BY <1>1, <1>2, <2>1, <2>6, Names DEF Loop, SnapshotInv, StoreInv, TypeOK
    <3>2. SecretsRead(creds[p], p, k[p] - 1)'
      BY <2>4, <3>1, LookKept DEF SecretsRead, Resolve, Load
    <3> QED BY <2>3, <3>1, <3>2 DEF LoadWork, Answers
  <2> QED BY <2>5, <2>6
<1> QED BY <1>3, <1>4

LEMMA SnapshotMethod ==
    ASSUME SnapshotInv, NEW p \in Procs, LoadMethod(p)
    PROVE  LoadWork(p)' /\ Answers(p)
<1> DEFINE r == Region(p)
           s == Given(p).section[r]
           m == Method(s)
           c == [creds[p] EXCEPT !.method = m]
<1>1. /\ pc[p] = "loadMethod" /\ op[p].creds = NoCreds /\ conf[p] = Given(p)
      /\ PublicRead(creds[p], p) /\ NoSession(creds[p]) /\ SecretsRead(creds[p], p, 3)
  BY DEF LoadMethod, SnapshotInv, LoadWork, LoadPcs
<1>2. Given(p) \in ConfFiles /\ r \in Regions /\ creds[p] \in Creds /\ m \in Methods
  BY ProcType, SectionType, MethodType DEF SnapshotInv, Given
<1>3. c \in Creds
  <2> HIDE DEF m
  <2> QED BY <1>2 DEF Creds
<1>4. /\ c.method = m /\ c.application_key = creds[p].application_key
      /\ c.client_id = creds[p].client_id /\ c.secret = creds[p].secret
      /\ c.token = creds[p].token /\ c.expiry = creds[p].expiry
  <2> HIDE DEF m
  <2> QED BY <1>2 DEF Creds
<1> HIDE DEF c
<1>5. PublicRead(c, p) /\ NoSession(c) /\ SecretsRead(c, p, 3)
  BY <1>1, <1>4 DEF PublicRead, NoSession, SecretsRead
<1>6. CASE m = "none"
  <2>1. pc'[p] = "idle" /\ ret'[p] = "notconfigured" /\ creds'[p] = NoCreds
    BY <1>1, <1>6 DEF LoadMethod, SnapshotInv, StoreInv, TypeOK
  <2>2. Loaded(p \in InProject, r, Profile(p)) = [status |-> "notconfigured", creds |-> NoCreds]
    BY <1>1, <1>6 DEF Loaded, Given, PublicRead
  <2> QED BY <1>1, <2>1, <2>2 DEF LoadWork, Answers, LoadPcs
<1>7. CASE m \notin {"none", "oauth2"}
  <2>1. pc'[p] = "idle" /\ ret'[p] = "ok" /\ creds'[p] = c
    BY <1>1, <1>7 DEF LoadMethod, SnapshotInv, StoreInv, TypeOK, c
  <2>2. Loaded(p \in InProject, r, Profile(p)) = [status |-> "ok", creds |-> c]
    BY <1>3, <1>4, <1>5, <1>7, LoadedRead DEF SnapshotInv
  <2> QED BY <1>1, <2>1, <2>2 DEF LoadWork, Answers, LoadPcs
<1>8. CASE m = "oauth2"
  <2>1. pc'[p] = "loadHosts" /\ creds'[p] = c /\ conf' = conf
    BY <1>1, <1>8, SMTT(40) DEF LoadMethod, Goto, SnapshotInv, StoreInv, TypeOK, c
  <2>2. /\ PublicRead(creds[p], p)' /\ NoSession(creds[p])' /\ SecretsRead(creds[p], p, 3)'
        /\ op'[p].creds = NoCreds /\ conf'[p] = Given(p)'
        /\ creds'[p].method = "oauth2" /\ Method(Given(p).section[Region(p)])' = "oauth2"
    BY <1>1, <1>4, <1>5, <1>8, <2>1, LookKept
       DEF PublicRead, NoSession, SecretsRead, Resolve, Method, Load
  <2> QED BY <2>1, <2>2 DEF LoadWork, Answers
<1> QED BY <1>6, <1>7, <1>8

LEMMA SnapshotHosts ==
    ASSUME SnapshotInv, NEW p \in Procs, LoadHosts(p)
    PROVE  LoadWork(p)' /\ Answers(p)
<1> DEFINE r == Region(p)
           s == Given(p).section[r]
           h == hosts.entry[r][Profile(p)]
           c == [creds[p] EXCEPT !.expiry = h.expiry]
<1>1. /\ pc[p] = "loadHosts" /\ op[p].creds = NoCreds /\ conf[p] = Given(p)
      /\ PublicRead(creds[p], p) /\ NoSession(creds[p]) /\ SecretsRead(creds[p], p, 3)
      /\ creds[p].method = "oauth2" /\ Method(s) = "oauth2"
  BY DEF LoadHosts, SnapshotInv, LoadWork, LoadPcs
<1>2. creds[p] \in Creds /\ hosts \in HostsFiles
  BY ProcType DEF SnapshotInv
<1>3. CASE Refused
  <2>1. pc'[p] = "idle" /\ ret'[p] = Refusal /\ creds'[p] = NoCreds
    BY <1>3 DEF LoadHosts, Return, Refusal, SnapshotInv, StoreInv, TypeOK
  <2>2. \A n \in SecretNames : ~(s.secret[n] = Placeholder /\ keyring[r][Default][n] = 0)
    BY <1>1, Names DEF SecretsRead
  <2>3. Loaded(p \in InProject, r, Profile(p)) = [status |-> Refusal, creds |-> NoCreds]
    BY <1>1, <1>3, <2>2 DEF Loaded, Given, PublicRead
  <2> QED BY <1>1, <2>1, <2>3 DEF LoadWork, Answers, LoadPcs
<1>4. CASE ~Refused /\ (hosts.st = "absent" \/ ~h.has)
  <2>1. pc'[p] = "idle" /\ ret'[p] = "ok" /\ creds'[p] = creds[p]
    BY <1>4 DEF LoadHosts, Return, SnapshotInv, StoreInv, TypeOK
  <2>2. Loaded(p \in InProject, r, Profile(p)) = [status |-> "ok", creds |-> creds[p]]
    BY <1>1, <1>2, <1>4, LoadedRead DEF SnapshotInv
  <2> QED BY <1>1, <2>1, <2>2 DEF LoadWork, Answers, LoadPcs
<1>5. CASE ~Refused /\ hosts.st # "absent" /\ h.has
  <2>1. /\ pc'[p] = "loadTokens" /\ k'[p] = 1 /\ conf' = conf /\ hyml'[p] = hosts
        /\ creds'[p] = c
    BY <1>5 DEF LoadHosts, Goto, SnapshotInv, StoreInv, TypeOK, Index, SecretLoops, TokenLoops
  <2>2. /\ c.application_key = creds[p].application_key /\ c.client_id = creds[p].client_id
        /\ c.secret = creds[p].secret /\ c.method = creds[p].method /\ c.expiry = h.expiry
    <3> HIDE DEF h
    <3> QED BY <1>2 DEF Creds
  <2>3. hosts.st = "good"
    BY <1>2, <1>5 DEF HostsFiles, Refused
  <2> HIDE DEF c
  <2>4. /\ PublicRead(creds[p], p)' /\ SecretsRead(creds[p], p, 3)'
        /\ op'[p].creds = NoCreds /\ conf'[p] = Given(p)'
        /\ creds'[p].method = "oauth2" /\ Method(Given(p).section[Region(p)])' = "oauth2"
    BY <1>1, <2>1, <2>2, LookKept DEF PublicRead, SecretsRead, Resolve, Method, Load
  <2>5. hyml'[p] = hosts' /\ EntryRead(creds[p], p)'
    BY <1>5, <2>1, <2>2, <2>3, LookKept DEF EntryRead, Load
  <2>6. TokensRead(creds[p], p, k[p] - 1)'
    BY <2>1 DEF TokensRead
  <2> QED BY <2>1, <2>4, <2>5, <2>6 DEF LoadWork, Answers
<1> QED BY <1>3, <1>4, <1>5

LEMMA SnapshotToken ==
    ASSUME SnapshotInv, NEW p \in Procs, LoadToken(p)
    PROVE  LoadWork(p)' /\ Answers(p)
<1> DEFINE r == Region(p)
           q == Profile(p)
           s == Given(p).section[r]
           h == hosts.entry[r][q]
           name == Tokens[k[p]]
           held == h.token[name]
           v == Resolve(held, r, q, name)
<1>1. /\ pc[p] = "loadTokens" /\ op[p].creds = NoCreds /\ conf[p] = Given(p)
      /\ PublicRead(creds[p], p) /\ SecretsRead(creds[p], p, 3)
      /\ creds[p].method = "oauth2" /\ Method(s) = "oauth2"
      /\ hyml[p] = hosts /\ EntryRead(creds[p], p) /\ TokensRead(creds[p], p, k[p] - 1)
  BY DEF LoadToken, SnapshotInv, LoadWork, LoadPcs
<1>2. /\ k[p] \in 1..2 /\ name \in TokenNames /\ creds[p] \in Creds
      /\ creds \in [Procs -> Creds]
  BY <1>1, Names DEF SnapshotInv, StoreInv, TypeOK, Index, TokenLoops
<1>3. CASE held = Placeholder /\ v = 0
  <2>1. pc'[p] = "idle" /\ ret'[p] = "notconfigured" /\ creds'[p] = NoCreds
    BY <1>1, <1>3 DEF LoadToken, Return, SnapshotInv, StoreInv, TypeOK
  <2>2. h.token[name] = Placeholder /\ keyring[r][q][name] = 0
    BY <1>3 DEF Resolve
  <2>3. hosts.st = "good" /\ h.has
    BY <1>1 DEF EntryRead
  <2>4. \A n \in SecretNames : ~(s.secret[n] = Placeholder /\ keyring[r][Default][n] = 0)
    BY <1>1, Names DEF SecretsRead
  <2>5. Loaded(p \in InProject, r, q) = [status |-> "notconfigured", creds |-> NoCreds]
    <3> HIDE DEF name
    <3> QED BY <1>1, <1>2, <2>2, <2>3, <2>4 DEF Loaded, Given, PublicRead, Refused
  <2> QED BY <1>1, <2>1, <2>5 DEF LoadWork, Answers, LoadPcs
<1>4. CASE ~(held = Placeholder /\ v = 0)
  <2>1. /\ creds' = [creds EXCEPT ![p].token[name] = v]
        /\ Loop(p, Tokens, "loadEnd") /\ UNCHANGED <<conf, hyml>>
    BY <1>1, <1>4 DEF LoadToken
  <2>2. /\ creds'[p].token[name] = v
        /\ \A n \in TokenNames \ {name} : creds'[p].token[n] = creds[p].token[n]
        /\ creds'[p].application_key = creds[p].application_key
        /\ creds'[p].client_id = creds[p].client_id /\ creds'[p].method = creds[p].method
        /\ creds'[p].secret = creds[p].secret /\ creds'[p].expiry = creds[p].expiry
    <3> HIDE DEF name, v
    <3>1. creds'[p] = [creds[p] EXCEPT !.token[name] = v]
      BY <1>2, <2>1
    <3>2. creds[p].token \in [TokenNames -> Plain]
      BY <1>2 DEF Creds
    <3> QED BY <1>2, <3>1, <3>2 DEF Creds
  <2>3. /\ PublicRead(creds[p], p)' /\ SecretsRead(creds[p], p, 3)'
        /\ op'[p].creds = NoCreds /\ conf'[p] = Given(p)'
        /\ creds'[p].method = "oauth2" /\ Method(Given(p).section[Region(p)])' = "oauth2"
        /\ hyml'[p] = hosts' /\ EntryRead(creds[p], p)'
    <3> HIDE DEF name, v
    <3>1. op' = op /\ keyring' = keyring /\ hosts' = hosts /\ Given(p)' = Given(p)
          /\ Region(p)' = r /\ Profile(p)' = q
      BY LookKept DEF Load
    <3>2. PublicRead(creds[p], p)' /\ SecretsRead(creds[p], p, 3)'
      BY <1>1, <2>2, <3>1 DEF PublicRead, SecretsRead, Resolve
    <3>3. EntryRead(creds[p], p)' /\ hyml'[p] = hosts'
      BY <1>1, <2>1, <2>2, <3>1 DEF EntryRead
    <3> QED BY <1>1, <2>1, <2>2, <3>1, <3>2, <3>3 DEF Method
  <2>4. ASSUME NEW i \in 1..k[p]
        PROVE  /\ creds'[p].token[Tokens[i]] = Resolve(h.token[Tokens[i]], r, q, Tokens[i])
               /\ h.token[Tokens[i]] = Placeholder => keyring[r][q][Tokens[i]] # 0
    <3>1. CASE i = k[p]
      BY <1>4, <2>2, <3>1 DEF Resolve
    <3>2. CASE i # k[p]
      <4>1. i \in 1..(k[p] - 1) /\ Tokens[i] \in TokenNames \ {name}
        BY <1>2, <3>2, Names
      <4> HIDE DEF name, v
      <4> QED BY <1>1, <2>2, <4>1 DEF TokensRead
    <3> QED BY <3>1, <3>2
  <2> HIDE DEF name, v, held
  <2>5. CASE k[p] = 2
    <3>1. pc'[p] = "loadEnd"
      BY <1>1, <2>1, <2>5, Names DEF Loop, SnapshotInv, StoreInv, TypeOK
    <3>2. TokensRead(creds[p], p, 2)'
      BY <2>4, <2>5, LookKept DEF TokensRead, Resolve, Load
    <3> QED BY <2>3, <3>1, <3>2 DEF LoadWork, Answers
  <2>6. CASE k[p] # 2
    <3>1. pc'[p] = "loadTokens" /\ k'[p] - 1 = k[p]
      BY <1>1, <1>2, <2>1, <2>6, Names DEF Loop, SnapshotInv, StoreInv, TypeOK
    <3>2. TokensRead(creds[p], p, k[p] - 1)'
      BY <2>4, <3>1, LookKept DEF TokensRead, Resolve, Load
    <3> QED BY <2>3, <3>1, <3>2 DEF LoadWork, Answers
  <2> QED BY <2>5, <2>6
<1> QED BY <1>3, <1>4

LEMMA SnapshotStep ==
    ASSUME OneProcess, SnapshotInv, [Next]_vars
    PROVE  SnapshotInv' /\ \A p \in Procs : Answers(p)
<1>1. StoreInv' /\ \A p \in Procs : Kind(p)'
  BY StoreNext, KindKept DEF SnapshotInv
<1>2. CASE UNCHANGED vars
  <2>1. /\ UNCHANGED <<near, xdg, far, hosts, keyring, op, pc, k, conf, hyml, creds>>
        /\ \A p \in Procs : LoadWork(p) /\ Answers(p)
    BY <1>2 DEF SnapshotInv, Answers, vars, disk, locals
  <2>2. \A p \in Procs : LoadWork(p)'
    <3> SUFFICES ASSUME NEW p \in Procs PROVE LoadWork(p)'
      OBVIOUS
    <3>1. Given(p)' = Given(p) /\ Region(p)' = Region(p) /\ Profile(p)' = Profile(p)
      BY <2>1 DEF Given, FirstConf, Region, Profile
    <3>2. /\ PublicRead(creds[p], p) => PublicRead(creds[p], p)'
          /\ EntryRead(creds[p], p) => EntryRead(creds[p], p)'
          /\ NoSession(creds[p]) => NoSession(creds[p])'
      BY <2>1, <3>1 DEF PublicRead, EntryRead, NoSession
    <3>3. /\ SecretsRead(creds[p], p, 3) => SecretsRead(creds[p], p, 3)'
          /\ TokensRead(creds[p], p, 2) => TokensRead(creds[p], p, 2)'
      BY <2>1, <3>1 DEF SecretsRead, TokensRead, Resolve
    <3>4. Method(Given(p).section[Region(p)])' = Method(Given(p).section[Region(p)])
      BY <3>1 DEF Method
    <3>5. /\ SecretsRead(creds[p], p, k[p] - 1) => SecretsRead(creds[p], p, k[p] - 1)'
          /\ TokensRead(creds[p], p, k[p] - 1) => TokensRead(creds[p], p, k[p] - 1)'
      BY <2>1, <3>1 DEF SecretsRead, TokensRead, Resolve
    <3> QED BY <2>1, <3>1, <3>2, <3>3, <3>4, <3>5 DEF LoadWork
  <2> QED BY <1>1, <2>1, <2>2 DEF SnapshotInv
<1>3. ASSUME NEW p \in Procs, Act(p)
      PROVE  LoadWork(p)' /\ Answers(p)
  <2>1. CASE Load(p)
    <3>1. CASE LoadEnv(p)
      BY <3>1 DEF LoadEnv, SnapshotInv, StoreInv, TypeOK, LoadWork, Answers, LoadPcs
    <3>2. CASE LoadEnd(p)
      <4>1. pc[p] = "loadEnd" /\ pc'[p] = "idle" /\ ret'[p] = "ok" /\ creds'[p] = creds[p]
        BY <3>2 DEF LoadEnd, Return, SnapshotInv, StoreInv, TypeOK
      <4>2. /\ op[p].creds = NoCreds /\ creds[p] \in Creds
            /\ Loaded(p \in InProject, Region(p), Profile(p)) = [status |-> "ok", creds |-> creds[p]]
        BY <4>1, ProcType, LoadedRead DEF SnapshotInv, LoadWork, LoadPcs
      <4> QED BY <4>1, <4>2 DEF LoadWork, Answers, LoadPcs
    <3>3. CASE LoadKeyringFails(p)
      BY <3>3 DEF LoadKeyringFails, Return, SnapshotInv, StoreInv, TypeOK, LoadWork, Answers, LoadPcs
    <3> QED BY <2>1, <3>1, <3>2, <3>3, SnapshotConf, SnapshotSecret, SnapshotMethod,
            SnapshotHosts, SnapshotToken DEF Load
  <2>2. CASE Store(p) \/ Delete(p)
    BY <2>2, StoreMoves, DeleteMoves, PcsApart
       DEF SnapshotInv, Kind, LoadWork, Answers, StorePcs, DeletePcs, LoadPcs
  <2>3. CASE Call(p)
    <3>1. pc[p] = "idle" /\ pc'[p] \in {"loadConf", "storeConf", "delSecrets"}
      BY <2>3, CallMoves DEF SnapshotInv
    <3> QED BY <3>1 DEF LoadWork, Answers, LoadPcs
  <2>4. CASE Crash(p)
    BY <2>4 DEF Crash, Return, SnapshotInv, StoreInv, TypeOK, LoadWork, Answers, LoadPcs
  <2>5. CASE WriteFails(p)
    BY <2>5 DEF WriteFails, Return, SnapshotInv, Kind, StoreInv, TypeOK, LoadWork, Answers,
       LoadPcs, StorePcs, DeletePcs
  <2> QED BY <1>3, <2>1, <2>2, <2>3, <2>4, <2>5 DEF Act
<1>4. ASSUME NEW p \in Procs, Act(p)
      PROVE  \A x \in Procs : LoadWork(x)' /\ Answers(x)
  BY <1>3, <1>4 DEF OneProcess
<1> QED BY <1>1, <1>2, <1>4 DEF SnapshotInv, Next, Act

\* A load that nothing overlaps agrees with the environment, or with one look at
\* the files and the keyring, for success and each failure, unless it is killed or
\* the keyring fails.  (store.go:12-87, ovhconf.go:93-148, hostsyml.go:81-111)
THEOREM LoadContract == ASSUME OneProcess PROVE Spec => LoadIsSnapshot
<1>1. Init => SnapshotInv
  BY StoreInit, KindInit DEF Init, SnapshotInv, LoadWork, LoadPcs
<1>2. SnapshotInv /\ [Next]_vars => SnapshotInv'
  BY SnapshotStep
<1>3. SnapshotInv /\ [Next]_vars =>
        [\A p \in Procs :
           /\ op[p].kind = "load"
           /\ pc[p] # "idle" /\ pc'[p] = "idle" /\ ret'[p] \notin {"none", "unavailable"}
           => [status |-> ret'[p], creds |-> creds'[p]] =
                IF op[p].creds # NoCreds THEN [status |-> "ok", creds |-> op[p].creds]
                ELSE Loaded(p \in InProject, Region(p), Profile(p))]_vars
  BY SnapshotStep DEF Answers
<1> QED BY <1>1, <1>2, <1>3, PTL DEF Spec, LoadIsSnapshot

-----------------------------------------------------------------------------
(***************************************************************************)
(* Isolation, one process at a time: what a process is about to write      *)
(* agrees, outside its region and profile, with what it will replace.      *)
(***************************************************************************)
\* A hosts.yml that does not exist holds nothing; what will replace it agrees with
\* it on the sessions of the other regions and profiles.
HostsOthers(p) ==
    pc[p] \in {"storeTokens", "storeWriteHosts", "delWriteHosts"} =>
      /\ hyml[p].st = "good" /\ ~Refused
      /\ \A r \in Regions, q \in Profiles :
           <<r, q>> # <<Region(p), Profile(p)>> => hyml[p].entry[r][q] = hosts.entry[r][q]

SessionInv == StoreInv /\ (hosts.st = "absent" => hosts = NoHosts) /\ \A p \in Procs : HostsOthers(p)

LEMMA HostsPrepared ==
    ASSUME SessionInv, NEW p \in Procs, Act(p)
    PROVE  HostsOthers(p)'
<1> DEFINE r == Region(p)
           q == Profile(p)
           Writing == {"storeTokens", "storeWriteHosts", "delWriteHosts"}
<1>1. r \in Regions /\ q \in Profiles /\ hosts \in HostsFiles /\ hyml[p] \in HostsFiles
      /\ hyml \in [Procs -> HostsFiles]
  BY ProcType DEF SessionInv
<1>2. CASE StoreHosts(p)
  <2> DEFINE e == hosts.entry[r][q]
             d == [e EXCEPT !.has = TRUE, !.expiry = op[p].creds.expiry]
             h == [hosts EXCEPT !.st = "good", !.entry[r][q] = d]
  <2>1. CASE Refused
    BY <1>2, <2>1 DEF StoreHosts, Return, SessionInv, StoreInv, TypeOK, HostsOthers
  <2>2. CASE ~Refused
    <3>1. hyml' = [hyml EXCEPT ![p] = h] /\ UNCHANGED <<hosts, op>>
      BY <1>2, <2>2 DEF StoreHosts, disk
    <3>2. hyml'[p] = h
      BY <1>1, <3>1
    <3>3. h.st = "good" /\ \A x \in Regions, y \in Profiles :
            <<x, y>> # <<r, q>> => h.entry[x][y] = hosts.entry[x][y]
      <4> HIDE DEF d
      <4> QED BY <1>1 DEF HostsFiles
    <3> HIDE DEF h
    <3> QED BY <2>2, <3>1, <3>2, <3>3 DEF HostsOthers, Refused, Region, Profile
  <2> QED BY <2>1, <2>2
<1>3. CASE StoreToken(p)
  <2> DEFINE name == Tokens[k[p]]
  <2>1. PICK v : hyml'[p] = TokenSet(hyml[p], r, q, name, v)
    BY <1>1, <1>3 DEF StoreToken, TokenSet
  <2>2. pc[p] = "storeTokens" /\ UNCHANGED <<hosts, op>> /\ name \in TokenNames
    BY <1>3, Names DEF StoreToken, disk, SessionInv, StoreInv, Index, TokenLoops
  <2> HIDE DEF name
  <2>3. hyml'[p].st = hyml[p].st /\ \A x \in Regions, y \in Profiles :
          <<x, y>> # <<r, q>> => hyml'[p].entry[x][y] = hyml[p].entry[x][y]
    BY <1>1, <2>1, <2>2, HostsTokenIs
  <2>4. HostsOthers(p)
    BY DEF SessionInv
  <2> QED BY <2>2, <2>3, <2>4 DEF HostsOthers, Refused, Region, Profile
<1>4. CASE DelHosts(p)
  <2> DEFINE h == [hosts EXCEPT !.entry[r][q] = NoEntry]
  <2>1. CASE pc'[p] # "delWriteHosts"
    BY <1>4, <2>1 DEF DelHosts, Return, Goto, SessionInv, StoreInv, TypeOK, HostsOthers
  <2>2. CASE pc'[p] = "delWriteHosts"
    <3>1. /\ hyml' = [hyml EXCEPT ![p] = h] /\ UNCHANGED <<hosts, op>>
          /\ ~Refused /\ hosts.st # "absent"
      BY <1>4, <2>2 DEF DelHosts, Return, Goto, SessionInv, StoreInv, TypeOK, disk
    <3>2. hyml'[p] = h
      BY <1>1, <3>1
    <3>3. h.st = "good" /\ \A x \in Regions, y \in Profiles :
            <<x, y>> # <<r, q>> => h.entry[x][y] = hosts.entry[x][y]
      BY <1>1, <3>1 DEF HostsFiles, Refused
    <3> HIDE DEF h
    <3> QED BY <3>1, <3>2, <3>3 DEF HostsOthers, Refused, Region, Profile
  <2> QED BY <2>1, <2>2
<1>5. pc'[p] \in Writing => StoreHosts(p) \/ StoreToken(p) \/ DelHosts(p)
  <2> USE DEF SessionInv, StoreInv, TypeOK
  <2>1. ~(Call(p) \/ Load(p)) \/ pc'[p] \notin Writing
    BY CallMoves, LoadMoves DEF LoadPcs
  <2>2. ~(WriteFails(p) \/ Crash(p)) \/ pc'[p] \notin Writing
    BY DEF WriteFails, Crash, Return
  <2>3. ~(StoreConf(p) \/ StoreSecret(p) \/ StoreKeyringFails(p) \/ StoreWriteConf(p)
          \/ StoreWriteHosts(p)) \/ pc'[p] \notin Writing
    BY DEF StoreConf, StoreSecret, StoreKeyringFails, StoreWriteConf, StoreWriteHosts,
       Return, Goto, Loop
  <2>4. ~(DelSecret(p) \/ DelToken(p) \/ DelWriteHosts(p) \/ DelConf(p) \/ DelWriteConf(p))
          \/ pc'[p] \notin Writing
    BY DEF DelSecret, DelToken, DelWriteHosts, DelConf, DelWriteConf, Return, Goto, Loop
  <2> QED BY <2>1, <2>2, <2>3, <2>4 DEF Act, Store, Delete
<1> QED BY <1>2, <1>3, <1>4, <1>5 DEF HostsOthers

Elsewhere(p, r, q) == Session(r, q)' # Session(r, q) =>
                        Moved(p) /\ Region(p) = r /\ Profile(p) = q

LEMMA SessionStep ==
    ASSUME OneProcess, SessionInv, [Next]_vars
    PROVE  /\ SessionInv'
           /\ \A r \in Regions, q \in Profiles :
                Session(r, q)' # Session(r, q) =>
                  \E p \in Procs : Moved(p) /\ Region(p) = r /\ Profile(p) = q
<1>1. StoreInv'
  BY StoreNext DEF SessionInv
<1>2. CASE UNCHANGED vars
  <2>1. UNCHANGED <<hosts, keyring, pc, hyml, op>>
    BY <1>2 DEF vars, disk, locals
  <2>2. \A p \in Procs : HostsOthers(p)'
    BY <2>1 DEF SessionInv, HostsOthers, Refused, Region, Profile
  <2>3. \A r, q : Session(r, q)' = Session(r, q)
    BY <2>1 DEF Session
  <2> QED BY <1>1, <2>1, <2>2, <2>3 DEF SessionInv, NoHosts, NoEntry
<1>3. ASSUME NEW p \in Procs, Act(p)
      PROVE  /\ (hosts.st = "absent" => hosts = NoHosts)'
             /\ \A r \in Regions, q \in Profiles : Elsewhere(p, r, q)
  <2>1. /\ KeyringOwn(p) /\ (UNCHANGED <<disk, keyring>> \/ Moved(p))
        /\ \/ hosts' = hosts
           \/ /\ hosts' = hyml[p] /\ hyml[p].st = "good"
              /\ \A r \in Regions, q \in Profiles :
                   <<r, q>> # <<Region(p), Profile(p)>> => hyml[p].entry[r][q] = hosts.entry[r][q]
    BY <1>3, Writes DEF SessionInv, HostsOthers
  <2>2. (hosts.st = "absent" => hosts = NoHosts)'
    BY <2>1 DEF SessionInv, NoHosts, NoEntry
  <2>3. ASSUME NEW r \in Regions, NEW q \in Profiles, <<r, q>> # <<Region(p), Profile(p)>>
        PROVE  Session(r, q)' = Session(r, q)
    <3>1. hosts'.entry[r][q] = hosts.entry[r][q]
      BY <2>1, <2>3
    <3>2. \A n \in TokenNames : keyring'[r][q][n] = keyring[r][q][n]
      <4>1. r # Region(p) \/ q # Profile(p)
        BY <2>3
      <4> QED BY <2>1, <4>1 DEF KeyringOwn
    <3> QED BY <3>1, <3>2 DEF Session
  <2>4. ~Moved(p) => \A r \in Regions, q \in Profiles : Session(r, q)' = Session(r, q)
    BY <2>1 DEF disk, Session
  <2> QED BY <2>2, <2>3, <2>4 DEF Elsewhere
<1>4. ASSUME NEW p \in Procs, Act(p) PROVE SessionInv'
  BY <1>1, <1>3, <1>4, HostsPrepared DEF OneProcess, SessionInv
<1> QED BY <1>2, <1>3, <1>4 DEF Next, Act, Elsewhere

\* The OAuth2 session of a profile changes only by an operation on that region and
\* profile, through failures and kills.  (hostsyml.go:116-187)
THEOREM SessionContract == ASSUME OneProcess PROVE Spec => SessionIsolation
<1>1. Init => SessionInv
  BY StoreInit, StoreAssumption DEF Init, SessionInv, HostsOthers, StoreAssumption
<1>2. SessionInv /\ [Next]_vars => SessionInv'
  BY SessionStep
<1>3. SessionInv /\ [Next]_vars =>
        [\A r \in Regions, q \in Profiles :
           Session(r, q)' # Session(r, q) =>
             \E p \in Procs : Moved(p) /\ Region(p) = r /\ Profile(p) = q]_vars
  BY SessionStep
<1> QED BY <1>1, <1>2, <1>3, PTL DEF Spec, SessionIsolation

\* An ovh.conf that does not exist holds nothing; what will replace the XDG file
\* agrees with the file that was read on the other regions, unless it was a nearer one.
ConfOthers(p) ==
    pc[p] \in {"storeSecrets", "storeWriteConf", "delWriteConf"} =>
      /\ conf[p].st = "good"
      /\ ~Shadowed(p \in InProject) =>
           /\ FirstConf(FALSE).st # "bad"
           /\ \A r \in Regions \ {Region(p)} :
                conf[p].section[r] = FirstConf(FALSE).section[r]

RegionInv == /\ SessionInv
             /\ \A f \in {near, xdg, far} : f.st = "absent" => f = NoConf
             /\ \A p \in Procs : ConfOthers(p)

LEMMA ConfPrepared ==
    ASSUME RegionInv, NEW p \in Procs, Act(p)
    PROVE  ConfOthers(p)'
<1> DEFINE r == Region(p)
           f == FirstConf(p \in InProject)
           Writing == {"storeSecrets", "storeWriteConf", "delWriteConf"}
<1>1. /\ r \in Regions /\ f \in ConfFiles /\ conf[p] \in ConfFiles
      /\ conf \in [Procs -> ConfFiles]
  BY ProcType DEF RegionInv, SessionInv
<1>2. ~Shadowed(p \in InProject) => f = FirstConf(FALSE)
  BY DEF Shadowed, FirstConf
<1>3. CASE StoreConf(p)
  <2> DEFINE s == [has |-> TRUE, method |-> op[p].creds.method,
                   application_key |-> op[p].creds.application_key,
                   client_id |-> op[p].creds.client_id, secret |-> f.section[r].secret]
             g == [f EXCEPT !.st = "good", !.section[r] = s]
  <2>1. CASE f.st = "bad"
    BY <1>3, <2>1 DEF StoreConf, Return, RegionInv, SessionInv, StoreInv, TypeOK, ConfOthers
  <2>2. CASE f.st # "bad"
    <3>1. conf' = [conf EXCEPT ![p] = g] /\ UNCHANGED <<near, xdg, far, op>>
      BY <1>3, <2>2 DEF StoreConf, disk
    <3>2. g.st = "good" /\ \A x \in Regions \ {r} : g.section[x] = f.section[x]
      <4> HIDE DEF s, f
      <4> QED BY <1>1 DEF ConfFiles
    <3>3. /\ conf'[p] = g /\ Region(p)' = r
          /\ ~Shadowed(p \in InProject)' => FirstConf(FALSE) = f /\ FirstConf(FALSE)' = f
      BY <1>1, <1>2, <3>1 DEF FirstConf, Region, Shadowed
    <3> HIDE DEF g, f
    <3> QED BY <2>2, <3>2, <3>3 DEF ConfOthers
  <2> QED BY <2>1, <2>2
<1>4. CASE StoreSecret(p)
  <2> DEFINE name == Secrets[k[p]]
  <2>1. PICK v : conf'[p] = SecretSet(conf[p], r, name, v)
    BY <1>1, <1>4 DEF StoreSecret, SecretSet
  <2>2. pc[p] = "storeSecrets" /\ UNCHANGED <<near, xdg, far, op>> /\ name \in SecretNames
    BY <1>4, Names DEF StoreSecret, disk, RegionInv, SessionInv, StoreInv, TypeOK
  <2> HIDE DEF name
  <2>3. conf'[p].st = conf[p].st
        /\ \A x \in Regions \ {r} : conf'[p].section[x] = conf[p].section[x]
    BY <1>1, <2>1, <2>2, ConfSecretIs
  <2>4. /\ ConfOthers(p) /\ FirstConf(FALSE)' = FirstConf(FALSE) /\ Region(p)' = r
        /\ Shadowed(p \in InProject)' = Shadowed(p \in InProject)
    BY <2>2 DEF RegionInv, FirstConf, Region, Shadowed
  <2> QED BY <2>2, <2>3, <2>4 DEF ConfOthers
<1>5. CASE DelConf(p)
  <2> DEFINE g == [f EXCEPT !.section[r] = NoSection]
  <2>1. CASE pc'[p] # "delWriteConf"
    BY <1>5, <2>1 DEF DelConf, Return, Goto, RegionInv, SessionInv, StoreInv, TypeOK, ConfOthers
  <2>2. CASE pc'[p] = "delWriteConf"
    <3>1. /\ conf' = [conf EXCEPT ![p] = g] /\ UNCHANGED <<near, xdg, far, op>>
          /\ f.st # "bad" /\ f.st # "absent"
      BY <1>5, <2>2 DEF DelConf, Return, Goto, RegionInv, SessionInv, StoreInv, TypeOK, disk
    <3>2. g.st = "good" /\ \A x \in Regions \ {r} : g.section[x] = f.section[x]
      <4> HIDE DEF f
      <4> QED BY <1>1, <3>1 DEF ConfFiles
    <3>3. /\ conf'[p] = g /\ Region(p)' = r
          /\ ~Shadowed(p \in InProject)' => FirstConf(FALSE) = f /\ FirstConf(FALSE)' = f
      BY <1>1, <1>2, <3>1 DEF FirstConf, Region, Shadowed
    <3> HIDE DEF g, f
    <3> QED BY <3>1, <3>2, <3>3 DEF ConfOthers
  <2> QED BY <2>1, <2>2
<1>6. pc'[p] \in Writing => StoreConf(p) \/ StoreSecret(p) \/ DelConf(p)
  <2> USE DEF RegionInv, SessionInv, StoreInv, TypeOK
  <2>1. ~(Call(p) \/ Load(p)) \/ pc'[p] \notin Writing
    BY CallMoves, LoadMoves DEF LoadPcs
  <2>2. ~(WriteFails(p) \/ Crash(p)) \/ pc'[p] \notin Writing
    BY DEF WriteFails, Crash, Return
  <2>3. ~(StoreHosts(p) \/ StoreToken(p) \/ StoreKeyringFails(p) \/ StoreWriteConf(p)
          \/ StoreWriteHosts(p)) \/ pc'[p] \notin Writing
    BY DEF StoreHosts, StoreToken, StoreKeyringFails, StoreWriteConf, StoreWriteHosts,
       Return, Goto, Loop
  <2>4. ~(DelSecret(p) \/ DelToken(p) \/ DelWriteHosts(p) \/ DelHosts(p) \/ DelWriteConf(p))
          \/ pc'[p] \notin Writing
    BY DEF DelSecret, DelToken, DelWriteHosts, DelHosts, DelWriteConf, Return, Goto, Loop
  <2> QED BY <2>1, <2>2, <2>3, <2>4 DEF Act, Store, Delete
<1> QED BY <1>3, <1>4, <1>5, <1>6 DEF ConfOthers

\* A load sees one section, one entry and their keyring entries, and a file that
\* appears without them is one that is absent.
LEMMA LoadedKept ==
    ASSUME NEW here \in BOOLEAN, NEW r \in Regions, NEW q \in Profiles,
           FirstConf(here)'.section[r] = FirstConf(here).section[r],
           \/ FirstConf(here)'.st = FirstConf(here).st
           \/ /\ FirstConf(here).st = "absent" /\ FirstConf(here)'.st = "good"
              /\ ~FirstConf(here).section[r].has,
           hosts'.entry[r][q] = hosts.entry[r][q],
           \/ hosts'.st = hosts.st
           \/ hosts.st = "absent" /\ hosts'.st = "good" /\ ~hosts.entry[r][q].has,
           \A y \in Profiles, n \in SecretNames \cup TokenNames :
             keyring'[r][y][n] = keyring[r][y][n]
    PROVE  Loaded(here, r, q)' = Loaded(here, r, q)
<1> DEFINE s == FirstConf(here).section[r]
           h == hosts.entry[r][q]
<1>1. Default \in Profiles
  BY StoreAssumption DEF StoreAssumption
<1>2. \A n \in SecretNames :
        /\ keyring'[r][Default][n] = keyring[r][Default][n]
        /\ Resolve(s.secret[n], r, Default, n)' = Resolve(s.secret[n], r, Default, n)
  BY <1>1 DEF Resolve
<1>3. \A n \in TokenNames :
        /\ keyring'[r][q][n] = keyring[r][q][n]
        /\ Resolve(h.token[n], r, q, n)' = Resolve(h.token[n], r, q, n)
  BY DEF Resolve
<1>4. Method(s)' = Method(s)
  BY DEF Method
<1>5. /\ (\E n \in SecretNames : s.secret[n] = Placeholder /\ keyring[r][Default][n] = 0)'
           <=> \E n \in SecretNames : s.secret[n] = Placeholder /\ keyring[r][Default][n] = 0
      /\ (\E n \in TokenNames : h.token[n] = Placeholder /\ keyring[r][q][n] = 0)'
           <=> \E n \in TokenNames : h.token[n] = Placeholder /\ keyring[r][q][n] = 0
      /\ [n \in SecretNames |-> Resolve(s.secret[n], r, Default, n)]'
           = [n \in SecretNames |-> Resolve(s.secret[n], r, Default, n)]
      /\ [n \in TokenNames |-> Resolve(h.token[n], r, q, n)]'
           = [n \in TokenNames |-> Resolve(h.token[n], r, q, n)]
  BY <1>2, <1>3
<1>6. (Refused' <=> Refused) /\ Refusal' = Refusal
  BY DEF Refused, Refusal
<1> QED BY <1>4, <1>5, <1>6 DEF Loaded

\* A step of p may change what a load of r returns.
Reaches(p, r, here) ==
    Moved(p) /\ (Region(p) = r \/ (Shadowed(p \in InProject) /\ ~Shadowed(here)))

LEMMA RegionStep ==
    ASSUME OneProcess, RegionInv, [Next]_vars
    PROVE  /\ RegionInv'
           /\ \A r \in Regions, q \in Profiles, here \in BOOLEAN :
                Loaded(here, r, q)' # Loaded(here, r, q) =>
                  \E p \in Procs : Reaches(p, r, here)
<1>1. SessionInv'
  BY SessionStep DEF RegionInv
<1>2. CASE UNCHANGED vars
  <2>1. UNCHANGED <<near, xdg, far, hosts, keyring, pc, conf, op>>
    BY <1>2 DEF vars, disk, locals
  <2>2. \A here : FirstConf(here)' = FirstConf(here)
    BY <2>1 DEF FirstConf
  <2>3. \A p \in Procs : ConfOthers(p)'
    BY <2>1, <2>2 DEF RegionInv, ConfOthers, Region, Shadowed
  <2>4. \A r \in Regions, q \in Profiles, here \in BOOLEAN :
          Loaded(here, r, q)' = Loaded(here, r, q)
    BY <2>1, <2>2, LoadedKept
  <2>5. (\A f \in {near, xdg, far} : f.st = "absent" => f = NoConf)'
    BY <2>1 DEF RegionInv, NoConf, NoSection
  <2> QED BY <1>1, <2>3, <2>4, <2>5 DEF RegionInv
<1>3. ASSUME NEW p \in Procs, Act(p)
      PROVE  /\ (\A f \in {near, xdg, far} : f.st = "absent" => f = NoConf)'
             /\ \A r \in Regions, q \in Profiles, here \in BOOLEAN :
                  Loaded(here, r, q)' # Loaded(here, r, q) => Reaches(p, r, here)
  <2>1. /\ near' = near /\ far' = far /\ KeyringOwn(p)
        /\ (UNCHANGED <<disk, keyring>> \/ Moved(p))
    BY <1>3, Writes DEF RegionInv, SessionInv
  <2>2. \/ xdg' = xdg
        \/ /\ xdg' = conf[p] /\ conf[p].st = "good"
           /\ ~Shadowed(p \in InProject) =>
                /\ FirstConf(FALSE).st # "bad"
                /\ \A r \in Regions \ {Region(p)} :
                     conf[p].section[r] = FirstConf(FALSE).section[r]
    BY <1>3, Writes DEF RegionInv, SessionInv, ConfOthers
  <2>3. \/ hosts' = hosts
        \/ /\ hosts' = hyml[p] /\ hyml[p].st = "good" /\ ~Refused
           /\ \A r \in Regions, q \in Profiles :
                <<r, q>> # <<Region(p), Profile(p)>> => hyml[p].entry[r][q] = hosts.entry[r][q]
    BY <1>3, Writes DEF RegionInv, SessionInv, HostsOthers
  <2>4. (\A f \in {near, xdg, far} : f.st = "absent" => f = NoConf)'
    BY <2>1, <2>2 DEF RegionInv, NoConf, NoSection
  <2>5. near \in ConfFiles /\ xdg \in ConfFiles /\ far \in ConfFiles /\ hosts \in HostsFiles
    BY DEF RegionInv, SessionInv, StoreInv, TypeOK
  <2>6. ASSUME NEW r \in Regions \ {Region(p)}, NEW q \in Profiles, NEW here \in BOOLEAN,
               ~Shadowed(p \in InProject) \/ Shadowed(here)
        PROVE  Loaded(here, r, q)' = Loaded(here, r, q)
    <3>1. /\ FirstConf(here)'.section[r] = FirstConf(here).section[r]
          /\ \/ FirstConf(here)'.st = FirstConf(here).st
             \/ /\ FirstConf(here).st = "absent" /\ FirstConf(here)'.st = "good"
                /\ ~FirstConf(here).section[r].has
      <4>1. CASE xdg' = xdg
        BY <2>1, <4>1 DEF FirstConf
      <4>2. CASE xdg' # xdg /\ Shadowed(here)
        BY <2>1, <4>2 DEF FirstConf, Shadowed
      <4>3. CASE xdg' # xdg /\ ~Shadowed(here)
        <5>1. FirstConf(here) = FirstConf(FALSE) /\ FirstConf(here)' = conf[p]
          BY <2>1, <2>2, <4>3 DEF FirstConf, Shadowed
        <5>2. FirstConf(FALSE) \in {near, xdg, far}
          BY DEF FirstConf
        <5>3. FirstConf(FALSE).st \in {"absent", "good"}
          BY <2>2, <2>5, <2>6, <4>3, <5>2 DEF ConfFiles
        <5>4. FirstConf(FALSE).st = "absent" => ~FirstConf(FALSE).section[r].has
          <6>1. FirstConf(FALSE).st = "absent" => FirstConf(FALSE) = NoConf
            BY <5>2 DEF RegionInv
          <6>2. ~NoConf.section[r].has
            BY DEF NoConf, NoSection
          <6> QED BY <6>1, <6>2
        <5> QED BY <2>2, <2>6, <4>3, <5>1, <5>3, <5>4
      <4> QED BY <4>1, <4>2, <4>3
    <3>2. /\ hosts'.entry[r][q] = hosts.entry[r][q]
          /\ \/ hosts'.st = hosts.st
             \/ hosts.st = "absent" /\ hosts'.st = "good" /\ ~hosts.entry[r][q].has
      <4>1. CASE hosts' = hosts
        BY <4>1
      <4>2. CASE hosts' # hosts
        <5>1. hosts.st \in {"absent", "good"}
          BY <2>3, <2>5, <4>2 DEF HostsFiles, Refused
        <5>2. hosts.st = "absent" => ~hosts.entry[r][q].has
          BY DEF RegionInv, SessionInv, NoHosts, NoEntry
        <5> QED BY <2>3, <4>2, <5>1, <5>2
      <4> QED BY <4>1, <4>2
    <3>3. \A y \in Profiles, n \in SecretNames \cup TokenNames :
            keyring'[r][y][n] = keyring[r][y][n]
      BY <2>1 DEF KeyringOwn
    <3> QED BY <3>1, <3>2, <3>3, LoadedKept
  <2>7. ~Moved(p) => \A r \in Regions, q \in Profiles, here \in BOOLEAN :
                       Loaded(here, r, q)' = Loaded(here, r, q)
    <3>1. ~Moved(p) => /\ UNCHANGED <<hosts, keyring>>
                       /\ \A here \in BOOLEAN : FirstConf(here)' = FirstConf(here)
      BY <2>1 DEF disk, FirstConf
    <3> QED BY <3>1, LoadedKept
  <2> QED BY <2>4, <2>6, <2>7 DEF Reaches
<1>4. ASSUME NEW p \in Procs, Act(p) PROVE RegionInv'
  BY <1>1, <1>3, <1>4, ConfPrepared DEF OneProcess, RegionInv
<1> QED BY <1>2, <1>3, <1>4 DEF Next, Act

\* "Per-region isolation: auth to ovh-eu never affects ovh-us": what a load of a
\* region returns, from any directory, changes only by an operation on that region, or
\* by one that copies a nearer file over the one the load looks at.
\* (docs/specs/03-auth.md:16, ovhconf.go:57-91)
THEOREM RegionContract == ASSUME OneProcess PROVE Spec => RegionIsolation
<1>1. Init => RegionInv
  <2>1. Init => \A f \in {near, xdg, far} : f.st = "absent" => f = NoConf
    BY StoreAssumption DEF Init, StoreAssumption
  <2>2. Init => SessionInv
    BY StoreInit, StoreAssumption DEF Init, SessionInv, HostsOthers, StoreAssumption
  <2> QED BY <2>1, <2>2 DEF Init, RegionInv, ConfOthers
<1>2. RegionInv /\ [Next]_vars => RegionInv'
  BY RegionStep
<1>3. RegionInv /\ [Next]_vars =>
        [\A r \in Regions, q \in Profiles, here \in BOOLEAN :
           Loaded(here, r, q)' # Loaded(here, r, q) =>
             \E p \in Procs :
               /\ Moved(p)
               /\ Region(p) = r \/ (Shadowed(p \in InProject) /\ ~Shadowed(here))]_vars
  BY RegionStep DEF Reaches
<1> QED BY <1>1, <1>2, <1>3, PTL DEF Spec, RegionIsolation
=============================================================================
