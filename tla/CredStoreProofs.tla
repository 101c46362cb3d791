-------------------------- MODULE CredStoreProofs --------------------------
(***************************************************************************)
(* Theorems about CredStore, for any regions, profiles, credential sets,   *)
(* initial files and faults.                                               *)
(***************************************************************************)
EXTENDS CredStore, TLAPS

-----------------------------------------------------------------------------
(* The data: names, files and what an update of one field makes of them.   *)

LEMMA Names ==
    /\ SecretNames = {"application_secret", "consumer_key", "client_secret"}
    /\ TokenNames = {"access_token", "refresh_token"}
    /\ SecretNames \cap TokenNames = {}
    /\ Len(Secrets) = 3 /\ Len(Tokens) = 2
    /\ \A i \in 1..3 : Secrets[i] \in SecretNames
    /\ \A i \in 1..2 : Tokens[i] \in TokenNames
    /\ \A n \in SecretNames : \E i \in 1..3 : n = Secrets[i]
    /\ \A n \in TokenNames : \E i \in 1..2 : n = Tokens[i]
    /\ \A i, j \in 1..3 : Secrets[i] = Secrets[j] => i = j
    /\ \A i, j \in 1..2 : Tokens[i] = Tokens[j] => i = j
<1>1. /\ Len(Secrets) = 3 /\ Len(Tokens) = 2
      /\ Secrets[1] = "application_secret" /\ Secrets[2] = "consumer_key"
      /\ Secrets[3] = "client_secret"
      /\ Tokens[1] = "access_token" /\ Tokens[2] = "refresh_token"
  BY DEF Secrets, Tokens
<1>2. 1..3 = {1, 2, 3} /\ 1..2 = {1, 2}
  OBVIOUS
<1>3. /\ SecretNames = {"application_secret", "consumer_key", "client_secret"}
      /\ TokenNames = {"access_token", "refresh_token"}
  BY <1>1, <1>2 DEF SecretNames, TokenNames
<1> QED BY <1>1, <1>2, <1>3

\* Nothing stored has the type of something stored.
LEMMA Empty ==
    /\ Plain \subseteq Values /\ 0 \in Plain /\ Placeholder \in Values
    /\ NoCreds \in Creds /\ NoSection \in Sections /\ NoEntry \in Entries
    /\ NoConf \in ConfFiles /\ NoHosts \in HostsFiles
<1>1. Plain \subseteq Values /\ 0 \in Plain /\ Placeholder \in Values
  BY StoreAssumption DEF StoreAssumption, Plain, Values, Placeholder
<1>2. NoCreds \in Creds
  BY <1>1 DEF NoCreds, Creds, Methods
<1>3. NoSection \in Sections /\ NoEntry \in Entries
  BY <1>1 DEF NoSection, Sections, NoEntry, Entries, Methods
<1>4. NoConf \in ConfFiles
  BY <1>3 DEF NoConf, ConfFiles
<1>5. NoHosts \in HostsFiles
  BY <1>3 DEF NoHosts, HostsFiles
<1> QED BY <1>1, <1>2, <1>3, <1>4, <1>5

LEMMA ConfSection ==
    ASSUME NEW f \in ConfFiles, NEW r \in Regions, NEW s \in Sections
    PROVE  /\ [f EXCEPT !.section[r] = s] \in ConfFiles
           /\ [f EXCEPT !.st = "good", !.section[r] = s] \in ConfFiles
BY DEF ConfFiles

LEMMA ConfSecret ==
    ASSUME NEW f \in ConfFiles, NEW r \in Regions, NEW n \in SecretNames, NEW v \in Values
    PROVE  [f EXCEPT !.section[r].secret[n] = v] \in ConfFiles
<1>1. [f.section[r] EXCEPT !.secret[n] = v] \in Sections
  BY DEF ConfFiles, Sections
<1>2. [f EXCEPT !.section[r].secret[n] = v]
        = [f EXCEPT !.section[r] = [f.section[r] EXCEPT !.secret[n] = v]]
  BY DEF ConfFiles, Sections
<1> QED BY <1>1, <1>2, ConfSection

LEMMA HostsEntry ==
    ASSUME NEW h \in HostsFiles, NEW r \in Regions, NEW q \in Profiles, NEW e \in Entries
    PROVE  /\ [h EXCEPT !.entry[r][q] = e] \in HostsFiles
           /\ [h EXCEPT !.st = "good", !.entry[r][q] = e] \in HostsFiles
BY DEF HostsFiles

LEMMA HostsToken ==
    ASSUME NEW h \in HostsFiles, NEW r \in Regions, NEW q \in Profiles,
           NEW n \in TokenNames, NEW v \in Values
    PROVE  [h EXCEPT !.entry[r][q].token[n] = v] \in HostsFiles
<1>1. h.entry[r][q] \in Entries
  BY DEF HostsFiles
<1>2. \A e \in Entries : [e EXCEPT !.token[n] = v] \in Entries
  BY DEF Entries
<1>3. [h EXCEPT !.entry[r][q].token[n] = v]
        = [h EXCEPT !.entry[r][q] = [h.entry[r][q] EXCEPT !.token[n] = v]]
  OBVIOUS
<1> QED BY <1>1, <1>2, <1>3, HostsEntry

LEMMA MethodType == ASSUME NEW s, s.method \in Methods PROVE Method(s) \in Methods
BY DEF Method, Methods

\* The secret behind a value is a number, and so is the placeholder of none.
LEMMA ResolveType ==
    ASSUME keyring \in Keyrings, NEW v \in Values, NEW r \in Regions, NEW q \in Profiles,
           NEW n \in SecretNames \cup TokenNames
    PROVE  Resolve(v, r, q, n) \in Plain
<1>1. keyring[r][q][n] \in Plain
  BY DEF Keyrings
<1>2. v # Placeholder => v \in Plain
  BY StoreAssumption DEF StoreAssumption, Values, Plain, Placeholder
<1> QED BY <1>1, <1>2 DEF Resolve

LEMMA BroughtType == ASSUME NEW kind, NEW c \in Brought(kind) PROVE c \in Creds
<1>1. \A e \in Envs : ReadEnv(e) \in Creds
  <2> SUFFICES ASSUME NEW e \in Envs PROVE ReadEnv(e) \in Creds
    OBVIOUS
  <2>1. e \in Creds /\ e.method \in Methods
    BY StoreAssumption DEF StoreAssumption, Creds
  <2>2. Method(e) \in Methods
    BY <2>1, MethodType
  <2> QED BY <2>1, <2>2, Empty DEF ReadEnv, Creds
<1> QED BY <1>1, Empty, StoreAssumption DEF Brought, StoreAssumption

LEMMA FirstConfType ==
    ASSUME TypeOK, NEW here PROVE FirstConf(here) \in {near, xdg, far}
BY DEF FirstConf

-----------------------------------------------------------------------------
(***************************************************************************)
(* Types.  They are not inductive: that the index of a loop stays below    *)
(* its bound depends on where each loop starts, so Indices adds that only a *)
(* process inside a loop has an index past the first.                      *)
(***************************************************************************)
SecretLoops == {"storeSecrets", "delSecrets", "loadSecrets"}
TokenLoops  == {"storeTokens", "delTokens", "loadTokens"}

Index(p) == /\ pc[p] \notin SecretLoops \cup TokenLoops => k[p] = 1
            /\ pc[p] \in TokenLoops => k[p] \in 1..2

StoreInv == TypeOK /\ \A p \in Procs : Index(p)

LEMMA ReturnInv ==
    ASSUME StoreInv, NEW p \in Procs, NEW r \in Outcomes, Return(p, r),
           op' \in [Procs -> Ops], left' \in [Procs -> 0..MaxOps],
           near' \in ConfFiles, xdg' \in ConfFiles, far' \in ConfFiles,
           hosts' \in HostsFiles, keyring' \in Keyrings
    PROVE  StoreInv'
<1>1. /\ pc' \in [Procs -> Steps \cup {"idle"}] /\ k' \in [Procs -> 1..3]
      /\ conf' \in [Procs -> ConfFiles] /\ hyml' \in [Procs -> HostsFiles]
      /\ creds' \in [Procs -> Creds] /\ ret' \in [Procs -> Outcomes]
  BY Empty DEF Return, StoreInv, TypeOK
<1>2. \A q \in Procs : Index(q)'
  BY DEF Return, StoreInv, TypeOK, Index, SecretLoops, TokenLoops
<1> QED BY <1>1, <1>2 DEF StoreInv, TypeOK

\* From one step to the next, with the index left at the start of a loop.
LEMMA GotoInv ==
    ASSUME StoreInv, NEW p \in Procs, NEW step \in Steps, Goto(p, step),
           pc[p] \notin SecretLoops \cup TokenLoops, UNCHANGED <<op, left, k>>,
           near' \in ConfFiles, xdg' \in ConfFiles, far' \in ConfFiles,
           hosts' \in HostsFiles, keyring' \in Keyrings,
           conf' \in [Procs -> ConfFiles], hyml' \in [Procs -> HostsFiles],
           creds' \in [Procs -> Creds]
    PROVE  StoreInv'
<1>1. TypeOK'
  BY DEF Goto, StoreInv, TypeOK
<1>2. \A q \in Procs : Index(q)'
  BY DEF Goto, StoreInv, TypeOK, Index
<1> QED BY <1>1, <1>2 DEF StoreInv

\* Around a loop, and out of it with the index back at its start.
LEMMA LoopInv ==
    ASSUME StoreInv, NEW p \in Procs, NEW fields, NEW after \in Steps, Loop(p, fields, after),
           \/ pc[p] \in SecretLoops /\ Len(fields) = 3
           \/ pc[p] \in TokenLoops /\ Len(fields) = 2,
           UNCHANGED <<disk, op, left>>, keyring' \in Keyrings,
           conf' \in [Procs -> ConfFiles], hyml' \in [Procs -> HostsFiles],
           creds' \in [Procs -> Creds]
    PROVE  StoreInv'
<1>1. PICK n \in {2, 3} : /\ Len(fields) = n /\ k[p] \in 1..n
                          /\ pc[p] \in TokenLoops => n = 2
  <2>1. SecretLoops \cap TokenLoops = {}
    BY DEF SecretLoops, TokenLoops
  <2> QED BY <2>1 DEF StoreInv, TypeOK, Index
<1>2. k' = [k EXCEPT ![p] = IF k[p] = n THEN 1 ELSE k[p] + 1]
  BY <1>1 DEF Loop
<1>3. (IF k[p] = n THEN 1 ELSE k[p] + 1) \in 1..n /\ 1..n \subseteq 1..3
  BY <1>1
<1>4. k' \in [Procs -> 1..3] /\ k'[p] \in 1..n /\ (k[p] = n => k'[p] = 1)
  BY <1>2, <1>3 DEF StoreInv, TypeOK
<1>5. /\ pc' \in [Procs -> Steps \cup {"idle"}] /\ ret' = ret
      /\ pc'[p] = IF k[p] = n THEN after ELSE pc[p]
  BY <1>1 DEF Loop, StoreInv, TypeOK
<1>6. TypeOK'
  BY <1>4, <1>5 DEF StoreInv, TypeOK, disk
<1>7. \A q \in Procs : q # p => k'[q] = k[q] /\ pc'[q] = pc[q]
  BY DEF Loop, StoreInv, TypeOK
<1>8. Index(p)'
  BY <1>1, <1>4, <1>5 DEF Index
<1> QED BY <1>6, <1>7, <1>8 DEF StoreInv, Index

\* An entry of the keyring is written, deleted or kept.
LEMMA KeyringInv ==
    ASSUME keyring \in Keyrings, NEW r \in Regions, NEW q \in Profiles,
           NEW n \in SecretNames \cup TokenNames, NEW v \in Plain,
           KeyringPut(r, q, n, v) \/ KeyringForget(r, q, n) \/ UNCHANGED keyring
    PROVE  keyring' \in Keyrings
<1>1. \A x \in Plain : [keyring EXCEPT ![r][q][n] = x] \in Keyrings
  BY DEF Keyrings
<1> QED BY <1>1, Empty DEF KeyringPut, KeyringForget

\* What a process works on has its type.
LEMMA ProcType ==
    ASSUME StoreInv, NEW p \in Procs
    PROVE  /\ Region(p) \in Regions /\ Profile(p) \in Profiles /\ op[p].creds \in Creds
           /\ op[p].creds.method \in Methods
           /\ op[p].creds.application_key \in Plain /\ op[p].creds.client_id \in Plain
           /\ op[p].creds.expiry \in Plain
           /\ \A n \in SecretNames : op[p].creds.secret[n] \in Plain
           /\ \A n \in TokenNames : op[p].creds.token[n] \in Plain
           /\ conf[p] \in ConfFiles /\ hyml[p] \in HostsFiles /\ creds[p] \in Creds
           /\ near \in ConfFiles /\ xdg \in ConfFiles /\ far \in ConfFiles
           /\ hosts \in HostsFiles /\ keyring \in Keyrings
           /\ op \in [Procs -> Ops] /\ left \in [Procs -> 0..MaxOps]
           /\ conf \in [Procs -> ConfFiles] /\ hyml \in [Procs -> HostsFiles]
           /\ creds \in [Procs -> Creds]
           /\ FirstConf(p \in InProject) \in ConfFiles
<1>1. op[p] \in Ops
  BY DEF StoreInv, TypeOK
<1>2. op[p].creds \in Creds /\ Region(p) \in Regions /\ Profile(p) \in Profiles
  BY <1>1 DEF Ops, Region, Profile
<1>3. FirstConf(p \in InProject) \in ConfFiles
  BY FirstConfType DEF StoreInv, TypeOK
<1> QED BY <1>2, <1>3 DEF Creds, StoreInv, TypeOK

LEMMA SectionType ==
    ASSUME NEW f \in ConfFiles, NEW r \in Regions
    PROVE  /\ f.section[r] \in Sections
           /\ f.section[r].method \in Methods
           /\ f.section[r].application_key \in Plain /\ f.section[r].client_id \in Plain
           /\ f.section[r].secret \in [SecretNames -> Values]
           /\ \A n \in SecretNames : f.section[r].secret[n] \in Values
<1>1. f.section[r] \in Sections
  BY DEF ConfFiles
<1> QED BY <1>1 DEF Sections

LEMMA EntryType ==
    ASSUME NEW h \in HostsFiles, NEW r \in Regions, NEW q \in Profiles
    PROVE  /\ h.entry[r][q] \in Entries /\ h.entry[r][q].expiry \in Plain
           /\ \A n \in TokenNames : h.entry[r][q].token[n] \in Values
<1>1. h.entry[r][q] \in Entries
  BY DEF HostsFiles
<1> QED BY <1>1 DEF Entries

\* What a refused hosts.yml makes a call return.
LEMMA RefusalType == Refusal \in Outcomes
BY DEF Refusal, Outcomes

LEMMA StoreKeeps == ASSUME StoreInv, NEW p \in Procs, Store(p) PROVE StoreInv'
<1> USE ProcType
<1>1. CASE StoreConf(p)
  <2> DEFINE f == FirstConf(p \in InProject)
             s == [has |-> TRUE, method |-> op[p].creds.method,
                   application_key |-> op[p].creds.application_key,
                   client_id |-> op[p].creds.client_id,
                   secret |-> f.section[Region(p)].secret]
  <2>1. CASE f.st = "bad"
    <3>1. Return(p, "error") /\ UNCHANGED <<disk, keyring, op, left>>
      BY <1>1, <2>1 DEF StoreConf
    <3> QED BY <3>1, ReturnInv DEF disk, Outcomes
  <2>2. CASE f.st # "bad"
    <3>1. s \in Sections
      BY SectionType DEF Sections
    <3>2. [f EXCEPT !.st = "good", !.section[Region(p)] = s] \in ConfFiles
      BY <3>1, ConfSection
    <3>3. /\ conf' = [conf EXCEPT ![p] = [f EXCEPT !.st = "good", !.section[Region(p)] = s]]
          /\ Goto(p, "storeSecrets")
          /\ UNCHANGED <<k, hyml, creds, disk, keyring, op, left>>
      BY <1>1, <2>2 DEF StoreConf
    <3>4. conf' \in [Procs -> ConfFiles]
      BY <3>2, <3>3
    <3>5. pc[p] \notin SecretLoops \cup TokenLoops
      BY <1>1 DEF StoreConf, SecretLoops, TokenLoops
    <3> HIDE DEF s, f
    <3> QED BY <3>3, <3>4, <3>5, GotoInv DEF disk, Steps
  <2> QED BY <2>1, <2>2
<1>2. CASE StoreSecret(p)
  <2> DEFINE name == Secrets[k[p]]
             v == op[p].creds.secret[name]
  <2>1. name \in SecretNames
    BY Names DEF StoreInv, TypeOK
  <2>2. v \in Plain
    BY <2>1
  <2>3. PICK x \in {v, Placeholder} : conf' = [conf EXCEPT ![p].section[Region(p)].secret[name] = x]
    BY <1>2 DEF StoreSecret
  <2>4. x \in Values
    BY <2>2, <2>3, Empty
  <2>5. [conf[p] EXCEPT !.section[Region(p)].secret[name] = x] \in ConfFiles
    BY <2>1, <2>4, ConfSecret
  <2>6. conf' \in [Procs -> ConfFiles]
    BY <2>3, <2>5
  <2>7. keyring' \in Keyrings
    <3>1. \/ KeyringForget(Region(p), Default, name)
          \/ KeyringPut(Region(p), Default, name, v)
          \/ UNCHANGED keyring
      BY <1>2 DEF StoreSecret
    <3> QED BY <2>1, <2>2, <3>1, KeyringInv, Empty, StoreAssumption DEF StoreAssumption
  <2>8. /\ Loop(p, Secrets, "storeWriteConf") /\ pc[p] \in SecretLoops
        /\ UNCHANGED <<disk, op, left, hyml, creds>>
    BY <1>2 DEF StoreSecret, SecretLoops
  <2> HIDE DEF name, v
  <2> QED BY <2>6, <2>7, <2>8, LoopInv, Names DEF Steps
<1>3. CASE StoreKeyringFails(p)
  BY <1>3, ReturnInv DEF StoreKeyringFails, disk, Outcomes
<1>4. CASE StoreWriteConf(p)
  <2>1. /\ xdg' \in ConfFiles /\ pc[p] \notin SecretLoops \cup TokenLoops
        /\ UNCHANGED <<near, far, hosts, keyring, op, left>>
    BY <1>4 DEF StoreWriteConf, SecretLoops, TokenLoops
  <2>2. \/ Goto(p, "storeHosts") /\ UNCHANGED locals
        \/ Return(p, "ok")
    BY <1>4 DEF StoreWriteConf
  <2> QED BY <2>1, <2>2, GotoInv, ReturnInv DEF locals, Steps, Outcomes
<1>5. CASE StoreHosts(p)
  <2>1. CASE Refused
    BY <1>5, <2>1, ReturnInv, RefusalType DEF StoreHosts, disk
  <2>2. CASE ~Refused
    <3> DEFINE e == hosts.entry[Region(p)][Profile(p)]
               f == [e EXCEPT !.has = TRUE, !.expiry = op[p].creds.expiry]
    <3>1. f \in Entries
      <4>1. e \in Entries /\ op[p].creds.expiry \in Plain
        BY EntryType
      <4> HIDE DEF e
      <4> QED BY <4>1 DEF Entries
    <3>2. [hosts EXCEPT !.st = "good", !.entry[Region(p)][Profile(p)] = f] \in HostsFiles
      BY <3>1, HostsEntry
    <3>3. /\ hyml' = [hyml EXCEPT ![p] =
                [hosts EXCEPT !.st = "good", !.entry[Region(p)][Profile(p)] = f]]
          /\ Goto(p, "storeTokens") /\ pc[p] \notin SecretLoops \cup TokenLoops
          /\ UNCHANGED <<k, conf, creds, disk, keyring, op, left>>
      BY <1>5, <2>2 DEF StoreHosts, SecretLoops, TokenLoops
    <3>4. hyml' \in [Procs -> HostsFiles]
      BY <3>2, <3>3
    <3> HIDE DEF e, f
    <3> QED BY <3>3, <3>4, GotoInv DEF disk, Steps
  <2> QED BY <2>1, <2>2
<1>6. CASE StoreToken(p)
  <2> DEFINE name == Tokens[k[p]]
             v == op[p].creds.token[name]
  <2>1. pc[p] \in TokenLoops /\ name \in TokenNames
    BY <1>6, Names DEF StoreToken, TokenLoops, StoreInv, Index
  <2>2. v \in Plain
    BY <2>1, SMTT(40)
  <2>3. PICK x \in {v, Placeholder} :
          hyml' = [hyml EXCEPT ![p].entry[Region(p)][Profile(p)].token[name] = x]
    BY <1>6 DEF StoreToken
  <2>4. x \in Values
    BY <2>2, <2>3, Empty
  <2>5. [hyml[p] EXCEPT !.entry[Region(p)][Profile(p)].token[name] = x] \in HostsFiles
    BY <2>1, <2>4, HostsToken
  <2>6. hyml' \in [Procs -> HostsFiles]
    BY <2>3, <2>5
  <2>7. keyring' \in Keyrings
    <3>1. \/ KeyringForget(Region(p), Profile(p), name)
          \/ KeyringPut(Region(p), Profile(p), name, v)
          \/ UNCHANGED keyring
      BY <1>6 DEF StoreToken
    <3> QED BY <2>1, <2>2, <3>1, KeyringInv, Empty
  <2>8. /\ Loop(p, Tokens, "storeWriteHosts")
        /\ UNCHANGED <<disk, op, left, conf, creds>>
    BY <1>6 DEF StoreToken
  <2> HIDE DEF name, v
  <2> QED BY <2>1, <2>6, <2>7, <2>8, LoopInv, Names DEF Steps
<1>7. CASE StoreWriteHosts(p)
  BY <1>7, ReturnInv DEF StoreWriteHosts, Outcomes
<1> QED BY <1>1, <1>2, <1>3, <1>4, <1>5, <1>6, <1>7 DEF Store

LEMMA DeleteKeeps == ASSUME StoreInv, NEW p \in Procs, Delete(p) PROVE StoreInv'
<1> USE ProcType
<1>1. CASE DelSecret(p)
  <2>1. Secrets[k[p]] \in SecretNames
    BY Names DEF StoreInv, TypeOK
  <2>2. keyring' \in Keyrings
    BY <1>1, <2>1, KeyringInv, Empty DEF DelSecret
  <2> QED BY <1>1, <2>2, LoopInv, Names DEF DelSecret, SecretLoops, Steps
<1>2. CASE DelToken(p)
  <2>1. pc[p] \in TokenLoops /\ Tokens[k[p]] \in TokenNames
    BY <1>2, Names DEF DelToken, TokenLoops, StoreInv, Index
  <2>2. keyring' \in Keyrings
    BY <1>2, <2>1, KeyringInv, Empty DEF DelToken
  <2> QED BY <1>2, <2>1, <2>2, LoopInv, Names DEF DelToken, Steps
<1>3. CASE DelHosts(p)
  <2>1. pc[p] \notin SecretLoops \cup TokenLoops
    BY <1>3 DEF DelHosts, SecretLoops, TokenLoops
  <2>2. [hosts EXCEPT !.entry[Region(p)][Profile(p)] = NoEntry] \in HostsFiles
    BY HostsEntry, Empty
  <2>3. \/ Return(p, Refusal)
        \/ Goto(p, "delConf") /\ UNCHANGED locals
        \/ /\ hyml' = [hyml EXCEPT ![p] =
                 [hosts EXCEPT !.entry[Region(p)][Profile(p)] = NoEntry]]
           /\ Goto(p, "delWriteHosts") /\ UNCHANGED <<k, conf, creds>>
    BY <1>3 DEF DelHosts
  <2>4. UNCHANGED <<disk, keyring, op, left>>
    BY <1>3 DEF DelHosts
  <2>5. CASE Return(p, Refusal)
    BY <2>4, <2>5, ReturnInv, RefusalType DEF disk
  <2>6. CASE ~Return(p, Refusal)
    <3>1. hyml' \in [Procs -> HostsFiles] /\ UNCHANGED <<k, conf, creds>>
      BY <2>2, <2>3, <2>6 DEF locals
    <3> QED BY <2>1, <2>3, <2>4, <2>6, <3>1, GotoInv DEF disk, Steps
  <2> QED BY <2>5, <2>6
<1>4. CASE DelWriteHosts(p)
  BY <1>4, GotoInv DEF DelWriteHosts, locals, Steps, SecretLoops, TokenLoops
<1>5. CASE DelConf(p)
  <2> DEFINE f == FirstConf(p \in InProject)
  <2>1. pc[p] \notin SecretLoops \cup TokenLoops /\ UNCHANGED <<disk, keyring, op, left>>
    BY <1>5 DEF DelConf, SecretLoops, TokenLoops
  <2>2. [f EXCEPT !.section[Region(p)] = NoSection] \in ConfFiles
    BY ConfSection, Empty
  <2>3. \/ Return(p, "error") \/ Return(p, "ok")
        \/ /\ conf' = [conf EXCEPT ![p] = [f EXCEPT !.section[Region(p)] = NoSection]]
           /\ Goto(p, "delWriteConf") /\ UNCHANGED <<k, hyml, creds>>
    BY <1>5 DEF DelConf
  <2>4. CASE Return(p, "error") \/ Return(p, "ok")
    BY <2>1, <2>4, ReturnInv, RefusalType DEF disk, Outcomes
  <2>5. CASE ~(Return(p, "error") \/ Return(p, "ok"))
    <3>1. conf' \in [Procs -> ConfFiles]
      BY <2>2, <2>3, <2>5
    <3> HIDE DEF f
    <3> QED BY <2>1, <2>3, <2>5, <3>1, GotoInv DEF disk, Steps
  <2> QED BY <2>4, <2>5
<1>6. CASE DelWriteConf(p)
  BY <1>6, ReturnInv DEF DelWriteConf, Outcomes
<1> QED BY <1>1, <1>2, <1>3, <1>4, <1>5, <1>6 DEF Delete

LEMMA LoadKeeps == ASSUME StoreInv, NEW p \in Procs, Load(p) PROVE StoreInv'
<1> USE ProcType
<1>1. CASE LoadEnv(p)
  <2>1. /\ pc' = [pc EXCEPT ![p] = "idle"] /\ ret' = [ret EXCEPT ![p] = "ok"]
        /\ creds' = [creds EXCEPT ![p] = op[p].creds] /\ pc[p] = "loadConf"
        /\ UNCHANGED <<disk, keyring, op, left, k, conf, hyml>>
    BY <1>1 DEF LoadEnv
  <2>2. TypeOK'
    BY <2>1 DEF StoreInv, TypeOK, Outcomes, disk
  <2>3. \A q \in Procs : Index(q)'
    BY <2>1 DEF StoreInv, TypeOK, Index, SecretLoops, TokenLoops
  <2> QED BY <2>2, <2>3 DEF StoreInv
<1>2. CASE LoadConf(p)
  <2> DEFINE f == FirstConf(p \in InProject)
             s == f.section[Region(p)]
             c == [NoCreds EXCEPT !.application_key = s.application_key,
                                  !.client_id = s.client_id]
  <2>1. pc[p] \notin SecretLoops \cup TokenLoops /\ UNCHANGED <<disk, keyring, op, left>>
    BY <1>2 DEF LoadConf, SecretLoops, TokenLoops
  <2>2. f \in ConfFiles /\ c \in Creds
    BY SectionType, Empty DEF Creds
  <2>3. \/ Return(p, "error") \/ Return(p, "notconfigured")
        \/ /\ conf' = [conf EXCEPT ![p] = f] /\ creds' = [creds EXCEPT ![p] = c]
           /\ Goto(p, "loadSecrets") /\ UNCHANGED <<k, hyml>>
    BY <1>2 DEF LoadConf
  <2>4. CASE Return(p, "error") \/ Return(p, "notconfigured")
    BY <2>1, <2>4, ReturnInv, RefusalType DEF disk, Outcomes
  <2>5. CASE ~(Return(p, "error") \/ Return(p, "notconfigured"))
    <3> HIDE DEF f, c
    <3>1. conf' \in [Procs -> ConfFiles] /\ creds' \in [Procs -> Creds]
      BY <2>2, <2>3, <2>5
    <3> QED BY <2>1, <2>3, <2>5, <3>1, GotoInv DEF disk, Steps
  <2> QED BY <2>4, <2>5
<1>3. CASE LoadSecret(p)
  <2> DEFINE name == Secrets[k[p]]
             held == conf[p].section[Region(p)].secret[name]
             v == Resolve(held, Region(p), Default, name)
  <2>1. pc[p] \in SecretLoops /\ UNCHANGED <<disk, keyring, op, left>>
    BY <1>3 DEF LoadSecret, SecretLoops
  <2>2. name \in SecretNames
    BY Names DEF StoreInv, TypeOK
  <2>3. held \in Values
    BY <2>2, SectionType
  <2>4. v \in Plain
    BY <2>2, <2>3, ResolveType, StoreAssumption DEF StoreAssumption
  <2>5. \/ Return(p, "notconfigured")
        \/ /\ creds' = [creds EXCEPT ![p].secret[name] = v]
           /\ Loop(p, Secrets, "loadMethod") /\ UNCHANGED <<conf, hyml>>
    BY <1>3 DEF LoadSecret
  <2> HIDE DEF name, held, v
  <2>6. [creds EXCEPT ![p].secret[name] = v] \in [Procs -> Creds]
    BY <2>2, <2>4 DEF Creds
  <2>7. CASE Return(p, "notconfigured")
    BY <2>1, <2>7, ReturnInv DEF disk, Outcomes
  <2>8. CASE ~Return(p, "notconfigured")
    <3>1. Loop(p, Secrets, "loadMethod") /\ creds' \in [Procs -> Creds]
          /\ conf' \in [Procs -> ConfFiles] /\ hyml' \in [Procs -> HostsFiles]
      BY <2>5, <2>6, <2>8
    <3>2. keyring' \in Keyrings /\ Len(Secrets) = 3 /\ "loadMethod" \in Steps
      BY <2>1, Names DEF Steps
    <3> QED BY <2>1, <3>1, <3>2, LoopInv
  <2> QED BY <2>7, <2>8
<1>4. CASE LoadMethod(p)
  <2> DEFINE mm == Method(conf[p].section[Region(p)])
             c == IF mm = "none" THEN NoCreds ELSE [creds[p] EXCEPT !.method = mm]
  <2>1. /\ pc[p] = "loadMethod" /\ UNCHANGED <<disk, keyring, op, left, k, hyml>>
        /\ creds' = [creds EXCEPT ![p] = c]
    BY <1>4 DEF LoadMethod
  <2>2. mm \in Methods
    BY SectionType, MethodType
  <2>3. c \in Creds
    BY <2>2, Empty DEF Creds
  <2>4. \/ Goto(p, "loadHosts") /\ UNCHANGED conf
        \/ \E r \in Outcomes : /\ pc' = [pc EXCEPT ![p] = "idle"]
                               /\ ret' = [ret EXCEPT ![p] = r]
                               /\ conf' = [conf EXCEPT ![p] = NoConf]
    BY <1>4 DEF LoadMethod, Outcomes
  <2> HIDE DEF mm, c
  <2>5. creds' \in [Procs -> Creds] /\ conf' \in [Procs -> ConfFiles]
    BY <2>1, <2>3, <2>4, Empty
  <2>6. CASE Goto(p, "loadHosts")
    BY <2>1, <2>5, <2>6, GotoInv DEF disk, Steps, SecretLoops, TokenLoops
  <2>7. CASE ~Goto(p, "loadHosts")
    <3>1. PICK r \in Outcomes : pc' = [pc EXCEPT ![p] = "idle"] /\ ret' = [ret EXCEPT ![p] = r]
      BY <2>4, <2>7
    <3>2. TypeOK'
      BY <2>1, <2>5, <3>1 DEF StoreInv, TypeOK, disk
    <3>3. \A q \in Procs : Index(q)'
      BY <2>1, <3>1 DEF StoreInv, TypeOK, Index, SecretLoops, TokenLoops
    <3> QED BY <3>2, <3>3 DEF StoreInv
  <2> QED BY <2>6, <2>7
<1>5. CASE LoadHosts(p)
  <2> DEFINE h == hosts.entry[Region(p)][Profile(p)]
  <2>1. pc[p] \notin SecretLoops \cup TokenLoops /\ UNCHANGED <<disk, keyring, op, left>>
    BY <1>5 DEF LoadHosts, SecretLoops, TokenLoops
  <2>2. h.expiry \in Plain
    BY EntryType
  <2>3. \/ Return(p, Refusal) \/ Return(p, "ok")
        \/ /\ hyml' = [hyml EXCEPT ![p] = hosts]
           /\ creds' = [creds EXCEPT ![p].expiry = h.expiry]
           /\ Goto(p, "loadTokens") /\ UNCHANGED <<k, conf>>
    BY <1>5 DEF LoadHosts
  <2>4. CASE Return(p, Refusal) \/ Return(p, "ok")
    BY <2>1, <2>4, ReturnInv, RefusalType DEF disk, Outcomes
  <2>5. CASE ~(Return(p, Refusal) \/ Return(p, "ok"))
    <3> HIDE DEF h
    <3>1. [creds EXCEPT ![p].expiry = h.expiry] \in [Procs -> Creds]
      BY <2>2 DEF Creds
    <3>2. hyml' \in [Procs -> HostsFiles]
      BY <2>3, <2>5
    <3> QED BY <2>1, <2>3, <2>5, <3>1, <3>2, GotoInv DEF disk, Steps
  <2> QED BY <2>4, <2>5
<1>6. CASE LoadToken(p)
  <2> DEFINE name == Tokens[k[p]]
             held == hyml[p].entry[Region(p)][Profile(p)].token[name]
             v == Resolve(held, Region(p), Profile(p), name)
  <2>1. pc[p] \in TokenLoops /\ UNCHANGED <<disk, keyring, op, left>>
    BY <1>6 DEF LoadToken, TokenLoops
  <2>2. name \in TokenNames
    BY <2>1, Names DEF StoreInv, Index
  <2>3. held \in Values
    BY <2>2, EntryType
  <2>4. v \in Plain
    BY <2>2, <2>3, ResolveType
  <2>5. \/ Return(p, "notconfigured")
        \/ /\ creds' = [creds EXCEPT ![p].token[name] = v]
           /\ Loop(p, Tokens, "loadEnd") /\ UNCHANGED <<conf, hyml>>
    BY <1>6 DEF LoadToken
  <2> HIDE DEF name, held, v
  <2>6. [creds EXCEPT ![p].token[name] = v] \in [Procs -> Creds]
    BY <2>2, <2>4 DEF Creds
  <2>7. CASE Return(p, "notconfigured")
    BY <2>1, <2>7, ReturnInv DEF disk, Outcomes
  <2>8. CASE ~Return(p, "notconfigured")
    <3>1. Loop(p, Tokens, "loadEnd") /\ creds' \in [Procs -> Creds]
          /\ conf' \in [Procs -> ConfFiles] /\ hyml' \in [Procs -> HostsFiles]
      BY <2>5, <2>6, <2>8
    <3>2. keyring' \in Keyrings /\ Len(Tokens) = 2 /\ "loadEnd" \in Steps
      BY <2>1, Names DEF Steps
    <3> QED BY <2>1, <3>1, <3>2, LoopInv
  <2> QED BY <2>7, <2>8
<1>7. CASE LoadEnd(p) \/ LoadKeyringFails(p)
  BY <1>7, ReturnInv DEF LoadEnd, LoadKeyringFails, disk, Outcomes
<1> QED BY <1>1, <1>2, <1>3, <1>4, <1>5, <1>6, <1>7 DEF Load

LEMMA CallKeeps == ASSUME StoreInv, NEW p \in Procs, Call(p) PROVE StoreInv'
<1>1. PICK kind \in Kinds[p], r \in Regions, q \in Profiles : \E c \in Brought(kind) :
        /\ op' = [op EXCEPT ![p] = [kind |-> kind, region |-> r, profile |-> q, creds |-> c]]
        /\ pc' = [pc EXCEPT ![p] = FirstStep[kind]]
  BY DEF Call
<1>2. PICK c \in Brought(kind) :
        /\ op' = [op EXCEPT ![p] = [kind |-> kind, region |-> r, profile |-> q, creds |-> c]]
        /\ pc' = [pc EXCEPT ![p] = FirstStep[kind]]
  BY <1>1
<1>3. kind \in {"load", "store", "delete"}
  BY StoreAssumption DEF StoreAssumption
<1>4. c \in Creds
  BY BroughtType
<1>5. op' \in [Procs -> Ops]
  BY <1>2, <1>3, <1>4 DEF Ops, StoreInv, TypeOK
<1>6. pc' \in [Procs -> Steps \cup {"idle"}]
  BY <1>2, <1>3 DEF FirstStep, Steps, StoreInv, TypeOK
<1>7. left' \in [Procs -> 0..MaxOps] /\ ret' \in [Procs -> Outcomes]
  BY StoreAssumption DEF Call, StoreInv, TypeOK, Outcomes, StoreAssumption
<1>8. TypeOK' /\ k' = k /\ k[p] = 1
  BY <1>5, <1>6, <1>7 DEF Call, StoreInv, TypeOK, Index, SecretLoops, TokenLoops, disk, locals
<1>9. \A x \in Procs : Index(x)'
  BY <1>2, <1>8 DEF StoreInv, TypeOK, Index
<1> QED BY <1>8, <1>9 DEF StoreInv

LEMMA StopKeeps ==
    ASSUME StoreInv, NEW p \in Procs, WriteFails(p) \/ Crash(p)
    PROVE  StoreInv'
BY ProcType, ReturnInv DEF WriteFails, Crash, disk, Outcomes

LEMMA StoreInit == ASSUME Init PROVE StoreInv
<1>1. near \in ConfFiles /\ xdg \in ConfFiles /\ far \in ConfFiles
  BY StoreAssumption DEF Init, StoreAssumption
<1>2. hosts \in HostsFiles /\ keyring \in Keyrings
  BY StoreAssumption DEF Init, StoreAssumption
<1>3. NoOp \in Ops
  <2>1. (CHOOSE r \in Regions : TRUE) \in Regions
    BY StoreAssumption DEF StoreAssumption
  <2> QED BY <2>1, Empty, StoreAssumption DEF NoOp, Ops, StoreAssumption
<1>4. TypeOK
  BY <1>1, <1>2, <1>3, Empty, StoreAssumption DEF Init, TypeOK, Outcomes, StoreAssumption
<1>5. \A p \in Procs : Index(p)
  BY DEF Init, Index, SecretLoops, TokenLoops
<1> QED BY <1>4, <1>5 DEF StoreInv

LEMMA StoreNext == ASSUME StoreInv, [Next]_vars PROVE StoreInv'
<1>1. CASE UNCHANGED vars
  BY <1>1 DEF StoreInv, TypeOK, Index, vars, disk, locals
<1> QED BY <1>1, StoreKeeps, DeleteKeeps, LoadKeeps, CallKeeps, StopKeeps DEF Next

\* The files, the keyring, the loops and the credentials in hand keep their
\* types: a placeholder is resolved before it reaches a caller, and no loop runs
\* past its last field.  (ovhconf.go:93-148, hostsyml.go:81-161)
THEOREM StoreTypeCorrect == Spec => []TypeOK
<1>1. StoreInv => TypeOK
  BY DEF StoreInv
<1> QED BY <1>1, StoreInit, StoreNext, PTL DEF Spec

-----------------------------------------------------------------------------
(* Where each step leads, and what it leaves of the other processes.       *)

StorePcs == {"storeConf", "storeSecrets", "storeWriteConf", "storeHosts",
             "storeTokens", "storeWriteHosts"}
DeletePcs == {"delSecrets", "delTokens", "delHosts", "delWriteHosts", "delConf",
              "delWriteConf"}
LoadPcs == {"loadConf", "loadSecrets", "loadMethod", "loadHosts", "loadTokens", "loadEnd"}

LEMMA CallMoves ==
    ASSUME StoreInv, NEW p \in Procs, Call(p)
    PROVE  /\ pc[p] = "idle" /\ op'[p].kind \in {"load", "store", "delete"}
           /\ pc'[p] = FirstStep[op'[p].kind]
           /\ pc'[p] \in {"loadConf", "storeConf", "delSecrets"}
           /\ op'[p].creds \in Brought(op'[p].kind)
           /\ UNCHANGED <<disk, keyring, locals>>
<1>1. PICK kind \in Kinds[p] : \E r \in Regions, q \in Profiles : \E c \in Brought(kind) :
        /\ op' = [op EXCEPT ![p] = [kind |-> kind, region |-> r, profile |-> q, creds |-> c]]
        /\ pc' = [pc EXCEPT ![p] = FirstStep[kind]]
  BY DEF Call
<1>2. kind \in {"load", "store", "delete"}
  BY StoreAssumption DEF StoreAssumption
<1>3. pc'[p] = FirstStep[kind] /\ op'[p].kind = kind /\ op'[p].creds \in Brought(kind)
  BY <1>1 DEF StoreInv, TypeOK
<1> QED BY <1>2, <1>3 DEF Call, FirstStep

LEMMA StoreMoves ==
    ASSUME StoreInv, NEW p \in Procs, Store(p)
    PROVE  pc[p] \in StorePcs /\ pc'[p] \in StorePcs \cup {"idle"}
BY DEF Store, StoreConf, StoreSecret, StoreKeyringFails, StoreWriteConf, StoreHosts,
   StoreToken, StoreWriteHosts, Return, Goto, Loop, StorePcs, StoreInv, TypeOK

LEMMA DeleteMoves ==
    ASSUME StoreInv, NEW p \in Procs, Delete(p)
    PROVE  pc[p] \in DeletePcs /\ pc'[p] \in DeletePcs \cup {"idle"}
BY DEF Delete, DelSecret, DelToken, DelHosts, DelWriteHosts, DelConf, DelWriteConf,
   Return, Goto, Loop, DeletePcs, StoreInv, TypeOK

LEMMA LoadMoves ==
    ASSUME StoreInv, NEW p \in Procs, Load(p)
    PROVE  /\ pc[p] \in LoadPcs /\ pc'[p] \in LoadPcs \cup {"idle"}
           /\ UNCHANGED <<disk, keyring>>
<1>1. CASE LoadEnv(p) \/ LoadConf(p) \/ LoadHosts(p) \/ LoadEnd(p)
  BY <1>1 DEF LoadEnv, LoadConf, LoadHosts, LoadEnd, Return, Goto, LoadPcs, StoreInv, TypeOK
<1>2. CASE LoadSecret(p) \/ LoadToken(p)
  BY <1>2 DEF LoadSecret, LoadToken, Return, Loop, LoadPcs, StoreInv, TypeOK
<1>3. CASE LoadMethod(p) \/ LoadKeyringFails(p)
  BY <1>3 DEF LoadMethod, LoadKeyringFails, Return, Goto, LoadPcs, StoreInv, TypeOK
<1> QED BY <1>1, <1>2, <1>3 DEF Load

\* Reads and updates of one process leave the variables of the others alone.
LEMMA OthersKept ==
    ASSUME StoreInv, NEW p \in Procs, NEW q \in Procs, q # p,
           Call(p) \/ Store(p) \/ Delete(p) \/ Load(p) \/ WriteFails(p) \/ Crash(p)
    PROVE  /\ pc'[q] = pc[q] /\ op'[q] = op[q] /\ k'[q] = k[q]
           /\ conf'[q] = conf[q] /\ hyml'[q] = hyml[q]
           /\ creds'[q] = creds[q] /\ ret'[q] = ret[q]
<1> USE DEF StoreInv, TypeOK
<1>1. CASE Call(p) \/ WriteFails(p) \/ Crash(p)
  BY <1>1 DEF Call, WriteFails, Crash, Return, locals
<1>2. CASE Store(p)
  <2>1. CASE StoreConf(p) \/ StoreHosts(p)
    BY <2>1 DEF StoreConf, StoreHosts, Return, Goto
  <2>2. CASE StoreSecret(p) \/ StoreToken(p)
    BY <2>2 DEF StoreSecret, StoreToken, Loop
  <2>3. CASE StoreKeyringFails(p) \/ StoreWriteConf(p) \/ StoreWriteHosts(p)
    BY <2>3 DEF StoreKeyringFails, StoreWriteConf, StoreWriteHosts, Return, Goto, locals
  <2> QED BY <1>2, <2>1, <2>2, <2>3 DEF Store
<1>3. CASE Delete(p)
  BY <1>3 DEF Delete, DelSecret, DelToken, DelHosts, DelWriteHosts, DelConf, DelWriteConf,
     Return, Goto, Loop, locals
<1>4. CASE Load(p)
  <2>1. CASE LoadEnv(p) \/ LoadConf(p) \/ LoadHosts(p) \/ LoadEnd(p)
    BY <2>1 DEF LoadEnv, LoadConf, LoadHosts, LoadEnd, Return, Goto
  <2>2. CASE LoadSecret(p) \/ LoadToken(p)
    BY <2>2 DEF LoadSecret, LoadToken, Return, Loop
  <2>3. CASE LoadMethod(p) \/ LoadKeyringFails(p)
    BY <2>3 DEF LoadMethod, LoadKeyringFails, Return, Goto
  <2> QED BY <1>4, <2>1, <2>2, <2>3 DEF Load
<1> QED BY <1>1, <1>2, <1>3, <1>4

\* Only a call sets the operation.
LEMMA OpKept ==
    ASSUME NEW p \in Procs, Store(p) \/ Delete(p) \/ Load(p) \/ WriteFails(p) \/ Crash(p)
    PROVE  op' = op
BY DEF Store, StoreConf, StoreSecret, StoreKeyringFails, StoreWriteConf, StoreHosts,
   StoreToken, StoreWriteHosts, Delete, DelSecret, DelToken, DelHosts, DelWriteHosts,
   DelConf, DelWriteConf, Load, LoadEnv, LoadConf, LoadSecret, LoadMethod, LoadHosts,
   LoadToken, LoadEnd, LoadKeyringFails, WriteFails, Crash

-----------------------------------------------------------------------------
(* What an update of one field or entry sets, and what it leaves.          *)

SecretSet(f, r, n, v)   == [f EXCEPT !.section[r].secret[n] = v]
TokenSet(h, r, q, n, v) == [h EXCEPT !.entry[r][q].token[n] = v]

LEMMA ConfSecretIs ==
    ASSUME NEW f \in ConfFiles, NEW r \in Regions, NEW n \in SecretNames, NEW v
    PROVE  LET g == SecretSet(f, r, n, v)
           IN  /\ g.st = f.st /\ g.storage = f.storage
               /\ g.section[r].secret[n] = v
               /\ \A m \in SecretNames \ {n} : g.section[r].secret[m] = f.section[r].secret[m]
               /\ g.section[r].has = f.section[r].has
               /\ g.section[r].method = f.section[r].method
               /\ g.section[r].application_key = f.section[r].application_key
               /\ g.section[r].client_id = f.section[r].client_id
               /\ \A x \in Regions \ {r} : g.section[x] = f.section[x]
<1>1. f.section[r] \in Sections /\ f.section \in [Regions -> Sections]
  BY DEF ConfFiles
<1>2. f.section[r].secret \in [SecretNames -> Values]
  BY <1>1 DEF Sections
<1> DEFINE s == [f.section[r] EXCEPT !.secret[n] = v]
           g == SecretSet(f, r, n, v)
<1>3. /\ s.secret[n] = v
      /\ \A m \in SecretNames \ {n} : s.secret[m] = f.section[r].secret[m]
      /\ s.has = f.section[r].has /\ s.method = f.section[r].method
      /\ s.application_key = f.section[r].application_key
      /\ s.client_id = f.section[r].client_id
  BY <1>1, <1>2 DEF Sections
<1>4. /\ g.st = f.st /\ g.storage = f.storage /\ g.section[r] = s
      /\ \A x \in Regions \ {r} : g.section[x] = f.section[x]
  BY <1>1 DEF ConfFiles, SecretSet
<1> HIDE DEF s
<1> QED BY <1>3, <1>4

LEMMA HostsTokenIs ==
    ASSUME NEW h \in HostsFiles, NEW r \in Regions, NEW q \in Profiles,
           NEW n \in TokenNames, NEW v
    PROVE  LET g == TokenSet(h, r, q, n, v)
           IN  /\ g.st = h.st /\ g.entry[r][q].token[n] = v
               /\ \A m \in TokenNames \ {n} : g.entry[r][q].token[m] = h.entry[r][q].token[m]
               /\ g.entry[r][q].has = h.entry[r][q].has
               /\ g.entry[r][q].expiry = h.entry[r][q].expiry
               /\ \A x \in Regions, y \in Profiles :
                    <<x, y>> # <<r, q>> => g.entry[x][y] = h.entry[x][y]
<1>1. h.entry[r][q] \in Entries /\ h.entry \in [Regions -> [Profiles -> Entries]]
  BY DEF HostsFiles
<1>2. h.entry[r][q].token \in [TokenNames -> Values]
  BY <1>1 DEF Entries
<1> DEFINE e == [h.entry[r][q] EXCEPT !.token[n] = v]
           g == TokenSet(h, r, q, n, v)
<1>3. /\ e.token[n] = v
      /\ \A m \in TokenNames \ {n} : e.token[m] = h.entry[r][q].token[m]
      /\ e.has = h.entry[r][q].has /\ e.expiry = h.entry[r][q].expiry
  BY <1>1, <1>2 DEF Entries
<1>4. /\ g.st = h.st /\ g.entry[r][q] = e
      /\ \A x \in Regions, y \in Profiles :
           <<x, y>> # <<r, q>> => g.entry[x][y] = h.entry[x][y]
  BY <1>1 DEF HostsFiles, TokenSet
<1> HIDE DEF e
<1> QED BY <1>3, <1>4

LEMMA KeyringIs ==
    ASSUME keyring \in Keyrings, NEW r \in Regions, NEW q \in Profiles,
           NEW n \in SecretNames \cup TokenNames, NEW v
    PROVE  /\ KeyringPut(r, q, n, v) => keyring'[r][q][n] = v
           /\ KeyringPut(r, q, n, v) \/ KeyringForget(r, q, n) \/ UNCHANGED keyring =>
                \A x \in Regions, y \in Profiles, m \in SecretNames \cup TokenNames :
                  <<x, y, m>> # <<r, q, n>> => keyring'[x][y][m] = keyring[x][y][m]
<1> DEFINE Put(w) == [keyring EXCEPT ![r][q][n] = w]
<1>1. \A w : /\ Put(w)[r][q][n] = w
             /\ \A x \in Regions, y \in Profiles, m \in SecretNames \cup TokenNames :
                  <<x, y, m>> # <<r, q, n>> => Put(w)[x][y][m] = keyring[x][y][m]
  BY DEF Keyrings
<1>2. KeyringPut(r, q, n, v) => keyring' = Put(v)
  BY DEF KeyringPut
<1>3. KeyringForget(r, q, n) => keyring' = Put(0) \/ UNCHANGED keyring
  BY DEF KeyringForget, KeyringPut
<1> HIDE DEF Put
<1> QED BY <1>1, <1>2, <1>3

-----------------------------------------------------------------------------
\* A step of the system is one of a process or none.
Act(p) == Call(p) \/ Store(p) \/ Delete(p) \/ Load(p) \/ WriteFails(p) \/ Crash(p)

\* What a step writes: a rename of what was prepared, entries of the keyring of
\* its own region, and of its own profile when they are tokens.
KeyringOwn(p) ==
    \A r \in Regions, q \in Profiles, n \in SecretNames \cup TokenNames :
      keyring'[r][q][n] # keyring[r][q][n] =>
        r = Region(p) /\ (n \in TokenNames => q = Profile(p))

LEMMA KeyringWrites ==
    ASSUME StoreInv, NEW p \in Procs,
           StoreSecret(p) \/ StoreToken(p) \/ DelSecret(p) \/ DelToken(p)
    PROVE  KeyringOwn(p) /\ Moved(p) /\ UNCHANGED disk /\ op' = op
<1>1. /\ Region(p) \in Regions /\ Profile(p) \in Profiles /\ Default \in Profiles
      /\ keyring \in Keyrings
  BY ProcType, StoreAssumption DEF StoreAssumption
<1>2. k[p] \in 1..3 /\ Secrets[k[p]] \in SecretNames /\ Secrets[k[p]] \notin TokenNames
  BY Names DEF StoreInv, TypeOK
<1>3. ASSUME NEW fields, NEW after, Loop(p, fields, after), pc[p] # after
      PROVE  Moved(p)
  BY <1>2, <1>3 DEF Loop, Moved, StoreInv, TypeOK
<1>4. CASE StoreSecret(p)
  <2>1. \/ KeyringForget(Region(p), Default, Secrets[k[p]])
        \/ KeyringPut(Region(p), Default, Secrets[k[p]], op[p].creds.secret[Secrets[k[p]]])
        \/ UNCHANGED keyring
    BY <1>4 DEF StoreSecret
  <2>2. KeyringOwn(p)
    BY <1>1, <1>2, <2>1, KeyringIs DEF KeyringOwn
  <2> QED BY <1>3, <1>4, <2>2 DEF StoreSecret
<1>5. CASE DelSecret(p)
  <2>1. KeyringOwn(p)
    BY <1>1, <1>2, <1>5, KeyringIs DEF DelSecret, KeyringOwn
  <2> QED BY <1>3, <1>5, <2>1 DEF DelSecret
<1>6. CASE StoreToken(p)
  <2>1. Tokens[k[p]] \in TokenNames
    BY <1>6, Names DEF StoreToken, StoreInv, Index, TokenLoops
  <2>2. \/ KeyringForget(Region(p), Profile(p), Tokens[k[p]])
        \/ KeyringPut(Region(p), Profile(p), Tokens[k[p]], op[p].creds.token[Tokens[k[p]]])
        \/ UNCHANGED keyring
    BY <1>6 DEF StoreToken
  <2>3. KeyringOwn(p)
    BY <1>1, <2>1, <2>2, KeyringIs DEF KeyringOwn
  <2> QED BY <1>3, <1>6, <2>3 DEF StoreToken
<1>7. CASE DelToken(p)
  <2>1. Tokens[k[p]] \in TokenNames
    BY <1>7, Names DEF DelToken, StoreInv, Index, TokenLoops
  <2>2. KeyringOwn(p)
    BY <1>1, <1>7, <2>1, KeyringIs DEF DelToken, KeyringOwn
  <2> QED BY <1>3, <1>7, <2>2 DEF DelToken
<1> QED BY <1>4, <1>5, <1>6, <1>7

LEMMA Writes ==
    ASSUME StoreInv, NEW p \in Procs, Act(p)
    PROVE  /\ near' = near /\ far' = far /\ KeyringOwn(p)
           /\ UNCHANGED <<disk, keyring>> \/ (Moved(p) /\ op' = op)
           /\ \/ xdg' = xdg
              \/ xdg' = conf[p] /\ pc[p] \in {"storeWriteConf", "delWriteConf"}
           /\ \/ hosts' = hosts
              \/ hosts' = hyml[p] /\ pc[p] \in {"storeWriteHosts", "delWriteHosts"}
<1>1. CASE UNCHANGED <<disk, keyring>>
  BY <1>1 DEF disk, KeyringOwn
<1>2. CASE StoreSecret(p) \/ StoreToken(p) \/ DelSecret(p) \/ DelToken(p)
  BY <1>2, KeyringWrites DEF disk
<1>3. CASE StoreWriteConf(p) \/ StoreWriteHosts(p) \/ DelWriteHosts(p) \/ DelWriteConf(p)
  <2>1. keyring' = keyring /\ op' = op /\ pc'[p] # pc[p]
    BY <1>3 DEF StoreWriteConf, StoreWriteHosts, DelWriteHosts, DelWriteConf, Return, Goto,
       StoreInv, TypeOK
  <2> QED BY <1>3, <2>1 DEF StoreWriteConf, StoreWriteHosts, DelWriteHosts, DelWriteConf,
          KeyringOwn, Moved
<1>4. UNCHANGED <<disk, keyring>> \/ StoreSecret(p) \/ StoreToken(p) \/ DelSecret(p) \/ DelToken(p)
      \/ StoreWriteConf(p) \/ StoreWriteHosts(p) \/ DelWriteHosts(p) \/ DelWriteConf(p)
  <2>1. Call(p) \/ Load(p) \/ WriteFails(p) \/ Crash(p) => UNCHANGED <<disk, keyring>>
    BY LoadMoves DEF Call, WriteFails, Crash
  <2>2. StoreConf(p) \/ StoreKeyringFails(p) \/ StoreHosts(p) \/ DelHosts(p) \/ DelConf(p)
          => UNCHANGED <<disk, keyring>>
    BY DEF StoreConf, StoreKeyringFails, StoreHosts, DelHosts, DelConf
  <2> QED BY <2>1, <2>2 DEF Act, Store, Delete
<1> QED BY <1>1, <1>2, <1>3, <1>4
=============================================================================
