----------------------------- MODULE CredStore -----------------------------
(***************************************************************************)
(* The credential store (internal/auth: store.go, ovhconf.go, hostsyml.go, *)
(* keyring.go).  One credential set is spread over three places: the       *)
(* section [region] of an ovh.conf, the OS keyring, and hosts.yml.  Load,  *)
(* Store and Delete read and write them one after the other; each keyring  *)
(* call, each file read and each rename is a step, because other `ovh`     *)
(* processes run in between and a process may be killed there.             *)
(*                                                                         *)
(* A secret, key, token or expiry is the number of the credential set it   *)
(* was issued with, 0 when empty; Placeholder stands for "keyring:..." in  *)
(* a file.  Each ovh.conf holds its sections only; [default].storage is    *)
(* its field `storage`.                                                    *)
(***************************************************************************)
EXTENDS Integers, Sequences

CONSTANTS
    Procs,            \* `ovh` processes
    Regions, Profiles,
    MaxSet,           \* credential sets are 1..MaxSet
    MaxOps,           \* operations per process (bounds the model)
    StoredSets,       \* the Credentials callers pass to StoreCredentials
    Envs,             \* what the OVH_* variables of a call may hold
    Kinds,            \* the operations each process performs
    InProject,        \* processes that see `near`, if it exists
    InitialConfs,     \* [near, xdg, far] files at the start
    InitialHosts,     \* hosts.yml files at the start
    InitialKeyring,
    KeyringFaults,    \* the keyring service may fail or be locked
    WriteFaults,      \* writing a file may fail
    Crashes           \* a process may be killed between two steps

Default     == "default"
Secrets     == <<"application_secret", "consumer_key", "client_secret">>
Tokens      == <<"access_token", "refresh_token">>
SecretNames == {Secrets[i] : i \in 1..3}
TokenNames  == {Tokens[i] : i \in 1..2}
Placeholder == -1
Values      == -1..MaxSet
Plain       == 0..MaxSet
Methods     == {"none", "consumer_key", "oauth2"}

\* Credentials without region and profile.
Creds == [method : Methods, application_key : Plain, client_id : Plain,
          secret : [SecretNames -> Plain], token : [TokenNames -> Plain],
          expiry : Plain]

Sections == [has : BOOLEAN, method : Methods, application_key : Plain,
             client_id : Plain, secret : [SecretNames -> Values]]
ConfFiles == [st : {"absent", "good", "bad"}, storage : {"keyring", "file"},
              section : [Regions -> Sections]]
Entries   == [has : BOOLEAN, token : [TokenNames -> Values], expiry : Plain]
HostsFiles == [st : {"absent", "good", "loose", "bad"},
               entry : [Regions -> [Profiles -> Entries]]]
Keyrings   == [Regions -> [Profiles -> [SecretNames \cup TokenNames -> Plain]]]

NoCreds   == [method |-> "none", application_key |-> 0, client_id |-> 0,
              secret |-> [s \in SecretNames |-> 0],
              token |-> [t \in TokenNames |-> 0], expiry |-> 0]
NoSection == [has |-> FALSE, method |-> "none", application_key |-> 0,
              client_id |-> 0, secret |-> [s \in SecretNames |-> 0]]
NoConf    == [st |-> "absent", storage |-> "keyring",
              section |-> [r \in Regions |-> NoSection]]
NoEntry   == [has |-> FALSE, token |-> [t \in TokenNames |-> 0], expiry |-> 0]
NoHosts   == [st |-> "absent",
              entry |-> [r \in Regions |-> [q \in Profiles |-> NoEntry]]]

ASSUME StoreAssumption ==
    /\ Default \in Profiles /\ Regions # {}
    /\ MaxSet \in Nat /\ MaxOps \in Nat
    /\ StoredSets \subseteq Creds
    /\ Envs \subseteq {c \in Creds : c.method = "none"}
    /\ Kinds \in [Procs -> SUBSET {"load", "store", "delete"}]
    /\ InProject \subseteq Procs
    /\ InitialConfs \subseteq [near : ConfFiles, xdg : ConfFiles, far : ConfFiles]
    /\ \A c \in InitialConfs : \A f \in {c.near, c.xdg, c.far} :
         f.st = "absent" => f = NoConf
    /\ InitialHosts \subseteq HostsFiles
    /\ \A h \in InitialHosts : h.st = "absent" => h = NoHosts
    /\ InitialKeyring \in Keyrings
    /\ {KeyringFaults, WriteFaults, Crashes} \subseteq BOOLEAN

VARIABLES
    near, xdg, far,    \* ./ovh.conf (or ~/.ovh.conf), the XDG one, /etc/ovh.conf
    hosts, keyring,
    pc, op, left,      \* each process: step, operation, operations left
    k, conf, hyml,     \* loop index, parsed ovh.conf, parsed hosts.yml
    creds, ret         \* credentials loaded so far, outcome of the last call

disk   == <<near, xdg, far, hosts>>
locals == <<k, conf, hyml, creds>>
vars   == <<disk, keyring, pc, op, left, locals, ret>>

Steps == {"storeConf", "storeSecrets", "storeWriteConf", "storeHosts",
          "storeTokens", "storeWriteHosts",
          "delSecrets", "delTokens", "delHosts", "delWriteHosts", "delConf",
          "delWriteConf",
          "loadConf", "loadSecrets", "loadMethod", "loadHosts", "loadTokens",
          "loadEnd"}
Ops == [kind : {"load", "store", "delete"}, region : Regions,
        profile : Profiles, creds : Creds]
Outcomes == {"none", "ok", "notconfigured", "unavailable", "unsafe", "error"}

TypeOK ==
    /\ near \in ConfFiles /\ xdg \in ConfFiles /\ far \in ConfFiles
    /\ hosts \in HostsFiles
    /\ keyring \in Keyrings
    /\ pc \in [Procs -> Steps \cup {"idle"}]
    /\ op \in [Procs -> Ops]
    /\ left \in [Procs -> 0..MaxOps]
    /\ k \in [Procs -> 1..3]
    /\ conf \in [Procs -> ConfFiles]
    /\ hyml \in [Procs -> HostsFiles]
    /\ creds \in [Procs -> Creds]
    /\ ret \in [Procs -> Outcomes]

NoOp == [kind |-> "load", region |-> CHOOSE r \in Regions : TRUE,
         profile |-> Default, creds |-> NoCreds]

Init ==
    /\ \E c \in InitialConfs : near = c.near /\ xdg = c.xdg /\ far = c.far
    /\ hosts \in InitialHosts /\ keyring = InitialKeyring
    /\ pc = [p \in Procs |-> "idle"]
    /\ op = [p \in Procs |-> NoOp]
    /\ left = [p \in Procs |-> MaxOps]
    /\ k = [p \in Procs |-> 1]
    /\ conf = [p \in Procs |-> NoConf]
    /\ hyml = [p \in Procs |-> NoHosts]
    /\ creds = [p \in Procs |-> NoCreds]
    /\ ret = [p \in Procs |-> "none"]

-----------------------------------------------------------------------------
(* Reading.                                                                *)

\* loadDefaultConf: the first ovh.conf that exists, seen from a directory that
\* has one of its own or not.
FirstConf(inProject) ==
    IF inProject /\ near.st # "absent" THEN near
    ELSE IF xdg.st # "absent" THEN xdg ELSE far

\* loadHostsYML: a file that others may access is refused, as is one that cannot
\* be looked at, read or parsed.
Refused == hosts.st \in {"loose", "bad"}
Refusal == IF hosts.st = "loose" THEN "unsafe" ELSE "error"

Method(s) ==
    IF s.method # "none" THEN s.method
    ELSE IF s.application_key # 0 \/ s.secret["consumer_key"] # 0 THEN "consumer_key"
    ELSE IF s.client_id # 0 /\ s.secret["client_secret"] # 0 THEN "oauth2"
    ELSE "none"

\* The secret a value in a file stands for.
Resolve(v, r, q, name) == IF v = Placeholder THEN keyring[r][q][name] ELSE v

\* What LoadCredentials(r, q) returns when nothing else runs: its status and
\* the credentials.
Loaded(inProject, r, q) ==
    LET f == FirstConf(inProject)
        s == f.section[r]
        h == hosts.entry[r][q]
        oauth     == Method(s) = "oauth2"
        usesHosts == oauth /\ hosts.st # "absent" /\ h.has
        noSecret  == \E n \in SecretNames :
                       s.secret[n] = Placeholder /\ keyring[r][Default][n] = 0
        noToken   == usesHosts /\ \E n \in TokenNames :
                       h.token[n] = Placeholder /\ keyring[r][q][n] = 0
        failed(st) == [status |-> st, creds |-> NoCreds]
    IN  IF f.st = "bad" THEN failed("error")
        ELSE IF f.st = "absent" \/ ~s.has \/ noSecret \/ Method(s) = "none"
        THEN failed("notconfigured")
        ELSE IF oauth /\ Refused THEN failed(Refusal)
        ELSE IF noToken THEN failed("notconfigured")
        ELSE [status |-> "ok",
              creds |->
                [method |-> Method(s),
                 application_key |-> s.application_key,
                 client_id |-> s.client_id,
                 secret |-> [n \in SecretNames |-> Resolve(s.secret[n], r, Default, n)],
                 token |-> [n \in TokenNames |->
                              IF usesHosts THEN Resolve(h.token[n], r, q, n) ELSE 0],
                 expiry |-> IF usesHosts THEN h.expiry ELSE 0]]

-----------------------------------------------------------------------------
(* Control.                                                                *)

FirstStep == [load |-> "loadConf", store |-> "storeConf", delete |-> "delSecrets"]

\* readEnv; OVH_REGION may exclude the region, as if there were no variables.
\* Half of a client's pair, or an application secret alone, does not count.
ReadEnv(e) == IF Method(e) = "none" THEN NoCreds ELSE [e EXCEPT !.method = Method(e)]

\* What a call brings: the credentials to store, those of its environment.
Brought(kind) == IF kind = "store" THEN StoredSets
                 ELSE {NoCreds} \cup IF kind = "load" THEN {ReadEnv(e) : e \in Envs} ELSE {}

\* A caller calls LoadCredentials, StoreCredentials or DeleteCredentials.
Call(p) ==
    /\ pc[p] = "idle" /\ left[p] > 0
    /\ \E kind \in Kinds[p], r \in Regions, q \in Profiles :
       \E c \in Brought(kind) :
          /\ op' = [op EXCEPT ![p] = [kind |-> kind, region |-> r, profile |-> q, creds |-> c]]
          /\ pc' = [pc EXCEPT ![p] = FirstStep[kind]]
    /\ left' = [left EXCEPT ![p] = @ - 1]
    /\ ret' = [ret EXCEPT ![p] = "none"]
    /\ UNCHANGED <<disk, keyring, locals>>

\* The call returns; its variables are gone, except what it loaded.
Return(p, r) ==
    /\ pc' = [pc EXCEPT ![p] = "idle"]
    /\ ret' = [ret EXCEPT ![p] = r]
    /\ k' = [k EXCEPT ![p] = 1]
    /\ conf' = [conf EXCEPT ![p] = NoConf]
    /\ hyml' = [hyml EXCEPT ![p] = NoHosts]
    /\ creds' = [creds EXCEPT ![p] = IF r = "ok" THEN @ ELSE NoCreds]

Goto(p, step) == pc' = [pc EXCEPT ![p] = step] /\ UNCHANGED ret

\* The loop body ran for field k: the next one, or the step after the loop.
Loop(p, fields, after) ==
    /\ k' = [k EXCEPT ![p] = IF k[p] = Len(fields) THEN 1 ELSE k[p] + 1]
    /\ pc' = [pc EXCEPT ![p] = IF k[p] = Len(fields) THEN after ELSE @]
    /\ UNCHANGED ret

\* keyring.Set and keyring.Delete on one entry.
KeyringPut(r, q, name, v) == keyring' = [keyring EXCEPT ![r][q][name] = v]

\* keyringDelete: every caller ignores its error.
KeyringForget(r, q, name) ==
    \/ KeyringPut(r, q, name, 0)
    \/ KeyringFaults /\ UNCHANGED keyring

Region(p)  == op[p].region
Profile(p) == op[p].profile

-----------------------------------------------------------------------------
(* StoreCredentials.                                                       *)

\* Mutant: Store starts from an empty file, whatever there was.
StoreConfFresh(p) ==
    /\ pc[p] = "storeConf"
    /\ LET c == op[p].creds
       IN  conf' = [conf EXCEPT ![p] =
             [NoConf EXCEPT !.st = "good",
                            !.section[Region(p)] =
                  [NoSection EXCEPT !.has = TRUE, !.method = c.method,
                                    !.application_key = c.application_key,
                                    !.client_id = c.client_id]]]
    /\ Goto(p, "storeSecrets")
    /\ UNCHANGED <<disk, keyring, op, left, k, hyml, creds>>

\* loadDefaultConf; without a file Store starts from an empty one.  applyCreds
\* first sets the method and the public fields.
StoreConf(p) ==
    /\ pc[p] = "storeConf"
    /\ LET f == FirstConf(p \in InProject)
           c == op[p].creds
       IN  IF f.st = "bad" THEN Return(p, "error")
           ELSE /\ conf' = [conf EXCEPT ![p] =
                     [f EXCEPT !.st = "good",
                               !.section[Region(p)] =
                          [has |-> TRUE, method |-> c.method,
                           application_key |-> c.application_key,
                           client_id |-> c.client_id,
                           secret |-> f.section[Region(p)].secret]]]
                /\ Goto(p, "storeSecrets")
                /\ UNCHANGED <<k, hyml, creds>>
    /\ UNCHANGED <<disk, keyring, op, left>>

\* Mutant: the entries are keyed under the profile of the call.
StoreSecretByProfile(p) ==
    /\ pc[p] = "storeSecrets"
    /\ LET name == Secrets[k[p]]
           v    == op[p].creds.secret[name]
           held == conf[p].storage = "keyring"
           put(x) == conf' = [conf EXCEPT ![p].section[Region(p)].secret[name] = x]
       IN  /\ put(IF v # 0 /\ held THEN Placeholder ELSE v)
           /\ IF v = 0 THEN KeyringForget(Region(p), Profile(p), name)
              ELSE IF held THEN KeyringPut(Region(p), Profile(p), name, v)
              ELSE UNCHANGED keyring
    /\ Loop(p, Secrets, "storeWriteConf")
    /\ UNCHANGED <<disk, op, left, hyml, creds>>

\* applyCreds, one secret field; the entries are keyed under the default
\* profile whatever the profile of the call.
StoreSecret(p) ==
    /\ pc[p] = "storeSecrets"
    /\ LET name == Secrets[k[p]]
           v    == op[p].creds.secret[name]
           held == conf[p].storage = "keyring"
           put(x) == conf' = [conf EXCEPT ![p].section[Region(p)].secret[name] = x]
       IN  /\ put(IF v # 0 /\ held THEN Placeholder ELSE v)
           /\ IF v = 0 THEN KeyringForget(Region(p), Default, name)
              ELSE IF held THEN KeyringPut(Region(p), Default, name, v)
              ELSE UNCHANGED keyring
    /\ Loop(p, Secrets, "storeWriteConf")
    /\ UNCHANGED <<disk, op, left, hyml, creds>>

\* keyringSet fails: the error is returned at once.
StoreKeyringFails(p) ==
    /\ KeyringFaults
    /\ \/ pc[p] = "storeSecrets" /\ op[p].creds.secret[Secrets[k[p]]] # 0
       \/ pc[p] = "storeTokens" /\ op[p].creds.token[Tokens[k[p]]] # 0
    /\ conf[p].storage = "keyring"
    /\ Return(p, "unavailable")
    /\ UNCHANGED <<disk, keyring, op, left>>

HasTokens(c) == \/ \E n \in TokenNames : c.token[n] # 0
                \/ c.expiry # 0

\* writeOvhConf: always the XDG file, whichever file was read.
StoreWriteConf(p) ==
    /\ pc[p] = "storeWriteConf"
    /\ xdg' = conf[p]
    /\ IF op[p].creds.method = "oauth2" /\ HasTokens(op[p].creds)
       THEN Goto(p, "storeHosts") /\ UNCHANGED locals
       ELSE Return(p, "ok")
    /\ UNCHANGED <<near, far, hosts, keyring, op, left>>

\* writeHostsCreds: load hosts.yml ...
StoreHosts(p) ==
    /\ pc[p] = "storeHosts"
    /\ IF Refused THEN Return(p, Refusal)
       ELSE /\ hyml' = [hyml EXCEPT ![p] =
                 [hosts EXCEPT !.st = "good",
                               !.entry[Region(p)][Profile(p)] =
                     [@ EXCEPT !.has = TRUE, !.expiry = op[p].creds.expiry]]]
            /\ Goto(p, "storeTokens")
            /\ UNCHANGED <<k, conf, creds>>
    /\ UNCHANGED <<disk, keyring, op, left>>

\* ... one token, keyed under the profile of the call ...
StoreToken(p) ==
    /\ pc[p] = "storeTokens"
    /\ LET name == Tokens[k[p]]
           v    == op[p].creds.token[name]
           held == conf[p].storage = "keyring"
       IN  /\ hyml' = [hyml EXCEPT ![p].entry[Region(p)][Profile(p)].token[name] =
                         IF v # 0 /\ held THEN Placeholder ELSE v]
           /\ IF v = 0 THEN KeyringForget(Region(p), Profile(p), name)
              ELSE IF held THEN KeyringPut(Region(p), Profile(p), name, v)
              ELSE UNCHANGED keyring
    /\ Loop(p, Tokens, "storeWriteHosts")
    /\ UNCHANGED <<disk, op, left, conf, creds>>

\* ... and rename.
StoreWriteHosts(p) ==
    /\ pc[p] = "storeWriteHosts"
    /\ hosts' = hyml[p]
    /\ Return(p, "ok")
    /\ UNCHANGED <<near, xdg, far, keyring, op, left>>

-----------------------------------------------------------------------------
(* DeleteCredentials.                                                      *)

\* The secrets are removed under the profile of the call.
DelSecret(p) ==
    /\ pc[p] = "delSecrets"
    /\ KeyringForget(Region(p), Profile(p), Secrets[k[p]])
    /\ Loop(p, Secrets, "delTokens")
    /\ UNCHANGED <<disk, op, left, conf, hyml, creds>>

DelToken(p) ==
    /\ pc[p] = "delTokens"
    /\ KeyringForget(Region(p), Profile(p), Tokens[k[p]])
    /\ Loop(p, Tokens, "delHosts")
    /\ UNCHANGED <<disk, op, left, conf, hyml, creds>>

\* Mutant: the region's other sessions go too.
DelHostsRegion(p) ==
    /\ pc[p] = "delHosts"
    /\ IF Refused THEN Return(p, Refusal)
       ELSE IF hosts.st = "absent" \/ \A q \in Profiles : ~hosts.entry[Region(p)][q].has
       THEN Goto(p, "delConf") /\ UNCHANGED locals
       ELSE /\ hyml' = [hyml EXCEPT ![p] =
                 [hosts EXCEPT !.entry[Region(p)] = [q \in Profiles |-> NoEntry]]]
            /\ Goto(p, "delWriteHosts")
            /\ UNCHANGED <<k, conf, creds>>
    /\ UNCHANGED <<disk, keyring, op, left>>
\* deleteHostsCreds: a missing file or region needs no write.
DelHosts(p) ==
    /\ pc[p] = "delHosts"
    /\ IF Refused THEN Return(p, Refusal)
       ELSE IF hosts.st = "absent" \/ \A q \in Profiles : ~hosts.entry[Region(p)][q].has
       THEN Goto(p, "delConf") /\ UNCHANGED locals
       ELSE /\ hyml' = [hyml EXCEPT ![p] =
                 [hosts EXCEPT !.entry[Region(p)][Profile(p)] = NoEntry]]
            /\ Goto(p, "delWriteHosts")
            /\ UNCHANGED <<k, conf, creds>>
    /\ UNCHANGED <<disk, keyring, op, left>>

DelWriteHosts(p) ==
    /\ pc[p] = "delWriteHosts"
    /\ hosts' = hyml[p]
    /\ Goto(p, "delConf")
    /\ UNCHANGED <<near, xdg, far, keyring, op, left, locals>>

\* Mutant: the section is looked for in the XDG file, where it is removed.
DelConfXdg(p) ==
    /\ pc[p] = "delConf"
    /\ IF xdg.st = "bad" THEN Return(p, "error")
       ELSE IF xdg.st = "absent" \/ ~xdg.section[Region(p)].has THEN Return(p, "ok")
       ELSE /\ conf' = [conf EXCEPT ![p] = [xdg EXCEPT !.section[Region(p)] = NoSection]]
            /\ Goto(p, "delWriteConf")
            /\ UNCHANGED <<k, hyml, creds>>
    /\ UNCHANGED <<disk, keyring, op, left>>

\* The whole section goes, whatever the profile.
DelConf(p) ==
    /\ pc[p] = "delConf"
    /\ LET f == FirstConf(p \in InProject)
       IN  IF f.st = "bad" THEN Return(p, "error")
           ELSE IF f.st = "absent" \/ ~f.section[Region(p)].has THEN Return(p, "ok")
           ELSE /\ conf' = [conf EXCEPT ![p] = [f EXCEPT !.section[Region(p)] = NoSection]]
                /\ Goto(p, "delWriteConf")
                /\ UNCHANGED <<k, hyml, creds>>
    /\ UNCHANGED <<disk, keyring, op, left>>

DelWriteConf(p) ==
    /\ pc[p] = "delWriteConf"
    /\ xdg' = conf[p]
    /\ Return(p, "ok")
    /\ UNCHANGED <<near, far, hosts, keyring, op, left>>

-----------------------------------------------------------------------------
(* LoadCredentials.                                                        *)

\* The environment comes first.
LoadEnv(p) ==
    /\ pc[p] = "loadConf" /\ op[p].creds # NoCreds
    /\ creds' = [creds EXCEPT ![p] = op[p].creds]
    /\ pc' = [pc EXCEPT ![p] = "idle"] /\ ret' = [ret EXCEPT ![p] = "ok"]
    /\ UNCHANGED <<disk, keyring, op, left, k, conf, hyml>>

LoadConf(p) ==
    /\ pc[p] = "loadConf" /\ op[p].creds = NoCreds
    /\ LET f == FirstConf(p \in InProject)
           s == f.section[Region(p)]
       IN  IF f.st = "bad" THEN Return(p, "error")
           ELSE IF f.st = "absent" \/ ~s.has THEN Return(p, "notconfigured")
           ELSE /\ conf' = [conf EXCEPT ![p] = f]
                /\ creds' = [creds EXCEPT ![p] =
                     [NoCreds EXCEPT !.application_key = s.application_key,
                                     !.client_id = s.client_id]]
                /\ Goto(p, "loadSecrets")
                /\ UNCHANGED <<k, hyml>>
    /\ UNCHANGED <<disk, keyring, op, left>>

\* Mutant: what the file holds is taken for the secret.
LoadSecretRaw(p) ==
    /\ pc[p] = "loadSecrets"
    /\ LET name == Secrets[k[p]]
       IN  creds' = [creds EXCEPT ![p].secret[name] =
                       conf[p].section[Region(p)].secret[name]]
    /\ Loop(p, Secrets, "loadMethod")
    /\ UNCHANGED <<disk, keyring, op, left, conf, hyml>>

\* One secret field of readCredsFromConf.
LoadSecret(p) ==
    /\ pc[p] = "loadSecrets"
    /\ LET name == Secrets[k[p]]
           held == conf[p].section[Region(p)].secret[name]
           v    == Resolve(held, Region(p), Default, name)
       IN  IF held = Placeholder /\ v = 0 THEN Return(p, "notconfigured")
           ELSE /\ creds' = [creds EXCEPT ![p].secret[name] = v]
                /\ Loop(p, Secrets, "loadMethod")
                /\ UNCHANGED <<conf, hyml>>
    /\ UNCHANGED <<disk, keyring, op, left>>

\* Method detection at the end of readCredsFromConf; only OAuth2 goes on to
\* hosts.yml.
LoadMethod(p) ==
    /\ pc[p] = "loadMethod"
    /\ LET m == Method(conf[p].section[Region(p)])
       IN  /\ creds' = [creds EXCEPT ![p] =
                          IF m = "none" THEN NoCreds ELSE [@ EXCEPT !.method = m]]
           /\ k' = k /\ hyml' = hyml
           /\ IF m = "oauth2" THEN Goto(p, "loadHosts") /\ UNCHANGED conf
              ELSE /\ pc' = [pc EXCEPT ![p] = "idle"]
                   /\ ret' = [ret EXCEPT ![p] = IF m = "none" THEN "notconfigured" ELSE "ok"]
                   /\ conf' = [conf EXCEPT ![p] = NoConf]
    /\ UNCHANGED <<disk, keyring, op, left>>

\* readHostsCreds: load hosts.yml ...
LoadHosts(p) ==
    /\ pc[p] = "loadHosts"
    /\ LET h == hosts.entry[Region(p)][Profile(p)]
       IN  IF Refused THEN Return(p, Refusal)
           ELSE IF hosts.st = "absent" \/ ~h.has THEN Return(p, "ok")
           ELSE /\ hyml' = [hyml EXCEPT ![p] = hosts]
                /\ creds' = [creds EXCEPT ![p].expiry = h.expiry]
                /\ Goto(p, "loadTokens")
                /\ UNCHANGED <<k, conf>>
    /\ UNCHANGED <<disk, keyring, op, left>>

\* Mutants: tokens are resolved under the default profile, as secrets are; the
\* file is read again for each token.
LoadTokenDefault(p) ==
    /\ pc[p] = "loadTokens"
    /\ LET name == Tokens[k[p]]
           held == hyml[p].entry[Region(p)][Profile(p)].token[name]
           v    == Resolve(held, Region(p), Default, name)
       IN  IF held = Placeholder /\ v = 0 THEN Return(p, "notconfigured")
           ELSE /\ creds' = [creds EXCEPT ![p].token[name] = v]
                /\ Loop(p, Tokens, "loadEnd")
                /\ UNCHANGED <<conf, hyml>>
    /\ UNCHANGED <<disk, keyring, op, left>>

LoadTokenReread(p) ==
    /\ pc[p] = "loadTokens"
    /\ LET name == Tokens[k[p]]
           v    == Resolve(hosts.entry[Region(p)][Profile(p)].token[name],
                           Region(p), Profile(p), name)
       IN  /\ creds' = [creds EXCEPT ![p].token[name] = v]
           /\ Loop(p, Tokens, "loadEnd")
    /\ UNCHANGED <<disk, keyring, op, left, conf, hyml>>

\* ... and resolve one token; after the last one Load returns.
LoadToken(p) ==
    /\ pc[p] = "loadTokens"
    /\ LET name == Tokens[k[p]]
           held == hyml[p].entry[Region(p)][Profile(p)].token[name]
           v    == Resolve(held, Region(p), Profile(p), name)
       IN  IF held = Placeholder /\ v = 0 THEN Return(p, "notconfigured")
           ELSE /\ creds' = [creds EXCEPT ![p].token[name] = v]
                /\ Loop(p, Tokens, "loadEnd")
                /\ UNCHANGED <<conf, hyml>>
    /\ UNCHANGED <<disk, keyring, op, left>>

LoadEnd(p) ==
    /\ pc[p] = "loadEnd"
    /\ Return(p, "ok")
    /\ UNCHANGED <<disk, keyring, op, left>>

\* keyringGet fails for another reason than a missing entry.
LoadKeyringFails(p) ==
    /\ KeyringFaults
    /\ \/ /\ pc[p] = "loadSecrets"
          /\ conf[p].section[Region(p)].secret[Secrets[k[p]]] = Placeholder
       \/ /\ pc[p] = "loadTokens"
          /\ hyml[p].entry[Region(p)][Profile(p)].token[Tokens[k[p]]] = Placeholder
    /\ Return(p, "unavailable")
    /\ UNCHANGED <<disk, keyring, op, left>>

-----------------------------------------------------------------------------
\* A rename or the mkdir before it fails.
WriteFails(p) ==
    /\ WriteFaults
    /\ pc[p] \in {"storeWriteConf", "storeWriteHosts", "delWriteHosts", "delWriteConf"}
    /\ Return(p, "error")
    /\ UNCHANGED <<disk, keyring, op, left>>

\* The process is killed.
Crash(p) ==
    /\ Crashes /\ pc[p] # "idle"
    /\ Return(p, "none")
    /\ UNCHANGED <<disk, keyring, op, left>>

Store(p) == \/ StoreConf(p) \/ StoreSecret(p) \/ StoreKeyringFails(p) \/ StoreWriteConf(p)
            \/ StoreHosts(p) \/ StoreToken(p) \/ StoreWriteHosts(p)
Delete(p) == DelSecret(p) \/ DelToken(p) \/ DelHosts(p) \/ DelWriteHosts(p)
             \/ DelConf(p) \/ DelWriteConf(p)
Load(p) == LoadEnv(p) \/ LoadConf(p) \/ LoadSecret(p) \/ LoadMethod(p) \/ LoadHosts(p)
           \/ LoadToken(p) \/ LoadEnd(p) \/ LoadKeyringFails(p)

Next == \E p \in Procs :
          Call(p) \/ Store(p) \/ Delete(p) \/ Load(p) \/ WriteFails(p) \/ Crash(p)

Spec == Init /\ [][Next]_vars

-----------------------------------------------------------------------------
(* Properties.                                                             *)

\* Nothing else runs at the same time; no call sees a nearer file; callers store
\* the session with an OAuth2 client, and none with other keys.
OneProcess == \A p, q \in Procs : p = q
OutsideProjects == InProject = {}
CompleteSets ==
    \A c \in StoredSets : \/ c.method = "consumer_key" /\ ~HasTokens(c)
                          \/ c.method = "oauth2" /\ HasTokens(c)

\* A call that sees `near` reads that file, and writes the XDG one all the same.
Shadowed(here) == here /\ near.st # "absent"

Moved(p) == <<pc[p], k[p]>>' # <<pc[p], k[p]>>

Acked(p, kind) ==
    op[p].kind = kind /\ pc[p] # "idle" /\ pc'[p] = "idle" /\ ret'[p] = "ok"

\* What a store acknowledged is what a load returns: "nil error => ...
\* LoadCredentials(ctx, region, profile) returns the same Credentials"
\* (docs/specs/03-auth.md:164-165), whatever earlier calls left behind, and
\* also when they failed or were killed half-way.  A load that sees a nearer file
\* does not see what was stored; every other one does, wherever the store ran.
StoreRoundTrip ==
    [][\A p \in Procs, here \in BOOLEAN : Acked(p, "store") /\ ~Shadowed(here) =>
         Loaded(here, Region(p), Profile(p))'
           = [status |-> "ok", creds |-> op[p].creds]]_vars

\* After an acknowledged delete the region is not configured ("nil error =>
\* LoadCredentials ... returns ErrNotConfigured", docs/specs/03-auth.md:182),
\* also when the section came from /etc/ovh.conf, when another profile or region
\* remains, or when an earlier call was killed half-way.  Only a delete that sees a
\* nearer file may forget nothing.  (store.go:152-177)
DeleteForgets ==
    [][\A p \in Procs, here \in BOOLEAN :
         Acked(p, "delete") /\ ~Shadowed(p \in InProject) /\ ~Shadowed(here) =>
           Loaded(here, Region(p), Profile(p))'.status = "notconfigured"]_vars

\* "Per-region isolation: auth to ovh-eu never affects ovh-us"
\* (docs/specs/03-auth.md:16): what a load of a region returns, from any
\* directory, changes only by a step of an operation on that region, or of one
\* that copies a nearer file over the XDG one; a load that sees the nearer file
\* itself is not affected even then.
RegionIsolation ==
    [][\A r \in Regions, q \in Profiles, here \in BOOLEAN :
         Loaded(here, r, q)' # Loaded(here, r, q) =>
           \E p \in Procs :
             /\ Moved(p)
             /\ Region(p) = r \/ (Shadowed(p \in InProject) /\ ~Shadowed(here))]_vars

Session(r, q) == <<hosts.entry[r][q], [n \in TokenNames |-> keyring[r][q][n]]>>

\* The OAuth2 session of a profile changes only by an operation on that region
\* and profile, through failures and kills: the two files and the keyring are
\* keyed alike.  (hostsyml.go:116-187)
SessionIsolation ==
    [][\A r \in Regions, q \in Profiles :
         Session(r, q)' # Session(r, q) =>
           \E p \in Procs : Moved(p) /\ Region(p) = r /\ Profile(p) = q]_vars

\* A load that nothing overlaps agrees with the environment, or with one look at
\* the three places, for success and for each kind of failure, unless it is
\* killed or the keyring is locked or fails.  (store.go:12-87, ovhconf.go:93-148,
\* hostsyml.go:81-111)
LoadIsSnapshot ==
    [][\A p \in Procs :
         /\ op[p].kind = "load"
         /\ pc[p] # "idle" /\ pc'[p] = "idle" /\ ret'[p] \notin {"none", "unavailable"}
         => [status |-> ret'[p], creds |-> creds'[p]] =
              IF op[p].creds # NoCreds THEN [status |-> "ok", creds |-> op[p].creds]
              ELSE Loaded(p \in InProject, Region(p), Profile(p))]_vars
=============================================================================
