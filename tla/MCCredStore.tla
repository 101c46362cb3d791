---------------------------- MODULE MCCredStore ----------------------------
(***************************************************************************)
(* Instances of CredStore for TLC.                                         *)
(***************************************************************************)
EXTENDS CredStore, TLC

\* Credential set n of the classic flow, and of OAuth2 with its session.
CK(n) == [NoCreds EXCEPT !.method = "consumer_key", !.application_key = n,
            !.secret = [application_secret |-> n, consumer_key |-> n, client_secret |-> 0]]
OAuth2(n) == [NoCreds EXCEPT !.method = "oauth2", !.client_id = n,
            !.secret = [application_secret |-> 0, consumer_key |-> 0, client_secret |-> n],
            !.token = [t \in TokenNames |-> n], !.expiry = n]
\* What ExchangePKCE returns: a session without a client.
PKCE(n) == [OAuth2(n) EXCEPT !.client_id = 0, !.secret = NoCreds.secret]

ThreeSets   == {CK(1), OAuth2(1), PKCE(2)}

\* OVH_* variables: a client, and half of one.
SomeEnvs == {[OAuth2(2) EXCEPT !.method = "none", !.token = NoCreds.token, !.expiry = 0],
             [NoCreds EXCEPT !.client_id = 2]}

\* A hand-written file with plaintext secrets and no auth_method.
Written(storage, r, n) ==
    [NoConf EXCEPT !.st = "good", !.storage = storage,
                   !.section[r] = [NoSection EXCEPT
                     !.has = TRUE, !.application_key = n,
                     !.secret = [application_secret |-> n, consumer_key |-> n,
                                 client_secret |-> 0]]]

Confs(n, x, f) == [near |-> n, xdg |-> x, far |-> f]
NoConfs     == {Confs(NoConf, NoConf, NoConf)}
SystemConfs == NoConfs \cup {Confs(NoConf, NoConf, Written("keyring", "eu", 1))}
NoKeyring   == [r \in Regions |-> [q \in Profiles |->
                  [n \in SecretNames \cup TokenNames |-> 0]]]

\* The user's own file does not parse; a project has a file of its own; hosts.yml
\* is readable by others, or does not parse.
LoadConfs   == SystemConfs \cup {Confs(NoConf, [NoConf EXCEPT !.st = "bad"], NoConf),
                                  Confs(Written("file", "eu", 2), NoConf, NoConf)}
AnyHosts     == {NoHosts} \cup {[NoHosts EXCEPT !.st = s] : s \in {"loose", "bad"}}

AllKinds  == [p \in Procs |-> {"load", "store", "delete"}]

\* The instance is one of those the contracts are proved for.
ASSUME ContractInstance == OneProcess /\ CompleteSets
=============================================================================
