--------------------------- MODULE MCOAuthRefresh ---------------------------
(***************************************************************************)
(* Instances of OAuthRefresh for TLC.                                      *)
(***************************************************************************)
EXTENDS OAuthRefresh, TLC

\* Two goroutines of one process, with one of another.
TwoProcesses == "a" :> "P" @@ "b" :> "P" @@ "c" :> "Q"
SharedProcess == "a" :> "P" @@ "b" :> "P"

SameKey   == [p \in Procs |-> {<<"eu", "default">>}]
EachTheir == "a" :> {<<"eu", "default">>} @@ "b" :> {<<"eu", "work">>}

\* "c" also loads.
LastLoads == [p \in Procs |-> IF p = "c" THEN {"load"} ELSE {}]
NoKinds   == [p \in Procs |-> {}]

\* A login stored session 1 for every profile in the files; the user may have
\* set storage=keyring since.
LoggedIn(storage) ==
    [NoConf EXCEPT !.st = "good", !.storage = storage,
       !.section["eu"] = [NoSection EXCEPT !.has = TRUE, !.method = "oauth2",
                            !.client_id = 1, !.secret["client_secret"] = 1]]
ConfsOf(S)   == {[near |-> NoConf, xdg |-> LoggedIn(s), far |-> NoConf] : s \in S}
FileConf     == ConfsOf({"file"})
BothConfs    == ConfsOf({"file", "keyring"})
FirstSession == [has |-> TRUE, expiry |-> 1, token |-> [n \in TokenNames |-> 1]]
FirstHosts   == {[st |-> "good",
                  entry |-> [r \in Regions |-> [q \in Profiles |-> FirstSession]]]}
EmptyKeyring == [r \in Regions |-> [q \in Profiles |-> [n \in SecretNames \cup TokenNames |-> 0]]]

\* A bound on the instance, fixed by the initial state: the provider that does not
\* rotate is met with storage=file alone.
Instance == rotates \/ xdg.storage = "file"

\* The instances are among those that NoMixedSession is proved for.
ASSUME SessionInstance == OutsideProjects /\ WholeStart
=============================================================================
