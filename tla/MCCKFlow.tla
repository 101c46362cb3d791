------------------------------ MODULE MCCKFlow ------------------------------
(***************************************************************************)
(* The consumer-key flow with the constants of flow.go and of go-ovh, in   *)
(* seconds.                                                                *)
(***************************************************************************)
EXTENDS CKFlow

Never == 10000
SomeDurations == {0, 1, 179}
SomeCancelTimes == {0, 1, 20, 595, Never}
SomeValidTimes  == {0, 300, 405, 590, 610, Never}
=============================================================================
