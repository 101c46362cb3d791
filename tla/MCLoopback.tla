----------------------------- MODULE MCLoopback -----------------------------
(***************************************************************************)
(* An instance of Loopback for TLC: a browser that retries, a second call  *)
(* to Wait and a deferred Close beside an explicit one.                    *)
(***************************************************************************)
EXTENDS Loopback
=============================================================================
