--------------------------- MODULE MCSchemaFetch ---------------------------
(***************************************************************************)
(* Instances of SchemaFetch for TLC.  The index repeats a path: nothing in *)
(* the code rejects that, and two goroutines then write the same key.      *)
(***************************************************************************)
EXTENDS SchemaFetch

FourEntries  == <<"a", "b", "a", "c">>
ThreeEntries == <<"a", "b", "a">>
=============================================================================
