----------------------- MODULE SchemaCacheRefinement -----------------------
(***************************************************************************)
(* The two-file cache, refreshed by one process at a time, implements the  *)
(* validated copy of ValidatedCopy.                                        *)
(***************************************************************************)
EXTENDS SchemaCache, FiniteSetsExt

\* Oldest description of a services map; failed ones are no description.
Floor(svc) == Min({MaxRev} \cup {svc[s] : s \in {t \in Services : svc[t] # Failed}})

MappedFloor == IF spec.st = "good" THEN Floor(spec.svc) ELSE 0
MappedTag   == IF meta.st = "good" THEN meta.tag ELSE NoTag
MappedOwed  == [r \in Readers |->
                  IF rpc[r] \in {"spec", "opened"} THEN rmeta[r].tag ELSE NoTag]
MappedServed == [r \in Readers |-> IF rpc[r] = "opened" THEN Floor(rsvc[r]) ELSE 0]

Copy == INSTANCE ValidatedCopy WITH
            floor <- MappedFloor, tag <- MappedTag,
            owed <- MappedOwed, served <- MappedServed

\* Every step of a refresh or of a reader is a step of the validated copy or
\* leaves it alone: the rename of apispace.json installs, the rename of the
\* meta file vouches, a reader begins at the meta file and is served at the
\* services.  (refresh.go:78-108, 127-146, cache.go:38-57)
ImplementsValidatedCopy == Copy!Spec

\* Disks whose meta file, when it parses, has services beside it; ...
PairedDisks == \A d \in InitialDisks : d.meta.st = "good" => d.spec.st = "good"

\* ... and is the one written with them, unless the upstream has moved on.
MatchedDisks ==
    \A d \in InitialDisks :
      d.meta.st = "good" => d.meta.hash = d.spec.svc \/ d.meta.tag < 1
=============================================================================
