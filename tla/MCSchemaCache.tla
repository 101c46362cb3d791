--------------------------- MODULE MCSchemaCache ---------------------------
(***************************************************************************)
(* Instances of SchemaCache for TLC: the disks a refresh may find.         *)
(***************************************************************************)
EXTENDS SchemaCacheRefinement, TLC

Full(rev)     == [s \in Services |-> rev]
SpecFile(svc) == [st |-> "good", svc |-> svc]
MetaFile(tag, svc) == [st |-> "good", stamp |-> "current", tag |-> tag,
                       at |-> 0, hash |-> svc]

FreshInstall == [dir |-> "absent", spec |-> NoSpec, meta |-> NoMeta]
EmptyDir     == [FreshInstall EXCEPT !.dir = "secure"]
Cached       == [dir |-> "secure", spec |-> SpecFile(Full(1)),
                 meta |-> MetaFile(1, Full(1))]


\* A spec without meta: a first refresh that died between its renames.
HalfWritten == [Cached EXCEPT !.meta = NoMeta]
\* Files that do not parse, damaged outside the program.
CorruptMeta == [Cached EXCEPT !.meta = [NoMeta EXCEPT !.st = "corrupt"]]
CorruptSpec == [Cached EXCEPT !.spec = [NoSpec EXCEPT !.st = "corrupt"]]
\* apispace.json was deleted to reclaim space.
MissingSpec == [Cached EXCEPT !.spec = NoSpec]
\* Written by a binary with an earlier SpecVersion.
OlderBinary == [Cached EXCEPT !.meta.stamp = "older"]
\* The directory was created beforehand with the default umask.
LooseDir    == [FreshInstall EXCEPT !.dir = "loose"]
LooseCached == [Cached EXCEPT !.dir = "loose"]
\* A regular file where the directory should be.
NotADir     == [FreshInstall EXCEPT !.dir = "file"]

GoodDisks  == {FreshInstall, EmptyDir, Cached, HalfWritten, CorruptMeta}
CleanDisks == GoodDisks \cup {NotADir}
AnyDisks == CleanDisks \cup {CorruptSpec, MissingSpec, OlderBinary, LooseDir, LooseCached}

\* Disks that this binary leaves are among those the theorems speak of.
ASSUME CleanDisksFit ==
    InitialDisks = CleanDisks => SoundDisks /\ PairedDisks /\ MatchedDisks /\ CleanStart

Symmetry == Permutations(Services) \cup Permutations(Refreshers)
=============================================================================
