SPECIFICATION Spec
CONSTANTS
    Refreshers = {p1}
    Readers = {r1}
    Services = {s1, s2}
    MaxRev = 3
    MaxClock = 1
    InitialDisks <- CleanDisks
    Tagged = TRUE
    IndexCovers = TRUE
    Flaky = TRUE
    ReadFaults = FALSE
    WriteFaults = TRUE
    Cancels = TRUE
    Crashes = TRUE
    p1 = p1
    r1 = r1
    s1 = s1
    s2 = s2
SYMMETRY Symmetry
INVARIANTS
    TypeOK
    TagCoversSpec
    ReaderNotBehind
PROPERTIES
    AckedPairMatches
    ImplementsValidatedCopy

