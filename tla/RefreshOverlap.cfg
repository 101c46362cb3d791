SPECIFICATION Spec
CONSTANTS
    Refreshers = {p1, p2}
    Readers = {r1}
    Services = {s1}
    MaxRev = 2
    MaxClock = 1
    InitialDisks <- CleanDisks
    Tagged = TRUE
    IndexCovers = TRUE
    Flaky = FALSE
    ReadFaults = TRUE
    WriteFaults = TRUE
    Cancels = FALSE
    Crashes = TRUE
    p1 = p1
    p2 = p2
    r1 = r1
    s1 = s1
SYMMETRY Symmetry
INVARIANT
    ReaderOpens
PROPERTY
    RefreshPost
