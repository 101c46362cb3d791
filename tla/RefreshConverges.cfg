SPECIFICATION PersistentSpec
CONSTANTS
    Refreshers = {p1}
    Readers = {}
    Services = {s1, s2}
    MaxRev = 3
    MaxClock = 0
    InitialDisks <- GoodDisks
    Tagged = TRUE
    IndexCovers = TRUE
    Flaky = FALSE
    ReadFaults = FALSE
    WriteFaults = FALSE
    Cancels = FALSE
    Crashes = FALSE
    p1 = p1
    s1 = s1
    s2 = s2
PROPERTY
    EventuallyCurrent

