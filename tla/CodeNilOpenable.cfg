SPECIFICATION Spec
CONSTANTS
    Refreshers = {p1}
    Readers = {}
    Services = {s1}
    MaxRev = 2
    MaxClock = 0
    InitialDisks <- AnyDisks
    Tagged = TRUE
    IndexCovers = TRUE
    Flaky = FALSE
    ReadFaults = FALSE
    WriteFaults = FALSE
    Cancels = FALSE
    Crashes = FALSE
    p1 = p1
    s1 = s1
PROPERTY
    NilMeansOpenable

