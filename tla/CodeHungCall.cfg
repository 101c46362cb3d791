SPECIFICATION Spec
CONSTANTS
    PollInterval = 2
    MaxPollInterval = 30
    FlowTimeout = 600
    CallTimeout = 10
    DefaultTimeout = 180
    Durations <- SomeDurations
    CancelTimes <- SomeCancelTimes
    ValidTimes <- SomeValidTimes
CHECK_DEADLOCK FALSE
INVARIANT
    HungCallBounded
