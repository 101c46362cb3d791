SPECIFICATION Spec
CONSTANTS
    Callbacks = {c1, c2}
    Waiters = {w1, w2}
    Closers = {x1, x2}
    c1 = c1
    c2 = c2
    w1 = w1
    w2 = w2
    x1 = x1
    x2 = x2
    None = None
CHECK_DEADLOCK FALSE
INVARIANTS
    TypeOK
    Conserved
    QuietAfterClose
PROPERTIES
    CallbackAnswered
    WaitReturns
    CloseReturns
