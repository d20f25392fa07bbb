\* A retry of Stripe that overlaps the request whose query fails.
SPECIFICATION Spec
CONSTANTS
    sub1 = sub1
    sub2 = sub2
    h1 = h1
    h2 = h2
    Handlers = {h1, h2}
    Subs = {sub1, sub2}
    NEvents = 4
    history <- Start
    InOrder = FALSE
    LocalEdits = FALSE
    MaxFailures = 1
    MaxDeaths = 0
    NoSub = NoSub
INVARIANT RetriedAfterError
CHECK_DEADLOCK FALSE
