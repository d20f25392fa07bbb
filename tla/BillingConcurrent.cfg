\* Two requests at once, events out of order, a failing query and a dying request.
SPECIFICATION Spec
CONSTANTS
    sub1 = sub1
    sub2 = sub2
    h1 = h1
    h2 = h2
    Handlers = {h1, h2}
    Subs = {sub1, sub2}
    NEvents = 4
    history <- Start
    InOrder = FALSE
    LocalEdits = TRUE
    MaxFailures = 1
    MaxDeaths = 1
    NoSub = NoSub
SYMMETRY SymHandlers
INVARIANTS TypeOK ProcessedOnce FaultsBoundLoss
 
CHECK_DEADLOCK FALSE
