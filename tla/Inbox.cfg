\* Two operators who qualify or archive one conversation, deletions, two
\* messages, a failing statement and a restart.
SPECIFICATION Spec
CONSTANTS
    m1 = m1  m2 = m2  h1 = h1  h2 = h2  r1 = r1  r2 = r2
    Msgs = {m1, m2}
    Handlers = {h1, h2}
    Requests = {r1, r2}
    MaxEmits = 1
    MaxArchives = 1
    MaxDeletes = 2
    MaxFailures = 1
    MaxCrashes = 1
    NoConv = NoConv
    NoLead = NoLead
    NoMsg = NoMsg
SYMMETRY Symmetry
INVARIANTS TypeOK  FaultsBoundLoss
PROPERTY NewMessageUnarchives
CHECK_DEADLOCK FALSE
