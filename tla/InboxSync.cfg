\* The history of an archived conversation is synchronised.
SPECIFICATION FairSpec
CONSTANTS
    m1 = m1  m2 = m2  h1 = h1  h2 = h2  r1 = r1  r2 = r2
    Msgs = {m1}
    Handlers = {h1}
    Requests = {r1}
    MaxEmits = 2
    MaxArchives = 1
    MaxDeletes = 0
    MaxFailures = 0
    MaxCrashes = 0
    NoConv = NoConv
    NoLead = NoLead
    NoMsg = NoMsg
PROPERTY UnarchivedByNewMessage
CHECK_DEADLOCK FALSE
