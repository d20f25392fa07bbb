\* Stripe's events in order and one at a time with failing queries; two moves at
\* once; repeated messages.
SPECIFICATION GroupSpec
CONSTANTS
    sub1 = sub1  sub2 = sub2  h1 = h1  h2 = h2
    Handlers = {h1}
    Subs = {sub1, sub2}
    NEvents = 6
    history <- Lifecycle
    InOrder = TRUE
    LocalEdits = FALSE
    MaxFailures = 2
    MaxDeaths = 0
    NoSub = NoSub
    a1 = a1  a2 = a2  l1 = l1  l2 = l2  q1 = q1  q2 = q2  p1 = p1  S1 = S1
    m1 = m1  m2 = m2  r1 = r1
    NoExec = NoExec
    NoConv = NoConv
    Unqualified = Unqualified
    NoPhone = NoPhone
    NoStage = NoStage
    NoAuto = NoAuto
    NoLead = NoLead
    NoMsg = NoMsg
INVARIANT EventsMirrored
PROPERTY DoneOnce
CHECK_DEADLOCK FALSE
