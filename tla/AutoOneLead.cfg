\* One lead, reruns, a crash and an edit; what becomes of every execution.
SPECIFICATION OneLeadSpec
CONSTANTS
    a1 = a1  a2 = a2  l1 = l1  l2 = l2  m1 = m1  m2 = m2
    q1 = q1  q2 = q2   p1 = p1  S1 = S1  S2 = S2  W = W  Z = Z  F = F
    Autos = {a1}
    Leads = {l1, l2}
    Moves = {m1}
    Stages = {q1, q2}
    pipelineOf <- TwoPipelines
    trigger <- OnStage
    Phones = {p1}
    phone <- OnePhone
    Steps = {S1, S2, W, Z, F}
    kind <- StepKinds
    StepLists <- Lists
    MaxJobs = 3
    MaxWorkers = 2
    MaxAttempts = 2
    MaxStalls = 1
    MaxCrashes = 1
    MaxEdits = 1
    NoExec = NoExec
    NoConv = NoConv
    Unqualified = Unqualified
    NoPhone = NoPhone
    NoStage = NoStage
    NoAuto = NoAuto
    NoLead = NoLead
INVARIANTS TypeOK  SendsExplained 
PROPERTIES SilentAfterEnd 
CHECK_DEADLOCK FALSE
