\* A send and a handset message of one text; echoes delivered twice, reports reordered.
SPECIFICATION Spec
CONSTANTS
    s1 = s1
    s2 = s2
    p1 = p1
    hello = hello
    image = image
    caption = caption
    Sends = {s1}
    PhoneMsgs = {p1}
    Bodies = {hello}
    rowBody <- SameText
    echoBody <- SameEcho
    AckStatuses = {"delivered", "read"}
    Window = 0
    MaxTime = 1
    MaxEchoes = 2
    MaxCrashes = 1
    Erased = Erased
    NoRow = NoRow
    NoMsg = NoMsg
    NoTime = NoTime
INVARIANTS TypeOK ProviderIdOnMatchingRow SentIsAccepted DuplicateExplained
PROPERTIES ProviderIdIsFinal
CHECK_DEADLOCK FALSE
