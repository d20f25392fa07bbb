\* A media send without caption, answered with its provider id.
SPECIFICATION Spec
CONSTANTS
    s1 = s1
    s2 = s2
    p1 = p1
    hello = hello
    image = image
    caption = caption
    Sends = {s2}
    PhoneMsgs = {}
    Bodies = {hello, image, caption}
    rowBody <- MediaRow
    echoBody <- MediaEcho
    AckStatuses = {"delivered", "read"}
    Window = 0
    MaxTime = 0
    MaxEchoes = 1
    MaxCrashes = 0
    Erased = Erased
    NoRow = NoRow
    NoMsg = NoMsg
    NoTime = NoTime
INVARIANT RaceWindowClosed
CHECK_DEADLOCK FALSE
