SPECIFICATION Spec
CONSTANTS
    c1 = c1
    c2 = c2
    r1 = r1
    r2 = r2
    NoCall = NoCall
    NoAccount = NoAccount
    Cid <- TwoCalls
    Rid <- OneAccount
    Accounts <- OneAccount
    MaxFifo = 1
    MaxRetry = 1
    Ports = 2
    DeviceFails = {TRUE, FALSE}
    RegCodes = {"200"}
    FailTypes = {"CALL_REQUESTFAILURE", "challenge"}
    Bodies = {"sdp", "nosdp"}
    Modes = {TRUE, FALSE}
    Events = {"test"}
SYMMETRY CallSymmetry
INVARIANTS TypeOK SingleCall MediaFollowsCall RingsForCaller
PROPERTIES ConversationLogged ImplementsLine
