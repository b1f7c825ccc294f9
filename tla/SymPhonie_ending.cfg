SPECIFICATION FairSpec
CONSTANTS
    c1 = c1
    c2 = c2
    r1 = r1
    r2 = r2
    NoCall = NoCall
    NoAccount = NoAccount
    Cid <- OneCall
    Rid <- OneAccount
    Accounts <- OneAccount
    MaxFifo = 1
    MaxRetry = 1
    Ports = 1
    DeviceFails = {FALSE}
    RegCodes = {"200", "401", "404", "noreply"}
    FailTypes = {"CALL_REQUESTFAILURE", "CALL_GLOBALFAILURE"}
    Bodies = {"sdp", "anonymous"}
    Modes = {TRUE, FALSE}
    Events = {"quit", "debug"}
PROPERTIES ClearingEnds RegistrationSettles IdleQuitCompletes
CHECK_DEADLOCK FALSE
