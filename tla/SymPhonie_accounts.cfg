SPECIFICATION FairSpec
CONSTANTS
    c1 = c1
    c2 = c2
    r1 = r1
    r2 = r2
    NoCall = NoCall
    NoAccount = NoAccount
    Cid <- OneCall
    Rid <- TwoAccounts
    Accounts <- TwoAccounts
    MaxFifo = 0
    MaxRetry = 1
    Ports = 1
    DeviceFails = {FALSE}
    RegCodes = {"200"}
    FailTypes = {}
    Bodies = {"sdp"}
    Modes = {FALSE}
    Events = {"account", "network", "wake"}
PROPERTY RegisteredIsReachable
