SPECIFICATION FairSpec
CONSTANTS
    TestIds = {1, 2, 3}
    MaxQueue = 3
    Events = {"call", "slow", "nodevice", "rc", "toggle"}
INVARIANTS TypeOK ButtonSafe AssertionsHold VolumeRestored
PROPERTIES OwnCallback TestEnds
