SPECIFICATION FairSpec
CONSTANTS
    Modems = {m1}
    Procs = {p1, p2}
    MaxUsage = 1
    Hazards = {"storefront delete", "reboot"}
PROPERTIES ExpiredIsDisabled LockIsReleased
