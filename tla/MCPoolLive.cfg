SPECIFICATION FairSpec
CONSTANTS
    Modems = {m1, m2}
    Threads = {}
    Timers = {t1, t2}
    MaxChanges = 4
    MaxPasswords = 1
    Hazards = {"overlap", "reboot", "unit dies"}
PROPERTY PoolComesInLine
