SPECIFICATION Spec
CONSTANTS
    p1 = p1
    p2 = p2
    Procs = {p1, p2}
    Jobs = {"rotate", "send", "list", "delete", "reboot", "status"}
    NoProc = none
    MaxSession = 2
SYMMETRY Symmetry
INVARIANTS RadioRestored SmsReadable
PROPERTIES SlowCallsKeepJar LoginsNotWasted
