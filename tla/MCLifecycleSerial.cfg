SPECIFICATION Spec
CONSTANTS
    Modems = {m1, m2}
    Procs = {p1}
    MaxUsage = 1
    Hazards = {}
INVARIANTS TypeOK DisabledLeftAlone NoRogueUnit EnabledIsServing
