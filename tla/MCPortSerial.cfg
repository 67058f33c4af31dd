SPECIFICATION Spec
CONSTANTS
    Modems = {1, 2, 3}
    Procs = {p1}
    HttpBase = 10
    SocksBase = 20
INVARIANTS TypeOK DistinctPorts PortsInStep ListenersDisjoint
PROPERTIES PortsStable ImplementsTable
