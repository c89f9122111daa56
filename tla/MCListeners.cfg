SPECIFICATION FairSpec
CONSTANTS
    PlainPorts = {http}
    ManualPorts = {https}
    AcmePorts = {acme}
    Conns = {c1, c2, c3}
    Ips = {ip1, ip2}
    Limit = 1
INVARIANTS
    TypeOK
    GuardsAreTasks
    PortsShareTheLimit
PROPERTIES
    RefusedOnlyAtTheLimit
    InterruptEndsIt
    NoPortIsMissing
CHECK_DEADLOCK FALSE
