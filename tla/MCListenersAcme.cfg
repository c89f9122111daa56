SPECIFICATION Spec
CONSTANTS
    PlainPorts = {http}
    ManualPorts = {}
    AcmePorts = {acme}
    Conns = {c1, c2}
    Ips = {ip1}
    Limit = 1
INVARIANTS
    ServedWithinTheLimit
CHECK_DEADLOCK FALSE
