SPECIFICATION Spec
CONSTANTS
    Ips = {ip1, ip2, ip3}
    Guards = {g1, g2, g3, g4, g5}
    Limit = 2
INVARIANTS
    TypeOK
    CountsAreGuards
    WithinLimit
    NoStaleEntry
