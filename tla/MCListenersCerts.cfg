SPECIFICATION Spec
CONSTANTS
    PlainPorts = {http}
    ManualPorts = {https}
    AcmePorts = {}
    Conns = {c1}
    Ips = {ip1}
    Limit = 1
INVARIANTS
    CertificatesDoNotBlock
CHECK_DEADLOCK FALSE
