SPECIFICATION Spec
CONSTANTS
    Clients = {c1}
    Servers = {s1, s2}
    CPorts = {1, 2}
    SPorts = {3}
    MaxConns = 2
    MaxSockets = 3
SYMMETRY ServersAlike
INVARIANTS EndsAgree PortsSound
CHECK_DEADLOCK FALSE
