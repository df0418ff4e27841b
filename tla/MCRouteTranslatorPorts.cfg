SPECIFICATION Spec
CONSTANTS
    Hosts = {h1, h2}
    Spaces = {s1, s2}
    Domains = {d1, d2}
    Ports = {p1, p2}
    Guids = {g1, g2}
    Apps = {a1, a2}
    MaxDestinations = 2
SYMMETRY Symmetry
INVARIANT PortsPreserved
