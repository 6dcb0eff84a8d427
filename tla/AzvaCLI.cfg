\* One command run: every flag combination over a small cluster, including panicking ones.
CONSTANTS
    p1 = p1
    p2 = p2
    n1 = n1
    n2 = n2
    z1 = z1
    c1 = c1
    c2 = c2
    a1 = a1
    missing = missing
    Pods = {p1, p2}
    Nodes = {n1, n2}
    Zones = {z1}
    Claims = {c1, c2}
    AzVAs = {a1}
    PodNamespace <- PodNs
    Missing = missing
    PodFlagValues <- PodArgs
    NodeFlagValues <- NodeArgs
    ZoneFlagValues <- ZoneArgs
    NsFlagValues <- NsArgs
    VANodeValues <- VANodesDeleted
    DetailValues <- AnyDetail
SPECIFICATION Spec
INVARIANT TypeOK
CHECK_DEADLOCK FALSE
