\* Listing while an AzVolumeAttachment has no Status.Detail yet.
CONSTANTS
    p1 = p1
    p2 = p2
    n1 = n1
    n2 = n2
    z1 = z1
    c1 = c1
    c2 = c2
    a1 = a1
    missing = missing
    Pods = {p1, p2}
    Nodes = {n1, n2}
    Zones = {z1}
    Claims = {c1, c2}
    AzVAs = {a1}
    PodNamespace <- PodNs
    Missing = missing
    PodFlagValues <- NoArg
    NodeFlagValues <- NodeArgs
    ZoneFlagValues <- ZoneArgs
    NsFlagValues <- NoArg
    VANodeValues <- LiveNodes
    DetailValues <- AnyDetail
SPECIFICATION Spec
INVARIANT AlwaysReports
CHECK_DEADLOCK FALSE
