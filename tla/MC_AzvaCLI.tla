----------------------------- MODULE MC_AzvaCLI -----------------------------
(* Model-checking instance of AzvaCLI. *)
EXTENDS AzvaCLI, TLC
CONSTANTS p1, p2, n1, n2, z1, c1, c2, a1, missing
\* p1 lives in the default namespace, p2 in ns1.
PodNs == (p1 :> "default") @@ (p2 :> "ns1")
\* Flag values naming things that exist, or nothing that does.
PodArgs == {Unset, p1, p2, missing}
NodeArgs == {Unset, n1, n2}
ZoneArgs == {Unset, z1, missing}
NsArgs == {Unset, "ns1"}
\* A flag given with the empty string.
NodeArgsEmpty == {Unset, ""}
NsArgsEmpty == {Unset, ""}
PodArgsFound == {Unset, p1}
NoArg == {Unset}
PodArgsMissing == {Unset, missing}
LiveNodes == {n1, n2}
\* Status.Detail set, or still nil (no attach has succeeded).
AnyDetail == BOOLEAN
\* AzVolumeAttachments may name a node that has been deleted.
VANodesDeleted == {n1, n2, missing}
=============================================================================
