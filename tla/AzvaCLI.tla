------------------------------ MODULE AzvaCLI ------------------------------
(***************************************************************************)
(* The az-analyze "get azva" command (cmd/az-analyze/cmd/azva.go). One run *)
(* of the command against a cluster snapshot: the flags, the choice of      *)
(* listing (all, by pod, by node, by zone), the joins of pods' claims,      *)
(* nodes' zone labels and AzVolumeAttachments, and what is printed: a       *)
(* usage message, a table, "No azVolumeAttachment was found", nothing, or  *)
(* a panic. Names are model values; table columns other than the          *)
(* resource name and the AzVolumeAttachment are left out.                  *)
(***************************************************************************)
EXTENDS Naturals, FiniteSets

CONSTANTS
    Pods, Nodes, Zones, Claims, AzVAs,   \* names in the cluster
    PodNamespace,    \* the namespace of each pod
    Missing,         \* a name nothing in the cluster has
    PodFlagValues,   \* values the --pod flag may be given (Unset: not given)
    NodeFlagValues,
    ZoneFlagValues,
    NsFlagValues,
    VANodeValues,    \* nodes an AzVolumeAttachment may name (a deleted one too)
    DetailValues     \* whether Status.Detail may be set or nil

Unset == "unset"
NoClaim == "noclaim"
NoZone == ""
Flags == {"pod", "node", "zone", "namespace"}

VARIABLES
    podClaims,  \* PVC claim names among each pod's volumes
    nodeZone,   \* the topology zone label of each node ("" if none)
    vaClaim,    \* Spec.VolumeContext[pvcName] of each AzVolumeAttachment
    vaNode,     \* Spec.NodeName of each AzVolumeAttachment
    vaDetail,   \* whether Status.Detail is set
    flag,       \* the value of each flag, or Unset
    out         \* what the command printed

vars == <<podClaims, nodeZone, vaClaim, vaNode, vaDetail, flag, out>>

Pending == [kind |-> "pending", rows |-> {}]
Row == [res: Pods \cup Nodes \cup Zones, azva: AzVAs]
Outputs == [kind: {"pending", "usage", "table", "none", "silent", "panic"},
            rows: SUBSET Row]

\* cmd.Flags().GetString: the value, "" if the flag was not given.
Value(f) == IF flag[f] = Unset THEN "" ELSE flag[f]

\* cmd.Flags().NFlag() counts every flag given, "" values included; a
\* non-empty namespace is then discounted.
NumFlag ==
    Cardinality({f \in Flags : flag[f] # Unset})
        - (IF Value("namespace") # "" THEN 1 ELSE 0)

\* An empty namespace means "default".
Namespace == IF Value("namespace") = "" THEN "default" ELSE Value("namespace")

\* pvcClaimNameSet: claim name -> the pods (of the given set) that use it.
PvcClaimNameSet(ps) == [c \in Claims |-> {p \in ps : c \in podClaims[p]}]

\* The pods of the claim an AzVolumeAttachment names (none if it names none).
PodsOfClaim(m, a) == IF vaClaim[a] \in Claims THEN m[vaClaim[a]] ELSE {}

\* Building a row reads Status.Detail.Role: a nil Detail panics.
Rows(rs) == [panic |-> \E r \in rs : ~vaDetail[r.azva], rows |-> rs]

\* GetAllAzVolumeAttachements: pods of the namespace, then every
\* AzVolumeAttachment; the node of each one is fetched (and a failed Get
\* panics) before its claim is matched.
GetAll ==
    LET m == PvcClaimNameSet({p \in Pods : PodNamespace[p] = Namespace})
        rs == UNION {{[res |-> p, azva |-> a] : p \in PodsOfClaim(m, a)} : a \in AzVAs}
    IN [Rows(rs) EXCEPT !.panic = @ \/ \E a \in AzVAs : vaNode[a] \notin Nodes]

\* GetAzVolumeAttachementsByPod: Get of the pod in the namespace (a
\* missing pod panics), then the AzVolumeAttachments of its claims.
GetByPod(pod) ==
    IF pod \notin Pods \/ PodNamespace[pod] # Namespace
    THEN [panic |-> TRUE, rows |-> {}]
    ELSE LET m == PvcClaimNameSet({pod}) IN
         Rows({[res |-> pod, azva |-> a] : a \in {b \in AzVAs : PodsOfClaim(m, b) # {}}})

\* Mutant: the row names the AzVolumeAttachment in the resource column.
GetByNodeWrongColumn(n) ==
    Rows({[res |-> a, azva |-> a] : a \in {b \in AzVAs : vaNode[b] = n}})

\* GetAzVolumeAttachementsByNode.
GetByNode(n) == Rows({[res |-> n, azva |-> a] : a \in {b \in AzVAs : vaNode[b] = n}})

\* GetAzVolumeAttachementsByZone: nodeSet holds the nodes labelled with
\* the zone; an AzVolumeAttachment is listed if its node is in nodeSet.
GetByZone(z) ==
    LET nodeSet == {n \in Nodes : nodeZone[n] = z} IN
    Rows({[res |-> z, azva |-> a] : a \in {b \in AzVAs : vaNode[b] \in nodeSet}})

\* A table if there are rows, the not-found message otherwise.
Report(q) ==
    CASE q.panic        -> [kind |-> "panic", rows |-> {}]
      [] q.rows = {}    -> [kind |-> "none", rows |-> {}]
      [] OTHER          -> [kind |-> "table", rows |-> q.rows]

\* azvaCmd.Run.
Run ==
    /\ out = Pending
    /\ out' = CASE NumFlag > 1        -> [kind |-> "usage", rows |-> {}]
                [] NumFlag = 0        -> Report(GetAll)
                [] Value("pod") # ""  -> Report(GetByPod(Value("pod")))
                [] Value("node") # "" -> Report(GetByNode(Value("node")))
                [] Value("zone") # "" -> Report(GetByZone(Value("zone")))
                [] OTHER              -> [kind |-> "silent", rows |-> {}]
    /\ UNCHANGED <<podClaims, nodeZone, vaClaim, vaNode, vaDetail, flag>>

Init ==
    /\ podClaims \in [Pods -> SUBSET Claims]
    /\ nodeZone \in [Nodes -> Zones \cup {NoZone}]
    /\ vaClaim \in [AzVAs -> Claims \cup {NoClaim}]
    /\ vaNode \in [AzVAs -> VANodeValues]
    /\ vaDetail \in [AzVAs -> DetailValues]
    /\ flag \in {f \in [Flags -> PodFlagValues \cup NodeFlagValues \cup
                                 ZoneFlagValues \cup NsFlagValues] :
                    /\ f["pod"] \in PodFlagValues
                    /\ f["node"] \in NodeFlagValues
                    /\ f["zone"] \in ZoneFlagValues
                    /\ f["namespace"] \in NsFlagValues}
    /\ out = Pending

Next == Run

Spec == Init /\ [][Next]_vars /\ WF_vars(Next)

-----------------------------------------------------------------------------
(* Properties *)

TypeOK ==
    /\ podClaims \in [Pods -> SUBSET Claims]
    /\ vaClaim \in [AzVAs -> Claims \cup {NoClaim}]
    /\ vaNode \in [AzVAs -> VANodeValues]
    /\ out \in Outputs

\* Every run prints something: a usage message, a table, or "No
\* azVolumeAttachment was found"; it never panics or prints nothing.
AlwaysReports ==
    out # Pending => out.kind \in {"usage", "table", "none"}
=============================================================================
