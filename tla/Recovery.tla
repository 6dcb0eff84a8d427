------------------------------ MODULE Recovery ------------------------------
(***************************************************************************)
(* Start-up recovery of the attach/detach controller: Recover runs syncAll *)
(* up to maxRetry times. Each pass lists the storage.k8s.io                *)
(* VolumeAttachments and, for each one attached by this driver whose PV is *)
(* a CSI volume of this driver with a parseable disk URI, repairs the      *)
(* metadata of the AzVolumeAttachment it names (initializeMeta + update)   *)
(* or creates it. Passes are single-threaded and run before the            *)
(* controller serves; a restart runs Recover again against the same       *)
(* cluster.                                                                *)
(***************************************************************************)
EXTENDS AttachmentRecord, Naturals, FiniteSets

CONSTANTS
    VAs,          \* VolumeAttachments in the cluster (model values)
    MaxRetry,     \* maxRetry: the most syncAll passes one Recover makes
    MaxErrors,    \* bound on transient API errors
    MaxRestarts   \* bound on controller restarts, each running Recover again

VARIABLES
    kind,      \* where syncAll's checks take each VolumeAttachment (fixed)
    attached,  \* VolumeAttachment.Status.Attached (fixed)
    cri,       \* the AzVolumeAttachment each VolumeAttachment names
    synced,    \* syncedVolumeAttachments
    toSync,    \* volumesToSync (a VolumeAttachment stands for its volume handle)
    pending,   \* items of the current List the loop has not visited yet
    attempt,   \* i, the passes Recover has made
    pc,        \* "list" (next pass), "items" (inside a pass), "done" (returned)
    retry,     \* the retry result of the last syncAll
    errors,    \* transient API errors so far
    restarts,  \* restarts so far
    firstRun   \* the records, and whether recovery was complete, when the
               \* first Recover returned

vars == <<kind, attached, cri, synced, toSync, pending, attempt, pc, retry,
          errors, restarts, firstRun>>

\* Spec.Attacher is another driver; Source.PersistentVolumeName is nil; the
\* PV is not a CSI volume of this driver; the volume handle is not a
\* managed-disk URI; or none of these (the VolumeAttachment is recovered).
Kinds == {"OtherAttacher", "NoPVName", "OtherDriver", "BadHandle", "Ours"}

NoRun == [records |-> [v \in VAs |-> Gone], complete |-> FALSE]

\* AzVolumeAttachments the controller or the scheduler may have left: a new
\* one never reconciled, one attached, and one a crash left in Attaching.
Fresh == [Gone EXCEPT !.exists = TRUE, !.state = "AttachmentPending",
                      !.deleting = FALSE, !.vaAnnot = TRUE]
AttachedRecord == [Fresh EXCEPT !.state = "Attached", !.finalizer = TRUE,
                     !.idLabels = TRUE, !.roleLabel = "Primary",
                     !.detail = TRUE, !.role = "Primary"]
AttachingRecord == [AttachedRecord EXCEPT !.state = "Attaching",
                      !.detail = FALSE, !.role = NoRole]
Existing == {Gone, Fresh, AttachedRecord, AttachingRecord}

\* azureutils.GetAzVolumeAttachmentState on the VolumeAttachment's status.
GetAzVolumeAttachmentState(v) ==
    IF attached[v] THEN "Attached" ELSE "AttachmentPending"

\* Mutant: the created object carries no finalizer.
CreatedNoFinalizer(v) ==
    [SyncAllCreated(GetAzVolumeAttachmentState(v)) EXCEPT !.finalizer = FALSE]

\* The AzVolumeAttachment syncAll creates for VolumeAttachment v.
Created(v) == SyncAllCreated(GetAzVolumeAttachmentState(v))

Init ==
    /\ kind \in [VAs -> Kinds]
    /\ attached \in [VAs -> BOOLEAN]
    /\ cri \in [VAs -> Existing]
    /\ synced = {}
    /\ toSync = {}
    /\ pending = {}
    /\ attempt = 0
    /\ pc = "list"
    /\ retry = FALSE
    /\ errors = 0
    /\ restarts = 0
    /\ firstRun = NoRun

-----------------------------------------------------------------------------
\* A transient API error (List, PV Get, AzVolumeAttachment Get, Update or
\* Create failing).
Fail == errors < MaxErrors /\ errors' = errors + 1

\* Mutant: the loop makes one pass more than maxRetry.
EndSyncAllOffByOne(r) ==
    /\ attempt' = attempt + 1
    /\ retry' = r
    /\ pending' = {}
    /\ pc' = IF r /\ attempt + 1 <= MaxRetry THEN "list" ELSE "done"
    /\ firstRun' = IF pc' = "done" /\ restarts = 0
                   THEN [records |-> cri', complete |-> ~r] ELSE firstRun

\* syncAll returns retry; Recover's loop goes on while retry and
\* i < maxRetry, and otherwise returns (nil, whatever happened).
EndSyncAll(r) ==
    /\ attempt' = attempt + 1
    /\ retry' = r
    /\ pending' = {}
    /\ pc' = IF r /\ attempt + 1 < MaxRetry THEN "list" ELSE "done"
    /\ firstRun' = IF pc' = "done" /\ restarts = 0
                   THEN [records |-> cri', complete |-> ~r] ELSE firstRun

\* syncAll lists the VolumeAttachments.
ListVolumeAttachments ==
    /\ pc = "list"
    /\ UNCHANGED <<kind, attached, cri, synced, toSync, restarts>>
    /\ \/ Fail /\ EndSyncAll(TRUE)
       \/ /\ pending' = VAs
          /\ pc' = "items"
          /\ UNCHANGED <<attempt, retry, errors, firstRun>>

\* One iteration of syncAll's loop, on VolumeAttachment v.
SyncItem(v) ==
    LET next == /\ pending' = pending \ {v}
                /\ UNCHANGED <<attempt, pc, retry, firstRun>>
    IN
    /\ pc = "items"
    /\ v \in pending
    /\ \/ /\ v \in synced \/ kind[v] \in {"OtherAttacher", "NoPVName"}
          /\ next
          /\ UNCHANGED <<cri, synced, toSync, errors>>
       \/ /\ v \notin synced /\ kind[v] \in {"OtherDriver", "BadHandle", "Ours"}
          /\ UNCHANGED <<cri, synced, toSync>>
          /\ Fail /\ EndSyncAll(TRUE)
       \/ /\ v \notin synced /\ kind[v] = "OtherDriver"
          /\ next
          /\ UNCHANGED <<cri, synced, toSync, errors>>
       \/ /\ v \notin synced /\ kind[v] = "BadHandle"
          /\ toSync' = toSync \ {v}
          /\ next
          /\ UNCHANGED <<cri, synced, errors>>
       \/ /\ v \notin synced /\ kind[v] = "Ours"
          /\ toSync' = toSync \cup {v}
          /\ \/ UNCHANGED <<cri, synced>> /\ Fail /\ EndSyncAll(TRUE)
             \/ /\ cri' = [cri EXCEPT ![v] = IF @.exists THEN InitializeMeta(@)
                                                       ELSE Created(v)]
                /\ synced' = synced \cup {v}
                /\ next
                /\ UNCHANGED errors
    /\ UNCHANGED <<kind, attached, restarts>>

\* The loop is over: syncAll returns retry = false.
EndItems ==
    /\ pc = "items"
    /\ pending = {}
    /\ UNCHANGED <<kind, attached, cri, synced, toSync, errors, restarts>>
    /\ EndSyncAll(FALSE)

\* The controller restarts and runs Recover again, with fresh maps, against
\* the same cluster.
Restart ==
    /\ pc = "done"
    /\ restarts < MaxRestarts
    /\ restarts' = restarts + 1
    /\ synced' = {}
    /\ toSync' = {}
    /\ attempt' = 0
    /\ pc' = "list"
    /\ retry' = FALSE
    /\ UNCHANGED <<kind, attached, cri, pending, errors, firstRun>>

RecoverStep ==
    \/ ListVolumeAttachments
    \/ \E v \in VAs : SyncItem(v)
    \/ EndItems

Next == RecoverStep \/ Restart

\* Recover runs to completion in its own goroutine-free start-up path.
Spec == Init /\ [][Next]_vars /\ WF_vars(RecoverStep)

-----------------------------------------------------------------------------
(* Properties *)

TypeOK ==
    /\ kind \in [VAs -> Kinds]
    /\ attached \in [VAs -> BOOLEAN]
    /\ cri \in [VAs -> Record]
    /\ synced \subseteq VAs /\ toSync \subseteq VAs /\ pending \subseteq VAs
    /\ attempt \in 0..MaxRetry
    /\ pc \in {"list", "items", "done"}
    /\ retry \in BOOLEAN
    /\ errors \in 0..MaxErrors
    /\ restarts \in 0..MaxRestarts
    /\ firstRun \in [records: [VAs -> Record], complete: BOOLEAN]

\* syncAll marks a VolumeAttachment synced only once its AzVolumeAttachment
\* exists with the finalizer and the node/volume labels, and a Recover
\* that returns without retry pending has synced every VolumeAttachment of
\* this driver, whatever errors and retries came before.
RecoveredRecords ==
    /\ \A v \in synced :
          kind[v] = "Ours" /\ cri[v].exists /\ cri[v].finalizer /\ cri[v].idLabels
    /\ pc = "done" /\ ~retry =>
          {v \in VAs : kind[v] = "Ours"} \subseteq synced

\* Running Recover a second time against an unchanged cluster, both runs
\* complete, changes no AzVolumeAttachment (no churn).
RecoveryIdempotent ==
    restarts = 1 /\ pc = "done" /\ ~retry /\ firstRun.complete =>
        cri = firstRun.records
=============================================================================
