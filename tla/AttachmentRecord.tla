-------------------------- MODULE AttachmentRecord --------------------------
(***************************************************************************)
(* The AzVolumeAttachment object as the attach/detach controller and its   *)
(* start-up recovery see it, with the state machine                        *)
(* (allowedTargetAttachmentStates, updateState) and the pure helpers that  *)
(* edit a copy of it (initializeMeta, deleteFinalizer, updateRole,         *)
(* updateStatusDetail, updateError, isOperationInProcess).                 *)
(***************************************************************************)

Roles == {"Primary", "Replica"}
NoRole == "NoRole"
NoRecord == "NoRecord"

States == {"AttachmentPending", "Attaching", "Attached", "AttachmentFailed",
           "Detaching", "Detached", "DetachmentFailed"}

Errors == {"NoError", "Error", "DanglingAttach"}

\* The fields of an AzVolumeAttachment the controller reads or writes.
\* idLabels stands for the node-name and volume-name labels, which are
\* always written together; roleLabel is the role label (NoRole if absent).
Record == [exists: BOOLEAN, state: States, finalizer: BOOLEAN,
           idLabels: BOOLEAN, roleLabel: Roles \cup {NoRole},
           detail: BOOLEAN, role: Roles \cup {NoRole}, requested: Roles,
           deleting: BOOLEAN, vaAnnot: BOOLEAN, detachAnnot: BOOLEAN,
           error: Errors]

Gone == [exists |-> FALSE, state |-> "Detached", finalizer |-> FALSE,
         idLabels |-> FALSE, roleLabel |-> NoRole, detail |-> FALSE,
         role |-> NoRole, requested |-> "Primary", deleting |-> TRUE,
         vaAnnot |-> FALSE, detachAnnot |-> FALSE, error |-> "NoError"]

-----------------------------------------------------------------------------
(* The state machine: allowedTargetAttachmentStates and updateState. *)

AllowedTargetAttachmentStates ==
    [s \in States |->
        CASE s = "AttachmentPending" -> {"Attaching", "Detaching"}
          [] s = "Attaching"         -> {"Attached", "AttachmentFailed"}
          [] s = "Detaching"         -> {"Detached", "DetachmentFailed"}
          [] s = "Attached"          -> {"Detaching"}
          [] s = "AttachmentFailed"  -> {"Attaching", "Detaching"}
          [] s = "DetachmentFailed"  -> {"Detaching"}
          [] s = "Detached"          -> {}]

\* Mutant: updateState also accepts a self-transition.
CanUpdateStateSelf(o, s) ==
    s \in AllowedTargetAttachmentStates[o.state] \/ s = o.state

\* updateState succeeds iff the target is allowed from the current state.
CanUpdateState(o, s) == s \in AllowedTargetAttachmentStates[o.state]

UpdateState(o, s) == [o EXCEPT !.state = s]

-----------------------------------------------------------------------------
(* The pure helpers that edit a copy of the record. *)

InitializeMeta(o) ==
    IF o.finalizer /\ o.idLabels /\ o.roleLabel # NoRole
    THEN o
    ELSE [o EXCEPT !.finalizer = TRUE, !.idLabels = TRUE,
                   !.roleLabel = o.requested]

DeleteFinalizer(o) == [o EXCEPT !.finalizer = FALSE]

\* Mutant: updateRole sets the label but not Status.Detail.Role.
UpdateRoleLabelOnly(o, role) == [o EXCEPT !.roleLabel = role]

UpdateRole(o, role) ==
    [o EXCEPT !.roleLabel = role, !.role = IF o.detail THEN role ELSE o.role]

UpdateStatusDetail(o) == [o EXCEPT !.detail = TRUE, !.role = o.requested]

\* updateError sets Status.Error only for a non-nil error; a nil one leaves
\* whatever error the object already carries.
UpdateError(o, e) == IF e = "NoError" THEN o ELSE [o EXCEPT !.error = e]

\* isOperationInProcess: a cloud operation has been started and not finished.
IsOperationInProcess(o) == o.state \in {"Attaching", "Detaching"}

-----------------------------------------------------------------------------
\* The object syncAll creates for a VolumeAttachment whose AzVolumeAttachment
\* is missing: finalizer and node/volume labels but no role label (and no
\* annotations), RequestedRole Primary, the state s the VolumeAttachment's
\* status gives, and a Primary Status.Detail if s is Attached.
SyncAllCreated(s) ==
    [Gone EXCEPT !.exists = TRUE, !.deleting = FALSE, !.finalizer = TRUE,
                 !.idLabels = TRUE, !.requested = "Primary", !.state = s,
                 !.detail = (s = "Attached"),
                 !.role = IF s = "Attached" THEN "Primary" ELSE NoRole]
=============================================================================
