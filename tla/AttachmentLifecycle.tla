------------------------- MODULE AttachmentLifecycle -------------------------
(***************************************************************************)
(* What the attach/detach controller promises for each AzVolumeAttachment, *)
(* with no cache, queue, lock or goroutine: the record moves through the   *)
(* states of allowedTargetAttachmentStates one atomic step at a time, the  *)
(* disk is attached or detached in Azure only while an operation is in     *)
(* progress, a record reaches Attached only with its disk attached, and a  *)
(* record is removed only when its disk is not attached. That deletion    *)
(* takes priority over attach is a separate property of AttachDetach      *)
(* (NoAttachAfterDeletion).                                                *)
(***************************************************************************)
EXTENDS AttachmentRecord

CONSTANTS Records

VARIABLES
    status,    \* Status.State of each record, or "Removed"
    disk,      \* whether Azure has the record's disk attached to its node
    deleting   \* whether deletion of the record was requested

vars == <<status, disk, deleting>>

Phases == States \cup {"Removed"}

Init ==
    /\ status \in [Records -> {"AttachmentPending", "Attached"}]
    /\ disk = [r \in Records |-> status[r] = "Attached"]
    /\ deleting = [r \in Records |-> FALSE]

\* Deletion is requested; a record with no cleanup to do goes at once.
RequestDeletion(r) ==
    /\ status[r] # "Removed" /\ ~deleting[r]
    /\ deleting' = [deleting EXCEPT ![r] = TRUE]
    /\ \/ UNCHANGED status
       \/ /\ ~disk[r] /\ ~IsOperationInProcess([state |-> status[r]])
          /\ status' = [status EXCEPT ![r] = "Removed"]
    /\ UNCHANGED disk

\* A state change allowed by the state machine, guarded by what the
\* change stands for.
Move(r, to) ==
    /\ status[r] # "Removed"
    /\ to \in AllowedTargetAttachmentStates[status[r]]
    /\ status' = [status EXCEPT ![r] = to]
    /\ UNCHANGED <<disk, deleting>>

BeginAttach(r) == Move(r, "Attaching")

\* A failed attach may have left the disk attached, so AttachmentFailed says
\* nothing about the disk; Attached needs it.
EndAttach(r) ==
    \/ disk[r] /\ Move(r, "Attached")
    \/ Move(r, "AttachmentFailed")

BeginDetach(r) == deleting[r] /\ Move(r, "Detaching")

EndDetach(r) ==
    \/ /\ status[r] = "Detaching" /\ ~disk[r]
       /\ status' = [status EXCEPT ![r] = "Removed"]
       /\ UNCHANGED <<disk, deleting>>
    \/ Move(r, "DetachmentFailed")

\* The cloud call of a running operation takes effect.
CloudAttach(r) ==
    /\ status[r] = "Attaching"
    /\ disk' = [disk EXCEPT ![r] = TRUE]
    /\ UNCHANGED <<status, deleting>>

CloudDetach(r) ==
    /\ status[r] = "Detaching"
    /\ disk' = [disk EXCEPT ![r] = FALSE]
    /\ UNCHANGED <<status, deleting>>

Next ==
    \E r \in Records :
        \/ RequestDeletion(r)
        \/ BeginAttach(r) \/ EndAttach(r) \/ CloudAttach(r)
        \/ BeginDetach(r) \/ EndDetach(r) \/ CloudDetach(r)

\* The safety part: what any behaviour of the controller, crashes included,
\* must be a behaviour of.
SafetySpec == Init /\ [][Next]_vars

\* An operation that has begun ends.
Fairness ==
    \A r \in Records : WF_vars(EndAttach(r)) /\ WF_vars(EndDetach(r))

Spec == SafetySpec /\ Fairness
=============================================================================
