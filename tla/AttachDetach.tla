---------------------------- MODULE AttachDetach ----------------------------
(***************************************************************************)
(* The AzVolumeAttachment attach/detach controller (ReconcileAttachDetach)  *)
(* of azuredisk-csi-driver: the Reconcile control loop run by a pool of    *)
(* workers, the per-record stateLock, the read-modify-write status         *)
(* updates, the detached attach/detach goroutines that call the cloud      *)
(* provisioner, and the environment that drives it (deletion requests,     *)
(* requested-role changes, the referenced VolumeAttachment object).        *)
(***************************************************************************)
EXTENDS AttachmentRecord, Naturals, FiniteSets, Bags, BagsExt

CONSTANTS
    Records,        \* AzVolumeAttachment names (model values)
    Workers,        \* reconcile workers (MaxConcurrentReconciles)
    VAAnnotated,    \* initial values allowed for the VolumeAttachmentExists annotation
    RoleChanges,    \* requested-role changes the upstream scheduler may make
    MaxFailures,    \* bound on provisioner failures (the cloud eventually succeeds)
    MaxCrashes,     \* bound on controller process crashes
    ApiErrorSites,  \* where transient API errors may strike: "worker", "goroutine"
    MaxApiErrors,   \* bound on transient API errors
    Origins         \* who created the records the controller starts with:
                    \* "scheduler", "recovery" (syncAll), or both

VARIABLES
    rec,        \* the API server's copy of each AzVolumeAttachment
    cache,      \* the informer cache's copy, which Reconcile reads
    unseen,     \* keys with a new version the informer has not delivered yet
    queue,      \* the controller-runtime work queue (a set: keys are deduplicated)
    wk,         \* each worker's position inside Reconcile
    stateLock,  \* the sync.Map keyed by record name
    tasks,      \* bag of running attach/detach goroutines
    cloud,      \* whether the disk of each record is attached to its node in Azure
    va,         \* the storage.k8s.io VolumeAttachment the annotation names
    failures,   \* provisioner failures so far
    crashes,    \* controller crashes so far
    apiErrors   \* transient API errors so far

vars == <<rec, cache, unseen, queue, wk, stateLock, tasks, cloud, va, failures, crashes, apiErrors>>

-----------------------------------------------------------------------------
(* The controller's own types. *)

PCs == {"idle", "attach", "detach", "unfinalize", "promote"}

\* A goroutine started by triggerAttach or triggerDetach. cause is the
\* provisioner's error; err is the goroutine's variable err, which the
\* updateFunc closure overwrites; snap is the copy UpdateCRIWithRetry read.
Task == [rec: Records, kind: {"attach", "detach"},
         phase: {"call", "read", "write"}, ok: BOOLEAN,
         cause: Errors, err: Errors, snap: Record]

VAStates == {"present", "deleting", "absent"}

-----------------------------------------------------------------------------
(* The API server. The object is removed once it is being deleted and     *)
(* carries no finalizer. Every write that changes the object is a new     *)
(* resourceVersion and a watch event; one that changes nothing is neither. *)

Commit(r, new) ==
    LET stored == IF new.deleting /\ ~new.finalizer THEN Gone ELSE new IN
    /\ rec' = [rec EXCEPT ![r] = stored]
    /\ unseen' = IF stored # rec[r] THEN unseen \cup {r} ELSE unseen
    /\ UNCHANGED queue

\* The informer receives the watch events of r: the cache is brought up to
\* date and the handler enqueues the key.
Informer(r) ==
    /\ r \in unseen
    /\ unseen' = unseen \ {r}
    /\ cache' = [cache EXCEPT ![r] = rec[r]]
    /\ queue' = queue \cup {r}
    /\ UNCHANGED <<rec, wk, stateLock, tasks, cloud, va, failures, crashes, apiErrors>>

-----------------------------------------------------------------------------
\* A record the upstream scheduler created: pending, in the requested
\* role, with or without the VolumeAttachmentExists annotation, and no
\* finalizer or labels until triggerAttach's initializeMeta.
Scheduled(q, a) ==
    [Gone EXCEPT !.exists = TRUE, !.state = "AttachmentPending",
                 !.requested = q, !.deleting = FALSE, !.vaAnnot = a]

\* The records the controller may start with: the scheduler's, and those
\* Recover created for VolumeAttachments attached or not yet attached.
InitialRecords ==
    (IF "scheduler" \in Origins
     THEN {Scheduled(q, a) : q \in Roles, a \in VAAnnotated} ELSE {})
    \cup
    (IF "recovery" \in Origins
     THEN {SyncAllCreated(s) : s \in {"AttachmentPending", "Attached"}} ELSE {})

Init ==
    /\ rec \in [Records -> InitialRecords]
    /\ cache = rec
    /\ unseen = {}
    /\ queue = Records
    /\ wk = [w \in Workers |-> [pc |-> "idle", key |-> NoRecord]]
    /\ stateLock = {}
    /\ tasks = EmptyBag
    /\ cloud = [r \in Records |-> rec[r].state = "Attached"]
    /\ va = [r \in Records |-> IF rec[r].vaAnnot THEN "present" ELSE "absent"]
    /\ failures = 0
    /\ crashes = 0
    /\ apiErrors = 0

-----------------------------------------------------------------------------
(* Reconcile: read the record (from the cache) and decide. The trigger     *)
(* functions' steps before their first write happen here too: the         *)
(* VolumeAttachment lookup of triggerDetach and the stateLock LoadOrStore. *)

\* triggerDetach's eligibility test: detach only if the VolumeAttachment the
\* annotation names is gone or being deleted, or detach was requested.
DetachmentRequested(r) ==
    \/ ~cache[r].vaAnnot
    \/ va[r] \in {"absent", "deleting"}
    \/ cache[r].detachAnnot

\* Mutant: the detach branch leaves out DetachmentFailed.
DecisionNoDetachRetry(r) ==
    LET o == cache[r] IN
    CASE ~o.exists \/ IsOperationInProcess(o) -> "none"
      [] o.deleting ->
            IF o.state \in {"AttachmentPending", "Attached", "AttachmentFailed"}
            THEN IF DetachmentRequested(r) THEN "detach" ELSE "unfinalize"
            ELSE "none"
      [] ~o.detail ->
            IF o.state \in {"AttachmentPending", "AttachmentFailed"}
            THEN "attach" ELSE "none"
      [] o.requested # o.role -> "promote"
      [] OTHER -> "none"

\* The branch Reconcile takes on the record it read from the cache.
Decision(r) ==
    LET o == cache[r] IN
    CASE ~o.exists \/ IsOperationInProcess(o) -> "none"
      [] o.deleting ->
            IF o.state \in {"AttachmentPending", "Attached",
                            "AttachmentFailed", "DetachmentFailed"}
            THEN IF DetachmentRequested(r) THEN "detach" ELSE "unfinalize"
            ELSE "none"
      [] ~o.detail ->
            IF o.state \in {"AttachmentPending", "AttachmentFailed"}
            THEN "attach" ELSE "none"
      [] o.requested # o.role -> "promote"
      [] OTHER -> "none"

\* Mutant: no early return when there is nothing to do; the worker goes on
\* with the branch "none".
ReconcileNoEarlyReturn(w, r) ==
    LET d == Decision(r)
        needsLock == d \in {"attach", "detach"}
        busy == needsLock /\ r \in stateLock
    IN
    /\ wk[w].pc = "idle"
    /\ r \in queue
    /\ queue' = IF busy THEN queue ELSE queue \ {r}
    /\ stateLock' = IF needsLock /\ ~busy THEN stateLock \cup {r} ELSE stateLock
    /\ wk' = [wk EXCEPT ![w] =
                IF busy THEN [pc |-> "idle", key |-> NoRecord]
                ELSE [pc |-> d, key |-> r]]
    /\ UNCHANGED <<cache, rec, unseen, tasks, cloud, va, failures, crashes, apiErrors>>

\* A worker takes a key off the queue and runs Reconcile up to its first
\* write. triggerAttach and triggerDetach begin with LoadOrStore on
\* stateLock; if the key is held they return getOperationRequeueError and
\* the key is requeued.
Reconcile(w, r) ==
    LET d == Decision(r)
        needsLock == d \in {"attach", "detach"}
        busy == needsLock /\ r \in stateLock
    IN
    /\ wk[w].pc = "idle"
    /\ r \in queue
    /\ queue' = IF busy THEN queue ELSE queue \ {r}
    /\ stateLock' = IF needsLock /\ ~busy THEN stateLock \cup {r} ELSE stateLock
    /\ wk' = [wk EXCEPT ![w] =
                IF d = "none" \/ busy THEN [pc |-> "idle", key |-> NoRecord]
                ELSE [pc |-> d, key |-> r]]
    /\ UNCHANGED <<cache, rec, unseen, tasks, cloud, va, failures, crashes, apiErrors>>

-----------------------------------------------------------------------------
(* The rest of triggerAttach, triggerDetach and promote: the first write,  *)
(* through UpdateCRIWithRetry. It reads the latest object, applies         *)
(* updateFunc and writes; conflicts are retried, so it is one atomic step.  *)
(* An error from updateFunc (the updateState precondition) or NotFound      *)
(* writes nothing and is returned by Reconcile, which requeues the key.     *)
(* The deferred stateLock.Delete runs after the goroutine is started.       *)

NewTask(r, kind) ==
    [rec |-> r, kind |-> kind, phase |-> "call", ok |-> TRUE,
     cause |-> "NoError", err |-> "NoError", snap |-> Gone]

Idle(w) == wk' = [wk EXCEPT ![w] = [pc |-> "idle", key |-> NoRecord]]

Requeue(r) == /\ queue' = queue \cup {r}
              /\ UNCHANGED <<rec, unseen>>

\* Shared by triggerAttach and triggerDetach: the updateFunc (initializeMeta
\* for an attach) and updateState, then the goroutine starts, under the lock
\* taken in Reconcile.
TriggerOperation(w, kind) ==
    LET r == wk[w].key
        o == IF kind = "attach" THEN InitializeMeta(rec[r]) ELSE rec[r]
        target == IF kind = "attach" THEN "Attaching" ELSE "Detaching"
    IN
    /\ wk[w].pc = kind
    /\ IF rec[r].exists /\ CanUpdateState(o, target)
       THEN /\ Commit(r, UpdateState(o, target))
            /\ tasks' = BagAdd(tasks, NewTask(r, kind))
       ELSE /\ Requeue(r)
            /\ UNCHANGED tasks
    /\ stateLock' = stateLock \ {r}
    /\ Idle(w)
    /\ UNCHANGED <<cache, cloud, va, failures, crashes, apiErrors>>

\* triggerAttach: initializeMeta, then updateState(Attaching).
TriggerAttach(w) == TriggerOperation(w, "attach")

\* triggerDetach when detachment is requested: updateState(Detaching).
TriggerDetach(w) == TriggerOperation(w, "detach")

\* triggerDetach otherwise: deleteFinalizer, with no state check and no lock.
ReleaseFinalizer(w) ==
    LET r == wk[w].key IN
    /\ wk[w].pc = "unfinalize"
    /\ IF rec[r].exists THEN Commit(r, DeleteFinalizer(rec[r])) ELSE Requeue(r)
    /\ Idle(w)
    /\ UNCHANGED <<cache, stateLock, tasks, cloud, va, failures, crashes, apiErrors>>

\* promote: updateRole(PrimaryRole), whatever role was requested.
Promote(w) ==
    LET r == wk[w].key IN
    /\ wk[w].pc = "promote"
    /\ IF rec[r].exists THEN Commit(r, UpdateRole(rec[r], "Primary")) ELSE Requeue(r)
    /\ Idle(w)
    /\ UNCHANGED <<cache, stateLock, tasks, cloud, va, failures, crashes, apiErrors>>

\* A transient API error on a read before Reconcile decides: the Get of
\* the record, or triggerDetach's Get of the VolumeAttachment. Reconcile
\* returns Requeue with the error before any write or LoadOrStore, so the
\* key stays queued and the worker is free again.
ReadApiError(w, r) ==
    /\ "worker" \in ApiErrorSites
    /\ wk[w].pc = "idle"
    /\ r \in queue
    /\ apiErrors < MaxApiErrors
    /\ apiErrors' = apiErrors + 1
    /\ UNCHANGED <<cache, rec, unseen, queue, wk, stateLock, tasks, cloud, va, failures, crashes>>

\* A transient API error (a timeout, a server error, conflicts beyond
\* UpdateCRIWithRetry's retries) in the write of a trigger, of promote or of
\* the finalizer release: Reconcile returns it and the key is requeued;
\* triggerAttach and triggerDetach release the lock they took (deferred
\* stateLock.Delete), the others took none.
WorkerApiError(w) ==
    LET r == wk[w].key IN
    /\ "worker" \in ApiErrorSites
    /\ wk[w].pc # "idle"
    /\ apiErrors < MaxApiErrors
    /\ apiErrors' = apiErrors + 1
    /\ queue' = queue \cup {r}
    /\ stateLock' = IF wk[w].pc \in {"attach", "detach"}
                    THEN stateLock \ {r} ELSE stateLock
    /\ Idle(w)
    /\ UNCHANGED <<cache, rec, unseen, tasks, cloud, va, failures, crashes>>

-----------------------------------------------------------------------------
(* The goroutines. Each calls the provisioner once, then reports the result *)
(* through UpdateCRIWithRetry, here split into its read and its             *)
(* conditional write so that a conflicting writer can come in between.      *)

SetTask(t, new) == tasks' = BagAdd(BagRemove(tasks, t), new)
EndTask(t) == tasks' = BagRemove(tasks, t)

\* attachVolume / detachVolume: PublishVolume or UnpublishVolume. A failed
\* call (a timeout, say) may or may not have taken effect in Azure; a
\* dangling attach means the disk is attached to another node, not this one.
CallProvisioner(t) ==
    LET r == t.rec
        done == t.kind = "attach"
    IN
    /\ t.phase = "call"
    /\ \/ /\ cloud' = [cloud EXCEPT ![r] = done]
          /\ SetTask(t, [t EXCEPT !.phase = "read"])
          /\ UNCHANGED failures
       \/ /\ failures < MaxFailures
          /\ failures' = failures + 1
          /\ \E e \in IF t.kind = "attach" THEN {"Error", "DanglingAttach"}
                                           ELSE {"Error"} :
                /\ SetTask(t, [t EXCEPT !.phase = "read", !.ok = FALSE,
                                        !.cause = e, !.err = e])
                /\ cloud' \in IF e = "Error"
                               THEN {cloud, [cloud EXCEPT ![r] = done]}
                               ELSE {cloud}
    /\ UNCHANGED <<cache, rec, unseen, queue, wk, stateLock, va, crashes, apiErrors>>

\* The updateFunc of the goroutine on a copy o, as the pair of the edited
\* copy and the state it moves to.
ResultEdit(t, o) ==
    CASE t.kind = "attach" /\ t.ok  -> UpdateStatusDetail(o)
      [] t.kind = "attach" /\ ~t.ok -> UpdateError(o, t.err)
      [] t.kind = "detach" /\ t.ok  -> DeleteFinalizer(o)
      [] t.kind = "detach" /\ ~t.ok -> UpdateError(o, t.err)

ResultState(t) ==
    CASE t.kind = "attach" -> IF t.ok THEN "Attached" ELSE "AttachmentFailed"
      [] t.kind = "detach" -> IF t.ok THEN "Detached" ELSE "DetachmentFailed"

\* UpdateCRIWithRetry's read; a NotFound ends the goroutine (it only logs).
ReadForUpdate(t) ==
    LET r == t.rec IN
    /\ t.phase = "read"
    /\ IF rec[r].exists
       THEN SetTask(t, [t EXCEPT !.phase = "write", !.snap = rec[r]])
       ELSE EndTask(t)
    /\ UNCHANGED <<cache, rec, unseen, queue, wk, stateLock, cloud, va, failures, crashes, apiErrors>>

\* Mutant: a conflict is not retried (no RetryOnConflict).
WriteUpdateNoRetry(t) ==
    LET r == t.rec
        o == ResultEdit(t, t.snap)
        target == ResultState(t)
    IN
    /\ t.phase = "write"
    /\ IF CanUpdateState(o, target) /\ rec[r] = t.snap
       THEN Commit(r, UpdateState(o, target)) /\ EndTask(t)
       ELSE EndTask(t) /\ UNCHANGED <<rec, unseen, queue>>
    /\ UNCHANGED <<cache, wk, stateLock, cloud, va, failures, crashes, apiErrors>>

\* updateFunc on the copy, then the write. A precondition error from
\* updateState is returned without a write and ends the goroutine. The
\* write fails with a conflict if the object changed since the read; the
\* closure has already run "_, err = r.updateState(...)", so on the failure
\* path err is now nil, and the retry reads again.
WriteUpdate(t) ==
    LET r == t.rec
        o == ResultEdit(t, t.snap)
        target == ResultState(t)
    IN
    /\ t.phase = "write"
    /\ IF ~CanUpdateState(o, target)
       THEN EndTask(t) /\ UNCHANGED <<rec, unseen, queue>>
       ELSE IF rec[r] = t.snap
       THEN Commit(r, UpdateState(o, target)) /\ EndTask(t)
       ELSE /\ SetTask(t, [t EXCEPT !.phase = "read", !.snap = Gone,
                                    !.err = IF t.ok THEN t.err ELSE "NoError"])
            /\ UNCHANGED <<rec, unseen, queue>>
    /\ UNCHANGED <<cache, wk, stateLock, cloud, va, failures, crashes, apiErrors>>

\* A transient API error in the goroutine's UpdateCRIWithRetry (its Get or
\* its Update): the goroutine only logs it and ends, and nothing else will
\* write the provisioner's result.
GoroutineApiError(t) ==
    /\ "goroutine" \in ApiErrorSites
    /\ t.phase \in {"read", "write"}
    /\ apiErrors < MaxApiErrors
    /\ apiErrors' = apiErrors + 1
    /\ EndTask(t)
    /\ UNCHANGED <<cache, rec, unseen, queue, wk, stateLock, cloud, va, failures, crashes>>

-----------------------------------------------------------------------------
(* The environment: the user or ControllerUnpublishVolume deleting the     *)
(* record, the scheduler changing the requested role, Kubernetes deleting  *)
(* the VolumeAttachment, and the controller process crashing.             *)

RequestDeletion(r) ==
    /\ rec[r].exists /\ ~rec[r].deleting
    /\ \E detach \in BOOLEAN :
          Commit(r, [rec[r] EXCEPT !.deleting = TRUE, !.detachAnnot = detach])
    /\ UNCHANGED <<cache, wk, stateLock, tasks, cloud, va, failures, crashes, apiErrors>>

ChangeRequestedRole(r) ==
    /\ rec[r].exists /\ ~rec[r].deleting
    /\ \E ch \in RoleChanges :
          /\ ch[1] = rec[r].requested
          /\ Commit(r, [rec[r] EXCEPT !.requested = ch[2]])
    /\ UNCHANGED <<cache, wk, stateLock, tasks, cloud, va, failures, crashes, apiErrors>>

\* The controller watches only AzVolumeAttachments, so this enqueues nothing.
DeleteVolumeAttachment(r) ==
    /\ va[r] # "absent"
    /\ va' = [va EXCEPT ![r] = IF @ = "present" THEN "deleting" ELSE "absent"]
    /\ UNCHANGED <<cache, rec, unseen, queue, wk, stateLock, tasks, cloud, failures, crashes, apiErrors>>

\* A crash loses everything in memory: the workers, stateLock and the
\* goroutines. On restart Recover runs before the controller serves. For
\* each record whose VolumeAttachment it lists, syncAll applies
\* initializeMeta to the existing object, or creates one from the
\* VolumeAttachment's attach status; its passes may give up part-way, so
\* any subset of those records is synced. Then the informer lists every
\* record again.
Crash ==
    /\ crashes < MaxCrashes
    /\ crashes' = crashes + 1
    /\ \E synced \in SUBSET {r \in Records : va[r] # "absent"} :
          rec' = [r \in Records |->
                    IF r \notin synced THEN rec[r]
                    ELSE IF rec[r].exists THEN InitializeMeta(rec[r])
                    ELSE SyncAllCreated(IF cloud[r] THEN "Attached"
                                                    ELSE "AttachmentPending")]
    /\ wk' = [w \in Workers |-> [pc |-> "idle", key |-> NoRecord]]
    /\ stateLock' = {}
    /\ tasks' = EmptyBag
    /\ cache' = rec'
    /\ unseen' = {}
    /\ queue' = {r \in Records : rec'[r].exists}
    /\ UNCHANGED <<cloud, va, failures, apiErrors>>

-----------------------------------------------------------------------------
WorkerStep(w) ==
    \/ \E r \in Records : Reconcile(w, r)
    \/ \E r \in Records : ReadApiError(w, r)
    \/ TriggerAttach(w)
    \/ TriggerDetach(w)
    \/ ReleaseFinalizer(w)
    \/ Promote(w)
    \/ WorkerApiError(w)

\* The goroutine of record r (there is at most one, see AtMostOneOperation).
GoroutineStep(r) ==
    \E t \in DOMAIN tasks :
        /\ t.rec = r
        /\ \/ CallProvisioner(t)
           \/ ReadForUpdate(t)
           \/ WriteUpdate(t)
           \/ GoroutineApiError(t)

Environment ==
    \E r \in Records :
        \/ RequestDeletion(r)
        \/ ChangeRequestedRole(r)
        \/ DeleteVolumeAttachment(r)

Next ==
    \/ \E w \in Workers : WorkerStep(w)
    \/ \E r \in Records : GoroutineStep(r)
    \/ \E r \in Records : Informer(r)
    \/ Environment
    \/ Crash

\* Workers, goroutines and the informer are threads of a live process and
\* keep running; the environment and crashes are not obliged to happen.
Fairness ==
    /\ \A w \in Workers : WF_vars(WorkerStep(w))
    /\ \A r \in Records : WF_vars(GoroutineStep(r))
    /\ \A r \in Records : WF_vars(Informer(r))

Spec == Init /\ [][Next]_vars /\ Fairness

-----------------------------------------------------------------------------
(* The refinement mapping to the abstract lifecycle: a removed object is   *)
(* "Removed", the cloud is the disk, the deletion timestamp is deleting.   *)

Lifecycle == INSTANCE AttachmentLifecycle WITH
    status <- [r \in Records |-> IF rec[r].exists THEN rec[r].state ELSE "Removed"],
    disk <- cloud,
    deleting <- [r \in Records |-> rec[r].deleting]

-----------------------------------------------------------------------------
(* Properties *)

TypeOK ==
    /\ rec \in [Records -> Record]
    /\ cache \in [Records -> Record]
    /\ unseen \subseteq Records
    /\ queue \subseteq Records
    /\ wk \in [Workers -> [pc: PCs, key: Records \cup {NoRecord}]]
    /\ stateLock \subseteq Records
    /\ IsABag(tasks) /\ BagToSet(tasks) \subseteq Task
    /\ cloud \in [Records -> BOOLEAN]
    /\ va \in [Records -> VAStates]
    /\ failures \in 0..MaxFailures
    /\ crashes \in 0..MaxCrashes
    /\ apiErrors \in 0..MaxApiErrors

OperationsOf(r) == {t \in DOMAIN tasks : t.rec = r}

\* stateLock together with updateState: however Reconcile passes for one key
\* interleave, at most one attach/detach goroutine of a record is running.
AtMostOneOperation ==
    \A r \in Records : \A t \in OperationsOf(r) :
        OperationsOf(r) = {t} /\ tasks[t] = 1

\* The record of a running attach/detach goroutine is never removed: the
\* goroutine's result would have nowhere to go. Removal needs the finalizer
\* gone, which triggerDetach's deleteFinalizer and the detach goroutine do.
OperationRecordExists ==
    \A t \in DOMAIN tasks : rec[t.rec].exists

\* The goroutine of an operation always writes its result: a record in
\* Attaching or Detaching leaves that state.
OperationsComplete ==
    \A r \in Records :
        IsOperationInProcess(rec[r]) ~> ~IsOperationInProcess(rec[r])

\* A record whose deletion was requested is eventually removed (detached,
\* or its finalizer released).
DeletionCompletes ==
    \A r \in Records : rec[r].deleting ~> ~rec[r].exists

\* A record that is not being deleted ends up Attached in the role the
\* scheduler requested (promote included).
Converges ==
    \A r \in Records :
        rec[r].exists /\ ~rec[r].deleting ~>
            \/ rec[r].deleting
            \/ rec[r].state = "Attached" /\ rec[r].detail
               /\ rec[r].role = rec[r].requested

\* The role label of an attached record names the role in its status.
RoleLabelMatchesDetail ==
    \A r \in Records : rec[r].exists /\ rec[r].detail =>
        rec[r].roleLabel = rec[r].role

NoAttachAfterDeletion ==
    [][\A r \in Records :
         rec'[r].state = "Attaching" /\ rec[r].state # "Attaching" =>
             ~rec[r].deleting]_vars

\* When a goroutine writes AttachmentFailed or DetachmentFailed, the
\* record's Status.Error is the provisioner's error (dangling attach
\* included), as updateError is meant to record it.
ErrorRecorded ==
    [][\A t \in DOMAIN tasks :
         /\ t.phase = "write" /\ ~t.ok
         /\ rec'[t.rec].state \in {"AttachmentFailed", "DetachmentFailed"}
         /\ rec[t.rec].state \notin {"AttachmentFailed", "DetachmentFailed"}
         => rec'[t.rec].error = t.cause]_vars
=============================================================================
