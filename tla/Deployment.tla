----------------------------- MODULE Deployment -----------------------------
(***************************************************************************)
(* Deployment operations of the control plane: DeploymentService           *)
(* (service/deployment_ops.go) creates, cancels and continues operations   *)
(* in HTTP handlers, DeploymentScheduler (service/deployment_scheduler.go) *)
(* claims one queued operation at a time and drives the tasks of its       *)
(* targets, one target after the other.  Both share nothing but the        *)
(* database rows.                                                          *)
(*                                                                         *)
(* A task is what TaskDispatch makes of it: a row that the agent closes    *)
(* with success or failure, that CancelTask may close, that is run at most *)
(* once, and that may stay open for ever.                                  *)
(*                                                                         *)
(* Every SQL statement or transaction is one step.  The ids of operations  *)
(* are numbers in the order of created_at.                                 *)
(*                                                                         *)
(* A definition right before the one it alters (FinalAnySuccess before     *)
(* FinalStatus) is that step with a plausible mistake in it; Next does not *)
(* use it.                                                                 *)
(***************************************************************************)
EXTENDS Integers, FiniteSets

CONSTANTS
    Feature, Node, Target,
    Release,            \* every feature has a release of each of these names
    Req,                \* concurrent requests
    FeatureOf, NodeOf,  \* of a target
    Deployed,           \* the release a target has at the beginning, or None
    BackedUp,           \* features whose backup_mode is not "none"
    CanRollBack,        \* features with a rollback_capability
    Production,         \* cfg.AppEnv = "production"
    Actions,            \* actions the clients request
    Choices,            \* sets of targets they ask for
    Desired,            \* releases they set as a target's desired release
    Requests,           \* other requests they make: "cancel", "continue", "edit"
    MaxOp,              \* bound on the operations created
    Faults,             \* faults that may happen: "restart", "timeout"
    None

ASSUME ConstantsAssumption ==
    /\ FeatureOf \in [Target -> Feature]
    /\ NodeOf \in [Target -> Node]
    /\ Deployed \in [Target -> Release \cup {None}]
    /\ None \notin Release /\ None \notin Target
    /\ BackedUp \subseteq Feature /\ CanRollBack \subseteq Feature
    /\ Production \in BOOLEAN
    /\ Actions \subseteq {"install", "update", "rollback", "backup", "health_check"}
    /\ Choices \subseteq SUBSET Target
    /\ Desired \subseteq Release
    /\ Requests \subseteq {"cancel", "continue", "edit"}
    /\ MaxOp \in Nat
    /\ Faults \subseteq {"restart", "timeout"}
    /\ "scheduler" \notin Req

(* Who calls CreateOperation: a client's request, or the scheduler for an  *)
(* automatic rollback.                                                     *)
Caller == Req \cup {"scheduler"}

Op == 1..MaxOp
Step == {"backup", "install", "update", "rollback", "health-check"}
Key == Op \X Target \X Step

(* Terminal statuses of an operation target, see isOperationTargetTerminal *)
TargetDone == {"succeeded", "failed", "skipped", "cancelled"}

(* Statuses an operation blocks its feature in                             *)
Active == {"queued", "running", "awaiting_confirmation"}
OpDone == {"succeeded", "failed", "partial_failed", "cancelled"}

NeedsRelease == {"install", "update", "rollback"}
NeedsConfirmation == {"install", "update"}

VARIABLES
    op,         \* deployment_operation: status, action, feature, release
    opTarget,   \* deployment_operation_target: status of a target in an operation
    target,     \* deployment_target: desired, current and last healthy release
    task,       \* the task rows, by idempotency key
    linked,     \* keys whose deployment_step has its task_id
    made,       \* number of operations created so far, or being created
    sched,      \* the scheduler goroutine
    req,        \* the handlers
    node,       \* the release that is active on the node, for each target
    ran,        \* keys of tasks the agent has run
    continued   \* operations that were confirmed or continued (history)

rows == <<op, opTarget, target>>
tasks == <<task, linked>>
world == <<node, ran>>
vars == <<op, opTarget, target, task, linked, made, sched, req, node, ran, continued>>

NoOp == [status |-> "absent", action |-> "none", feature |-> None, release |-> None]
NoReq == [pc |-> "idle", op |-> 0, todo |-> {}, new |-> NoOp, target |-> None, row |-> None]
NoSched == [pc |-> "idle", op |-> 0, todo |-> {}, target |-> None, step |-> "none",
            mark |-> "none", row |-> None, final |-> "none", rollback |-> None, release |-> None,
            succeeded |-> FALSE, failed |-> FALSE, cancelled |-> FALSE]

TargetRow == [desired : Release \cup {None}, current : Release \cup {None},
              lastHealthy : Release \cup {None}]
OpRow == [status : Active \cup OpDone \cup {"absent"},
          action : Actions \cup {"none", "rollback"},
          feature : Feature \cup {None}, release : Release \cup {None}]

TypeOK ==
    /\ op \in [Op -> OpRow]
    /\ opTarget \in [Op -> [Target -> TargetDone \cup {"none", "queued"}]]
    /\ target \in [Target -> TargetRow]
    /\ task \in [Key -> {"none", "live", "succeeded", "failed", "cancelled"}]
    /\ linked \subseteq Key /\ ran \subseteq Key
    /\ made \in 0..MaxOp
    /\ sched.op \in 0..MaxOp /\ sched.todo \subseteq Target
    /\ sched.target \in Target \cup {None}
    /\ sched.pc # "idle" => sched.op \in Op /\ op[sched.op].status # "absent"
    /\ sched.row \in TargetRow \cup {None}
    /\ \A r \in Caller : /\ req[r].op \in 0..MaxOp
                         /\ req[r].row \in TargetRow \cup {None}
    /\ node \in [Target -> Release \cup {None}]
    /\ continued \subseteq Op

Init ==
    /\ op = [o \in Op |-> NoOp]
    /\ opTarget = [o \in Op |-> [t \in Target |-> "none"]]
    /\ target = [t \in Target |-> [desired |-> None, current |-> Deployed[t],
                                   lastHealthy |-> Deployed[t]]]
    /\ task = [k \in Key |-> "none"]
    /\ linked = {}
    /\ made = 0
    /\ sched = NoSched
    /\ req = [r \in Caller |-> NoReq]
    /\ node = Deployed
    /\ ran = {}
    /\ continued = {}

TargetsOf(o) == {t \in Target : opTarget[o][t] # "none"}
Pending(o) == {t \in TargetsOf(o) : opTarget[o][t] \notin TargetDone}

-----------------------------------------------------------------------------
(* DeploymentService.CreateOperation                                       *)

FeatureFreeWaiting(f, o) ==
    \A p \in Op : p # o /\ op[p].feature = f => op[p].status # "queued"

(* uq_deployment_op_active_feature, a partial unique index                 *)
FeatureFree(f, o) ==
    \A p \in Op : p # o /\ op[p].feature = f => op[p].status \notin Active

(* uq_deployment_optarget_active_node, a partial unique index              *)
NodesFree(ts) ==
    /\ \A t, u \in ts : NodeOf[t] = NodeOf[u] => t = u
    /\ \A o \in Op, t \in Target, u \in ts :
           NodeOf[t] = NodeOf[u] => opTarget[o][t] # "queued"

InitialUnconfirmed(a) == "queued"

(* In production installations and updates wait for a confirmation.        *)
InitialStatus(a) ==
    IF Production /\ a \in NeedsConfirmation THEN "awaiting_confirmation" ELSE "queued"

(* The checks: no active operation of the feature, all targets of it.      *)
(* A request that fails them, or finds a node offline, changes nothing.    *)
CreateCheck(r, a, ts, rel) ==
    /\ made < MaxOp
    /\ ts # {}
    /\ a \in NeedsRelease => rel # None
    /\ \E f \in Feature :
        /\ \A t \in ts : FeatureOf[t] = f
        /\ FeatureFree(f, 0)
        /\ req' = [req EXCEPT ![r] =
              [NoReq EXCEPT !.pc = "insert", !.op = made + 1, !.todo = ts,
                            !.new = [status |-> InitialStatus(a), action |-> a,
                                     feature |-> f, release |-> rel]]]
    /\ made' = made + 1
    /\ UNCHANGED <<rows, tasks, world, continued>>

(* A client asks for an operation.                                         *)
CreateOperation(r) ==
    /\ req[r].pc = "idle"
    /\ \E a \in Actions, ts \in Choices, rel \in Release \cup {None} :
          CreateCheck(r, a, ts, rel)
    /\ UNCHANGED sched

(* CreateDeploymentOperationBundle: one transaction, which a conflict with *)
(* either index rolls back.                                                *)
InsertBundle(r) ==
    LET o == req[r].op  new == req[r].new  ts == req[r].todo IN
    /\ req[r].pc = "insert"
    /\ \/ /\ FeatureFree(new.feature, o)
          /\ NodesFree(ts)
          /\ op' = [op EXCEPT ![o] = new]
          /\ opTarget' = [opTarget EXCEPT ![o] =
                             [t \in Target |-> IF t \in ts THEN "queued" ELSE "none"]]
       \/ /\ ~(FeatureFree(new.feature, o) /\ NodesFree(ts))
          /\ UNCHANGED <<op, opTarget>>
    /\ req' = [req EXCEPT ![r] = NoReq]
    /\ sched' = IF r = "scheduler" THEN NoSched ELSE sched
    /\ UNCHANGED <<target, tasks, made, world, continued>>

-----------------------------------------------------------------------------
(* DeploymentService.CancelOperation                                       *)

Cancellable == {"queued", "running", "awaiting_confirmation", "partial_failed"}

CancelRead(r, o) ==
    /\ "cancel" \in Requests /\ req[r].pc = "idle"
    /\ op[o].status \in Cancellable
    /\ req' = [req EXCEPT ![r] = [NoReq EXCEPT !.pc = "cancel", !.op = o]]
    /\ UNCHANGED <<rows, tasks, made, sched, world, continued>>

(* UpdateDeploymentOperation: unconditional                                *)
CancelWrite(r) ==
    /\ req[r].pc = "cancel"
    /\ op' = [op EXCEPT ![req[r].op].status = "cancelled"]
    /\ req' = [req EXCEPT ![r].pc = "targets"]
    /\ UNCHANGED <<opTarget, target, tasks, made, sched, world, continued>>

CancelListTargets(r) ==
    /\ req[r].pc = "targets"
    /\ req' = [req EXCEPT ![r].pc = "target", ![r].todo = Pending(req[r].op)]
    /\ UNCHANGED <<rows, tasks, made, sched, world, continued>>

CancelTarget(r) ==
    /\ req[r].pc = "target"
    /\ \E t \in req[r].todo :
        /\ opTarget' = [opTarget EXCEPT ![req[r].op][t] = "cancelled"]
        /\ req' = [req EXCEPT ![r].todo = @ \ {t}]
    /\ UNCHANGED <<op, target, tasks, made, sched, world, continued>>

CancelListSteps(r) ==
    /\ req[r].pc = "target" /\ req[r].todo = {}
    /\ req' = [req EXCEPT ![r].pc = "tasks",
                          ![r].todo = {k \in linked : k[1] = req[r].op}]
    /\ UNCHANGED <<rows, tasks, made, sched, world, continued>>

(* TaskByID, here and in CancelTask: a terminal task is passed over.       *)
CancelReadTask(r) ==
    /\ req[r].pc = "tasks"
    /\ \E k \in req[r].todo :
          req' = [req EXCEPT ![r].todo = @ \ {k},
                             ![r].pc = IF task[k] = "live" THEN "task" ELSE "tasks",
                             ![r].target = IF task[k] = "live" THEN k ELSE None]
    /\ UNCHANGED <<rows, tasks, made, sched, world, continued>>

(* CancelTask writes the row it has read.                                  *)
CancelWriteTask(r) ==
    /\ req[r].pc = "task"
    /\ task' = [task EXCEPT ![req[r].target] = "cancelled"]
    /\ req' = [req EXCEPT ![r].pc = "tasks", ![r].target = None]
    /\ UNCHANGED <<rows, linked, made, sched, world, continued>>

CancelReturn(r) ==
    /\ req[r].pc = "tasks" /\ req[r].todo = {}
    /\ req' = [req EXCEPT ![r] = NoReq]
    /\ UNCHANGED <<rows, tasks, made, sched, world, continued>>

-----------------------------------------------------------------------------
(* DeploymentService.ContinueOperation                                     *)

ContinueRead(r, o) ==
    /\ "continue" \in Requests /\ req[r].pc = "idle"
    /\ op[o].status \in {"awaiting_confirmation", "failed", "partial_failed"}
    /\ req' = [req EXCEPT ![r] = [NoReq EXCEPT !.pc = "continue", !.op = o]]
    /\ UNCHANGED <<rows, tasks, made, sched, world, continued>>

ContinueListTargets(r) ==
    /\ req[r].pc = "continue"
    /\ req' = [req EXCEPT ![r] = IF Pending(req[r].op) = {} THEN NoReq
                                 ELSE [@ EXCEPT !.pc = "requeue"]]
    /\ UNCHANGED <<rows, tasks, made, sched, world, continued>>

(* Unconditional but for the unique index of the feature                   *)
ContinueWrite(r) ==
    LET o == req[r].op IN
    /\ req[r].pc = "requeue"
    /\ \/ /\ FeatureFree(op[o].feature, o)
          /\ op' = [op EXCEPT ![o].status = "queued"]
          /\ continued' = continued \cup {o}
       \/ /\ ~FeatureFree(op[o].feature, o)
          /\ UNCHANGED <<op, continued>>
    /\ req' = [req EXCEPT ![r] = NoReq]
    /\ UNCHANGED <<opTarget, target, tasks, made, sched, world>>

-----------------------------------------------------------------------------
(* DeploymentService.UpdateTarget: reads the row, changes desired, and     *)
(* writes all columns.                                                     *)

UpdateTargetRead(r, t) ==
    /\ "edit" \in Requests /\ req[r].pc = "idle"
    /\ req' = [req EXCEPT ![r] = [NoReq EXCEPT !.pc = "edit", !.target = t,
                                               !.row = target[t]]]
    /\ UNCHANGED <<rows, tasks, made, sched, world, continued>>

UpdateTargetWrite(r) ==
    /\ req[r].pc = "edit"
    /\ \E rel \in Desired \cup {req[r].row.desired} :
          target' = [target EXCEPT ![req[r].target] = [req[r].row EXCEPT !.desired = rel]]
    /\ req' = [req EXCEPT ![r] = NoReq]
    /\ UNCHANGED <<op, opTarget, tasks, made, sched, world, continued>>

-----------------------------------------------------------------------------
(* DeploymentScheduler.Tick and executeOperation                           *)

ClaimQueuedDeploymentOperation ==
    /\ sched.pc = "idle"
    /\ \E o \in Op :
        /\ op[o].status = "queued"
        /\ \A p \in Op : op[p].status = "queued" => o <= p
        /\ op' = [op EXCEPT ![o].status = "running"]
        /\ sched' = [NoSched EXCEPT !.pc = "list", !.op = o]
    /\ UNCHANGED <<opTarget, target, tasks, made, req, world, continued>>

(* The targets' rows as they are now.  Terminal ones are counted, and      *)
(* only "succeeded" counts as a success.  The loop counts them one by one; *)
(* the order of the rows never changes, so those that succeeded come       *)
(* before a target that fails now.                                         *)
ListTargets ==
    LET o == sched.op IN
    /\ sched.pc = "list"
    /\ sched' = [sched EXCEPT
          !.pc = "next",
          !.todo = Pending(o),
          !.succeeded = \E t \in TargetsOf(o) : opTarget[o][t] = "succeeded",
          !.failed = \E t \in TargetsOf(o) : opTarget[o][t] \in TargetDone \ {"succeeded"}]
    /\ UNCHANGED <<rows, tasks, made, req, world, continued>>

(* The loop takes the next row of its list, in an order that the client    *)
(* or the random ids decide.  op.Status is that of the claimed copy, so    *)
(* the test for "cancelled" is never true.                                 *)
NextTarget ==
    /\ sched.pc = "next"
    /\ \E t \in sched.todo :
          sched' = [sched EXCEPT !.pc = "target", !.target = t, !.todo = @ \ {t}]
    /\ UNCHANGED <<rows, tasks, made, req, world, continued>>

(* After a failure the loop is left with break, otherwise it ends when no  *)
(* target remains.                                                         *)
LoopEnds ==
    /\ sched.pc = "next" /\ sched.todo = {}
    /\ sched' = [sched EXCEPT !.pc = "final"]
    /\ UNCHANGED <<rows, tasks, made, req, world, continued>>

-----------------------------------------------------------------------------
(* DeploymentScheduler.executeTarget                                       *)

Skip(a, rel, t) ==
    \/ a = "install" /\ target[t].current # None /\ target[t].current = target[t].desired
    \/ a = "update" /\ target[t].current = rel
    \/ /\ a = "rollback" /\ target[t].lastHealthy # None
       /\ target[t].current = target[t].lastHealthy

FirstStep(a, f) ==
    IF a = "update" /\ f \in BackedUp THEN "backup"
    ELSE IF a = "health_check" THEN "health-check" ELSE a

(* The target's row decides: skip it, or begin with the first step.        *)
BeginTarget ==
    LET o == op[sched.op] IN
    /\ sched.pc = "target"
    /\ sched' =
          IF o.action = "health_check" /\ o.release = None /\ target[sched.target].current = None
          THEN [sched EXCEPT !.pc = "mark", !.mark = "failed"]
          ELSE IF Skip(o.action, o.release, sched.target)
          THEN [sched EXCEPT !.pc = "mark", !.mark = "skipped"]
          ELSE [sched EXCEPT !.pc = "step", !.step = FirstStep(o.action, o.feature)]
    /\ UNCHANGED <<rows, tasks, made, req, world, continued>>

CurrentKey == <<sched.op, sched.target, sched.step>>

(* runTaskStep: TaskService.CreateTask inserts the task, or finds the one  *)
(* that has its key.                                                       *)
CreateTask ==
    /\ sched.pc = "step"
    /\ task' = [task EXCEPT ![CurrentKey] = IF @ = "none" THEN "live" ELSE @]
    /\ sched' = [sched EXCEPT !.pc = "link"]
    /\ UNCHANGED <<rows, linked, made, req, world, continued>>

(* The command is missing on the node, or a secret was changed since the   *)
(* operation was created: the step has failed.                             *)
StepRefused ==
    /\ sched.pc = "step"
    /\ sched' = [sched EXCEPT !.pc = "reread"]
    /\ UNCHANGED <<rows, tasks, made, req, world, continued>>

(* CreateTask returns an error (the node is offline, the command is        *)
(* disabled): an infrastructure error, the target fails.                   *)
StepError ==
    /\ sched.pc = "step"
    /\ sched' = [sched EXCEPT !.pc = "mark", !.mark = "failed"]
    /\ UNCHANGED <<rows, tasks, made, req, world, continued>>

(* UpdateDeploymentStep stores the task's id in the step.                  *)
LinkTask ==
    /\ sched.pc = "link"
    /\ linked' = linked \cup {CurrentKey}
    /\ sched' = [sched EXCEPT !.pc = "poll"]
    /\ UNCHANGED <<rows, task, made, req, world, continued>>

(* The step after sched.step of an operation with action a; "none" after   *)
(* the last one.                                                           *)
StepAfter(s, a) ==
    IF s = "backup" /\ a = "update" THEN "update"
    ELSE IF s \in NeedsRelease THEN "health-check" ELSE "none"

StepNotFailed ==
    LET a == op[sched.op].action  s == StepAfter(sched.step, a) IN
    /\ sched.pc = "poll" /\ task[CurrentKey] \in {"succeeded", "cancelled"}
    /\ sched' =
          IF s # "none" THEN [sched EXCEPT !.pc = "step", !.step = s]
          ELSE IF a \in NeedsRelease THEN [sched EXCEPT !.pc = "probe"]
          ELSE [sched EXCEPT !.pc = "mark", !.mark = "succeeded"]
    /\ UNCHANGED <<rows, tasks, made, req, world, continued>>

(* pollTask sees the task succeeded.                                       *)
StepSucceeded ==
    LET a == op[sched.op].action  s == StepAfter(sched.step, a) IN
    /\ sched.pc = "poll" /\ task[CurrentKey] = "succeeded"
    /\ sched' =
          IF s # "none" THEN [sched EXCEPT !.pc = "step", !.step = s]
          ELSE IF a \in NeedsRelease THEN [sched EXCEPT !.pc = "probe"]
          ELSE [sched EXCEPT !.pc = "mark", !.mark = "succeeded"]
    /\ UNCHANGED <<rows, tasks, made, req, world, continued>>

BackupIsOptional ==
    /\ sched.pc = "poll" /\ task[CurrentKey] \in {"failed", "cancelled"}
    /\ sched' = IF sched.step = "backup" THEN [sched EXCEPT !.pc = "step", !.step = "update"]
                ELSE [sched EXCEPT !.pc = "reread"]
    /\ UNCHANGED <<rows, tasks, made, req, world, continued>>

(* pollTask sees the task failed or cancelled.                             *)
StepFailed ==
    /\ sched.pc = "poll" /\ task[CurrentKey] \in {"failed", "cancelled"}
    /\ sched' = [sched EXCEPT !.pc = "reread"]
    /\ UNCHANGED <<rows, tasks, made, req, world, continued>>

PollForever == FALSE /\ UNCHANGED vars

(* The deadline of pollTask: an infrastructure error, the task stays open. *)
StepTimeout ==
    /\ "timeout" \in Faults
    /\ sched.pc = "poll" /\ task[CurrentKey] = "live"
    /\ sched' = [sched EXCEPT !.pc = "mark", !.mark = "failed"]
    /\ UNCHANGED <<rows, tasks, made, req, world, continued>>

(* A failed health check of an update asks for a rollback.                 *)
HealthFailed == sched.step = "health-check" /\ op[sched.op].action = "update"

(* After a failed step the operation is read again.                        *)
Reread ==
    /\ sched.pc = "reread"
    /\ sched' =
          IF op[sched.op].status = "cancelled"
          THEN [sched EXCEPT !.pc = "mark", !.mark = "cancelled"]
          ELSE [sched EXCEPT !.pc = "mark", !.mark = "failed",
                             !.rollback = IF HealthFailed THEN sched.target ELSE None]
    /\ UNCHANGED <<rows, tasks, made, req, world, continued>>

(* controlPlaneHealthCheck: an HTTP request to the node                    *)
Probe ==
    /\ sched.pc = "probe"
    /\ \/ sched' = [sched EXCEPT !.pc = "mark", !.mark = "succeeded"]
       \/ sched' = [sched EXCEPT !.pc = "mark", !.mark = "failed",
                                 !.rollback = IF HealthFailed THEN sched.target ELSE None]
    /\ UNCHANGED <<rows, tasks, made, req, world, continued>>

TargetLeft == [sched EXCEPT !.target = None, !.step = "none", !.mark = "none"]

MarkAndGoOn ==
    LET m == sched.mark  left == TargetLeft IN
    /\ sched.pc = "mark"
    /\ opTarget' = [opTarget EXCEPT ![sched.op][sched.target] = m]
    /\ sched' = [left EXCEPT !.pc = IF m = "succeeded" THEN "read" ELSE "next",
                             !.target = IF m = "succeeded" THEN sched.target ELSE None,
                              !.succeeded = @ \/ m \in {"succeeded", "skipped"},
                              !.cancelled = @ \/ m = "cancelled",
                              !.failed = @ \/ m = "failed"]
    /\ UNCHANGED <<op, target, tasks, made, req, world, continued>>

(* succeedTarget, skipTarget, failTarget, cancelTarget: the target's row   *)
(* in the operation is written, unconditionally, and the loop goes on or   *)
(* is left.                                                                *)
MarkTarget ==
    LET m == sched.mark  left == TargetLeft IN
    /\ sched.pc = "mark"
    /\ opTarget' = [opTarget EXCEPT ![sched.op][sched.target] = m]
    /\ sched' = CASE m = "succeeded" -> [left EXCEPT !.pc = "read", !.succeeded = TRUE,
                                                      !.target = sched.target]
                  [] m = "skipped" -> [left EXCEPT !.pc = "next", !.succeeded = TRUE]
                  [] m = "cancelled" -> [left EXCEPT !.pc = "next", !.cancelled = TRUE]
                  [] m = "failed" -> [left EXCEPT !.pc = IF sched.rollback = None
                                                         THEN "final" ELSE "healthy",
                                                  !.failed = TRUE, !.todo = {}]
    /\ UNCHANGED <<op, target, tasks, made, req, world, continued>>

ReadTarget ==
    /\ sched.pc = "read"
    /\ sched' = [sched EXCEPT !.pc = "record", !.row = target[sched.target]]
    /\ UNCHANGED <<rows, tasks, made, req, world, continued>>

(* The release an automatic rollback would go to; without one there is     *)
(* none.                                                                   *)
ReadLastHealthy ==
    LET rel == target[sched.rollback].lastHealthy IN
    /\ sched.pc = "healthy"
    /\ sched' = [sched EXCEPT !.pc = "final", !.release = rel,
                              !.rollback = IF rel = None THEN None ELSE @]
    /\ UNCHANGED <<rows, tasks, made, req, world, continued>>

Recorded(row, a, rel) ==
    [row EXCEPT !.current = IF a \in NeedsRelease THEN rel ELSE @,
                !.lastHealthy = IF a \in {"install", "update"} THEN rel ELSE @]

(* UpdateDeploymentTarget writes all columns.                              *)
RecordTarget ==
    LET o == op[sched.op] IN
    /\ sched.pc = "record"
    /\ target' = [target EXCEPT ![sched.target] = Recorded(sched.row, o.action, o.release)]
    /\ sched' = [sched EXCEPT !.pc = "next", !.row = None, !.target = None]
    /\ UNCHANGED <<op, opTarget, tasks, made, req, world, continued>>

-----------------------------------------------------------------------------
(* The end of executeOperation                                             *)

FinalUnset(current) ==
    IF current = "cancelled" \/ sched.cancelled THEN "cancelled"
    ELSE IF sched.failed THEN IF sched.succeeded THEN "" ELSE "failed"
    ELSE "succeeded"

FinalAnySuccess(current) ==
    IF current = "cancelled" \/ sched.cancelled THEN "cancelled"
    ELSE IF sched.succeeded THEN "succeeded" ELSE "failed"

(* current is the operation's status as it was read again.                 *)
FinalStatus(current) ==
    IF current = "cancelled" \/ sched.cancelled THEN "cancelled"
    ELSE IF sched.failed THEN IF sched.succeeded THEN "partial_failed" ELSE "failed"
    ELSE "succeeded"

Finalize ==
    /\ sched.pc = "final"
    /\ sched' = [sched EXCEPT !.pc = "finish", !.final = FinalStatus(op[sched.op].status)]
    /\ UNCHANGED <<rows, tasks, made, req, world, continued>>

(* finishOperation: unconditional                                          *)
FinishOperation ==
    /\ sched.pc = "finish"
    /\ op' = [op EXCEPT ![sched.op].status = sched.final]
    /\ sched' = IF sched.rollback = None THEN NoSched
                ELSE [sched EXCEPT !.pc = "rollback"]
    /\ UNCHANGED <<opTarget, target, tasks, made, req, world, continued>>

(* triggerAutoRollback: a rollback to the last healthy release, for        *)
(* features without backups that can be rolled back.  CreateOperation may  *)
(* refuse it.                                                              *)
TriggerAutoRollback ==
    LET f == op[sched.op].feature IN
    /\ sched.pc = "rollback"
    /\ \/ /\ f \notin BackedUp /\ f \in CanRollBack
          /\ CreateCheck("scheduler", "rollback", {sched.rollback}, sched.release)
          /\ sched' = [sched EXCEPT !.pc = "rolling"]
       \/ /\ f \in BackedUp /\ opTarget[sched.op][sched.rollback] = "failed"
          /\ sched' = [sched EXCEPT !.pc = "note"]
          /\ UNCHANGED <<rows, tasks, made, req, world, continued>>
       \/ /\ f \notin BackedUp \/ opTarget[sched.op][sched.rollback] # "failed"
          /\ sched' = NoSched
          /\ UNCHANGED <<rows, tasks, made, req, world, continued>>

(* The row of the failed target, as it was read, gets a message: a human   *)
(* has to decide on the rollback.                                          *)
NoteManualRollbackDecision ==
    /\ sched.pc = "note"
    /\ opTarget' = [opTarget EXCEPT ![sched.op][sched.rollback] = "failed"]
    /\ sched' = NoSched
    /\ UNCHANGED <<op, target, tasks, made, req, world, continued>>

-----------------------------------------------------------------------------
(* The agent (TaskDispatch and Executor)                                   *)

(* The command of a deploying step makes its release active.               *)
Effect(k) ==
    /\ ran' = ran \cup {k}
    /\ node' = IF k[3] \in NeedsRelease
               THEN [node EXCEPT ![k[2]] = op[k[1]].release] ELSE node

(* The agent runs the task and reports its end.  A deployment that fails   *)
(* may have changed the active release.                                    *)
TaskEnds(k) ==
    /\ task[k] = "live"
    /\ \/ Effect(k) /\ task' = [task EXCEPT ![k] = "succeeded"]
       \/ k[3] \in NeedsRelease /\ Effect(k) /\ task' = [task EXCEPT ![k] = "failed"]
       \/ UNCHANGED world /\ task' = [task EXCEPT ![k] = "failed"]
    /\ UNCHANGED <<rows, linked, made, sched, req, continued>>

(* A task that was handed out before it was cancelled has its effect.      *)
CancelledRuns(k) ==
    /\ task[k] = "cancelled" /\ k \notin ran /\ k[3] \in NeedsRelease
    /\ Effect(k)
    /\ UNCHANGED <<rows, tasks, made, sched, req, continued>>

(* The control plane stops and starts again.  Nothing resumes an operation *)
(* that was running.                                                       *)
Restart ==
    /\ "restart" \in Faults
    /\ sched' = NoSched
    /\ req' = [r \in Caller |-> NoReq]
    /\ UNCHANGED <<rows, tasks, made, world, continued>>

-----------------------------------------------------------------------------
Scheduler ==
    \/ ClaimQueuedDeploymentOperation \/ ListTargets \/ NextTarget \/ LoopEnds
    \/ BeginTarget \/ CreateTask \/ StepRefused \/ StepError \/ LinkTask
    \/ StepSucceeded \/ StepFailed \/ StepTimeout \/ Reread \/ Probe
    \/ MarkTarget \/ ReadTarget \/ RecordTarget \/ ReadLastHealthy
    \/ Finalize \/ FinishOperation \/ TriggerAutoRollback
    \/ NoteManualRollbackDecision
    \/ InsertBundle("scheduler")

Handler(r) ==
    \/ InsertBundle(r)
    \/ CancelWrite(r) \/ CancelListTargets(r) \/ CancelTarget(r) \/ CancelListSteps(r)
    \/ CancelReadTask(r) \/ CancelWriteTask(r) \/ CancelReturn(r)
    \/ ContinueListTargets(r) \/ ContinueWrite(r)
    \/ UpdateTargetWrite(r)

Request(r) ==
    \/ CreateOperation(r)
    \/ \E o \in Op : CancelRead(r, o) \/ ContinueRead(r, o)
    \/ \E t \in Target : UpdateTargetRead(r, t)

Agent == \E k \in Key : TaskEnds(k) \/ CancelledRuns(k)

Next == Scheduler \/ Agent \/ Restart \/ \E r \in Req : Handler(r) \/ Request(r)

Spec == Init /\ [][Next]_vars /\ WF_vars(Scheduler) /\ \A r \in Req : WF_vars(Handler(r))
-----------------------------------------------------------------------------
(* An operation shown as succeeded hides no target that failed or was      *)
(* never executed, also when cancellations and continuations of it are     *)
(* still in progress (a late CancelOperation may mark a target cancelled). *)
SucceededHidesNothing ==
    \A o \in Op : op[o].status = "succeeded" =>
        \A t \in TargetsOf(o) :
            \/ opTarget[o][t] \in {"skipped", "cancelled"}
            \/ opTarget[o][t] = "succeeded" /\ <<o, t, FirstStep(op[o].action, op[o].feature)>> \in ran

(* current_release_id names a release that the agent has really deployed   *)
(* on the target and whose health check it has run, whatever was           *)
(* cancelled, timed out or written back from a stale row.                  *)
RecordedWasDeployed ==
    \A t \in Target : target[t].current \notin {None, Deployed[t]} =>
        \E o \in Op :
            /\ op[o].release = target[t].current
            /\ op[o].action \in NeedsRelease
            /\ {<<o, t, op[o].action>>, <<o, t, "health-check">>} \subseteq ran

(* In production no task of an installation or an update exists before an  *)
(* administrator has confirmed the operation.                              *)
OnlyConfirmed ==
    Production => \A k \in Key :
        task[k] # "none" /\ op[k[1]].action \in NeedsConfirmation => k[1] \in continued

(* The lookup in CreateOperation races with other requests, and            *)
(* ContinueOperation has none: still a feature has one active operation.   *)
OneActivePerFeature ==
    \A o, p \in Op :
        /\ op[o].status \in Active /\ op[p].status \in Active
        /\ op[o].feature = op[p].feature
        => o = p

(* The data of a feature with backups is saved before its update runs.     *)
BackupBeforeUpdate ==
    \A o \in Op, t \in Target :
        /\ op[o].feature \in BackedUp
        /\ task[<<o, t, "update">>] # "none"
        => <<o, t, "backup">> \in ran

(* What has to come before a task has come: the confirmation, and for an   *)
(* update the backup.                                                      *)
TasksInOrder == OnlyConfirmed /\ BackupBeforeUpdate

Created(k) == task[k] = "none" /\ task'[k] # "none"

(* The scheduler stops on failure: once a target has failed, no task is    *)
(* created for another one until somebody continues the operation.         *)
FailureStops ==
    [][\A k \in Key : Created(k) =>
          \A t \in Target : opTarget[k[1]][t] = "failed" => k[1] \in continued]_vars

Life == INSTANCE OperationLife WITH
            result <- opTarget, approved <- continued,
            current <- [t \in Target |-> target[t].current]

(* Scheduler and handlers, which write back rows that the others have      *)
(* changed since they were read, and the agent implement module            *)
(* OperationLife: what is begun on a target, in which order, and what is   *)
(* shown of it is what an operation may do by itself.                      *)
ImplementsLife == Life!LifeSpec

(* As long as the control plane is not restarted, every operation that was *)
(* queued comes to its end, though the agent may never answer.             *)
OperationEnds ==
    "restart" \notin Faults =>
        \A o \in Op : op[o].status \in {"queued", "running"} ~> op[o].status \in OpDone

(* When the rollback of a failed update is shown as succeeded, the node    *)
(* has the last healthy release again.                                     *)
RollbackRestores ==
    [][\A o \in Op :
          /\ op[o].action = "rollback" /\ op[o].status # "succeeded"
          /\ op'[o].status = "succeeded"
          => \A t \in TargetsOf(o) : node[t] = op[o].release]_vars
=============================================================================
