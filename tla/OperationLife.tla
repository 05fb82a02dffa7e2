---------------------------- MODULE OperationLife ----------------------------
(***************************************************************************)
(* What deployment operations promise, without a scheduler, handlers and   *)
(* rows that are written back late: what is begun on a target and in which *)
(* order, what may be shown of it, and what an administrator has to agree  *)
(* to.  Deployment implements this module.                                 *)
(***************************************************************************)
CONSTANTS
    Op, Target, Feature, Release,
    Step,        \* names of the tasks of a target
    NodeOf,      \* of a target
    Deployed,    \* the release a target has at the beginning, or None
    BackedUp,    \* features whose backup_mode is not "none"
    Production,
    None

VARIABLES
    op,        \* what is shown of each operation: status, action, feature, release
    result,    \* what is shown of each target in each operation
    current,   \* the release recorded for each target
    task,      \* the state of each task <<operation, target, step>>
    ran,       \* the tasks whose command was run
    approved   \* the operations somebody has confirmed or continued

lifeVars == <<op, result, current, task, ran, approved>>

Kinds == {"install", "update", "rollback", "backup", "health_check"}
Deploying == {"install", "update", "rollback"}
Unattended == {"queued", "awaiting_confirmation"}

(* The tasks of a target: a deployment is followed by a health check, an   *)
(* update of a feature with backups begins with one.                       *)
StepsOf(o) ==
    LET a == op[o].action IN
    IF a = "health_check" THEN {"health-check"}
    ELSE {a} \cup (IF a \in Deploying THEN {"health-check"} ELSE {})
             \cup (IF a = "update" /\ op[o].feature \in BackedUp THEN {"backup"} ELSE {})

(* What has to have been run before a task is begun.                       *)
Before(o, step) ==
    IF step = "health-check" THEN StepsOf(o) \ {"health-check"}
    ELSE IF step = "update" THEN StepsOf(o) \cap {"backup"} ELSE {}

Agreed(o) == Production /\ op[o].action \in {"install", "update"} => o \in approved

(* Somebody may be executing the operation.                                *)
Executing(o) ==
    /\ op[o].status \notin {"absent", "succeeded"}
    /\ op[o].status \in Unattended => o \in approved

NobodyElse(o, feature) ==
    \A p \in Op : p # o /\ op[p].feature = feature =>
        op[p].status \notin {"queued", "running", "awaiting_confirmation"}

LifeInit ==
    /\ op = [o \in Op |-> [status |-> "absent", action |-> "none", feature |-> None,
                           release |-> None]]
    /\ result = [o \in Op |-> [t \in Target |-> "none"]]
    /\ current = Deployed
    /\ task = [k \in Op \X Target \X Step |-> "none"]
    /\ ran = {}
    /\ approved = {}

(* A new operation waits for its confirmation if it needs one.  Its        *)
(* feature has no other, and its nodes are not waiting for another.        *)
Insert(o) ==
    /\ op[o].status = "absent"
    /\ \E ts \in (SUBSET Target) \ {{}} :
          /\ result' = [result EXCEPT ![o] =
                           [t \in Target |-> IF t \in ts THEN "queued" ELSE "none"]]
          /\ \A p \in Op, t \in Target, u \in ts :
                 NodeOf[t] = NodeOf[u] => result[p][t] # "queued"
    /\ \E a \in Kinds, f \in Feature, rel \in Release \cup {None} :
          /\ NobodyElse(o, f)
          /\ op' = [op EXCEPT ![o] =
                [status |-> IF Production /\ a \in {"install", "update"}
                            THEN "awaiting_confirmation" ELSE "queued",
                 action |-> a, feature |-> f, release |-> rel]]
    /\ UNCHANGED <<current, task, ran, approved>>

SetStatus(o, status) ==
    /\ op' = [op EXCEPT ![o].status = status]
    /\ UNCHANGED <<result, current, task, ran>>

Claim(o) ==
    /\ op[o].status = "queued" /\ Agreed(o)
    /\ SetStatus(o, "running") /\ UNCHANGED approved

(* Confirmation and continuation, which may be late, put an operation back *)
(* into the queue, but beside no other of its feature.                     *)
Continue(o) ==
    /\ op[o].status # "absent" /\ NobodyElse(o, op[o].feature)
    /\ SetStatus(o, "queued") /\ approved' = approved \cup {o}

(* A cancellation, and the end of an execution, may be late too.  Success  *)
(* is only shown if no target has failed or is still to come.              *)
Cancel(o) ==
    /\ op[o].status # "absent"
    /\ SetStatus(o, "cancelled") /\ UNCHANGED approved

Finish(o) ==
    /\ Executing(o)
    /\ \E outcome \in {"succeeded", "failed", "partial_failed", "cancelled"} :
          /\ SetStatus(o, outcome)
          /\ outcome = "succeeded" =>
                 \A t \in Target : result[o][t] \in {"none", "skipped", "cancelled", "succeeded"}
    /\ UNCHANGED approved

(* A target of the operation has come to its end; only a cancellation may  *)
(* say so when nobody is executing it, and it has only succeeded if every  *)
(* task of it was run.                                                     *)
Mark(o, t) ==
    /\ result[o][t] # "none"
    /\ \E outcome \in {"succeeded", "failed", "skipped", "cancelled"} :
          /\ result' = [result EXCEPT ![o][t] = outcome]
          /\ outcome # "cancelled" => Executing(o)
          /\ outcome = "succeeded" => \A step \in StepsOf(o) : <<o, t, step>> \in ran
    /\ UNCHANGED <<op, current, task, ran, approved>>

(* The recorded release may be an old one, but one that was deployed on    *)
(* the target and looked after.                                            *)
Record(t) ==
    /\ \E rel \in Release \cup {None} :
          /\ current' = [current EXCEPT ![t] = rel]
          /\ rel \notin {None, Deployed[t]} =>
                 \E o \in Op : /\ op[o].release = rel /\ op[o].action \in Deploying
                               /\ {<<o, t, op[o].action>>, <<o, t, "health-check">>} \subseteq ran
    /\ UNCHANGED <<op, result, task, ran, approved>>

(* A task is only begun for a target of an operation that may be executed, *)
(* once, in order, and not behind a failed target unless somebody agreed.  *)
Begin(k) ==
    LET o == k[1]  t == k[2]  step == k[3] IN
    /\ task[k] = "none"
    /\ Executing(o) /\ Agreed(o)
    /\ result[o][t] # "none" /\ step \in StepsOf(o)
    /\ \A s \in Before(o, step) : <<o, t, s>> \in ran
    /\ (\E u \in Target : result[o][u] = "failed") => o \in approved
    /\ task' = [task EXCEPT ![k] = "live"]
    /\ UNCHANGED <<op, result, current, ran, approved>>

(* A task that is shown as succeeded was run; one that failed may have     *)
(* been, and one that was cancelled may still be.                          *)
End(k) ==
    /\ task[k] = "live"
    /\ \E outcome \in {"succeeded", "failed"} :
          /\ task' = [task EXCEPT ![k] = outcome]
          /\ outcome = "succeeded" => k \in ran'
    /\ ran' \in {ran, ran \cup {k}}
    /\ UNCHANGED <<op, result, current, approved>>

Withdraw(k) ==
    /\ task[k] # "none"
    /\ task' = [task EXCEPT ![k] = "cancelled"]
    /\ UNCHANGED <<op, result, current, ran, approved>>

RunLate(k) ==
    /\ task[k] = "cancelled"
    /\ ran' = ran \cup {k}
    /\ UNCHANGED <<op, result, current, task, approved>>

LifeNext ==
    \/ \E o \in Op : \/ Insert(o) \/ Claim(o) \/ Continue(o) \/ Cancel(o) \/ Finish(o)
                     \/ \E t \in Target : Mark(o, t)
    \/ \E t \in Target : Record(t)
    \/ \E k \in DOMAIN task : Begin(k) \/ End(k) \/ Withdraw(k) \/ RunLate(k)

LifeSpec == LifeInit /\ [][LifeNext]_lifeVars
=============================================================================
