-------------------------- MODULE DeploymentProofs --------------------------
(***************************************************************************)
(* What Deployment.tla guarantees for any features, nodes, targets and     *)
(* releases, any number of requests at once, any requested actions and     *)
(* any faults.                                                             *)
(*                                                                         *)
(* The scheduler and the handlers write rows that the others have changed  *)
(* since they read them.  The invariant therefore says of the scheduler,   *)
(* and of each handler, what still holds of the operation it has in hand   *)
(* at each of its steps.                                                   *)
(***************************************************************************)
EXTENDS Deployment, TLAPS

(* The steps of executeOperation before it is left or finished ...         *)
InLoop == {"list", "next", "target", "step", "link", "poll", "reread", "probe", "mark", "read",
           "record"}
(* ... those with a target in hand, and those at a task of it.             *)
AtTarget == {"target", "step", "link", "poll", "reread", "probe", "mark", "read", "record"}
AtStep == {"step", "link", "poll"}
AfterFailure == {"healthy", "final", "finish", "rollback", "rolling", "note"}
Handling == {"cancel", "targets", "target", "tasks", "task", "continue", "requeue"}

TargetStatus == TargetDone \cup {"none", "queued"}
TaskStatus == {"none", "live", "succeeded", "failed", "cancelled"}

SchedRec == [pc : InLoop \cup AfterFailure \cup {"idle"}, op : 0..MaxOp, todo : SUBSET Target,
             target : Target \cup {None}, step : Step \cup {"none"},
             mark : TargetDone \cup {"none"},
             row : TargetRow \cup {None}, final : OpDone \cup {"none"},
             rollback : Target \cup {None}, release : Release \cup {None},
             succeeded : BOOLEAN, failed : BOOLEAN, cancelled : BOOLEAN]
ReqRec == [pc : Handling \cup {"idle", "insert", "edit"}, op : 0..MaxOp,
           todo : SUBSET (Target \cup Key), new : OpRow, target : Target \cup Key \cup {None},
           row : TargetRow \cup {None}]

ShapesOK ==
    /\ op \in [Op -> OpRow]
    /\ opTarget \in [Op -> [Target -> TargetStatus]]
    /\ target \in [Target -> TargetRow]
    /\ task \in [Key -> TaskStatus]
    /\ linked \subseteq Key /\ ran \subseteq Key /\ continued \subseteq Op
    /\ made \in 0..MaxOp
    /\ sched \in SchedRec
    /\ req \in [Caller -> ReqRec]
    /\ node \in [Target -> Release \cup {None}]

-----------------------------------------------------------------------------
FirstKey(o, t) == <<o, t, FirstStep(op[o].action, op[o].feature)>>

(* All the tasks that count have been run.                                 *)
Through(o, t) ==
    /\ FirstKey(o, t) \in ran
    /\ op[o].action \in NeedsRelease =>
          <<o, t, op[o].action>> \in ran /\ <<o, t, "health-check">> \in ran

Confirmed(o) == Production /\ op[o].action \in NeedsConfirmation => o \in continued

WasDeployed(t, rel) ==
    rel \notin {None, Deployed[t]} =>
        \E o \in Op :
            /\ op[o].release = rel
            /\ op[o].action \in NeedsRelease
            /\ {<<o, t, op[o].action>>, <<o, t, "health-check">>} \subseteq ran

Settled(o, t) == opTarget[o][t] \in {"none", "skipped", "cancelled", "succeeded"}
Unfailed(o) == \A t \in Target : opTarget[o][t] # "failed"

(* The rows of an operation: nothing of it exists before it is inserted,   *)
(* it is confirmed before it is queued, it has no failed target before it  *)
(* has run, unless it was continued.                                       *)
OperationsOK ==
    \A o \in Op :
        /\ op[o].status = "absent" =>
               op[o] = NoOp /\ (\A t \in Target : opTarget[o][t] = "none")
                            /\ (\A k \in Key : k[1] = o => task[k] = "none")
        /\ op[o].status # "absent" => op[o].action # "none"
        /\ op[o].status = "queued" => Confirmed(o)
        /\ op[o].status \in {"queued", "awaiting_confirmation"} /\ o \notin continued => Unfailed(o)
        /\ op[o].status = "succeeded" => \A t \in Target : Settled(o, t)
        /\ o > made => op[o].status = "absent"

(* What the tasks that exist, that ran, and that succeeded say.            *)
TasksOK ==
    /\ \A k \in Key : /\ task[k] = "succeeded" => k \in ran
                      /\ k \in ran => task[k] # "none"
                      /\ task[k] # "none" => Confirmed(k[1])
    /\ \A o \in Op, t \in Target : opTarget[o][t] = "succeeded" => FirstKey(o, t) \in ran

(* A handler with the fields q.                                            *)
RequestFits(q) ==
    /\ q.pc = "insert" => /\ q.op \in Op /\ q.op <= made /\ op[q.op].status = "absent"
                          /\ q.todo \subseteq Target
                          /\ q.new.status = InitialStatus(q.new.action)
                          /\ q.new.action # "none"
    /\ q.pc \in Handling => q.op \in Op /\ op[q.op].status # "absent"
    /\ q.pc = "target" => q.todo \subseteq Target
    /\ q.pc \in {"tasks", "task"} => q.todo \subseteq Key
    /\ q.pc = "task" => q.target \in Key /\ task[q.target] # "none"
    /\ q.pc = "edit" => /\ q.target \in Target /\ q.row \in TargetRow
                        /\ WasDeployed(q.target, q.row.current)

(* No two callers are about to insert the same operation.                  *)
OneInsert ==
    \A r, s \in Caller :
        req[r].pc = "insert" /\ req[s].pc = "insert" /\ req[r].op = req[s].op => r = s

(* The scheduler with the fields s: what it knows of its operation, ...    *)
ClaimFits(s) ==
    s.pc # "idle" =>
        /\ s.op \in Op /\ op[s.op].status \notin {"absent", "succeeded"}
        /\ Confirmed(s.op)
        /\ op[s.op].status \in {"queued", "awaiting_confirmation"} => s.op \in continued
        /\ s.pc \in InLoop /\ s.op \notin continued => Unfailed(s.op)

(* ... of the target it is at and of the tasks of it that have been run,   *)
StepFits(s) ==
    LET a == op[s.op].action IN
    /\ s.pc \in AtTarget => s.target \in Target
    /\ s.pc \in AtStep =>
           /\ s.step \in Step
           /\ FirstKey(s.op, s.target) \in ran \cup {<<s.op, s.target, s.step>>}
           /\ a \in NeedsRelease => s.step \in {"backup", a, "health-check"}
           /\ s.step = "backup" /\ a \in NeedsRelease => a = "update"
           /\ s.step = "update" /\ op[s.op].feature \in BackedUp =>
                  <<s.op, s.target, "backup">> \in ran
           /\ s.step = "health-check" /\ a \in NeedsRelease => <<s.op, s.target, a>> \in ran
    /\ s.pc = "mark" => s.mark # "none"
    /\ s.pc \in {"probe", "read", "record"} \/ (s.pc = "mark" /\ s.mark = "succeeded") =>
           Through(s.op, s.target)
    /\ s.pc = "record" => s.row \in TargetRow /\ WasDeployed(s.target, s.row.current)

(* ... and of the outcome: as long as nothing has failed every target is   *)
(* settled, still to come, or in hand.                                     *)
OutcomeFits(s) ==
    /\ s.pc \in {"next", "final"} \cup AtTarget /\ ~s.failed =>
           \A t \in Target : \/ Settled(s.op, t)
                             \/ s.pc # "final" /\ t \in s.todo
                             \/ s.pc \in AtTarget /\ t = s.target
    /\ s.pc \in {"read", "record"} => Settled(s.op, s.target)
    /\ s.pc = "finish" => s.final # "none"
    /\ s.pc = "finish" /\ s.final = "succeeded" => ~s.failed /\ \A t \in Target : Settled(s.op, t)
    /\ s.rollback # None =>
           (s.pc = "mark" /\ s.mark = "failed") \/ (s.pc \in AfterFailure /\ s.failed)
    /\ s.pc \in {"healthy", "rollback", "rolling", "note"} => s.rollback # None

SchedFits(s) == ClaimFits(s) /\ (s.pc # "idle" => StepFits(s) /\ OutcomeFits(s))

IInv ==
    /\ ShapesOK
    /\ OperationsOK
    /\ TasksOK
    /\ \A r \in Caller : RequestFits(req[r])
    /\ OneInsert
    /\ SchedFits(sched)
    /\ OneActivePerFeature
    /\ RecordedWasDeployed
    /\ BackupBeforeUpdate

-----------------------------------------------------------------------------
(* What is never undone: an operation stays what it was inserted as, tasks *)
(* stay, what was run was run and what was continued was continued.        *)
Grows ==
    /\ \A o \in Op : op[o].status # "absent" =>
           /\ op'[o].status # "absent"
           /\ op'[o].action = op[o].action
           /\ op'[o].feature = op[o].feature
           /\ op'[o].release = op[o].release
    /\ ran \subseteq ran'
    /\ continued \subseteq continued'
    /\ \A k \in Key : task[k] # "none" => task'[k] # "none"

(* What was said of a target of an operation holds on while the rows grow. *)
LEMMA FirstKept ==
    ASSUME Grows, NEW o \in Op, NEW t \in Target, op[o].status # "absent"
    PROVE  /\ FirstKey(o, t)' = FirstKey(o, t)
           /\ Through(o, t) => Through(o, t)'
           /\ Confirmed(o) => Confirmed(o)'
  <1>1. op'[o].action = op[o].action /\ op'[o].feature = op[o].feature
    BY DEF Grows
  <1>2. FirstKey(o, t)' = FirstKey(o, t)
    BY <1>1 DEF FirstKey, FirstStep
  <1>3. ran \subseteq ran' /\ continued \subseteq continued'
    BY DEF Grows
  <1> QED
    BY <1>1, <1>2, <1>3 DEF Through, Confirmed

(* A release that was deployed on a target stays one that was.             *)
LEMMA DeployedKept ==
    ASSUME OperationsOK, Grows, NEW t, NEW rel, WasDeployed(t, rel)
    PROVE  WasDeployed(t, rel)'
  <1> SUFFICES ASSUME rel \notin {None, Deployed[t]}
               PROVE  WasDeployed(t, rel)'
    BY DEF WasDeployed
  <1>1. PICK o \in Op : /\ op[o].release = rel /\ op[o].action \in NeedsRelease
                        /\ {<<o, t, op[o].action>>, <<o, t, "health-check">>} \subseteq ran
    BY DEF WasDeployed
  <1>2. op[o].status # "absent"
    BY <1>1 DEF OperationsOK, NoOp, NeedsRelease
  <1>3. /\ op'[o].release = rel /\ op'[o].action = op[o].action
        /\ {<<o, t, op'[o].action>>, <<o, t, "health-check">>} \subseteq ran'
    BY <1>1, <1>2 DEF Grows
  <1> QED
    BY <1>1, <1>3 DEF WasDeployed

(* A handler's part holds on while the rows grow, but for what is said of  *)
(* the operation it is about to insert.                                    *)
LEMMA RequestKept ==
    ASSUME OperationsOK, Grows, NEW q \in ReqRec, RequestFits(q),
           q.pc = "insert" => op'[q.op].status = "absent" /\ q.op <= made'
    PROVE  RequestFits(q)'
  <1>1. q.pc = "edit" => WasDeployed(q.target, q.row.current)'
    BY DeployedKept DEF RequestFits
  <1>2. q.pc \in Handling => q.op \in Op /\ op'[q.op].status # "absent"
    BY DEF RequestFits, Grows
  <1>3. q.pc = "task" => q.target \in Key /\ task'[q.target] # "none"
    BY DEF RequestFits, Grows
  <1> QED
    BY <1>1, <1>2, <1>3 DEF RequestFits

(* So does the scheduler's part, if its operation is not queued behind its *)
(* back, and no target of it is unsettled or fails.                        *)
LEMMA ClaimKept ==
    ASSUME Grows, NEW s \in SchedRec, ClaimFits(s),
           s.pc # "idle" => /\ op'[s.op].status # "succeeded"
                            /\ op'[s.op].status \in {"queued", "awaiting_confirmation"} =>
                                   op'[s.op].status = op[s.op].status \/ s.op \in continued'
                            /\ s.pc \in InLoop => (Unfailed(s.op) => Unfailed(s.op)')
    PROVE  ClaimFits(s)'
  <1> SUFFICES ASSUME s.pc # "idle"
               PROVE  ClaimFits(s)'
    BY DEF ClaimFits
  <1>1. s.op \in Op /\ op[s.op].status # "absent" /\ op'[s.op].status # "absent"
    BY DEF ClaimFits, Grows
  <1>2. Confirmed(s.op)'
    BY <1>1 DEF ClaimFits, Confirmed, Grows
  <1>3. continued \subseteq continued'
    BY DEF Grows
  <1> QED
    BY <1>1, <1>2, <1>3 DEF ClaimFits

(* The scheduler's place in the operation depends on nothing that is ever  *)
(* undone.                                                                 *)
LEMMA StepKept ==
    ASSUME OperationsOK, Grows, NEW s \in SchedRec, StepFits(s),
           s.op \in Op, op[s.op].status # "absent"
    PROVE  StepFits(s)'
  <1>1. op'[s.op].action = op[s.op].action /\ op'[s.op].feature = op[s.op].feature
        /\ ran \subseteq ran'
    BY DEF Grows
  <1>2. s.pc \in AtTarget => s.target \in Target
    BY DEF StepFits
  <1>3. s.pc \in AtTarget => /\ FirstKey(s.op, s.target)' = FirstKey(s.op, s.target)
                             /\ Through(s.op, s.target) => Through(s.op, s.target)'
    BY <1>2, FirstKept
  <1>4. s.pc = "record" => s.row \in TargetRow /\ WasDeployed(s.target, s.row.current)'
    BY DeployedKept DEF StepFits
  <1>5. ASSUME s.pc \in AtStep
        PROVE  /\ s.step \in Step
               /\ FirstKey(s.op, s.target)' \in ran' \cup {<<s.op, s.target, s.step>>}
               /\ op'[s.op].action \in NeedsRelease =>
                      s.step \in {"backup", op'[s.op].action, "health-check"}
               /\ s.step = "backup" /\ op'[s.op].action \in NeedsRelease =>
                      op'[s.op].action = "update"
               /\ s.step = "update" /\ op'[s.op].feature \in BackedUp =>
                      <<s.op, s.target, "backup">> \in ran'
               /\ s.step = "health-check" /\ op'[s.op].action \in NeedsRelease =>
                      <<s.op, s.target, op'[s.op].action>> \in ran'
    <2>1. s.pc \in AtTarget
      BY <1>5 DEF AtStep, AtTarget
    <2> QED
      BY <1>1, <1>3, <1>5, <2>1 DEF StepFits
  <1>6. s.pc \in {"probe", "read", "record"} \/ (s.pc = "mark" /\ s.mark = "succeeded") =>
            Through(s.op, s.target)'
    BY <1>3 DEF StepFits, AtTarget
  <1>7. s.pc = "mark" => s.mark # "none"
    BY DEF StepFits
  <1> QED
    BY <1>2, <1>4, <1>5, <1>6, <1>7 DEF StepFits

(* The outcome so far holds as long as settled targets stay settled.       *)
LEMMA OutcomeKept ==
    ASSUME NEW s \in SchedRec, OutcomeFits(s),
           \A t \in Target : Settled(s.op, t) => Settled(s.op, t)',
           StepFits(s)
    PROVE  OutcomeFits(s)'
  <1>1. s.pc \in AtTarget => s.target \in Target
    BY DEF StepFits
  <1> QED
    BY <1>1 DEF OutcomeFits, AtTarget

(* Together: another's step, which the scheduler does not see.             *)
LEMMA SchedKept ==
    ASSUME IInv, Grows, UNCHANGED sched,
           sched.pc # "idle" =>
               /\ op'[sched.op].status # "succeeded"
               /\ op'[sched.op].status \in {"queued", "awaiting_confirmation"} =>
                      op'[sched.op].status = op[sched.op].status \/ sched.op \in continued'
               /\ sched.pc \in InLoop => (Unfailed(sched.op) => Unfailed(sched.op)')
               /\ \A t \in Target : Settled(sched.op, t) => Settled(sched.op, t)'
    PROVE  SchedFits(sched)'
  <1>1. PICK s \in SchedRec : s = sched /\ s = sched'
    BY DEF IInv, ShapesOK
  <1>2. SchedFits(s)
    BY <1>1 DEF IInv
  <1>3. SchedFits(s)'
    <2>1. CASE s.pc = "idle"
      BY <2>1 DEF SchedFits, ClaimFits
    <2>2. CASE s.pc # "idle"
      <3>1. s.op \in Op /\ op[s.op].status # "absent" /\ OperationsOK
        BY <1>2, <2>2 DEF SchedFits, ClaimFits, IInv
      <3>2. ClaimFits(s)'
        BY <1>1, <1>2, <2>2, ClaimKept DEF SchedFits
      <3>3. StepFits(s)'
        BY <1>2, <2>2, <3>1, StepKept DEF SchedFits
      <3>4. OutcomeFits(s)'
        BY <1>1, <1>2, <2>2, OutcomeKept DEF SchedFits
      <3> QED
        BY <3>2, <3>3, <3>4 DEF SchedFits
    <2> QED
      BY <2>1, <2>2
  <1> QED
    BY <1>1, <1>3

(* A step of the scheduler that writes nothing.                            *)
LEMMA SchedStep ==
    ASSUME IInv, NEW s \in SchedRec, sched' = s, SchedFits(s),
           UNCHANGED <<rows, tasks, made, req, world, continued>>
    PROVE  IInv'
  <1>1. /\ UNCHANGED <<op, opTarget, target, task, linked, made, req, node, ran, continued>>
        /\ sched' = s
    BY DEF rows, tasks, world
  <1>2. ShapesOK' /\ OperationsOK' /\ TasksOK'
    BY <1>1 DEF IInv, ShapesOK, OperationsOK, TasksOK, Confirmed, Unfailed, Settled, FirstKey
  <1>3. (\A r \in Caller : RequestFits(req[r]))' /\ OneInsert'
    BY <1>1 DEF IInv, RequestFits, OneInsert, WasDeployed
  <1>4. SchedFits(sched)'
    BY <1>1 DEF SchedFits, ClaimFits, StepFits, OutcomeFits, Confirmed, Unfailed, Settled,
                FirstKey, Through, WasDeployed
  <1>5. OneActivePerFeature' /\ RecordedWasDeployed' /\ BackupBeforeUpdate'
    BY <1>1 DEF IInv, OneActivePerFeature, RecordedWasDeployed, BackupBeforeUpdate
  <1> QED
    BY <1>2, <1>3, <1>4, <1>5 DEF IInv

(* A step of a handler that writes nothing.                                *)
LEMMA RequestStep ==
    ASSUME IInv, NEW r \in Caller, NEW q \in ReqRec, req' = [req EXCEPT ![r] = q],
           RequestFits(q), q.pc # "insert",
           UNCHANGED <<rows, tasks, made, sched, world, continued>>
    PROVE  IInv'
  <1>1. UNCHANGED <<op, opTarget, target, task, linked, made, sched, node, ran, continued>>
    BY DEF rows, tasks, world
  <1>2. /\ req \in [Caller -> ReqRec] /\ req' \in [Caller -> ReqRec]
        /\ \A u \in Caller : req'[u] = IF u = r THEN q ELSE req[u]
    BY DEF IInv, ShapesOK
  <1>3. ShapesOK' /\ OperationsOK' /\ TasksOK'
    BY <1>1, <1>2 DEF IInv, ShapesOK, OperationsOK, TasksOK, Confirmed, Unfailed, Settled, FirstKey
  <1>4. (\A u \in Caller : RequestFits(req[u]))'
    <2>1. \A u \in Caller : RequestFits(req'[u])
      BY <1>2 DEF IInv
    <2>2. ASSUME NEW u \in Caller
          PROVE  RequestFits(req[u])'
      <3>1. RequestFits(req'[u])
        BY <2>1
      <3> QED
        BY <1>1, <3>1 DEF RequestFits, WasDeployed
    <2> QED
      BY <2>2
  <1>5. OneInsert'
    BY <1>2 DEF IInv, OneInsert
  <1>6. SchedFits(sched)'
    BY <1>1 DEF IInv, SchedFits, ClaimFits, StepFits, OutcomeFits, Confirmed, Unfailed, Settled,
                FirstKey, Through, WasDeployed
  <1>7. OneActivePerFeature' /\ RecordedWasDeployed' /\ BackupBeforeUpdate'
    BY <1>1 DEF IInv, OneActivePerFeature, RecordedWasDeployed, BackupBeforeUpdate
  <1> QED
    BY <1>3, <1>4, <1>5, <1>6, <1>7 DEF IInv

-----------------------------------------------------------------------------
(* The scheduler's steps that only read.                                   *)

(* Its operation's rows are listed: what is terminal counts as a failure   *)
(* unless it has succeeded.                                                *)
LEMMA Listing ==
    ASSUME IInv, ListTargets
    PROVE  IInv'
  <1> DEFINE todo == Pending(sched.op)
             some == \E t \in TargetsOf(sched.op) : opTarget[sched.op][t] = "succeeded"
             bad == \E t \in TargetsOf(sched.op) :
                        opTarget[sched.op][t] \in TargetDone \ {"succeeded"}
             s == [sched EXCEPT !.pc = "next", !.todo = todo, !.succeeded = some, !.failed = bad]
  <1>1. sched.pc = "list" /\ sched' = s /\ sched \in SchedRec /\ SchedFits(sched)
        /\ UNCHANGED <<rows, tasks, made, req, world, continued>>
    BY DEF ListTargets, IInv, ShapesOK
  <1>2. todo \subseteq Target /\ some \in BOOLEAN /\ bad \in BOOLEAN
    BY DEF Pending, TargetsOf
  <1>3. \A t \in Target : bad \/ Settled(sched.op, t) \/ t \in todo
    BY DEF Pending, TargetsOf, Settled, TargetDone, IInv, ShapesOK, TargetStatus
  <1> HIDE DEF todo, some, bad
  <1>4. s \in SchedRec
    <2>1. [sched EXCEPT !.pc = "next"] \in SchedRec
      BY <1>1 DEF SchedRec, InLoop
    <2>2. [sched EXCEPT !.pc = "next", !.todo = todo] \in SchedRec
      BY <1>2, <2>1 DEF SchedRec
    <2>3. [sched EXCEPT !.pc = "next", !.todo = todo, !.succeeded = some] \in SchedRec
      BY <1>2, <2>2 DEF SchedRec
    <2> QED
      BY <1>2, <2>3 DEF SchedRec
  <1>5. /\ s.pc = "next" /\ s.op = sched.op /\ s.todo = todo
        /\ s.rollback = sched.rollback /\ s.failed = bad
    BY <1>1 DEF SchedRec
  <1> HIDE DEF s
  <1>6. ClaimFits(s) /\ StepFits(s)
    BY <1>1, <1>5 DEF SchedFits, ClaimFits, StepFits, InLoop, AtTarget, AtStep
  <1>7. s.rollback = None
    BY <1>1, <1>5 DEF SchedFits, OutcomeFits, AfterFailure
  <1>8. OutcomeFits(s)
    BY <1>3, <1>5, <1>7 DEF OutcomeFits, AtTarget
  <1> QED
    BY <1>1, <1>4, <1>6, <1>8, SchedStep DEF SchedFits

(* The loop takes a target, or ends with none left.                        *)
LEMMA Looping ==
    ASSUME IInv, NextTarget \/ LoopEnds
    PROVE  IInv'
  <1>1. sched.pc = "next" /\ sched \in SchedRec /\ SchedFits(sched)
        /\ UNCHANGED <<rows, tasks, made, req, world, continued>>
    BY DEF NextTarget, LoopEnds, IInv, ShapesOK
  <1>2. CASE NextTarget
    <2>1. PICK t \in sched.todo :
              sched' = [sched EXCEPT !.pc = "target", !.target = t, !.todo = @ \ {t}]
      BY <1>2 DEF NextTarget
    <2> DEFINE s == [sched EXCEPT !.pc = "target", !.target = t, !.todo = @ \ {t}]
    <2>2. t \in Target
      BY <1>1 DEF SchedRec
    <2>3. /\ s \in SchedRec /\ s.pc = "target" /\ s.op = sched.op /\ s.todo = sched.todo \ {t}
          /\ s.rollback = sched.rollback /\ s.target = t /\ s.failed = sched.failed
      BY <1>1, <2>2 DEF SchedRec, InLoop
    <2> HIDE DEF s
    <2>4. ClaimFits(s) /\ StepFits(s)
      BY <1>1, <2>2, <2>3 DEF SchedFits, ClaimFits, StepFits, InLoop, AtTarget, AtStep
    <2>5. OutcomeFits(s)
      BY <1>1, <2>3 DEF SchedFits, OutcomeFits, AtTarget, AfterFailure
    <2> QED
      BY <1>1, <2>1, <2>3, <2>4, <2>5, SchedStep DEF SchedFits, s
  <1>3. CASE LoopEnds
    <2> DEFINE s == [sched EXCEPT !.pc = "final"]
    <2>1. sched' = s /\ sched.todo = {}
      BY <1>3 DEF LoopEnds
    <2>2. /\ s \in SchedRec /\ s.pc = "final" /\ s.op = sched.op
          /\ s.rollback = sched.rollback /\ s.failed = sched.failed
      BY <1>1 DEF SchedRec, AfterFailure
    <2> HIDE DEF s
    <2>3. ClaimFits(s) /\ StepFits(s)
      BY <1>1, <2>2 DEF SchedFits, ClaimFits, StepFits, InLoop, AtTarget, AtStep
    <2>4. OutcomeFits(s)
      BY <1>1, <2>1, <2>2 DEF SchedFits, OutcomeFits, AtTarget, AfterFailure
    <2> QED
      BY <1>1, <2>1, <2>2, <2>3, <2>4, SchedStep DEF SchedFits
  <1> QED
    BY <1>2, <1>3

(* A step of the target in hand that keeps it in hand and records nothing: *)
(* only StepFits is to be shown, and why a failed target asks for a        *)
(* rollback.                                                               *)
LEMMA InHand ==
    ASSUME IInv, NEW s \in SchedRec, sched.pc \in AtTarget \ {"read", "record"}, sched' = s,
           s.pc \in AtTarget \ {"read", "record"},
           s.op = sched.op, s.target = sched.target, s.todo = sched.todo,
           s.failed = sched.failed,
           s.rollback = None \/ (s.pc = "mark" /\ s.mark = "failed"),
           StepFits(s), UNCHANGED <<rows, tasks, made, req, world, continued>>
    PROVE  IInv'
  <1>1. SchedFits(sched)
    BY DEF IInv
  <1>2. ClaimFits(s)
    BY <1>1 DEF SchedFits, ClaimFits, InLoop, AtTarget
  <1>3. OutcomeFits(s)
    BY <1>1 DEF SchedFits, OutcomeFits, AtTarget, AfterFailure
  <1> QED
    BY <1>2, <1>3, SchedStep DEF SchedFits

(* The first step is the one that FirstKey names.                          *)
LEMMA Beginning ==
    ASSUME IInv, BeginTarget
    PROVE  IInv'
  <1>1. /\ sched.pc = "target" /\ sched \in SchedRec /\ SchedFits(sched) /\ ShapesOK
        /\ UNCHANGED <<rows, tasks, made, req, world, continued>>
    BY DEF BeginTarget, IInv, ShapesOK
  <1>2. sched.target \in Target /\ sched.rollback = None /\ sched.op \in Op
    BY <1>1 DEF SchedFits, ClaimFits, StepFits, OutcomeFits, AtTarget, AfterFailure
  <1>3. CASE \E m \in {"failed", "skipped"} : sched' = [sched EXCEPT !.pc = "mark", !.mark = m]
    <2>1. PICK m \in {"failed", "skipped"} : sched' = [sched EXCEPT !.pc = "mark", !.mark = m]
      BY <1>3
    <2> DEFINE s == [sched EXCEPT !.pc = "mark", !.mark = m]
    <2>2. /\ s \in SchedRec /\ s.pc = "mark" /\ s.op = sched.op /\ s.todo = sched.todo
          /\ s.mark = m /\ s.target = sched.target /\ s.failed = sched.failed
          /\ s.rollback = sched.rollback
      BY ZenonT(40), <1>1, <2>1 DEF SchedRec, InLoop, TargetDone
    <2> HIDE DEF s
    <2>3. StepFits(s)
      BY <1>2, <2>2 DEF StepFits, AtStep
    <2> QED
      BY <1>1, <1>2, <2>1, <2>2, <2>3, InHand DEF AtTarget, s
  <1>4. CASE sched' = [sched EXCEPT !.pc = "step",
                           !.step = FirstStep(op[sched.op].action, op[sched.op].feature)]
    <2> DEFINE first == FirstStep(op[sched.op].action, op[sched.op].feature)
               s == [sched EXCEPT !.pc = "step", !.step = first]
    <2>1. /\ op[sched.op].action \in {"install", "update", "rollback", "backup", "health_check"}
          /\ op[sched.op].status # "absent"
      BY ZenonT(40), <1>1, <1>2, ConstantsAssumption
      DEF IInv, ShapesOK, OperationsOK, OpRow, SchedFits, ClaimFits
    <2>2. first \in Step
      BY <2>1 DEF FirstStep, Step
    <2>3. /\ s \in SchedRec /\ s.pc = "step" /\ s.op = sched.op /\ s.todo = sched.todo
          /\ s.step = first /\ s.target = sched.target /\ s.failed = sched.failed
          /\ s.rollback = sched.rollback
      BY ZenonT(40), <1>1, <2>2 DEF SchedRec, InLoop
    <2>4. sched' = s
      BY <1>4
    <2> HIDE DEF s
    <2>5. StepFits(s)
      BY <1>2, <2>1, <2>2, <2>3 DEF StepFits, AtStep, FirstKey, FirstStep, NeedsRelease
    <2> QED
      BY <1>1, <1>2, <2>3, <2>4, <2>5, InHand DEF AtTarget
  <1> QED
    BY <1>3, <1>4 DEF BeginTarget

(* The step is given up, or pollTask sees the end of its task: on to the   *)
(* decision, the mark, or the next step.                                   *)
LEMMA Deciding ==
    ASSUME IInv, StepRefused \/ StepFailed
    PROVE  IInv'
  <1> DEFINE s == [sched EXCEPT !.pc = "reread"]
  <1>1. /\ sched.pc \in {"step", "poll"} /\ sched \in SchedRec /\ SchedFits(sched)
        /\ sched' = s
        /\ UNCHANGED <<rows, tasks, made, req, world, continued>>
    BY DEF StepRefused, StepFailed, IInv, ShapesOK
  <1>2. sched.target \in Target /\ sched.rollback = None
    BY <1>1 DEF SchedFits, StepFits, OutcomeFits, AtTarget, AfterFailure
  <1>3. /\ s \in SchedRec /\ s.pc = "reread" /\ s.op = sched.op /\ s.todo = sched.todo
        /\ s.target = sched.target /\ s.failed = sched.failed /\ s.rollback = sched.rollback
    BY <1>1 DEF SchedRec, InLoop
  <1> HIDE DEF s
  <1>4. StepFits(s)
    BY <1>2, <1>3 DEF StepFits, AtStep
  <1> QED
    BY <1>1, <1>2, <1>3, <1>4, InHand DEF AtTarget

(* A target that is marked as not succeeded.                               *)
LEMMA Marking ==
    ASSUME IInv, NEW m \in {"failed", "cancelled"}, NEW rollback \in {None, sched.target},
           sched.pc \in {"step", "poll", "reread", "probe"},
           m = "cancelled" => rollback = None,
           sched' = [sched EXCEPT !.pc = "mark", !.mark = m, !.rollback = rollback],
           UNCHANGED <<rows, tasks, made, req, world, continued>>
    PROVE  IInv'
  <1> DEFINE s == [sched EXCEPT !.pc = "mark", !.mark = m, !.rollback = rollback]
  <1>1. sched \in SchedRec /\ SchedFits(sched)
    BY DEF IInv, ShapesOK
  <1>2. sched.target \in Target
    BY <1>1 DEF SchedFits, StepFits, AtTarget
  <1>3. /\ s \in SchedRec /\ s.pc = "mark" /\ s.op = sched.op /\ s.todo = sched.todo
        /\ s.mark = m /\ s.target = sched.target /\ s.failed = sched.failed
        /\ s.rollback = rollback
    BY ZenonT(40), <1>1, <1>2 DEF SchedRec, InLoop, TargetDone
  <1>4. sched' = s
    OBVIOUS
  <1> HIDE DEF s
  <1>5. StepFits(s)
    BY <1>2, <1>3 DEF StepFits, AtStep
  <1> QED
    BY <1>2, <1>3, <1>4, <1>5, InHand DEF AtTarget

(* Errors, deadlines and the decision after a failed step: the target is   *)
(* marked, and a failed health check of an update asks for a rollback.     *)
LEMMA Failing ==
    ASSUME IInv, StepError \/ StepTimeout \/ Reread
    PROVE  IInv'
  <1>1. /\ sched.pc \in {"step", "poll", "reread"} /\ sched \in SchedRec
        /\ UNCHANGED <<rows, tasks, made, req, world, continued>>
    BY DEF StepError, StepTimeout, Reread, IInv, ShapesOK
  <1>2. sched.rollback = None
    BY <1>1 DEF IInv, SchedFits, OutcomeFits, AtTarget, AfterFailure
  <1>3. \A m \in TargetDone : [sched EXCEPT !.pc = "mark", !.mark = m]
            = [sched EXCEPT !.pc = "mark", !.mark = m, !.rollback = None]
    BY <1>1, <1>2 DEF SchedRec
  <1>4. CASE sched' = [sched EXCEPT !.pc = "mark", !.mark = "failed"]
    BY <1>1, <1>3, <1>4, Marking DEF TargetDone
  <1>5. CASE sched' = [sched EXCEPT !.pc = "mark", !.mark = "cancelled"]
    BY <1>1, <1>3, <1>5, Marking DEF TargetDone
  <1>6. CASE sched' = [sched EXCEPT !.pc = "mark", !.mark = "failed",
                             !.rollback = IF HealthFailed THEN sched.target ELSE None]
    BY <1>1, <1>6, Marking
  <1> QED
    BY <1>4, <1>5, <1>6 DEF StepError, StepTimeout, Reread

(* A target all of whose tasks count is marked as succeeded.               *)
LEMMA Passing ==
    ASSUME IInv, sched.pc \in {"poll", "probe"}, Through(sched.op, sched.target),
           sched' = [sched EXCEPT !.pc = "mark", !.mark = "succeeded"],
           UNCHANGED <<rows, tasks, made, req, world, continued>>
    PROVE  IInv'
  <1> DEFINE s == [sched EXCEPT !.pc = "mark", !.mark = "succeeded"]
  <1>1. sched \in SchedRec /\ SchedFits(sched)
    BY DEF IInv, ShapesOK
  <1>2. sched.target \in Target /\ sched.rollback = None
    BY <1>1 DEF SchedFits, StepFits, OutcomeFits, AtTarget, AfterFailure
  <1>3. /\ s \in SchedRec /\ s.pc = "mark" /\ s.op = sched.op /\ s.todo = sched.todo
        /\ s.mark = "succeeded" /\ s.target = sched.target /\ s.failed = sched.failed
        /\ s.rollback = sched.rollback
    BY ZenonT(40), <1>1 DEF SchedRec, InLoop, TargetDone
  <1>4. sched' = s
    OBVIOUS
  <1> HIDE DEF s
  <1>5. StepFits(s)
    BY <1>2, <1>3 DEF StepFits, AtStep
  <1> QED
    BY <1>2, <1>3, <1>4, <1>5, InHand DEF AtTarget

(* The health check of the control plane passes or fails.                  *)
LEMMA Probing ==
    ASSUME IInv, Probe
    PROVE  IInv'
  <1>1. /\ sched.pc = "probe"
        /\ UNCHANGED <<rows, tasks, made, req, world, continued>>
    BY DEF Probe
  <1>2. Through(sched.op, sched.target)
    BY <1>1 DEF IInv, SchedFits, StepFits
  <1>3. CASE sched' = [sched EXCEPT !.pc = "mark", !.mark = "succeeded"]
    BY <1>1, <1>2, <1>3, Passing
  <1>4. CASE sched' = [sched EXCEPT !.pc = "mark", !.mark = "failed",
                             !.rollback = IF HealthFailed THEN sched.target ELSE None]
    BY <1>1, <1>4, Marking
  <1> QED
    BY <1>3, <1>4 DEF Probe

(* A step that has succeeded was run: after the last one all that count    *)
(* have been.                                                              *)
LEMMA Succeeding ==
    ASSUME IInv, StepSucceeded
    PROVE  IInv'
  <1> DEFINE a == op[sched.op].action
             next == StepAfter(sched.step, a)
  <1>1. /\ sched.pc = "poll" /\ sched \in SchedRec /\ SchedFits(sched)
        /\ UNCHANGED <<rows, tasks, made, req, world, continued>>
        /\ task[CurrentKey] = "succeeded"
    BY DEF StepSucceeded, IInv, ShapesOK
  <1>2. /\ sched.op \in Op /\ sched.target \in Target /\ sched.step \in Step
        /\ sched.rollback = None
        /\ FirstKey(sched.op, sched.target) \in ran \cup {CurrentKey}
        /\ a \in NeedsRelease => sched.step \in {"backup", a, "health-check"}
        /\ sched.step = "backup" /\ a \in NeedsRelease => a = "update"
        /\ sched.step = "health-check" /\ a \in NeedsRelease =>
               <<sched.op, sched.target, a>> \in ran
    BY <1>1 DEF SchedFits, ClaimFits, StepFits, OutcomeFits, AtTarget, AtStep, AfterFailure,
                CurrentKey
  <1>3. CurrentKey \in ran
    BY <1>1, <1>2 DEF CurrentKey, Key, IInv, TasksOK
  <1>4. CASE next # "none"
    <2> DEFINE s == [sched EXCEPT !.pc = "step", !.step = next]
    <2>1. sched' = s
      BY <1>4 DEF StepSucceeded
    <2>2. next \in Step /\ next \in {"update", "health-check"}
      BY <1>4 DEF StepAfter, Step
    <2>3. /\ s \in SchedRec /\ s.pc = "step" /\ s.op = sched.op /\ s.todo = sched.todo
          /\ s.step = next /\ s.target = sched.target /\ s.failed = sched.failed
          /\ s.rollback = sched.rollback
      BY ZenonT(40), <1>1, <2>2 DEF SchedRec, InLoop
    <2> HIDE DEF s
    <2>4. next = "update" => sched.step = "backup" /\ a = "update"
      BY DEF StepAfter, NeedsRelease
    <2>5. next = "health-check" /\ a \in NeedsRelease => sched.step = a
      BY <1>2 DEF StepAfter, NeedsRelease
    <2>6. StepFits(s)
      BY <1>2, <1>3, <2>2, <2>3, <2>4, <2>5 DEF StepFits, AtStep, CurrentKey
    <2> QED
      BY <1>1, <1>2, <2>1, <2>3, <2>6, InHand DEF AtTarget
  <1>5. CASE next = "none" /\ a \in NeedsRelease
    <2> DEFINE s == [sched EXCEPT !.pc = "probe"]
    <2>1. sched' = s
      BY <1>5 DEF StepSucceeded
    <2>2. /\ s \in SchedRec /\ s.pc = "probe" /\ s.op = sched.op /\ s.todo = sched.todo
          /\ s.target = sched.target /\ s.failed = sched.failed /\ s.rollback = sched.rollback
      BY <1>1 DEF SchedRec, InLoop
    <2> HIDE DEF s
    <2>3. sched.step = "health-check"
      BY <1>2, <1>5 DEF StepAfter, NeedsRelease
    <2>4. Through(sched.op, sched.target)
      BY <1>2, <1>3, <2>3 DEF Through, CurrentKey
    <2>5. StepFits(s)
      BY <1>2, <2>2, <2>4 DEF StepFits, AtStep
    <2> QED
      BY <1>1, <1>2, <2>1, <2>2, <2>5, InHand DEF AtTarget
  <1>6. CASE next = "none" /\ a \notin NeedsRelease
    <2>1. Through(sched.op, sched.target)
      BY <1>2, <1>3, <1>6 DEF Through
    <2>2. sched' = [sched EXCEPT !.pc = "mark", !.mark = "succeeded"]
      BY <1>6 DEF StepSucceeded
    <2> QED
      BY <1>1, <2>1, <2>2, Passing
  <1> QED
    BY <1>4, <1>5, <1>6

(* The target's row is read, to be written back.                           *)
LEMMA Reading ==
    ASSUME IInv, ReadTarget
    PROVE  IInv'
  <1> DEFINE s == [sched EXCEPT !.pc = "record", !.row = target[sched.target]]
  <1>1. /\ sched.pc = "read" /\ sched \in SchedRec /\ SchedFits(sched)
        /\ sched' = s
        /\ UNCHANGED <<rows, tasks, made, req, world, continued>>
    BY DEF ReadTarget, IInv, ShapesOK
  <1>2. sched.target \in Target /\ sched.rollback = None /\ Through(sched.op, sched.target)
    BY <1>1 DEF SchedFits, StepFits, OutcomeFits, AtTarget, AfterFailure
  <1>3. target[sched.target] \in TargetRow
    BY <1>2 DEF IInv, ShapesOK
  <1>4. WasDeployed(sched.target, target[sched.target].current)
    BY <1>2 DEF IInv, RecordedWasDeployed, WasDeployed
  <1>5. /\ s \in SchedRec /\ s.pc = "record" /\ s.op = sched.op /\ s.todo = sched.todo
        /\ s.target = sched.target /\ s.failed = sched.failed /\ s.rollback = sched.rollback
        /\ s.row = target[sched.target]
    BY <1>1, <1>3 DEF SchedRec, InLoop
  <1> HIDE DEF s
  <1>6. ClaimFits(s)
    BY <1>1, <1>5 DEF SchedFits, ClaimFits, InLoop
  <1>7. StepFits(s)
    BY <1>2, <1>3, <1>4, <1>5 DEF StepFits, AtStep
  <1>8. OutcomeFits(s)
    BY <1>1, <1>2, <1>5 DEF SchedFits, OutcomeFits, AtTarget
  <1> QED
    BY <1>1, <1>5, <1>6, <1>7, <1>8, SchedStep DEF SchedFits

(* The rollback that was asked for has a release to go to, or is dropped.  *)
LEMMA Choosing ==
    ASSUME IInv, ReadLastHealthy
    PROVE  IInv'
  <1> DEFINE rel == target[sched.rollback].lastHealthy
             kept == IF rel = None THEN None ELSE sched.rollback
             s == [sched EXCEPT !.pc = "final", !.release = rel, !.rollback = kept]
  <1>1. /\ sched.pc = "healthy" /\ sched \in SchedRec /\ SchedFits(sched)
        /\ UNCHANGED <<rows, tasks, made, req, world, continued>>
    BY DEF ReadLastHealthy, IInv, ShapesOK
  <1>2. sched.rollback # None /\ sched.failed
    BY <1>1 DEF SchedFits, OutcomeFits
  <1>3. rel \in Release \cup {None} /\ kept \in Target \cup {None}
    BY <1>1, <1>2 DEF SchedRec, IInv, ShapesOK, TargetRow
  <1>4. sched' = s
    BY <1>1 DEF ReadLastHealthy, SchedRec
  <1> HIDE DEF rel, kept
  <1>5. /\ s \in SchedRec /\ s.pc = "final" /\ s.op = sched.op /\ s.failed = sched.failed
    BY ZenonT(40), <1>1, <1>3 DEF SchedRec, AfterFailure
  <1> HIDE DEF s
  <1>6. ClaimFits(s) /\ StepFits(s)
    BY <1>1, <1>5 DEF SchedFits, ClaimFits, StepFits, InLoop, AtTarget, AtStep
  <1>7. OutcomeFits(s)
    BY <1>2, <1>5 DEF OutcomeFits, AfterFailure, AtTarget
  <1> QED
    BY <1>1, <1>4, <1>5, <1>6, <1>7, SchedStep DEF SchedFits

(* An operation ends as succeeded only if nothing failed.                  *)
LEMMA Finalizing ==
    ASSUME IInv, Finalize
    PROVE  IInv'
  <1> DEFINE final == FinalStatus(op[sched.op].status)
             s == [sched EXCEPT !.pc = "finish", !.final = final]
  <1>1. /\ sched.pc = "final" /\ sched \in SchedRec /\ SchedFits(sched)
        /\ sched' = s
        /\ UNCHANGED <<rows, tasks, made, req, world, continued>>
    BY DEF Finalize, IInv, ShapesOK
  <1>2. final \in OpDone /\ (final = "succeeded" => ~sched.failed)
    BY DEF FinalStatus, OpDone
  <1> HIDE DEF final
  <1>3. /\ s \in SchedRec /\ s.pc = "finish" /\ s.op = sched.op /\ s.failed = sched.failed
        /\ s.rollback = sched.rollback /\ s.final = final
    BY <1>1, <1>2 DEF SchedRec, AfterFailure
  <1> HIDE DEF s
  <1>4. ClaimFits(s) /\ StepFits(s)
    BY <1>1, <1>3 DEF SchedFits, ClaimFits, StepFits, InLoop, AtTarget, AtStep
  <1>5. OutcomeFits(s)
    BY <1>1, <1>2, <1>3 DEF SchedFits, OutcomeFits, AfterFailure, AtTarget, OpDone
  <1> QED
    BY <1>1, <1>3, <1>4, <1>5, SchedStep DEF SchedFits

-----------------------------------------------------------------------------
(* A restart forgets the scheduler and the handlers: what they then hold.  *)
LEMMA Idle ==
    /\ NoSched \in SchedRec /\ NoSched.pc = "idle"
    /\ NoReq \in ReqRec /\ NoReq.pc = "idle" /\ RequestFits(NoReq)
    /\ NoOp \in OpRow /\ NoOp.status = "absent" /\ NoOp.action = "none"
  <1>1. NoOp \in OpRow /\ NoOp.status = "absent" /\ NoOp.action = "none"
    BY DEF NoOp, OpRow
  <1>2. 0 \in 0..MaxOp
    BY ConstantsAssumption
  <1>3. NoSched \in SchedRec /\ NoSched.pc = "idle"
    BY <1>2 DEF NoSched, SchedRec
  <1>4. NoReq \in ReqRec /\ NoReq.pc = "idle"
    BY <1>1, <1>2 DEF NoReq, ReqRec
  <1>5. RequestFits(NoReq)
    BY <1>4 DEF RequestFits, Handling
  <1> QED
    BY <1>1, <1>3, <1>4, <1>5

(* A restart changes no row.                                               *)
LEMMA Restarting ==
    ASSUME IInv, Restart
    PROVE  IInv'
  <1>1. /\ UNCHANGED <<op, opTarget, target, task, linked, made, node, ran, continued>>
        /\ sched' = NoSched /\ req' = [r \in Caller |-> NoReq]
    BY DEF Restart, rows, tasks, world
  <1>2. ShapesOK' /\ OperationsOK' /\ TasksOK'
    BY <1>1, Idle DEF IInv, ShapesOK, OperationsOK, TasksOK, Confirmed, Unfailed, Settled, FirstKey
  <1>3. (\A r \in Caller : RequestFits(req[r]))' /\ OneInsert'
    <2>1. \A r \in Caller : req'[r] = NoReq
      BY <1>1
    <2>2. RequestFits(NoReq)'
      BY Idle DEF RequestFits, Handling
    <2> QED
      BY <2>1, <2>2, Idle DEF OneInsert
  <1>4. SchedFits(sched)'
    BY <1>1, Idle DEF SchedFits, ClaimFits
  <1>5. OneActivePerFeature' /\ RecordedWasDeployed' /\ BackupBeforeUpdate'
    BY <1>1 DEF IInv, OneActivePerFeature, RecordedWasDeployed, BackupBeforeUpdate
  <1> QED
    BY <1>2, <1>3, <1>4, <1>5 DEF IInv

-----------------------------------------------------------------------------
(* The handlers' steps that only read.                                     *)
LEMMA Requesting ==
    ASSUME IInv, NEW r \in Caller,
           \/ \E o \in Op : CancelRead(r, o) \/ ContinueRead(r, o)
           \/ \E t \in Target : UpdateTargetRead(r, t)
    PROVE  IInv'
  <1>1. UNCHANGED <<rows, tasks, made, sched, world, continued>>
    BY DEF CancelRead, ContinueRead, UpdateTargetRead
  <1>2. CASE \E o \in Op : CancelRead(r, o) \/ ContinueRead(r, o)
    <2>1. PICK o \in Op, pc \in {"cancel", "continue"} :
              /\ op[o].status # "absent"
              /\ req' = [req EXCEPT ![r] = [NoReq EXCEPT !.pc = pc, !.op = o]]
      BY <1>2 DEF CancelRead, ContinueRead, Cancellable
    <2> DEFINE q == [NoReq EXCEPT !.pc = pc, !.op = o]
    <2>2. q \in ReqRec /\ q.pc = pc /\ q.op = o
      <3>1. o \in 0..MaxOp /\ pc \in Handling
        BY <2>1 DEF Op, Handling
      <3> QED
        BY <3>1, Idle DEF ReqRec
    <2>3. req' = [req EXCEPT ![r] = q]
      BY <2>1
    <2> HIDE DEF q
    <2>4. RequestFits(q)
      BY <2>1, <2>2 DEF RequestFits
    <2> QED
      BY <1>1, <2>2, <2>3, <2>4, RequestStep
  <1>3. CASE \E t \in Target : UpdateTargetRead(r, t)
    <2>1. PICK t \in Target :
              req' = [req EXCEPT ![r] = [NoReq EXCEPT !.pc = "edit", !.target = t,
                                                      !.row = target[t]]]
      BY <1>3 DEF UpdateTargetRead
    <2>2. target[t] \in TargetRow /\ WasDeployed(t, target[t].current)
      BY DEF IInv, ShapesOK, RecordedWasDeployed, WasDeployed
    <2> DEFINE q == [NoReq EXCEPT !.pc = "edit", !.target = t, !.row = target[t]]
    <2>3. q \in ReqRec /\ q.pc = "edit" /\ q.target = t /\ q.row = target[t]
      BY <2>2, Idle DEF ReqRec
    <2>4. req' = [req EXCEPT ![r] = q]
      BY <2>1
    <2> HIDE DEF q
    <2>5. RequestFits(q)
      BY <2>2, <2>3 DEF RequestFits, Handling
    <2> QED
      BY <1>1, <2>3, <2>4, <2>5, RequestStep
  <1> QED
    BY <1>2, <1>3

(* Each handler goes on with what it has read.                             *)
LEMMA HandlerReading ==
    ASSUME IInv, NEW r \in Caller,
           \/ CancelListTargets(r) \/ CancelListSteps(r) \/ CancelReadTask(r) \/ CancelReturn(r)
           \/ ContinueListTargets(r)
    PROVE  IInv'
  <1>1. UNCHANGED <<rows, tasks, made, sched, world, continued>>
    BY DEF CancelListTargets, CancelListSteps, CancelReadTask, CancelReturn, ContinueListTargets
  <1>2. req \in [Caller -> ReqRec] /\ req[r] \in ReqRec /\ RequestFits(req[r])
    BY DEF IInv, ShapesOK
  <1>3. req[r].pc \in Handling => req[r].op \in Op /\ op[req[r].op].status # "absent"
    BY <1>2 DEF RequestFits
  <1>4. CASE CancelListTargets(r)
    <2> DEFINE todo == Pending(req[r].op)
               q == [req[r] EXCEPT !.pc = "target", !.todo = todo]
    <2>1. req[r].pc = "targets" /\ req' = [req EXCEPT ![r] = q]
      BY <1>2, <1>4 DEF CancelListTargets
    <2>2. todo \subseteq Target
      BY DEF Pending, TargetsOf
    <2> HIDE DEF todo
    <2>3. q \in ReqRec /\ q.pc = "target" /\ q.op = req[r].op /\ q.todo = todo
      BY <1>2, <2>2 DEF ReqRec, Handling
    <2> HIDE DEF q
    <2>4. RequestFits(q)
      BY <1>3, <2>1, <2>2, <2>3 DEF RequestFits, Handling
    <2> QED
      BY <1>1, <2>1, <2>3, <2>4, RequestStep
  <1>5. CASE CancelListSteps(r)
    <2> DEFINE todo == {k \in linked : k[1] = req[r].op}
               q == [req[r] EXCEPT !.pc = "tasks", !.todo = todo]
    <2>1. req[r].pc = "target" /\ req' = [req EXCEPT ![r] = q]
      BY <1>2, <1>5 DEF CancelListSteps
    <2>2. todo \subseteq Key
      BY DEF IInv, ShapesOK
    <2> HIDE DEF todo
    <2>3. q \in ReqRec /\ q.pc = "tasks" /\ q.op = req[r].op /\ q.todo = todo
      BY <1>2, <2>2 DEF ReqRec, Handling
    <2> HIDE DEF q
    <2>4. RequestFits(q)
      BY <1>3, <2>1, <2>2, <2>3 DEF RequestFits, Handling
    <2> QED
      BY <1>1, <2>1, <2>3, <2>4, RequestStep
  <1>6. CASE CancelReadTask(r)
    <2>1. PICK k \in req[r].todo :
              req' = [req EXCEPT ![r].todo = @ \ {k},
                                 ![r].pc = IF task[k] = "live" THEN "task" ELSE "tasks",
                                 ![r].target = IF task[k] = "live" THEN k ELSE None]
      BY <1>6 DEF CancelReadTask
    <2>2. req[r].pc = "tasks" /\ req[r].todo \subseteq Key /\ k \in Key
      BY <1>2, <1>6 DEF CancelReadTask, RequestFits
    <2> DEFINE pc == IF task[k] = "live" THEN "task" ELSE "tasks"
               goal == IF task[k] = "live" THEN k ELSE None
               q == [req[r] EXCEPT !.todo = @ \ {k}, !.pc = pc, !.target = goal]
    <2>3. req' = [req EXCEPT ![r] = q]
      BY <1>2, <2>1
    <2>4. /\ pc \in {"task", "tasks"} /\ goal \in Key \cup {None}
          /\ pc = "task" => goal = k /\ task[k] = "live"
      BY <2>2
    <2> HIDE DEF pc, goal
    <2>5. /\ q \in ReqRec /\ q.pc = pc /\ q.op = req[r].op /\ q.todo = req[r].todo \ {k}
          /\ q.target = goal
      BY <1>2, <2>4 DEF ReqRec, Handling
    <2> HIDE DEF q
    <2>6. RequestFits(q)
      BY <1>3, <2>2, <2>4, <2>5 DEF RequestFits, Handling
    <2> QED
      BY <1>1, <2>3, <2>4, <2>5, <2>6, RequestStep
  <1>7. CASE req' = [req EXCEPT ![r] = NoReq]
    BY <1>1, <1>7, Idle, RequestStep
  <1>8. CASE req[r].pc = "continue" /\ req' = [req EXCEPT ![r] = [@ EXCEPT !.pc = "requeue"]]
    <2> DEFINE q == [req[r] EXCEPT !.pc = "requeue"]
    <2>1. req' = [req EXCEPT ![r] = q]
      BY <1>2, <1>8
    <2>2. q \in ReqRec /\ q.pc = "requeue" /\ q.op = req[r].op
      BY <1>2 DEF ReqRec, Handling
    <2> HIDE DEF q
    <2>3. RequestFits(q)
      BY <1>3, <1>8, <2>2 DEF RequestFits, Handling
    <2> QED
      BY <1>1, <2>1, <2>2, <2>3, RequestStep
  <1> QED
    BY <1>4, <1>5, <1>6, <1>7, <1>8 DEF CancelReturn, ContinueListTargets

-----------------------------------------------------------------------------
(* Steps that write.                                                       *)

(* All handlers but the one that takes the step.                           *)
LEMMA OthersKept ==
    ASSUME IInv, Grows, NEW r \in Caller, NEW q \in ReqRec, req' = [req EXCEPT ![r] = q],
           q.pc # "insert", RequestFits(q)', UNCHANGED made,
           \A u \in Caller : u # r /\ req[u].pc = "insert" => op'[req[u].op].status = "absent"
    PROVE  req' \in [Caller -> ReqRec] /\ (\A u \in Caller : RequestFits(req[u]))' /\ OneInsert'
  <1>1. /\ req \in [Caller -> ReqRec] /\ req' \in [Caller -> ReqRec]
        /\ \A u \in Caller : req'[u] = IF u = r THEN q ELSE req[u]
    BY DEF IInv, ShapesOK
  <1>2. ASSUME NEW u \in Caller
        PROVE  RequestFits(req[u])'
    <2>1. CASE u = r
      BY <1>1, <2>1 DEF RequestFits
    <2>2. CASE u # r
      <3>1. PICK p \in ReqRec : p = req[u]
        BY <1>1
      <3>2. RequestFits(p) /\ (p.pc = "insert" => op'[p.op].status = "absent" /\ p.op <= made')
        BY <2>2, <3>1 DEF IInv, RequestFits
      <3>3. RequestFits(p)'
        BY <3>2, RequestKept DEF IInv
      <3> QED
        BY <1>1, <2>2, <3>1, <3>3
    <2> QED
      BY <2>1, <2>2
  <1>3. OneInsert'
    BY <1>1 DEF IInv, OneInsert
  <1> QED
    BY <1>1, <1>2, <1>3

(* All handlers, in a step of the scheduler or the agent.                  *)
LEMMA AllKept ==
    ASSUME IInv, Grows, UNCHANGED <<req, made>>,
           \A u \in Caller : req[u].pc = "insert" => op'[req[u].op].status = "absent"
    PROVE  (\A u \in Caller : RequestFits(req[u]))' /\ OneInsert'
  <1>1. ASSUME NEW u \in Caller
        PROVE  RequestFits(req[u])'
    <2>1. PICK p \in ReqRec : p = req[u] /\ p = req'[u]
      BY DEF IInv, ShapesOK
    <2>2. RequestFits(p) /\ (p.pc = "insert" => op'[p.op].status = "absent" /\ p.op <= made')
      BY <2>1 DEF IInv, RequestFits
    <2>3. RequestFits(p)'
      BY <2>2, RequestKept DEF IInv
    <2> QED
      BY <2>1, <2>3
  <1> QED
    BY <1>1 DEF IInv, OneInsert

(* A status is written over whatever it was.                               *)
LEMMA StatusWrite ==
    ASSUME IInv, NEW o \in Op, NEW st \in Active \cup OpDone, op[o].status # "absent",
           op' = [op EXCEPT ![o].status = st],
           UNCHANGED <<opTarget, target, tasks, made, world>>,
           continued \subseteq continued', continued' \subseteq Op,
           st \in {"queued", "awaiting_confirmation"} => o \in continued',
           st = "succeeded" => \A t \in Target : Settled(o, t),
           st \in Active => op[o].status \in Active \/ FeatureFree(op[o].feature, o)
    PROVE  /\ Grows
           /\ op' \in [Op -> OpRow]
           /\ op'[o].status = st /\ (\A p \in Op : p # o => op'[p] = op[p])
           /\ OperationsOK' /\ TasksOK'
           /\ OneActivePerFeature' /\ RecordedWasDeployed' /\ BackupBeforeUpdate'
  <1>1. op \in [Op -> OpRow] /\ UNCHANGED <<task, linked, node, ran>>
    BY DEF IInv, ShapesOK, tasks, world
  <1>2. /\ op' \in [Op -> OpRow]
        /\ op'[o] = [op[o] EXCEPT !.status = st]
        /\ \A p \in Op : p # o => op'[p] = op[p]
    BY <1>1 DEF OpRow
  <1>3. /\ op'[o].status = st /\ op'[o].action = op[o].action
        /\ op'[o].feature = op[o].feature /\ op'[o].release = op[o].release
    BY <1>1, <1>2 DEF OpRow
  <1>4. \A p \in Op : /\ op'[p].action = op[p].action
                      /\ op'[p].feature = op[p].feature /\ op'[p].release = op[p].release
    BY <1>2, <1>3
  <1>5. st # "absent"
    BY DEF Active, OpDone
  <1>6. Grows
    BY <1>1, <1>2, <1>4, <1>5, <1>3 DEF Grows
  <1>7. OperationsOK'
    <2>1. ASSUME NEW p \in Op, p # o
          PROVE  /\ op'[p].status = "absent" =>
                       op'[p] = NoOp /\ (\A t \in Target : opTarget'[p][t] = "none")
                                     /\ (\A k \in Key : k[1] = p => task'[k] = "none")
                 /\ op'[p].status # "absent" => op'[p].action # "none"
                 /\ op'[p].status = "queued" => Confirmed(p)'
                 /\ op'[p].status \in {"queued", "awaiting_confirmation"} /\ p \notin continued'
                       => Unfailed(p)'
                 /\ op'[p].status = "succeeded" => \A t \in Target : Settled(p, t)'
                 /\ p > made' => op'[p].status = "absent"
      BY <1>1, <1>2, <2>1 DEF IInv, OperationsOK, Confirmed, Unfailed, Settled
    <2>2. /\ op'[o].action # "none" /\ op'[o].status # "absent" /\ ~(o > made')
          /\ op'[o].status = "queued" => Confirmed(o)'
          /\ op'[o].status \in {"queued", "awaiting_confirmation"} => o \in continued'
          /\ op'[o].status = "succeeded" => \A t \in Target : Settled(o, t)'
      BY <1>3, <1>5 DEF IInv, OperationsOK, Confirmed, Settled
    <2> QED
      BY <2>1, <2>2 DEF OperationsOK
  <1>8. TasksOK'
    <2>1. \A p \in Op, t \in Target : FirstKey(p, t)' = FirstKey(p, t)
      BY <1>4 DEF FirstKey, FirstStep
    <2>2. \A k \in Key : Confirmed(k[1]) => Confirmed(k[1])'
      BY <1>4 DEF Confirmed, Key
    <2> QED
      BY <1>1, <2>1, <2>2 DEF IInv, TasksOK
  <1>9. OneActivePerFeature'
    <2>1. ASSUME NEW p \in Op, NEW q \in Op, op'[p].status \in Active, op'[q].status \in Active,
                 op'[p].feature = op'[q].feature
          PROVE  p = q
      BY <1>2, <1>3, <1>4, <2>1 DEF IInv, OneActivePerFeature, FeatureFree
    <2> QED
      BY <2>1 DEF OneActivePerFeature
  <1>10. RecordedWasDeployed'
    <2>1. ASSUME NEW t \in Target, target'[t].current \notin {None, Deployed[t]}
          PROVE  \E p \in Op : /\ op'[p].release = target'[t].current
                               /\ op'[p].action \in NeedsRelease
                               /\ {<<p, t, op'[p].action>>, <<p, t, "health-check">>} \subseteq ran'
      <3>1. PICK p \in Op : /\ op[p].release = target[t].current
                            /\ op[p].action \in NeedsRelease
                            /\ {<<p, t, op[p].action>>, <<p, t, "health-check">>} \subseteq ran
        BY <2>1 DEF IInv, RecordedWasDeployed
      <3> QED
        BY ZenonT(40), <1>1, <1>4, <3>1
    <2> QED
      BY <2>1 DEF RecordedWasDeployed
  <1>11. BackupBeforeUpdate'
    BY <1>1, <1>4 DEF IInv, BackupBeforeUpdate
  <1> QED
    BY <1>2, <1>3, <1>6, <1>7, <1>8, <1>9, <1>10, <1>11

(* CancelOperation and ContinueOperation write an operation that they read *)
(* some time ago.                                                          *)
LEMMA Cancelling ==
    ASSUME IInv, NEW r \in Caller, CancelWrite(r)
    PROVE  IInv'
  <1> DEFINE o == req[r].op
             moved == [req[r] EXCEPT !.pc = "targets"]
  <1>1. /\ req[r] \in ReqRec /\ req \in [Caller -> ReqRec] /\ req[r].pc = "cancel"
        /\ o \in Op /\ op[o].status # "absent"
        /\ UNCHANGED <<opTarget, target, tasks, made, sched, world, continued>>
        /\ op' = [op EXCEPT ![o].status = "cancelled"]
    BY DEF IInv, ShapesOK, CancelWrite, RequestFits, Handling
  <1>2. moved \in ReqRec /\ moved.pc = "targets" /\ moved.op = o
    BY <1>1 DEF ReqRec, Handling
  <1>3. PICK q \in ReqRec : q.pc = "targets" /\ q.op = o /\ req' = [req EXCEPT ![r] = q]
    BY <1>1, <1>2 DEF CancelWrite
  <1>4. "cancelled" \in Active \cup OpDone /\ "cancelled" \notin Active
    BY DEF OpDone, Active
  <1>5. continued \subseteq Op
    BY DEF IInv, ShapesOK
  <1> HIDE DEF o
  <1>6. /\ Grows
        /\ op' \in [Op -> OpRow]
        /\ op'[o].status = "cancelled" /\ (\A p \in Op : p # o => op'[p] = op[p])
        /\ OperationsOK' /\ TasksOK'
        /\ OneActivePerFeature' /\ RecordedWasDeployed' /\ BackupBeforeUpdate'
    BY <1>1, <1>4, <1>5, StatusWrite
  <1>7. RequestFits(q)'
    BY <1>1, <1>3, <1>6 DEF RequestFits, Handling
  <1>8. \A u \in Caller : u # r /\ req[u].pc = "insert" => op'[req[u].op].status = "absent"
    BY <1>1, <1>6 DEF IInv, RequestFits
  <1>9. req' \in [Caller -> ReqRec] /\ (\A u \in Caller : RequestFits(req[u]))' /\ OneInsert'
    BY <1>1, <1>3, <1>6, <1>7, <1>8, OthersKept
  <1>10. SchedFits(sched)'
    <2>1. sched.pc # "idle" => sched.op \in Op /\ op[sched.op].status # "succeeded"
      BY DEF IInv, SchedFits, ClaimFits
    <2> QED
      BY <1>1, <1>6, <2>1, SchedKept DEF Unfailed, Settled
  <1>11. ShapesOK'
    BY <1>1, <1>6, <1>9 DEF IInv, ShapesOK, tasks, world
  <1> QED
    BY <1>6, <1>9, <1>10, <1>11 DEF IInv

(* ContinueOperation queues the operation again, and with that makes it    *)
(* one that was continued.                                                 *)
LEMMA Continuing ==
    ASSUME IInv, NEW r \in Caller, ContinueWrite(r)
    PROVE  IInv'
  <1> DEFINE o == req[r].op
  <1>1. /\ req[r] \in ReqRec /\ req \in [Caller -> ReqRec] /\ req[r].pc = "requeue"
        /\ o \in Op /\ op[o].status # "absent"
        /\ UNCHANGED <<opTarget, target, tasks, made, sched, world>>
        /\ req' = [req EXCEPT ![r] = NoReq]
    BY DEF IInv, ShapesOK, ContinueWrite, RequestFits, Handling
  <1>2. CASE UNCHANGED <<op, continued>>
    BY <1>1, <1>2, Idle, RequestStep DEF rows
  <1>3. CASE /\ FeatureFree(op[o].feature, o)
             /\ op' = [op EXCEPT ![o].status = "queued"]
             /\ continued' = continued \cup {o}
    <2>1. "queued" \in Active \cup OpDone /\ "queued" # "succeeded"
      BY DEF Active
    <2>2. continued \subseteq continued' /\ continued' \subseteq Op /\ o \in continued'
      BY <1>1, <1>3 DEF IInv, ShapesOK
    <2> HIDE DEF o
    <2>3. /\ Grows
          /\ op' \in [Op -> OpRow]
          /\ op'[o].status = "queued" /\ (\A p \in Op : p # o => op'[p] = op[p])
          /\ OperationsOK' /\ TasksOK'
          /\ OneActivePerFeature' /\ RecordedWasDeployed' /\ BackupBeforeUpdate'
      BY <1>1, <1>3, <2>1, <2>2, StatusWrite
    <2>4. RequestFits(NoReq)'
      BY Idle DEF RequestFits, Handling
    <2>5. \A u \in Caller : u # r /\ req[u].pc = "insert" => op'[req[u].op].status = "absent"
      BY <1>1, <2>3 DEF IInv, RequestFits
    <2>6. req' \in [Caller -> ReqRec] /\ (\A u \in Caller : RequestFits(req[u]))' /\ OneInsert'
      BY <1>1, <2>3, <2>4, <2>5, Idle, OthersKept
    <2>7. SchedFits(sched)'
      <3>1. sched.pc # "idle" => sched.op \in Op /\ op[sched.op].status # "succeeded"
        BY DEF IInv, SchedFits, ClaimFits
      <3> QED
        BY <1>1, <2>2, <2>3, <3>1, SchedKept DEF Unfailed, Settled
    <2>8. ShapesOK'
      BY <1>1, <2>2, <2>3, <2>6 DEF IInv, ShapesOK, tasks, world
    <2> QED
      BY <2>3, <2>6, <2>7, <2>8 DEF IInv
  <1> QED
    BY <1>2, <1>3 DEF ContinueWrite

(* The scheduler claims an operation, and finishes it.                     *)
LEMMA Claiming ==
    ASSUME IInv, ClaimQueuedDeploymentOperation
    PROVE  IInv'
  <1>1. PICK o \in Op : /\ op[o].status = "queued"
                        /\ op' = [op EXCEPT ![o].status = "running"]
                        /\ sched' = [NoSched EXCEPT !.pc = "list", !.op = o]
    BY DEF ClaimQueuedDeploymentOperation
  <1> DEFINE s == [NoSched EXCEPT !.pc = "list", !.op = o]
  <1>2. UNCHANGED <<opTarget, target, tasks, made, req, world, continued>>
    BY DEF ClaimQueuedDeploymentOperation
  <1>3. "running" \in Active \cup OpDone /\ "queued" \in Active /\ continued \subseteq Op
    BY DEF Active, IInv, ShapesOK
  <1>4. /\ Grows
        /\ op' \in [Op -> OpRow]
        /\ op'[o].status = "running" /\ (\A p \in Op : p # o => op'[p] = op[p])
        /\ OperationsOK' /\ TasksOK'
        /\ OneActivePerFeature' /\ RecordedWasDeployed' /\ BackupBeforeUpdate'
    BY <1>1, <1>2, <1>3, StatusWrite
  <1>5. (\A u \in Caller : RequestFits(req[u]))' /\ OneInsert'
    <2>1. \A u \in Caller : req[u].pc = "insert" => op'[req[u].op].status = "absent"
      BY <1>1, <1>4 DEF IInv, RequestFits
    <2> QED
      BY <1>2, <1>4, <2>1, AllKept
  <1>6. /\ s \in SchedRec /\ s.pc = "list" /\ s.op = o /\ s.rollback = None
    <2>1. o \in 0..MaxOp
      BY DEF Op
    <2>2. NoSched.rollback = None
      BY DEF NoSched
    <2> QED
      BY ZenonT(40), <2>1, <2>2, Idle DEF SchedRec, InLoop
  <1>7. sched' = s
    BY <1>1
  <1> HIDE DEF s
  <1>8. Confirmed(o)' /\ (o \in continued' \/ Unfailed(o)')
    <2>1. Confirmed(o) /\ (o \in continued \/ Unfailed(o))
      BY <1>1 DEF IInv, OperationsOK
    <2>2. op'[o].action = op[o].action
      BY <1>1, <1>4 DEF Grows
    <2> QED
      BY <1>2, <2>1, <2>2 DEF Confirmed, Unfailed
  <1>9. SchedFits(s)'
    BY <1>4, <1>6, <1>8
    DEF SchedFits, ClaimFits, StepFits, OutcomeFits, InLoop, AtTarget, AtStep, AfterFailure
  <1>10. ShapesOK'
    BY <1>2, <1>4, <1>6, <1>7 DEF IInv, ShapesOK, tasks, world
  <1>11. SchedFits(sched)'
    BY <1>7, <1>9
  <1> QED
    BY <1>4, <1>5, <1>10, <1>11 DEF IInv

(* The end of an operation is written, also when somebody has changed its  *)
(* status since it was read.                                               *)
LEMMA Finishing ==
    ASSUME IInv, FinishOperation
    PROVE  IInv'
  <1> DEFINE moved == [sched EXCEPT !.pc = "rollback"]
  <1>0. PICK o \in Op : o = sched.op
    BY DEF FinishOperation, IInv, SchedFits, ClaimFits
  <1>1. /\ sched \in SchedRec /\ SchedFits(sched) /\ sched.pc = "finish"
        /\ op[o].status # "absent"
        /\ UNCHANGED <<opTarget, target, tasks, made, req, world, continued>>
        /\ op' = [op EXCEPT ![o].status = sched.final]
    BY <1>0 DEF IInv, ShapesOK, FinishOperation, SchedFits, ClaimFits
  <1>2. /\ sched.final \in OpDone
        /\ sched.final = "succeeded" => ~sched.failed /\ \A t \in Target : Settled(o, t)
        /\ sched.rollback # None => sched.failed
    BY <1>0, <1>1 DEF SchedFits, OutcomeFits, SchedRec
  <1>3. /\ sched.final \notin Active
        /\ sched.final \notin {"queued", "awaiting_confirmation", "absent"}
    BY <1>2 DEF OpDone, Active
  <1>4. continued \subseteq Op
    BY DEF IInv, ShapesOK
  <1>5. /\ Grows
        /\ op' \in [Op -> OpRow]
        /\ op'[o].status = sched.final /\ (\A p \in Op : p # o => op'[p] = op[p])
        /\ OperationsOK' /\ TasksOK'
        /\ OneActivePerFeature' /\ RecordedWasDeployed' /\ BackupBeforeUpdate'
    BY <1>1, <1>2, <1>3, <1>4, StatusWrite
  <1>6. (\A u \in Caller : RequestFits(req[u]))' /\ OneInsert'
    <2>1. \A u \in Caller : req[u].pc = "insert" => op'[req[u].op].status = "absent"
      BY <1>1, <1>5 DEF IInv, RequestFits
    <2> QED
      BY <1>1, <1>5, <2>1, AllKept
  <1>7. CASE sched.rollback = None
    <2>1. sched' = NoSched
      BY <1>7 DEF FinishOperation
    <2>2. ShapesOK' /\ SchedFits(sched)'
      BY <1>1, <1>5, <2>1, Idle DEF IInv, ShapesOK, SchedFits, ClaimFits, tasks, world
    <2> QED
      BY <1>5, <1>6, <2>2 DEF IInv
  <1>8. CASE sched.rollback # None
    <2>1. /\ moved \in SchedRec /\ moved.pc = "rollback" /\ moved.op = o
          /\ moved.rollback = sched.rollback /\ moved.failed = sched.failed
      BY <1>0, <1>1 DEF SchedRec, AfterFailure
    <2>2. PICK s \in SchedRec : /\ s.pc = "rollback" /\ s.op = o /\ s.rollback = sched.rollback
                               /\ s.failed = sched.failed /\ sched' = s
      BY <1>8, <2>1 DEF FinishOperation
    <2>3. Confirmed(o)'
      <3>1. Confirmed(o) /\ op'[o].action = op[o].action
        BY <1>0, <1>1, <1>5 DEF Grows, SchedFits, ClaimFits
      <3> QED
        BY <1>1, <3>1 DEF Confirmed
    <2>4. ClaimFits(s)'
      BY <1>1, <1>2, <1>3, <1>5, <1>8, <2>2, <2>3 DEF ClaimFits, InLoop
    <2>5. StepFits(s)' /\ OutcomeFits(s)'
      BY <1>2, <1>8, <2>2 DEF StepFits, OutcomeFits, AtTarget, AtStep, AfterFailure
    <2>6. SchedFits(sched)'
      BY <2>2, <2>4, <2>5 DEF SchedFits
    <2>7. ShapesOK'
      BY <1>1, <1>5, <2>2 DEF IInv, ShapesOK, tasks, world
    <2> QED
      BY <1>5, <1>6, <2>6, <2>7 DEF IInv
  <1> QED
    BY <1>7, <1>8

(* What was recorded stays a release that was deployed.                    *)
LEMMA RecordKept ==
    ASSUME IInv, Grows, UNCHANGED target
    PROVE  RecordedWasDeployed'
  <1>1. ASSUME NEW t \in Target
        PROVE  WasDeployed(t, target[t].current)'
    <2>1. PICK rel : rel = target[t].current
      OBVIOUS
    <2>2. WasDeployed(t, rel)
      BY <2>1 DEF IInv, RecordedWasDeployed, WasDeployed
    <2>3. WasDeployed(t, rel)'
      BY <2>2, DeployedKept DEF IInv
    <2> QED
      BY <2>1, <2>3 DEF WasDeployed
  <1> QED
    BY <1>1 DEF RecordedWasDeployed, WasDeployed

(* CreateOperation reserves the next number, whoever calls it.             *)
LEMMA Reserving ==
    ASSUME IInv, NEW r \in Caller, NEW a \in Actions \cup {"rollback"}, NEW ts \in SUBSET Target,
           NEW rel \in Release \cup {None}, CreateCheck(r, a, ts, rel)
    PROVE  /\ made' \in 0..MaxOp /\ OperationsOK'
           /\ req' \in [Caller -> ReqRec] /\ (\A u \in Caller : RequestFits(req[u]))' /\ OneInsert'
  <1>1. PICK f \in Feature :
            req' = [req EXCEPT ![r] =
              [NoReq EXCEPT !.pc = "insert", !.op = made + 1, !.todo = ts,
                            !.new = [status |-> InitialStatus(a), action |-> a,
                                     feature |-> f, release |-> rel]]]
    BY DEF CreateCheck
  <1>2. /\ UNCHANGED <<op, opTarget, target, task, continued, ran>>
        /\ made \in 0..MaxOp /\ made < MaxOp /\ made' = made + 1 /\ MaxOp \in Nat
    BY ConstantsAssumption DEF CreateCheck, rows, tasks, world, IInv, ShapesOK
  <1>3. PICK n \in Op : n = made + 1 /\ made' = n /\ n > made /\ n \in 0..MaxOp
    BY <1>2 DEF Op
  <1>4. PICK new \in OpRow : /\ new = [status |-> InitialStatus(a), action |-> a,
                                       feature |-> f, release |-> rel]
                             /\ new.status = InitialStatus(new.action) /\ new.action # "none"
    <2> DEFINE row == [status |-> InitialStatus(a), action |-> a, feature |-> f, release |-> rel]
    <2>1. InitialStatus(a) \in Active
      BY DEF InitialStatus, Active
    <2>2. a # "none" /\ a \in Actions \cup {"none", "rollback"}
      BY ConstantsAssumption
    <2>3. row \in OpRow
      BY <2>1, <2>2 DEF OpRow
    <2>4. row.status = InitialStatus(row.action) /\ row.action # "none"
      BY <2>2
    <2> QED
      BY <2>3, <2>4
  <1> DEFINE asked == [NoReq EXCEPT !.pc = "insert", !.op = n, !.todo = ts, !.new = new]
  <1>5. /\ asked \in ReqRec /\ asked.pc = "insert" /\ asked.op = n /\ asked.todo = ts
        /\ asked.new = new
    BY <1>3, Idle DEF ReqRec
  <1>6. req' = [req EXCEPT ![r] = asked]
    BY <1>1, <1>3, <1>4
  <1>7. PICK q \in ReqRec : /\ q.pc = "insert" /\ q.op = n /\ q.todo = ts /\ q.new = new
                            /\ req' = [req EXCEPT ![r] = q]
    BY <1>5, <1>6
  <1>8. /\ req \in [Caller -> ReqRec] /\ req' \in [Caller -> ReqRec]
        /\ \A u \in Caller : req'[u] = IF u = r THEN q ELSE req[u]
    BY <1>7 DEF IInv, ShapesOK
  <1>9. \A u \in Caller : req[u].pc = "insert" => req[u].op \in Op /\ req[u].op <= made
    BY DEF IInv, RequestFits
  <1>10. ASSUME NEW u \in Caller
         PROVE  RequestFits(req[u])'
    <2>1. CASE u = r
      <3>1. op[n].status = "absent"
        BY <1>3 DEF IInv, OperationsOK
      <3>2. made' = n /\ n <= made'
        BY <1>3 DEF Op
      <3>3. RequestFits(q)'
        BY <1>2, <1>4, <1>7, <3>1, <3>2 DEF RequestFits, Handling, InitialStatus
      <3> QED
        BY <1>8, <2>1, <3>3
    <2>2. CASE u # r
      <3>1. PICK p \in ReqRec : p = req[u]
        BY <1>8
      <3>2. p.pc = "insert" => p.op \in Op /\ p.op <= made'
        BY <1>2, <1>9, <3>1 DEF Op
      <3>3. RequestFits(p)'
        BY <1>2, <3>1, <3>2 DEF IInv, RequestFits, WasDeployed
      <3> QED
        BY <1>8, <2>2, <3>1, <3>3
    <2> QED
      BY <2>1, <2>2
  <1>11. \A u \in Caller : req[u].pc = "insert" => req[u].op # n
    BY <1>2, <1>3, <1>9 DEF Op
  <1>12. OneInsert'
    BY <1>7, <1>8, <1>11 DEF IInv, OneInsert
  <1>13. OperationsOK'
    <2>1. \A p \in Op : p > made' => p > made
      BY <1>2 DEF Op
    <2> QED
      BY <1>2, <2>1 DEF IInv, OperationsOK, Confirmed, Unfailed, Settled
  <1>14. made' \in 0..MaxOp
    BY <1>3
  <1> QED
    BY <1>8, <1>10, <1>12, <1>13, <1>14

(* A client's request reserves the next number.                            *)
LEMMA Creating ==
    ASSUME IInv, NEW r \in Req, CreateOperation(r)
    PROVE  IInv'
  <1>1. PICK a \in Actions, ts \in Choices, rel \in Release \cup {None} : CreateCheck(r, a, ts, rel)
    BY DEF CreateOperation
  <1>2. UNCHANGED <<op, opTarget, target, task, linked, node, ran, continued, sched>>
    BY <1>1 DEF CreateOperation, CreateCheck, rows, tasks, world
  <1>3. /\ made' \in 0..MaxOp /\ OperationsOK'
        /\ req' \in [Caller -> ReqRec] /\ (\A u \in Caller : RequestFits(req[u]))' /\ OneInsert'
    BY <1>1, Reserving, ConstantsAssumption DEF Caller
  <1>4. ShapesOK' /\ TasksOK'
    BY <1>2, <1>3 DEF IInv, ShapesOK, TasksOK, Confirmed, FirstKey
  <1>5. SchedFits(sched)'
    BY <1>2 DEF IInv, SchedFits, ClaimFits, StepFits, OutcomeFits, Confirmed, Unfailed, Settled,
                FirstKey, Through, WasDeployed
  <1>6. OneActivePerFeature' /\ RecordedWasDeployed' /\ BackupBeforeUpdate'
    BY <1>2 DEF IInv, OneActivePerFeature, RecordedWasDeployed, BackupBeforeUpdate
  <1> QED
    BY <1>3, <1>4, <1>5, <1>6 DEF IInv

(* The scheduler does the same for a rollback, notes that a human has to   *)
(* decide, or does neither.                                                *)
LEMMA RollingBack ==
    ASSUME IInv, TriggerAutoRollback
    PROVE  IInv'
  <1>1. /\ sched \in SchedRec /\ SchedFits(sched) /\ sched.pc = "rollback"
        /\ sched.rollback \in Target /\ sched.release \in Release \cup {None}
    BY DEF TriggerAutoRollback, IInv, ShapesOK, SchedFits, OutcomeFits, SchedRec
  <1>2. \A pc \in {"rolling", "note"} :
            /\ [sched EXCEPT !.pc = pc] \in SchedRec
            /\ ClaimFits([sched EXCEPT !.pc = pc]) /\ StepFits([sched EXCEPT !.pc = pc])
            /\ OutcomeFits([sched EXCEPT !.pc = pc])
    <2> SUFFICES ASSUME NEW pc \in {"rolling", "note"}
                 PROVE  /\ [sched EXCEPT !.pc = pc] \in SchedRec
                        /\ ClaimFits([sched EXCEPT !.pc = pc])
                        /\ StepFits([sched EXCEPT !.pc = pc])
                        /\ OutcomeFits([sched EXCEPT !.pc = pc])
      OBVIOUS
    <2> DEFINE s == [sched EXCEPT !.pc = pc]
    <2>1. /\ s \in SchedRec /\ s.pc = pc /\ s.op = sched.op /\ s.rollback = sched.rollback
          /\ s.failed = sched.failed
      BY <1>1 DEF SchedRec, AfterFailure
    <2> HIDE DEF s
    <2>2. ClaimFits(s) /\ StepFits(s)
      BY <1>1, <2>1 DEF SchedFits, ClaimFits, StepFits, InLoop, AtTarget, AtStep
    <2>3. OutcomeFits(s)
      BY <1>1, <2>1 DEF SchedFits, OutcomeFits, AfterFailure, AtTarget
    <2> USE DEF s
    <2> QED
      BY <2>1, <2>2, <2>3
  <1>3. CASE /\ sched' = [sched EXCEPT !.pc = "note"]
             /\ UNCHANGED <<rows, tasks, made, req, world, continued>>
    BY <1>2, <1>3, SchedStep DEF SchedFits
  <1>4. CASE /\ sched' = NoSched
             /\ UNCHANGED <<rows, tasks, made, req, world, continued>>
    BY <1>4, Idle, SchedStep DEF SchedFits, ClaimFits
  <1>5. CASE /\ CreateCheck("scheduler", "rollback", {sched.rollback}, sched.release)
             /\ sched' = [sched EXCEPT !.pc = "rolling"]
    <2>1. PICK s \in SchedRec : sched' = s /\ SchedFits(s)
      BY <1>2, <1>5 DEF SchedFits
    <2>2. UNCHANGED <<op, opTarget, target, task, linked, node, ran, continued>>
      BY <1>5 DEF CreateCheck, rows, tasks, world
    <2>3. "scheduler" \in Caller /\ {sched.rollback} \in SUBSET Target
      BY <1>1 DEF Caller
    <2>4. /\ made' \in 0..MaxOp /\ OperationsOK'
          /\ req' \in [Caller -> ReqRec] /\ (\A u \in Caller : RequestFits(req[u]))' /\ OneInsert'
      BY <1>1, <1>5, <2>3, Reserving
    <2>5. ShapesOK' /\ TasksOK'
      BY <2>1, <2>2, <2>4 DEF IInv, ShapesOK, TasksOK, Confirmed, FirstKey
    <2>6. SchedFits(s)'
      BY <2>1, <2>2 DEF SchedFits, ClaimFits, StepFits, OutcomeFits, Confirmed, Unfailed, Settled,
                        FirstKey, Through, WasDeployed
    <2>7. SchedFits(sched)'
      BY <2>1, <2>6
    <2>8. OneActivePerFeature' /\ RecordedWasDeployed' /\ BackupBeforeUpdate'
      BY <2>2 DEF IInv, OneActivePerFeature, RecordedWasDeployed, BackupBeforeUpdate
    <2> QED
      BY <2>4, <2>5, <2>7, <2>8 DEF IInv
  <1> QED
    BY <1>3, <1>4, <1>5 DEF TriggerAutoRollback

(* The transaction of CreateOperation: a new operation of which there is   *)
(* nothing yet, in a feature that has no active one.                       *)
LEMMA Inserting ==
    ASSUME IInv, NEW r \in Caller, InsertBundle(r)
    PROVE  IInv'
  <1>1. PICK q \in ReqRec : q = req[r]
    BY DEF IInv, ShapesOK
  <1>2. /\ UNCHANGED <<target, task, linked, made, node, ran, continued>>
        /\ req' = [req EXCEPT ![r] = NoReq]
        /\ sched' = IF r = "scheduler" THEN NoSched ELSE sched
        /\ q.pc = "insert" /\ RequestFits(q)
    BY <1>1 DEF InsertBundle, tasks, world, IInv
  <1>3. /\ q.op \in Op /\ q.op <= made /\ op[q.op].status = "absent" /\ q.todo \subseteq Target
        /\ q.new.status = InitialStatus(q.new.action) /\ q.new.action # "none"
    BY <1>2 DEF RequestFits
  <1>4. \A u \in Caller : u # r /\ req[u].pc = "insert" => req[u].op # q.op
    BY <1>1, <1>2 DEF IInv, OneInsert
  <1>5. RequestFits(NoReq)'
    BY Idle DEF RequestFits, Handling
  <1>6. CASE UNCHANGED <<op, opTarget>>
    <2>1. Grows /\ \A u \in Caller : req[u].pc = "insert" => op'[req[u].op].status = "absent"
      BY <1>2, <1>6 DEF Grows, IInv, RequestFits
    <2>2. req' \in [Caller -> ReqRec] /\ (\A u \in Caller : RequestFits(req[u]))' /\ OneInsert'
      BY <1>2, <1>5, <2>1, Idle, OthersKept
    <2>3. ShapesOK' /\ OperationsOK' /\ TasksOK'
      BY <1>2, <1>6, <2>2, Idle
      DEF IInv, ShapesOK, OperationsOK, TasksOK, Confirmed, Unfailed, Settled, FirstKey
    <2>4. OneActivePerFeature' /\ RecordedWasDeployed' /\ BackupBeforeUpdate'
      BY <1>2, <1>6 DEF IInv, OneActivePerFeature, RecordedWasDeployed, BackupBeforeUpdate
    <2>5. CASE r = "scheduler"
      BY <1>2, <2>2, <2>3, <2>4, <2>5, Idle DEF IInv, SchedFits, ClaimFits
    <2>6. CASE r # "scheduler"
      <3>1. SchedFits(sched)'
        BY <1>2, <1>6, <2>6 DEF IInv, SchedFits, ClaimFits, StepFits, OutcomeFits, Confirmed,
                                Unfailed, Settled, FirstKey, Through, WasDeployed
      <3> QED
        BY <2>2, <2>3, <2>4, <3>1 DEF IInv
    <2> QED
      BY <2>5, <2>6
  <1>7. CASE /\ FeatureFree(q.new.feature, q.op)
             /\ op' = [op EXCEPT ![q.op] = q.new]
             /\ opTarget' = [opTarget EXCEPT ![q.op] =
                                [t \in Target |-> IF t \in q.todo THEN "queued" ELSE "none"]]
    <2>1. /\ op' \in [Op -> OpRow] /\ op'[q.op] = q.new /\ q.new \in OpRow
          /\ \A p \in Op : p # q.op => op'[p] = op[p]
      BY <1>3, <1>7 DEF IInv, ShapesOK, ReqRec
    <2>2. /\ opTarget' \in [Op -> [Target -> TargetStatus]]
          /\ \A t \in Target : opTarget'[q.op][t] \in {"queued", "none"}
          /\ \A p \in Op : p # q.op => opTarget'[p] = opTarget[p]
      BY <1>3, <1>7 DEF IInv, ShapesOK, TargetStatus
    <2>3. q.new.status \in {"queued", "awaiting_confirmation"}
      BY <1>3 DEF InitialStatus
    <2>4. \A k \in Key : k[1] = q.op => task[k] = "none" /\ k \notin ran
      BY <1>3 DEF IInv, OperationsOK, TasksOK
    <2>5. Grows
      BY <1>2, <1>3, <2>1 DEF Grows
    <2>6. OperationsOK'
      <3>1. ASSUME NEW p \in Op, p # q.op
            PROVE  /\ op'[p].status = "absent" =>
                         op'[p] = NoOp /\ (\A t \in Target : opTarget'[p][t] = "none")
                                       /\ (\A k \in Key : k[1] = p => task'[k] = "none")
                   /\ op'[p].status # "absent" => op'[p].action # "none"
                   /\ op'[p].status = "queued" => Confirmed(p)'
                   /\ op'[p].status \in {"queued", "awaiting_confirmation"} /\ p \notin continued'
                         => Unfailed(p)'
                   /\ op'[p].status = "succeeded" => \A t \in Target : Settled(p, t)'
                   /\ p > made' => op'[p].status = "absent"
        BY <1>2, <2>1, <2>2, <3>1 DEF IInv, OperationsOK, Confirmed, Unfailed, Settled
      <3>2. op'[q.op].status = "queued" => ~(Production /\ op'[q.op].action \in NeedsConfirmation)
        BY <1>3, <2>1 DEF InitialStatus
      <3>3. ~(q.op > made')
        BY <1>2, <1>3 DEF Op, IInv, ShapesOK
      <3>4. Confirmed(q.op)' \/ op'[q.op].status # "queued"
        BY <3>2 DEF Confirmed
      <3>5. Unfailed(q.op)'
        BY <2>2 DEF Unfailed
      <3> QED
        BY <1>3, <2>1, <2>3, <3>1, <3>3, <3>4, <3>5 DEF OperationsOK
    <2>7. TasksOK'
      <3>1. \A k \in Key : /\ task'[k] = "succeeded" => k \in ran'
                           /\ k \in ran' => task'[k] # "none"
                           /\ task'[k] # "none" => Confirmed(k[1])'
        BY <1>2, <2>1, <2>4 DEF IInv, TasksOK, Confirmed, Key
      <3>2. ASSUME NEW p \in Op, NEW t \in Target, opTarget'[p][t] = "succeeded"
            PROVE  FirstKey(p, t)' \in ran'
        <4>1. p # q.op
          BY <2>2, <3>2
        <4> QED
          BY <1>2, <2>1, <2>2, <3>2, <4>1 DEF IInv, TasksOK, FirstKey
      <3> QED
        BY <3>1, <3>2 DEF TasksOK
    <2>8. OneActivePerFeature'
      BY <1>7, <2>1 DEF IInv, OneActivePerFeature, FeatureFree
    <2>9. BackupBeforeUpdate'
      <3>1. \A t \in Target : <<q.op, t, "update">> \in Key
        BY <1>3 DEF Key, Step
      <3> QED
        BY <1>2, <2>1, <2>4, <3>1 DEF IInv, BackupBeforeUpdate
    <2>10. RecordedWasDeployed'
      BY <1>2, <2>5, RecordKept
    <2>11. \A u \in Caller : u # r /\ req[u].pc = "insert" => op'[req[u].op].status = "absent"
      BY <1>4, <2>1 DEF IInv, RequestFits
    <2>12. req' \in [Caller -> ReqRec] /\ (\A u \in Caller : RequestFits(req[u]))' /\ OneInsert'
      BY <1>2, <1>5, <2>5, <2>11, Idle, OthersKept
    <2>13. SchedFits(sched)' /\ sched' \in SchedRec
      <3>1. CASE r = "scheduler"
        BY <1>2, <3>1, Idle DEF SchedFits, ClaimFits
      <3>2. CASE r # "scheduler"
        <4>1. sched.pc # "idle" => sched.op \in Op /\ sched.op # q.op
          BY <1>3 DEF IInv, SchedFits, ClaimFits
        <4>2. sched.pc # "idle" => op[sched.op].status # "succeeded"
          BY DEF IInv, SchedFits, ClaimFits
        <4>3. UNCHANGED sched
          BY <1>2, <3>2
        <4> QED
          BY <2>1, <2>2, <2>5, <4>1, <4>2, <4>3, SchedKept DEF Unfailed, Settled, IInv, ShapesOK
      <3> QED
        BY <3>1, <3>2
    <2>14. ShapesOK'
      BY <1>2, <2>1, <2>2, <2>12, <2>13 DEF IInv, ShapesOK
    <2> QED
      BY <2>6, <2>7, <2>8, <2>9, <2>10, <2>12, <2>13, <2>14 DEF IInv
  <1> QED
    BY <1>1, <1>6, <1>7 DEF InsertBundle

(* A target's row in an operation is written over whatever it was.         *)
LEMMA TargetWrite ==
    ASSUME IInv, NEW o \in Op, NEW t \in Target, NEW m \in TargetDone, op[o].status # "absent",
           opTarget' = [opTarget EXCEPT ![o][t] = m],
           UNCHANGED <<op, target, tasks, made, world, continued>>,
           m = "succeeded" => FirstKey(o, t) \in ran,
           m = "failed" => /\ op[o].status # "succeeded"
                           /\ op[o].status \in {"queued", "awaiting_confirmation"} =>
                                  o \in continued
    PROVE  /\ Grows
           /\ opTarget' \in [Op -> [Target -> TargetStatus]]
           /\ \A p \in Op, u \in Target :
                  opTarget'[p][u] = IF p = o /\ u = t THEN m ELSE opTarget[p][u]
           /\ OperationsOK' /\ TasksOK'
           /\ OneActivePerFeature' /\ RecordedWasDeployed' /\ BackupBeforeUpdate'
  <1>1. UNCHANGED <<op, target, task, linked, made, node, ran, continued>>
    BY DEF tasks, world
  <1>2. opTarget \in [Op -> [Target -> TargetStatus]] /\ m \in TargetStatus
    BY DEF IInv, ShapesOK, TargetStatus
  <1>3. /\ opTarget' \in [Op -> [Target -> TargetStatus]]
        /\ \A p \in Op, u \in Target :
               opTarget'[p][u] = IF p = o /\ u = t THEN m ELSE opTarget[p][u]
    BY <1>2
  <1>4. Grows
    BY <1>1 DEF Grows
  <1>5. OperationsOK'
    <2> SUFFICES ASSUME NEW p \in Op
                 PROVE  /\ op[p].status = "absent" => \A u \in Target : opTarget'[p][u] = "none"
                        /\ op[p].status \in {"queued", "awaiting_confirmation"}
                               /\ p \notin continued => Unfailed(p)'
                        /\ op[p].status = "succeeded" => \A u \in Target : Settled(p, u)'
      BY <1>1 DEF IInv, OperationsOK, Confirmed
    <2>1. op[p].status = "absent" => \A u \in Target : opTarget'[p][u] = "none"
      BY <1>3 DEF IInv, OperationsOK
    <2>2. op[p].status \in {"queued", "awaiting_confirmation"} /\ p \notin continued => Unfailed(p)'
      BY <1>3 DEF IInv, OperationsOK, Unfailed
    <2>3. op[p].status = "succeeded" => \A u \in Target : Settled(p, u)'
      BY <1>3 DEF IInv, OperationsOK, Settled, TargetDone
    <2> QED
      BY <2>1, <2>2, <2>3
  <1>6. TasksOK'
    BY <1>1, <1>3 DEF IInv, TasksOK, FirstKey, Confirmed
  <1>7. OneActivePerFeature' /\ RecordedWasDeployed' /\ BackupBeforeUpdate'
    BY <1>1 DEF IInv, OneActivePerFeature, RecordedWasDeployed, BackupBeforeUpdate
  <1> QED
    BY <1>3, <1>4, <1>5, <1>6, <1>7

(* CancelOperation cancels the targets it has listed.                      *)
LEMMA CancellingTarget ==
    ASSUME IInv, NEW r \in Caller, CancelTarget(r)
    PROVE  IInv'
  <1>1. PICK o \in Op : o = req[r].op /\ op[o].status # "absent"
    BY DEF CancelTarget, IInv, RequestFits, Handling
  <1>2. PICK t \in req[r].todo : /\ opTarget' = [opTarget EXCEPT ![o][t] = "cancelled"]
                                 /\ req' = [req EXCEPT ![r].todo = @ \ {t}]
    BY <1>1 DEF CancelTarget
  <1>3. /\ req[r] \in ReqRec /\ req \in [Caller -> ReqRec] /\ req[r].pc = "target"
        /\ req[r].todo \subseteq Target /\ t \in Target
    BY <1>2 DEF IInv, ShapesOK, CancelTarget, RequestFits
  <1>4. UNCHANGED <<op, target, tasks, made, sched, world, continued>>
    BY DEF CancelTarget
  <1>5. "cancelled" \in TargetDone /\ "cancelled" # "succeeded" /\ "cancelled" # "failed"
    BY DEF TargetDone
  <1>6. /\ Grows
        /\ opTarget' \in [Op -> [Target -> TargetStatus]]
        /\ \A p \in Op, u \in Target :
               opTarget'[p][u] = IF p = o /\ u = t THEN "cancelled" ELSE opTarget[p][u]
        /\ OperationsOK' /\ TasksOK'
        /\ OneActivePerFeature' /\ RecordedWasDeployed' /\ BackupBeforeUpdate'
    BY ZenonT(40), <1>1, <1>2, <1>3, <1>4, <1>5, TargetWrite
  <1> DEFINE left == [req[r] EXCEPT !.todo = @ \ {t}]
  <1>7. /\ left \in ReqRec /\ left.pc = "target" /\ left.op = o /\ left.todo \subseteq Target
        /\ req' = [req EXCEPT ![r] = left]
    BY <1>1, <1>2, <1>3 DEF ReqRec
  <1>8. PICK q \in ReqRec : /\ q.pc = "target" /\ q.op = o /\ q.todo \subseteq Target
                            /\ req' = [req EXCEPT ![r] = q]
    BY <1>7
  <1>9. RequestFits(q)'
    BY <1>1, <1>4, <1>8 DEF RequestFits
  <1>10. \A u \in Caller : req[u].pc = "insert" => op'[req[u].op].status = "absent"
    BY <1>4 DEF IInv, RequestFits
  <1>11. req' \in [Caller -> ReqRec] /\ (\A u \in Caller : RequestFits(req[u]))' /\ OneInsert'
    BY <1>4, <1>6, <1>8, <1>9, <1>10, OthersKept
  <1>12. SchedFits(sched)'
    <2>1. sched.pc # "idle" => sched.op \in Op /\ op[sched.op].status # "succeeded"
      BY DEF IInv, SchedFits, ClaimFits
    <2>2. \A p \in Op : (Unfailed(p) => Unfailed(p)')
                        /\ \A u \in Target : Settled(p, u) => Settled(p, u)'
      BY <1>6 DEF Unfailed, Settled
    <2>3. sched.pc # "idle" => /\ Unfailed(sched.op) => Unfailed(sched.op)'
                               /\ \A u \in Target : Settled(sched.op, u) => Settled(sched.op, u)'
      <3>1. PICK p : p = sched.op
        OBVIOUS
      <3> QED
        BY <1>4, <2>1, <2>2, <3>1 DEF Unfailed, Settled
    <2> QED
      BY <1>4, <1>6, <2>1, <2>3, SchedKept
  <1>13. ShapesOK'
    BY <1>4, <1>6, <1>11 DEF IInv, ShapesOK, tasks, world
  <1> QED
    BY <1>6, <1>11, <1>12, <1>13 DEF IInv

(* The scheduler's flags, ...                                              *)
LEMMA Flags ==
    ASSUME NEW s \in SchedRec, NEW b \in BOOLEAN
    PROVE  /\ [s EXCEPT !.succeeded = b] \in SchedRec
           /\ [s EXCEPT !.failed = b] \in SchedRec
           /\ [s EXCEPT !.cancelled = b] \in SchedRec
  BY DEF SchedRec

(* ... and the targets it has in hand or still to do.                      *)
LEMMA Goals ==
    ASSUME NEW s \in SchedRec, NEW t \in Target, NEW todo \in SUBSET Target
    PROVE  /\ [s EXCEPT !.target = t] \in SchedRec
           /\ [s EXCEPT !.todo = todo] \in SchedRec
  <1>1. [s EXCEPT !.target = t] \in SchedRec
    BY DEF SchedRec
  <1>2. [s EXCEPT !.todo = todo] \in SchedRec
    BY DEF SchedRec
  <1> QED
    BY <1>1, <1>2

(* The scheduler marks its target, and has it settled unless it failed.    *)
LEMMA MarkingTarget ==
    ASSUME IInv, MarkTarget
    PROVE  IInv'
  <1>1. PICK p \in SchedRec : p = sched
    BY DEF IInv, ShapesOK
  <1>2. PICK m \in TargetDone : m = p.mark
    BY <1>1 DEF MarkTarget, IInv, SchedFits, StepFits, SchedRec
  <1>3. PICK o \in Op, t \in Target : o = p.op /\ t = p.target
    BY <1>1 DEF MarkTarget, IInv, SchedFits, ClaimFits, StepFits, AtTarget
  <1>4. /\ UNCHANGED <<op, target, tasks, made, req, world, continued>>
        /\ opTarget' = [opTarget EXCEPT ![o][t] = m]
        /\ p.pc = "mark" /\ ClaimFits(p) /\ StepFits(p) /\ OutcomeFits(p)
    BY <1>1, <1>2, <1>3 DEF MarkTarget, IInv, SchedFits
  <1>5. /\ op[o].status \notin {"absent", "succeeded"}
        /\ op[o].status \in {"queued", "awaiting_confirmation"} => o \in continued
        /\ Confirmed(o) /\ (o \in continued \/ Unfailed(o))
        /\ m = "succeeded" => Through(o, t)
        /\ p.rollback # None => m = "failed"
        /\ p.failed \/ \A u \in Target : Settled(o, u) \/ u \in p.todo \/ u = t
    BY <1>2, <1>3, <1>4 DEF ClaimFits, StepFits, OutcomeFits, InLoop, AtTarget, AfterFailure
  <1>6. m = "succeeded" => FirstKey(o, t) \in ran
    BY <1>5 DEF Through
  <1>7. /\ Grows
        /\ opTarget' \in [Op -> [Target -> TargetStatus]]
        /\ \A v \in Op, u \in Target :
               opTarget'[v][u] = IF v = o /\ u = t THEN m ELSE opTarget[v][u]
        /\ OperationsOK' /\ TasksOK'
        /\ OneActivePerFeature' /\ RecordedWasDeployed' /\ BackupBeforeUpdate'
    BY <1>4, <1>5, <1>6, TargetWrite
  <1>8. (\A u \in Caller : RequestFits(req[u]))' /\ OneInsert'
    <2>1. \A u \in Caller : req[u].pc = "insert" => op'[req[u].op].status = "absent"
      BY <1>4 DEF IInv, RequestFits
    <2> QED
      BY <1>4, <1>7, <2>1, AllKept
  <1>9. /\ Confirmed(o)' /\ op'[o].status \notin {"absent", "succeeded"}
        /\ op'[o].status \in {"queued", "awaiting_confirmation"} => o \in continued'
        /\ m # "failed" => (o \in continued' \/ Unfailed(o)')
        /\ m # "failed" => /\ Settled(o, t)'
                           /\ \A u \in Target : Settled(o, u) => Settled(o, u)'
        /\ Through(o, t) => Through(o, t)'
    <2>1. Confirmed(o)' /\ (Through(o, t) => Through(o, t)')
      BY <1>5, <1>7, FirstKept
    <2>2. m # "failed" => (o \in continued' \/ Unfailed(o)')
      BY <1>4, <1>5, <1>7 DEF Unfailed
    <2>3. m # "failed" => /\ Settled(o, t)'
                          /\ \A u \in Target : Settled(o, u) => Settled(o, u)'
      BY <1>7 DEF Settled, TargetDone
    <2> QED
      BY <1>4, <1>5, <2>1, <2>2, <2>3
  <1>10. \E s \in SchedRec : sched' = s /\ SchedFits(s)'
    <2> DEFINE left == [p EXCEPT !.target = None, !.step = "none", !.mark = "none"]
    <2>1. /\ left \in SchedRec /\ left.op = o /\ left.todo = p.todo /\ left.rollback = p.rollback
          /\ left.failed = p.failed /\ left = TargetLeft
      BY <1>1, <1>3 DEF SchedRec, TargetLeft
    <2> HIDE DEF left
    <2>0. PICK yes \in BOOLEAN : yes = TRUE
      OBVIOUS
    <2>2. CASE m = "succeeded"
      <3> DEFINE base == [left EXCEPT !.pc = "read", !.target = t]
                 s == [base EXCEPT !.succeeded = yes]
      <3>1. sched' = s
        BY <1>1, <1>2, <1>3, <2>0, <2>1, <2>2 DEF MarkTarget
      <3>2. /\ s \in SchedRec /\ s.pc = "read" /\ s.op = o /\ s.todo = p.todo /\ s.target = t
            /\ s.rollback = p.rollback /\ s.failed = p.failed
        <4>1. base \in SchedRec
          <5>1. [left EXCEPT !.pc = "read"] \in SchedRec
            BY <2>1 DEF SchedRec, InLoop
          <5>2. base = [[left EXCEPT !.pc = "read"] EXCEPT !.target = t]
            BY <2>1 DEF SchedRec
          <5>3. {} \in SUBSET Target
            OBVIOUS
          <5> QED
            BY <1>3, <5>1, <5>2, <5>3, Goals
        <4>2. s \in SchedRec
          BY <2>0, <4>1, Flags
        <4> QED
          BY <2>1, <4>2 DEF SchedRec
      <3> HIDE DEF s
      <3>3. ClaimFits(s)' /\ StepFits(s)'
        BY <1>5, <1>9, <2>2, <3>2 DEF ClaimFits, StepFits, AtStep
      <3>4. OutcomeFits(s)'
        BY <1>5, <1>9, <2>2, <3>2 DEF OutcomeFits, AtTarget
      <3> QED
        BY <3>1, <3>2, <3>3, <3>4 DEF SchedFits
    <2>3. CASE m = "skipped"
      <3> DEFINE base == [left EXCEPT !.pc = "next"]
                 s == [base EXCEPT !.succeeded = yes]
      <3>1. sched' = s
        BY <1>1, <1>2, <1>3, <2>0, <2>1, <2>3 DEF MarkTarget
      <3>2. /\ s \in SchedRec /\ s.pc = "next" /\ s.op = o /\ s.todo = p.todo
            /\ s.rollback = p.rollback /\ s.failed = p.failed
        <4>1. base \in SchedRec
          BY <2>1 DEF SchedRec, InLoop
        <4>2. s \in SchedRec
          BY <2>0, <4>1, Flags
        <4> QED
          BY <2>1, <4>2 DEF SchedRec
      <3> HIDE DEF s
      <3>3. ClaimFits(s)' /\ StepFits(s)'
        BY <1>5, <1>9, <2>3, <3>2 DEF ClaimFits, StepFits, AtStep, AtTarget
      <3>4. OutcomeFits(s)'
        BY <1>5, <1>9, <2>3, <3>2 DEF OutcomeFits, AtTarget
      <3> QED
        BY <3>1, <3>2, <3>3, <3>4 DEF SchedFits
    <2>4. CASE m = "cancelled"
      <3> DEFINE base == [left EXCEPT !.pc = "next"]
                 s == [base EXCEPT !.cancelled = yes]
      <3>1. sched' = s
        BY <1>1, <1>2, <1>3, <2>0, <2>1, <2>4 DEF MarkTarget
      <3>2. /\ s \in SchedRec /\ s.pc = "next" /\ s.op = o /\ s.todo = p.todo
            /\ s.rollback = p.rollback /\ s.failed = p.failed
        <4>1. base \in SchedRec
          BY <2>1 DEF SchedRec, InLoop
        <4>2. s \in SchedRec
          BY <2>0, <4>1, Flags
        <4> QED
          BY <2>1, <4>2 DEF SchedRec
      <3> HIDE DEF s
      <3>3. ClaimFits(s)' /\ StepFits(s)'
        BY <1>5, <1>9, <2>4, <3>2 DEF ClaimFits, StepFits, AtStep, AtTarget
      <3>4. OutcomeFits(s)'
        BY <1>5, <1>9, <2>4, <3>2 DEF OutcomeFits, AtTarget
      <3> QED
        BY <3>1, <3>2, <3>3, <3>4 DEF SchedFits
    <2>5. CASE m = "failed"
      <3> DEFINE pc == IF p.rollback = None THEN "final" ELSE "healthy"
                 base == [left EXCEPT !.pc = pc, !.todo = {}]
                 s == [base EXCEPT !.failed = yes]
      <3>1. sched' = s
        BY <1>1, <1>2, <1>3, <2>0, <2>1, <2>5 DEF MarkTarget
      <3>2. pc \in {"final", "healthy"} /\ (pc = "healthy" => p.rollback # None)
        OBVIOUS
      <3> HIDE DEF pc
      <3>3. /\ s \in SchedRec /\ s.pc = pc /\ s.op = o /\ s.failed = yes
            /\ s.rollback = p.rollback
        <4>1. base \in SchedRec
          <5>1. [left EXCEPT !.pc = pc] \in SchedRec
            BY <2>1, <3>2 DEF SchedRec, AfterFailure
          <5>2. base = [[left EXCEPT !.pc = pc] EXCEPT !.todo = {}]
            BY <2>1 DEF SchedRec
          <5>3. {} \in SUBSET Target
            OBVIOUS
          <5> QED
            BY <1>3, <5>1, <5>2, <5>3, Goals
        <4>2. s \in SchedRec
          BY <2>0, <4>1, Flags
        <4> QED
          BY <2>1, <4>2 DEF SchedRec
      <3> HIDE DEF s
      <3>4. ClaimFits(s)' /\ StepFits(s)'
        BY <1>5, <1>9, <3>2, <3>3 DEF ClaimFits, StepFits, AtStep, AtTarget, InLoop
      <3>5. OutcomeFits(s)'
        BY <2>0, <3>2, <3>3 DEF OutcomeFits, AtTarget, AfterFailure
      <3> QED
        BY <3>1, <3>3, <3>4, <3>5 DEF SchedFits
    <2> QED
      BY <2>2, <2>3, <2>4, <2>5 DEF TargetDone
  <1>11. SchedFits(sched)' /\ sched' \in SchedRec
    BY <1>10
  <1>12. ShapesOK'
    BY <1>4, <1>7, <1>11 DEF IInv, ShapesOK, tasks, world
  <1> QED
    BY <1>7, <1>8, <1>11, <1>12 DEF IInv

(* The note for a human writes the failed target again.                    *)
LEMMA Noting ==
    ASSUME IInv, NoteManualRollbackDecision
    PROVE  IInv'
  <1>1. PICK o \in Op, t \in Target : o = sched.op /\ t = sched.rollback
    BY DEF NoteManualRollbackDecision, IInv, ShapesOK, SchedRec, SchedFits, ClaimFits, OutcomeFits
  <1>2. /\ UNCHANGED <<op, target, tasks, made, req, world, continued>>
        /\ opTarget' = [opTarget EXCEPT ![o][t] = "failed"] /\ sched' = NoSched
        /\ op[o].status \notin {"absent", "succeeded"}
        /\ op[o].status \in {"queued", "awaiting_confirmation"} => o \in continued
    BY <1>1 DEF NoteManualRollbackDecision, IInv, SchedFits, ClaimFits
  <1>3. "failed" \in TargetDone /\ "failed" # "succeeded"
    BY DEF TargetDone
  <1>4. /\ Grows
        /\ opTarget' \in [Op -> [Target -> TargetStatus]]
        /\ OperationsOK' /\ TasksOK'
        /\ OneActivePerFeature' /\ RecordedWasDeployed' /\ BackupBeforeUpdate'
    BY <1>2, <1>3, TargetWrite
  <1>5. (\A u \in Caller : RequestFits(req[u]))' /\ OneInsert'
    <2>1. \A u \in Caller : req[u].pc = "insert" => op'[req[u].op].status = "absent"
      BY <1>2 DEF IInv, RequestFits
    <2> QED
      BY <1>2, <1>4, <2>1, AllKept
  <1>6. ShapesOK' /\ SchedFits(sched)'
    BY <1>2, <1>4, Idle DEF IInv, ShapesOK, SchedFits, ClaimFits, tasks, world
  <1> QED
    BY <1>4, <1>5, <1>6 DEF IInv

(* A target's row is written back with a release that was deployed.        *)
LEMMA Recording ==
    ASSUME IInv, NEW t \in Target, NEW row \in TargetRow, WasDeployed(t, row.current),
           target' = [target EXCEPT ![t] = row],
           UNCHANGED <<op, opTarget, tasks, made, world, continued>>
    PROVE  /\ Grows
           /\ target' \in [Target -> TargetRow]
           /\ OperationsOK' /\ TasksOK'
           /\ OneActivePerFeature' /\ RecordedWasDeployed' /\ BackupBeforeUpdate'
  <1>1. UNCHANGED <<op, opTarget, task, linked, made, node, ran, continued>>
    BY DEF tasks, world
  <1>2. /\ target' \in [Target -> TargetRow]
        /\ \A u \in Target : target'[u] = IF u = t THEN row ELSE target[u]
    BY DEF IInv, ShapesOK
  <1>3. Grows
    BY <1>1 DEF Grows
  <1>4. OperationsOK' /\ TasksOK' /\ OneActivePerFeature' /\ BackupBeforeUpdate'
    BY <1>1 DEF IInv, OperationsOK, TasksOK, Confirmed, Unfailed, Settled, FirstKey,
                OneActivePerFeature, BackupBeforeUpdate
  <1>5. RecordedWasDeployed'
    <2>1. ASSUME NEW u \in Target
          PROVE  WasDeployed(u, target'[u].current)
      BY <1>2 DEF IInv, RecordedWasDeployed, WasDeployed
    <2> QED
      BY <1>1, <2>1 DEF RecordedWasDeployed, WasDeployed
  <1> QED
    BY <1>2, <1>3, <1>4, <1>5

(* UpdateTarget writes the row it has read, which may be stale.            *)
LEMMA Editing ==
    ASSUME IInv, NEW r \in Req, UpdateTargetWrite(r)
    PROVE  IInv'
  <1>1. PICK q \in ReqRec : q = req[r]
    BY DEF IInv, ShapesOK, Caller
  <1>2. /\ r \in Caller /\ q.pc = "edit" /\ req' = [req EXCEPT ![r] = NoReq]
        /\ UNCHANGED <<op, opTarget, tasks, made, sched, world, continued>>
        /\ q.target \in Target /\ q.row \in TargetRow /\ WasDeployed(q.target, q.row.current)
    BY <1>1 DEF UpdateTargetWrite, IInv, RequestFits, Caller
  <1>3. PICK rel \in Release \cup {None} :
            target' = [target EXCEPT ![q.target] = [q.row EXCEPT !.desired = rel]]
    BY <1>1, <1>2, ConstantsAssumption DEF UpdateTargetWrite, TargetRow
  <1>4. PICK row \in TargetRow : /\ row.current = q.row.current
                                 /\ target' = [target EXCEPT ![q.target] = row]
    <2>1. /\ [q.row EXCEPT !.desired = rel] \in TargetRow
          /\ [q.row EXCEPT !.desired = rel].current = q.row.current
      BY <1>2 DEF TargetRow
    <2> QED
      BY <1>3, <2>1
  <1>5. /\ Grows
        /\ target' \in [Target -> TargetRow]
        /\ OperationsOK' /\ TasksOK'
        /\ OneActivePerFeature' /\ RecordedWasDeployed' /\ BackupBeforeUpdate'
    BY <1>2, <1>4, Recording
  <1>6. \A u \in Caller : req[u].pc = "insert" => op'[req[u].op].status = "absent"
    BY <1>2 DEF IInv, RequestFits
  <1>7. RequestFits(NoReq)'
    BY Idle DEF RequestFits, Handling
  <1>8. req' \in [Caller -> ReqRec] /\ (\A u \in Caller : RequestFits(req[u]))' /\ OneInsert'
    BY <1>2, <1>5, <1>6, <1>7, Idle, OthersKept
  <1>9. SchedFits(sched)'
    BY <1>2 DEF IInv, SchedFits, ClaimFits, StepFits, OutcomeFits, Confirmed, Unfailed, Settled,
                FirstKey, Through, WasDeployed, world
  <1>10. ShapesOK'
    BY <1>2, <1>5, <1>8 DEF IInv, ShapesOK, tasks, world
  <1> QED
    BY <1>5, <1>8, <1>9, <1>10 DEF IInv

(* The scheduler's part, for a new place of the scheduler, in a step that  *)
(* changes none of the rows it speaks of.                                  *)
LEMMA PlaceKept ==
    ASSUME NEW s \in SchedRec, SchedFits(s), sched' = s, UNCHANGED <<op, opTarget, continued, ran>>
    PROVE  SchedFits(sched)'
  <1>1. SchedFits(s)'
    BY DEF SchedFits, ClaimFits, StepFits, OutcomeFits, Confirmed, Unfailed, Settled, FirstKey,
           Through, WasDeployed
  <1> QED
    BY <1>1

(* The scheduler records the release it has deployed.                      *)
LEMMA RecordingRelease ==
    ASSUME IInv, RecordTarget
    PROVE  IInv'
  <1>1. PICK p \in SchedRec : p = sched
    BY DEF IInv, ShapesOK
  <1>2. p.pc = "record" /\ SchedFits(p)
    BY <1>1 DEF RecordTarget, IInv
  <1>3. /\ UNCHANGED <<op, opTarget, tasks, made, req, world, continued>>
        /\ p.target \in Target /\ p.row \in TargetRow /\ WasDeployed(p.target, p.row.current)
        /\ p.op \in Op /\ Through(p.op, p.target) /\ Settled(p.op, p.target) /\ p.rollback = None
    BY <1>1, <1>2 DEF RecordTarget, SchedFits, ClaimFits, StepFits, OutcomeFits, AtTarget,
                      AfterFailure
  <1>4. PICK row \in TargetRow : /\ target' = [target EXCEPT ![p.target] = row]
                                 /\ WasDeployed(p.target, row.current)
    <2> DEFINE a == op[p.op].action
               rel == op[p.op].release
               now == IF a \in NeedsRelease THEN rel ELSE p.row.current
               healthy == IF a \in {"install", "update"} THEN rel ELSE p.row.lastHealthy
               row == [p.row EXCEPT !.current = now, !.lastHealthy = healthy]
    <2>1. rel \in Release \cup {None}
      BY <1>3 DEF IInv, ShapesOK, OpRow
    <2>2. p.row.current \in Release \cup {None} /\ p.row.lastHealthy \in Release \cup {None}
      BY <1>3 DEF TargetRow
    <2>3. now \in Release \cup {None} /\ healthy \in Release \cup {None}
      BY <2>1, <2>2
    <2>4. WasDeployed(p.target, now)
      BY <1>3 DEF WasDeployed, Through
    <2>5. target' = [target EXCEPT ![p.target] = row]
      BY <1>1, <1>3 DEF RecordTarget, Recorded, TargetRow
    <2> HIDE DEF now, healthy
    <2>6. row \in TargetRow /\ row.current = now
      BY <1>3, <2>3 DEF TargetRow
    <2> QED
      BY <2>4, <2>5, <2>6
  <1>5. /\ Grows
        /\ target' \in [Target -> TargetRow]
        /\ OperationsOK' /\ TasksOK'
        /\ OneActivePerFeature' /\ RecordedWasDeployed' /\ BackupBeforeUpdate'
    BY <1>3, <1>4, Recording
  <1>6. \A u \in Caller : req[u].pc = "insert" => op'[req[u].op].status = "absent"
    BY <1>3 DEF IInv, RequestFits
  <1>7. (\A u \in Caller : RequestFits(req[u]))' /\ OneInsert'
    BY <1>3, <1>5, <1>6, AllKept
  <1> DEFINE left == [p EXCEPT !.pc = "next", !.row = None, !.target = None]
  <1>8. /\ left \in SchedRec /\ left.pc = "next" /\ left.op = p.op /\ left.todo = p.todo
        /\ left.failed = p.failed /\ left.rollback = p.rollback
    BY DEF SchedRec, InLoop
  <1>9. PICK s \in SchedRec : /\ s.pc = "next" /\ s.op = p.op /\ s.todo = p.todo
                              /\ s.failed = p.failed /\ s.rollback = p.rollback /\ sched' = s
    <2>1. sched' = left
      BY <1>1 DEF RecordTarget
    <2> QED
      BY <1>8, <2>1
  <1>10. ClaimFits(s) /\ StepFits(s) /\ OutcomeFits(s)
    <2>1. ClaimFits(s) /\ StepFits(s)
      BY <1>2, <1>9 DEF SchedFits, ClaimFits, StepFits, InLoop, AtTarget, AtStep
    <2>2. OutcomeFits(s)
      BY <1>2, <1>3, <1>9 DEF SchedFits, OutcomeFits, AtTarget
    <2> QED
      BY <2>1, <2>2
  <1>11. SchedFits(sched)'
    BY <1>3, <1>9, <1>10, PlaceKept DEF SchedFits, world
  <1>12. ShapesOK'
    BY <1>3, <1>5, <1>9 DEF IInv, ShapesOK, tasks, world
  <1> QED
    BY <1>5, <1>7, <1>11, <1>12 DEF IInv

-----------------------------------------------------------------------------
(* Steps of the tasks: none goes away, only one that was run succeeds, and *)
(* a new one is of a confirmed operation and comes after its backup.       *)
LEMMA TaskWrite ==
    ASSUME IInv, UNCHANGED <<op, opTarget, target, made, continued>>,
           ran \subseteq ran',
           \A k \in Key : /\ task[k] # "none" => task'[k] # "none"
                          /\ task'[k] = "succeeded" => k \in ran'
                          /\ k \in ran' => task'[k] # "none",
           \A k \in Key : task'[k] # "none" /\ task[k] = "none" =>
                /\ op[k[1]].status # "absent" /\ Confirmed(k[1])
                /\ k[3] = "update" /\ op[k[1]].feature \in BackedUp =>
                       <<k[1], k[2], "backup">> \in ran
    PROVE  /\ Grows
           /\ OperationsOK' /\ TasksOK'
           /\ OneActivePerFeature' /\ RecordedWasDeployed' /\ BackupBeforeUpdate'
  <1>1. Grows
    BY DEF Grows
  <1>2. \A k \in Key : k[1] \in Op
    BY DEF Key
  <1>3. OperationsOK'
    <2>1. ASSUME NEW k \in Key, op[k[1]].status = "absent"
          PROVE  task'[k] = "none"
      BY <1>2, <2>1 DEF IInv, OperationsOK
    <2> QED
      BY <2>1 DEF IInv, OperationsOK, Confirmed, Unfailed, Settled
  <1>4. TasksOK'
    BY <1>2 DEF IInv, TasksOK, Confirmed, FirstKey
  <1>5. OneActivePerFeature'
    BY DEF IInv, OneActivePerFeature
  <1>6. RecordedWasDeployed'
    BY <1>1, RecordKept
  <1>7. BackupBeforeUpdate'
    <2>1. ASSUME NEW o \in Op, NEW t \in Target, op[o].feature \in BackedUp,
                 task'[<<o, t, "update">>] # "none"
          PROVE  <<o, t, "backup">> \in ran
      <3>1. <<o, t, "update">> \in Key
        BY DEF Key, Step
      <3> QED
        BY <2>1, <3>1 DEF IInv, BackupBeforeUpdate
    <2> QED
      BY <2>1 DEF BackupBeforeUpdate
  <1> QED
    BY <1>1, <1>3, <1>4, <1>5, <1>6, <1>7

(* runTaskStep creates the task, unless it exists, and links it.           *)
LEMMA Launching ==
    ASSUME IInv, CreateTask \/ LinkTask
    PROVE  IInv'
  <1>1. PICK p \in SchedRec : p = sched
    BY DEF IInv, ShapesOK
  <1>2. PICK k : k = <<p.op, p.target, p.step>>
    OBVIOUS
  <1>3. /\ p.pc \in {"step", "link"} /\ ClaimFits(p) /\ StepFits(p) /\ OutcomeFits(p)
        /\ UNCHANGED <<op, opTarget, target, made, req, node, ran, continued>>
    BY <1>1 DEF CreateTask, LinkTask, IInv, SchedFits, rows, world
  <1>4. /\ k \in Key /\ k[1] = p.op /\ k[2] = p.target /\ k[3] = p.step
        /\ op[p.op].status # "absent" /\ Confirmed(p.op)
        /\ p.step = "update" /\ op[p.op].feature \in BackedUp =>
               <<p.op, p.target, "backup">> \in ran
        /\ p.rollback = None
    BY <1>2, <1>3
    DEF ClaimFits, StepFits, OutcomeFits, AtTarget, AtStep, AfterFailure, Key
  <1>5. \A pc \in {"link", "poll"} : LET s == [p EXCEPT !.pc = pc] IN s \in SchedRec /\ SchedFits(s)
    <2> SUFFICES ASSUME NEW pc \in {"link", "poll"}
                 PROVE  [p EXCEPT !.pc = pc] \in SchedRec /\ SchedFits([p EXCEPT !.pc = pc])
      OBVIOUS
    <2> DEFINE s == [p EXCEPT !.pc = pc]
    <2>1. /\ s \in SchedRec /\ s.pc = pc /\ s.op = p.op /\ s.todo = p.todo /\ s.target = p.target
          /\ s.step = p.step /\ s.failed = p.failed /\ s.rollback = p.rollback
      BY DEF SchedRec, InLoop
    <2> HIDE DEF s
    <2>2. ClaimFits(s)
      BY <1>3, <2>1 DEF ClaimFits, InLoop
    <2>3. StepFits(s)
      BY <1>3, <2>1 DEF StepFits, AtTarget, AtStep
    <2>4. OutcomeFits(s)
      BY <1>3, <1>4, <2>1 DEF OutcomeFits, AtTarget
    <2> USE DEF s
    <2> QED
      BY <2>1, <2>2, <2>3, <2>4 DEF SchedFits
  <1>6. SchedFits(sched)' /\ sched' \in SchedRec
    <2>1. PICK s \in SchedRec : sched' = s /\ SchedFits(s)
      BY <1>1, <1>5 DEF CreateTask, LinkTask
    <2> QED
      BY <1>3, <2>1, PlaceKept
  <1>7. /\ task' \in [Key -> TaskStatus] /\ linked' \subseteq Key
        /\ \A j \in Key : /\ task[j] # "none" => task'[j] = task[j]
                          /\ task[j] = "none" => task'[j] \in {"none", "live"}
                          /\ task[j] = "none" /\ task'[j] # "none" => j = k
    BY <1>1, <1>2, <1>4 DEF CreateTask, LinkTask, CurrentKey, TaskStatus, IInv, ShapesOK
  <1>8. /\ Grows
        /\ OperationsOK' /\ TasksOK'
        /\ OneActivePerFeature' /\ RecordedWasDeployed' /\ BackupBeforeUpdate'
    <2>1. \A j \in Key : /\ task[j] # "none" => task'[j] # "none"
                         /\ task'[j] = "succeeded" => j \in ran'
                         /\ j \in ran' => task'[j] # "none"
      BY <1>3, <1>7 DEF IInv, TasksOK
    <2>2. \A j \in Key : task'[j] # "none" /\ task[j] = "none" =>
                /\ op[j[1]].status # "absent" /\ Confirmed(j[1])
                /\ j[3] = "update" /\ op[j[1]].feature \in BackedUp =>
                       <<j[1], j[2], "backup">> \in ran
      BY <1>4, <1>7
    <2> QED
      BY <1>3, <2>1, <2>2, TaskWrite
  <1>9. \A u \in Caller : req[u].pc = "insert" => op'[req[u].op].status = "absent"
    BY <1>3 DEF IInv, RequestFits
  <1>10. (\A u \in Caller : RequestFits(req[u]))' /\ OneInsert'
    BY <1>3, <1>8, <1>9, AllKept
  <1>11. ShapesOK'
    BY <1>3, <1>6, <1>7 DEF IInv, ShapesOK
  <1> QED
    BY <1>6, <1>8, <1>10, <1>11 DEF IInv

(* CancelOperation closes a task that it has read.                         *)
LEMMA CancellingTask ==
    ASSUME IInv, NEW r \in Req, CancelWriteTask(r)
    PROVE  IInv'
  <1>1. PICK q \in ReqRec : q = req[r] /\ r \in Caller
    BY DEF IInv, ShapesOK, Caller
  <1>2. /\ q.pc = "task" /\ q.target \in Key /\ task[q.target] # "none"
        /\ q.op \in Op /\ op[q.op].status # "absent"
        /\ task' = [task EXCEPT ![q.target] = "cancelled"]
        /\ UNCHANGED <<op, opTarget, target, linked, made, sched, node, ran, continued>>
    BY <1>1 DEF CancelWriteTask, IInv, RequestFits, Handling, rows, world
  <1>3. /\ task' \in [Key -> TaskStatus]
        /\ \A k \in Key : task'[k] = IF k = q.target THEN "cancelled" ELSE task[k]
    BY <1>2 DEF IInv, ShapesOK, TaskStatus
  <1>4. /\ Grows
        /\ OperationsOK' /\ TasksOK'
        /\ OneActivePerFeature' /\ RecordedWasDeployed' /\ BackupBeforeUpdate'
    <2>1. \A k \in Key : /\ task[k] # "none" => task'[k] # "none"
                         /\ task'[k] = "succeeded" => k \in ran'
                         /\ k \in ran' => task'[k] # "none"
      BY <1>2, <1>3 DEF IInv, TasksOK
    <2>2. \A k \in Key : ~(task'[k] # "none" /\ task[k] = "none")
      BY <1>2, <1>3
    <2> QED
      BY <1>2, <2>1, <2>2, TaskWrite
  <1> DEFINE left == [q EXCEPT !.pc = "tasks", !.target = None]
  <1>5. left \in ReqRec /\ left.pc = "tasks" /\ left.op = q.op /\ left.todo = q.todo
    BY DEF ReqRec, Handling
  <1>6. PICK s \in ReqRec : /\ s.pc = "tasks" /\ s.op = q.op /\ s.todo = q.todo
                            /\ req' = [req EXCEPT ![r] = s]
    <2>1. req \in [Caller -> ReqRec]
      BY DEF IInv, ShapesOK
    <2>2. req' = [req EXCEPT ![r] = left]
      BY <1>1, <2>1 DEF CancelWriteTask
    <2> QED
      BY <1>5, <2>2
  <1>7. q.todo \subseteq Key
    BY <1>1, <1>2 DEF IInv, RequestFits
  <1>8. RequestFits(s)'
    BY <1>2, <1>6, <1>7 DEF RequestFits
  <1>9. \A u \in Caller : req[u].pc = "insert" => op'[req[u].op].status = "absent"
    BY <1>2 DEF IInv, RequestFits
  <1>10. req' \in [Caller -> ReqRec] /\ (\A u \in Caller : RequestFits(req[u]))' /\ OneInsert'
    BY <1>1, <1>2, <1>4, <1>6, <1>8, <1>9, OthersKept
  <1>11. SchedFits(sched)'
    BY <1>2, PlaceKept DEF IInv, ShapesOK
  <1>12. ShapesOK'
    BY <1>2, <1>3, <1>10 DEF IInv, ShapesOK
  <1> QED
    BY <1>4, <1>10, <1>11, <1>12 DEF IInv

(* The agent runs a task; it may have been cancelled.                      *)
LEMMA Running ==
    ASSUME IInv, NEW k \in Key, TaskEnds(k) \/ CancelledRuns(k)
    PROVE  IInv'
  <1>1. /\ UNCHANGED <<op, opTarget, target, linked, made, sched, req, continued>>
        /\ task[k] \in {"live", "cancelled"}
    BY DEF TaskEnds, CancelledRuns, rows, tasks
  <1>2. /\ ran' \in {ran, ran \cup {k}}
        /\ node' \in [Target -> Release \cup {None}]
    <2>1. /\ k[2] \in Target /\ op[k[1]].release \in Release \cup {None}
          /\ node \in [Target -> Release \cup {None}]
      BY DEF IInv, ShapesOK, OpRow, Key
    <2>2. CASE Effect(k)
      BY <2>1, <2>2 DEF Effect
    <2>3. CASE UNCHANGED world
      BY <2>1, <2>3 DEF world
    <2> QED
      BY <2>2, <2>3 DEF TaskEnds, CancelledRuns
  <1>3. /\ task' \in [Key -> TaskStatus]
        /\ \A j \in Key : /\ j # k => task'[j] = task[j]
                          /\ task'[k] # "none"
                          /\ task'[k] = "succeeded" => ran' = ran \cup {k}
    BY <1>1 DEF TaskEnds, CancelledRuns, Effect, IInv, ShapesOK, TaskStatus, tasks
  <1>4. /\ Grows
        /\ OperationsOK' /\ TasksOK'
        /\ OneActivePerFeature' /\ RecordedWasDeployed' /\ BackupBeforeUpdate'
    <2>1. \A j \in Key : /\ task[j] # "none" => task'[j] # "none"
                         /\ task'[j] = "succeeded" => j \in ran'
                         /\ j \in ran' => task'[j] # "none"
      BY <1>1, <1>2, <1>3 DEF IInv, TasksOK
    <2>2. \A j \in Key : ~(task'[j] # "none" /\ task[j] = "none")
      BY <1>1, <1>3
    <2> QED
      BY <1>1, <1>2, <2>1, <2>2, TaskWrite
  <1>5. \A u \in Caller : req[u].pc = "insert" => op'[req[u].op].status = "absent"
    BY <1>1 DEF IInv, RequestFits
  <1>6. (\A u \in Caller : RequestFits(req[u]))' /\ OneInsert'
    BY <1>1, <1>4, <1>5, AllKept
  <1>7. SchedFits(sched)'
    <2>1. sched.pc # "idle" => sched.op \in Op /\ op[sched.op].status # "succeeded"
      BY DEF IInv, SchedFits, ClaimFits
    <2> QED
      BY <1>1, <1>4, <2>1, SchedKept DEF Unfailed, Settled
  <1>8. ShapesOK'
    BY <1>1, <1>2, <1>3 DEF IInv, ShapesOK
  <1> QED
    BY <1>4, <1>6, <1>7, <1>8 DEF IInv

-----------------------------------------------------------------------------
(* Nothing exists at the beginning but the releases that are deployed.     *)
LEMMA Starting == Init => IInv
  <1> SUFFICES ASSUME Init
               PROVE  IInv
    OBVIOUS
  <1> USE DEF Init
  <1>1. ShapesOK
    <2>1. op \in [Op -> OpRow] /\ sched \in SchedRec /\ req \in [Caller -> ReqRec]
      BY Idle
    <2>2. target \in [Target -> TargetRow] /\ node \in [Target -> Release \cup {None}]
      BY ConstantsAssumption DEF TargetRow
    <2>3. opTarget \in [Op -> [Target -> TargetStatus]] /\ task \in [Key -> TaskStatus]
      BY DEF TargetStatus, TaskStatus
    <2>4. made \in 0..MaxOp
      BY ConstantsAssumption
    <2> QED
      BY <2>1, <2>2, <2>3, <2>4 DEF ShapesOK
  <1>2. OperationsOK
    BY Idle DEF OperationsOK
  <1>3. TasksOK
    BY DEF TasksOK
  <1>4. (\A r \in Caller : RequestFits(req[r])) /\ OneInsert
    BY Idle DEF OneInsert
  <1>5. SchedFits(sched)
    BY Idle DEF SchedFits, ClaimFits
  <1>6. OneActivePerFeature
    BY Idle DEF OneActivePerFeature, Active
  <1>7. RecordedWasDeployed
    BY DEF RecordedWasDeployed
  <1>8. BackupBeforeUpdate
    BY DEF BackupBeforeUpdate, Key, Step
  <1> QED
    BY <1>1, <1>2, <1>3, <1>4, <1>5, <1>6, <1>7, <1>8 DEF IInv

(* Every step of the scheduler, the handlers, the agent and a restart      *)
(* preserves the invariant.                                                *)
LEMMA Stepping == IInv /\ [Next]_vars => IInv'
  <1> SUFFICES ASSUME IInv, [Next]_vars
               PROVE  IInv'
    OBVIOUS
  <1>1. CASE Scheduler
    <2>1. CASE ClaimQueuedDeploymentOperation
      BY <2>1, Claiming
    <2>2. CASE ListTargets
      BY <2>2, Listing
    <2>3. CASE NextTarget \/ LoopEnds
      BY <2>3, Looping
    <2>4. CASE BeginTarget
      BY <2>4, Beginning
    <2>5. CASE CreateTask \/ LinkTask
      BY <2>5, Launching
    <2>6. CASE StepRefused \/ StepFailed
      BY <2>6, Deciding
    <2>7. CASE StepError \/ StepTimeout \/ Reread
      BY <2>7, Failing
    <2>8. CASE StepSucceeded
      BY <2>8, Succeeding
    <2>9. CASE Probe
      BY <2>9, Probing
    <2>10. CASE MarkTarget
      BY <2>10, MarkingTarget
    <2>11. CASE ReadTarget
      BY <2>11, Reading
    <2>12. CASE RecordTarget
      BY <2>12, RecordingRelease
    <2>13. CASE ReadLastHealthy
      BY <2>13, Choosing
    <2>14. CASE Finalize
      BY <2>14, Finalizing
    <2>15. CASE FinishOperation
      BY <2>15, Finishing
    <2>16. CASE TriggerAutoRollback
      BY <2>16, RollingBack
    <2>17. CASE NoteManualRollbackDecision
      BY <2>17, Noting
    <2>18. CASE InsertBundle("scheduler")
      BY <2>18, Inserting DEF Caller
    <2> QED
      BY <1>1, <2>1, <2>2, <2>3, <2>4, <2>5, <2>6, <2>7, <2>8, <2>9, <2>10, <2>11, <2>12, <2>13,
         <2>14, <2>15, <2>16, <2>17, <2>18 DEF Scheduler
  <1>2. CASE Agent
    BY <1>2, Running DEF Agent
  <1>3. CASE Restart
    BY <1>3, Restarting
  <1>4. ASSUME NEW r \in Req, Handler(r)
        PROVE  IInv'
    <2>1. r \in Caller
      BY DEF Caller
    <2>2. CASE InsertBundle(r)
      BY <2>1, <2>2, Inserting
    <2>3. CASE CancelWrite(r)
      BY <2>1, <2>3, Cancelling
    <2>4. CASE CancelTarget(r)
      BY <2>1, <2>4, CancellingTarget
    <2>5. CASE CancelWriteTask(r)
      BY <2>5, CancellingTask
    <2>6. CASE ContinueWrite(r)
      BY <2>1, <2>6, Continuing
    <2>7. CASE UpdateTargetWrite(r)
      BY <2>7, Editing
    <2>8. CASE \/ CancelListTargets(r) \/ CancelListSteps(r) \/ CancelReadTask(r)
               \/ CancelReturn(r) \/ ContinueListTargets(r)
      BY <2>1, <2>8, HandlerReading
    <2> QED
      BY <1>4, <2>2, <2>3, <2>4, <2>5, <2>6, <2>7, <2>8 DEF Handler
  <1>5. ASSUME NEW r \in Req, Request(r)
        PROVE  IInv'
    BY <1>5, Creating, Requesting DEF Request, Caller
  <1>6. CASE UNCHANGED vars
    <2>1. sched' = sched /\ sched \in SchedRec /\ SchedFits(sched)
          /\ UNCHANGED <<rows, tasks, made, req, world, continued>>
      BY <1>6 DEF vars, rows, tasks, world, IInv, ShapesOK
    <2> QED
      BY <2>1, SchedStep
  <1> QED
    BY <1>1, <1>2, <1>3, <1>4, <1>5, <1>6 DEF Next

(* The invariant holds in every state of every behaviour.                  *)
THEOREM Invariance == Spec => []IInv
  BY Starting, Stepping, PTL DEF Spec

-----------------------------------------------------------------------------
(* Every row and every field keeps its type.                               *)
THEOREM TypeCorrect == Spec => []TypeOK
  <1>1. IInv => TypeOK
    BY DEF IInv, ShapesOK, SchedFits, ClaimFits, SchedRec, ReqRec, TypeOK, TargetStatus, TaskStatus
  <1> QED
    BY <1>1, Invariance, PTL

(* A feature has one active operation, though CreateOperation looks before *)
(* it inserts and ContinueOperation does not look at all.                  *)
THEOREM OneActiveHolds == Spec => []OneActivePerFeature
  <1>1. IInv => OneActivePerFeature
    BY DEF IInv
  <1> QED
    BY <1>1, Invariance, PTL

(* In production no task of an installation or an update exists before an  *)
(* administrator has confirmed the operation, and the data of a feature    *)
(* with backups is saved before its update runs.                           *)
THEOREM TasksInOrderHolds == Spec => []TasksInOrder
  <1>1. IInv => OnlyConfirmed
    BY DEF IInv, TasksOK, Confirmed, OnlyConfirmed
  <1>2. IInv => BackupBeforeUpdate
    BY DEF IInv
  <1>3. IInv => TasksInOrder
    BY <1>1, <1>2 DEF TasksInOrder
  <1> QED
    BY <1>3, Invariance, PTL

(* An operation shown as succeeded hides no target that failed or was      *)
(* never executed.                                                         *)
THEOREM SucceededHolds == Spec => []SucceededHidesNothing
  <1>1. IInv => SucceededHidesNothing
    <2> SUFFICES ASSUME IInv, NEW o \in Op, op[o].status = "succeeded", NEW t \in TargetsOf(o)
                 PROVE  \/ opTarget[o][t] \in {"skipped", "cancelled"}
                        \/ /\ opTarget[o][t] = "succeeded"
                           /\ <<o, t, FirstStep(op[o].action, op[o].feature)>> \in ran
      BY DEF SucceededHidesNothing
    <2>1. t \in Target /\ opTarget[o][t] # "none" /\ Settled(o, t)
      BY DEF TargetsOf, IInv, OperationsOK
    <2> QED
      BY <2>1 DEF IInv, TasksOK, FirstKey, Settled
  <1> QED
    BY <1>1, Invariance, PTL

(* current_release_id names a release that was deployed on the target and  *)
(* whose health check was run, whatever stale row was written back.        *)
THEOREM RecordedHolds == Spec => []RecordedWasDeployed
  <1>1. IInv => RecordedWasDeployed
    BY DEF IInv
  <1> QED
    BY <1>1, Invariance, PTL

(* Only the scheduler creates tasks, of the step it has in hand.           *)
LEMMA TasksAreCreated ==
    ASSUME IInv, Next, NEW k \in Key, Created(k)
    PROVE  sched.pc = "step" /\ k = CurrentKey
  <1>1. task' # task
    BY DEF Created
  <1>2. CASE Scheduler
    BY <1>1, <1>2
    DEF Scheduler, ClaimQueuedDeploymentOperation, ListTargets, NextTarget, LoopEnds, BeginTarget,
        CreateTask, StepRefused, StepError, LinkTask, StepSucceeded, StepFailed, StepTimeout,
        Reread, Probe, MarkTarget, ReadTarget, RecordTarget, ReadLastHealthy, Finalize,
        FinishOperation, TriggerAutoRollback, NoteManualRollbackDecision, InsertBundle,
        CreateCheck, tasks, Created, IInv, ShapesOK
  <1>3. CASE Agent
    BY <1>3 DEF Agent, TaskEnds, CancelledRuns, Created, tasks, IInv, ShapesOK
  <1>4. CASE Restart
    BY <1>1, <1>4 DEF Restart, tasks
  <1>5. ASSUME NEW r \in Req, Handler(r)
        PROVE  FALSE
    <2>1. CASE CancelWriteTask(r)
      <3>1. r \in Caller /\ req[r].target \in Key /\ task[req[r].target] # "none"
        BY <2>1 DEF CancelWriteTask, IInv, RequestFits, Caller
      <3> QED
        BY <2>1, <3>1 DEF CancelWriteTask, Created, IInv, ShapesOK
    <2>2. CASE ~CancelWriteTask(r)
      BY <1>1, <1>5, <2>2
      DEF Handler, InsertBundle, CancelWrite, CancelListTargets, CancelTarget, CancelListSteps,
          CancelReadTask, CancelReturn, ContinueListTargets, ContinueWrite, UpdateTargetWrite, tasks
    <2> QED
      BY <2>1, <2>2
  <1>6. ASSUME NEW r \in Req, Request(r)
        PROVE  FALSE
    BY <1>1, <1>6
    DEF Request, CreateOperation, CreateCheck, CancelRead, ContinueRead, UpdateTargetRead, tasks
  <1> QED
    BY <1>2, <1>3, <1>4, <1>5, <1>6 DEF Next

(* Once a target has failed, no task is created for another one until      *)
(* somebody continues the operation.                                       *)
THEOREM FailureStopsHolds == Spec => FailureStops
  <1> DEFINE Stops == \A k \in Key : Created(k) =>
                         \A t \in Target : opTarget[k[1]][t] = "failed" => k[1] \in continued
  <1>1. IInv /\ Next => Stops
    <2> SUFFICES ASSUME IInv, Next, NEW k \in Key, Created(k)
                 PROVE  \A t \in Target : opTarget[k[1]][t] = "failed" => k[1] \in continued
      OBVIOUS
    <2>1. sched.pc = "step" /\ k[1] = sched.op
      BY TasksAreCreated DEF CurrentKey
    <2>2. sched.op \in continued \/ Unfailed(sched.op)
      BY <2>1 DEF IInv, SchedFits, ClaimFits, InLoop
    <2> QED
      BY <2>1, <2>2 DEF Unfailed
  <1>2. IInv /\ [Next]_vars => [Stops]_vars
    BY <1>1
  <1> QED
    BY <1>2, Invariance, PTL DEF Spec, FailureStops


-----------------------------------------------------------------------------
(* Deployment implements OperationLife                                     *)

(* Nobody has a target in hand that is not one of the operation's, nor is  *)
(* the scheduler at a task that the operation does not have.               *)
InHandWithin(s) ==
    s.pc # "idle" =>
        /\ s.todo \subseteq TargetsOf(s.op)
        /\ s.pc \in AtTarget => s.target \in TargetsOf(s.op)
        /\ s.pc \in AtStep => s.step \in Life!StepsOf(s.op)
        /\ s.rollback # None => s.rollback \in TargetsOf(s.op)

RequestWithin(q) ==
    /\ q.pc = "target" => q.todo \subseteq TargetsOf(q.op)
    /\ q.pc = "insert" => q.todo # {} /\ q.new.feature \in Feature

Within == InHandWithin(sched) /\ \A r \in Caller : RequestWithin(req[r])

(* What an operation is, and which targets it has, is never changed.       *)
Fixed ==
    \A o \in Op :
        /\ op[o].status # "absent" =>
               /\ op'[o].status # "absent" /\ op'[o].action = op[o].action
               /\ op'[o].feature = op[o].feature /\ op'[o].release = op[o].release
        /\ \A t \in Target : opTarget[o][t] # "none" => opTarget'[o][t] # "none"

(* Only the insertion makes an operation, the other writes of its row      *)
(* change its status, and those of its targets' rows one of them.          *)
LEMMA RowsFixed == IInv /\ [Next]_vars => Fixed
<1> SUFFICES ASSUME IInv, [Next]_vars PROVE Fixed
  OBVIOUS
<1> USE DEF rows, tasks, world
<1>1. /\ op \in [Op -> OpRow] /\ opTarget \in [Op -> [Target -> TargetStatus]]
      /\ sched \in SchedRec
  BY DEF IInv, ShapesOK
<1>2. ASSUME UNCHANGED <<op, opTarget>> PROVE Fixed
  BY <1>2 DEF Fixed
<1>3. ASSUME NEW o \in Op, NEW status, status # "absent", UNCHANGED opTarget,
             op' = [op EXCEPT ![o].status = status]
      PROVE  Fixed
  BY <1>1, <1>3 DEF Fixed, OpRow
<1>4. ASSUME NEW o \in Op, NEW t \in Target, NEW m, m # "none", UNCHANGED op,
             opTarget' = [opTarget EXCEPT ![o][t] = m]
      PROVE  Fixed
  BY <1>1, <1>4 DEF Fixed
<1>5. ASSUME NEW r \in Caller, InsertBundle(r) PROVE Fixed
  <2>1. req[r].pc = "insert" /\ req[r].op \in Op /\ op[req[r].op].status = "absent"
    BY <1>5 DEF InsertBundle, IInv, RequestFits
  <2>2. \A t \in Target : opTarget[req[r].op][t] = "none"
    BY <2>1 DEF IInv, OperationsOK
  <2>3. \A o \in Op \ {req[r].op} : op'[o] = op[o] /\ opTarget'[o] = opTarget[o]
    BY <1>1, <1>5 DEF InsertBundle
  <2> QED
    BY <2>1, <2>2, <2>3 DEF Fixed
<1>6. CASE Scheduler
  <2>1. CASE ClaimQueuedDeploymentOperation
    BY <2>1, <1>3 DEF ClaimQueuedDeploymentOperation
  <2>2. CASE MarkTarget
    <3>1. /\ sched.op \in Op /\ sched.target \in Target /\ sched.mark # "none"
      BY <2>2 DEF MarkTarget, IInv, SchedFits, ClaimFits, StepFits, AtTarget
    <3> QED
      BY <2>2, <3>1, <1>4 DEF MarkTarget
  <2>3. CASE FinishOperation
    <3>1. /\ sched.op \in Op /\ sched.final \in OpDone
      BY <2>3, <1>1 DEF FinishOperation, IInv, SchedFits, ClaimFits, OutcomeFits, SchedRec
    <3> QED
      BY <2>3, <3>1, <1>3 DEF FinishOperation, OpDone
  <2>4. CASE NoteManualRollbackDecision
    <3>1. sched.op \in Op /\ sched.rollback \in Target
      BY <2>4, <1>1 DEF NoteManualRollbackDecision, IInv, SchedFits, ClaimFits, OutcomeFits, SchedRec
    <3> QED
      BY <2>4, <3>1, <1>4 DEF NoteManualRollbackDecision
  <2>5. CASE InsertBundle("scheduler")
    BY <2>5, <1>5 DEF Caller
  <2>6. CASE \/ ListTargets \/ NextTarget \/ LoopEnds \/ BeginTarget \/ CreateTask
             \/ StepRefused \/ StepError \/ LinkTask \/ StepSucceeded \/ StepFailed
             \/ StepTimeout \/ Reread \/ Probe \/ ReadTarget \/ RecordTarget
             \/ ReadLastHealthy \/ Finalize \/ TriggerAutoRollback
    BY <2>6, <1>2
    DEF ListTargets, NextTarget, LoopEnds, BeginTarget, CreateTask, StepRefused, StepError,
        LinkTask, StepSucceeded, StepFailed, StepTimeout, Reread, Probe, ReadTarget,
        RecordTarget, ReadLastHealthy, Finalize, TriggerAutoRollback, CreateCheck
  <2> QED
    BY <1>6, <2>1, <2>2, <2>3, <2>4, <2>5, <2>6 DEF Scheduler
<1>7. CASE Agent \/ Restart
  BY <1>7, <1>2 DEF Agent, TaskEnds, CancelledRuns, Restart
<1>8. ASSUME NEW r \in Req, Handler(r) \/ Request(r) PROVE Fixed
  <2>0. r \in Caller /\ RequestFits(req[r])
    BY DEF Caller, IInv
  <2>1. CASE InsertBundle(r)
    BY <2>0, <2>1, <1>5
  <2>2. CASE CancelWrite(r)
    BY <2>0, <2>2, <1>3 DEF CancelWrite, RequestFits, Handling
  <2>3. CASE CancelTarget(r)
    <3>1. PICK t \in req[r].todo : opTarget' = [opTarget EXCEPT ![req[r].op][t] = "cancelled"]
      BY <2>3 DEF CancelTarget
    <3>2. req[r].op \in Op /\ t \in Target /\ op' = op
      BY <2>0, <2>3 DEF CancelTarget, RequestFits, Handling
    <3> QED
      BY <3>1, <3>2, <1>4
  <2>4. CASE ContinueWrite(r)
    BY <2>0, <2>4, <1>2, <1>3 DEF ContinueWrite, RequestFits, Handling
  <2>5. CASE \/ CancelListTargets(r) \/ CancelListSteps(r) \/ CancelReadTask(r)
             \/ CancelWriteTask(r) \/ CancelReturn(r) \/ ContinueListTargets(r)
             \/ UpdateTargetWrite(r) \/ Request(r)
    BY <2>5, <1>2
    DEF CancelListTargets, CancelListSteps, CancelReadTask, CancelWriteTask, CancelReturn,
        ContinueListTargets, UpdateTargetWrite, Request, CreateOperation, CreateCheck,
        CancelRead, ContinueRead, UpdateTargetRead
  <2> QED
    BY <1>8, <2>1, <2>2, <2>3, <2>4, <2>5 DEF Handler
<1>9. CASE UNCHANGED vars
  BY <1>9, <1>2 DEF vars
<1> QED
  BY <1>6, <1>7, <1>8, <1>9 DEF Next

(* So what was within an operation stays within it.                        *)
LEMMA TargetsStay ==
    ASSUME Fixed, NEW o \in Op, op[o].status # "absent"
    PROVE  /\ TargetsOf(o) \subseteq TargetsOf(o)'
           /\ Life!StepsOf(o)' = Life!StepsOf(o)
  BY DEF Fixed, TargetsOf, Life!StepsOf, Life!Deploying

LEMMA WithinStays ==
    ASSUME Fixed, NEW s, InHandWithin(s), s.pc # "idle" => s.op \in Op /\ op[s.op].status # "absent"
    PROVE  InHandWithin(s)'
<1> SUFFICES ASSUME s.pc # "idle" PROVE InHandWithin(s)'
  BY DEF InHandWithin
<1>1. /\ TargetsOf(s.op) \subseteq TargetsOf(s.op)'
      /\ Life!StepsOf(s.op)' = Life!StepsOf(s.op)
  BY TargetsStay
<1> QED
  BY <1>1 DEF InHandWithin

LEMMA RequestStays ==
    ASSUME Fixed, NEW q, RequestWithin(q),
           q.pc = "target" => q.op \in Op /\ op[q.op].status # "absent"
    PROVE  RequestWithin(q)'
<1>1. q.pc = "target" => TargetsOf(q.op) \subseteq TargetsOf(q.op)'
  BY TargetsStay
<1> QED
  BY <1>1 DEF RequestWithin

(* The scheduler goes on with its operation: its targets are those it had, *)
(* and its step is one of the operation's.                                 *)
GoesOn ==
    /\ sched.pc # "idle" /\ sched'.op = sched.op
    /\ sched'.todo \subseteq sched.todo \/ sched'.todo \subseteq TargetsOf(sched.op)
    /\ sched'.pc \in AtTarget => \/ sched.pc \in AtTarget /\ sched'.target = sched.target
                                 \/ sched'.target \in sched.todo
    /\ sched'.pc \in AtStep => sched'.step \in Life!StepsOf(sched.op)
    /\ \/ sched'.rollback \in {None, sched.rollback}
       \/ sched.pc \in AtTarget /\ sched'.rollback = sched.target

LEMMA GoingOn ==
    ASSUME IInv, Within, Fixed, GoesOn
    PROVE  InHandWithin(sched)'
<1>0. PICK s : s = sched'
  OBVIOUS
<1>1. PICK o \in Op : o = sched.op /\ op[o].status # "absent"
  BY DEF GoesOn, IInv, SchedFits, ClaimFits
<1>2. /\ s.todo \subseteq TargetsOf(o)
      /\ s.pc \in AtTarget => s.target \in TargetsOf(o)
      /\ s.pc \in AtStep => s.step \in Life!StepsOf(o)
      /\ s.rollback # None => s.rollback \in TargetsOf(o)
  BY <1>0, <1>1 DEF GoesOn, Within, InHandWithin
<1>3. /\ TargetsOf(o) \subseteq TargetsOf(o)' /\ Life!StepsOf(o)' = Life!StepsOf(o)
  BY <1>1, TargetsStay
<1>4. s.op = o
  BY <1>0, <1>1 DEF GoesOn
<1>5. InHandWithin(s)'
  BY <1>2, <1>3, <1>4 DEF InHandWithin
<1> QED
  BY <1>0, <1>5 DEF InHandWithin

(* The next step of a target is one of the operation's.                    *)
LEMMA StepsFollow ==
    ASSUME NEW o \in Op, NEW step \in Life!StepsOf(o), StepAfter(step, op[o].action) # "none"
    PROVE  StepAfter(step, op[o].action) \in Life!StepsOf(o)
  BY DEF StepAfter, Life!StepsOf, Life!Deploying, NeedsRelease

LEMMA StepsBegin ==
    ASSUME NEW o \in Op
    PROVE  FirstStep(op[o].action, op[o].feature) \in Life!StepsOf(o)
  BY DEF FirstStep, Life!StepsOf, Life!Deploying

LEMMA SchedWithin ==
    ASSUME IInv, Within, Fixed, Scheduler
    PROVE  InHandWithin(sched)'
<1>1. sched \in SchedRec /\ InHandWithin(sched)
  BY DEF IInv, ShapesOK, Within
<1>2. sched.pc # "idle" => sched.op \in Op
  BY DEF IInv, SchedFits, ClaimFits
<1>3. CASE ClaimQueuedDeploymentOperation
  <2>1. PICK o \in Op : sched' = [NoSched EXCEPT !.pc = "list", !.op = o]
    BY <1>3 DEF ClaimQueuedDeploymentOperation
  <2> QED
    BY <2>1 DEF NoSched, InHandWithin, AtTarget, AtStep
<1>4. CASE ListTargets
  <2>1. GoesOn
    BY <1>1, <1>4 DEF GoesOn, ListTargets, SchedRec, Pending, AtTarget, AtStep
  <2> QED
    BY <2>1, GoingOn
<1>5. CASE NextTarget \/ LoopEnds
  <2>1. CASE NextTarget
    <3>1. PICK t \in sched.todo :
              sched' = [sched EXCEPT !.pc = "target", !.target = t, !.todo = sched.todo \ {t}]
      BY <2>1 DEF NextTarget
    <3>2. /\ sched'.pc = "target" /\ sched'.op = sched.op /\ sched'.target = t
          /\ sched'.todo = sched.todo \ {t} /\ sched'.rollback = sched.rollback
      BY <1>1, <3>1 DEF SchedRec
    <3>3. sched.pc # "idle"
      BY <2>1 DEF NextTarget
    <3> QED
      BY <3>2, <3>3, GoingOn DEF GoesOn, AtStep
  <2>2. CASE LoopEnds
    <3>1. GoesOn
      BY <1>1, <2>2 DEF GoesOn, LoopEnds, SchedRec, AtTarget, AtStep
    <3> QED
      BY <3>1, GoingOn
  <2> QED
    BY <1>5, <2>1, <2>2
<1>6. CASE BeginTarget
  <2>1. GoesOn
    BY <1>1, <1>2, <1>6, StepsBegin DEF GoesOn, BeginTarget, SchedRec, AtTarget, AtStep
  <2> QED
    BY <2>1, GoingOn
<1>7. CASE CreateTask \/ LinkTask
  <2>1. GoesOn
    BY <1>1, <1>7 DEF GoesOn, CreateTask, LinkTask, SchedRec, AtTarget, AtStep, InHandWithin
  <2> QED
    BY <2>1, GoingOn
<1>8. CASE StepRefused \/ StepError \/ StepFailed \/ StepTimeout \/ Reread \/ Probe
  <2>1. GoesOn
    BY <1>1, <1>8
      DEF GoesOn, StepRefused, StepError, StepFailed, StepTimeout, Reread, Probe, SchedRec, AtTarget, AtStep
  <2> QED
    BY <2>1, GoingOn
<1>9. CASE StepSucceeded
  <2>1. GoesOn
    BY <1>1, <1>2, <1>9, StepsFollow
      DEF GoesOn, StepSucceeded, SchedRec, AtTarget, AtStep, InHandWithin
  <2> QED
    BY <2>1, GoingOn
<1>10. CASE MarkTarget
  <2> DEFINE m == sched.mark
             left == [sched EXCEPT !.target = None, !.step = "none", !.mark = "none"]
  <2>0. /\ left \in SchedRec /\ left = TargetLeft /\ left.op = sched.op
        /\ left.todo = sched.todo /\ left.rollback = sched.rollback
        /\ sched.pc = "mark" /\ m \in TargetDone
    BY <1>1, <1>10 DEF MarkTarget, TargetLeft, SchedRec, IInv, SchedFits, StepFits
  <2> HIDE DEF left
  <2>1. GoesOn
    <3>1. CASE m = "succeeded"
      BY <2>0, <3>1, <1>10 DEF GoesOn, MarkTarget, SchedRec, AtTarget, AtStep
    <3>2. CASE m = "skipped" \/ m = "cancelled"
      BY <2>0, <3>2, <1>10 DEF GoesOn, MarkTarget, SchedRec, AtTarget, AtStep
    <3>3. CASE m = "failed"
      BY <2>0, <3>3, <1>10 DEF GoesOn, MarkTarget, SchedRec, AtTarget, AtStep
    <3> QED
      BY <2>0, <3>1, <3>2, <3>3 DEF TargetDone
  <2> QED
    BY <2>1, GoingOn
<1>11. CASE ReadTarget \/ RecordTarget \/ ReadLastHealthy \/ Finalize
  <2>1. GoesOn
    BY <1>1, <1>11
      DEF GoesOn, ReadTarget, RecordTarget, ReadLastHealthy, Finalize, SchedRec, AtTarget, AtStep
  <2> QED
    BY <2>1, GoingOn
<1>12. CASE FinishOperation \/ TriggerAutoRollback
  <2>1. CASE sched' = NoSched
    BY <2>1 DEF NoSched, InHandWithin
  <2>2. CASE sched' # NoSched
    <3>1. GoesOn
      BY <1>1, <1>12, <2>2
      DEF GoesOn, FinishOperation, TriggerAutoRollback, SchedRec, AtTarget, AtStep
    <3> QED
      BY <3>1, GoingOn
  <2> QED
    BY <2>1, <2>2
<1>13. CASE NoteManualRollbackDecision \/ InsertBundle("scheduler")
  BY <1>13 DEF NoteManualRollbackDecision, InsertBundle, NoSched, InHandWithin
<1> QED
  BY <1>3, <1>4, <1>5, <1>6, <1>7, <1>8, <1>9, <1>10, <1>11, <1>12, <1>13 DEF Scheduler

(* One caller's part is new, the others' stay.                             *)
LEMMA OneRequest ==
    ASSUME IInv, Within, Fixed, NEW r \in Caller, NEW q, req' = [req EXCEPT ![r] = q],
           RequestWithin(q)'
    PROVE  (\A u \in Caller : RequestWithin(req[u]))'
<1> SUFFICES ASSUME NEW u \in Caller PROVE RequestWithin(req[u])'
  OBVIOUS
<1>1. req \in [Caller -> ReqRec]
  BY DEF IInv, ShapesOK
<1>2. CASE u = r
  <2>1. req'[u] = q
    BY <1>1, <1>2
  <2> QED
    BY <2>1 DEF RequestWithin
<1>3. CASE u # r
  <2>1. PICK p : p = req[u] /\ p = req'[u]
    BY <1>1, <1>3
  <2>2. RequestWithin(p) /\ (p.pc = "target" => p.op \in Op /\ op[p.op].status # "absent")
    BY <2>1 DEF Within, IInv, RequestFits, Handling
  <2>3. RequestWithin(p)'
    BY <2>2, RequestStays
  <2> QED
    BY <2>1, <2>3 DEF RequestWithin
<1> QED
  BY <1>2, <1>3

LEMMA NoRequest ==
    ASSUME IInv, Within, Fixed, UNCHANGED req
    PROVE  (\A u \in Caller : RequestWithin(req[u]))'
<1> SUFFICES ASSUME NEW u \in Caller PROVE RequestWithin(req[u])'
  OBVIOUS
<1>1. PICK p : p = req[u] /\ p = req'[u]
  OBVIOUS
<1>2. RequestWithin(p) /\ (p.pc = "target" => p.op \in Op /\ op[p.op].status # "absent")
  BY <1>1 DEF Within, IInv, RequestFits, Handling
<1>3. RequestWithin(p)'
  BY <1>2, RequestStays
<1> QED
  BY <1>1, <1>3 DEF RequestWithin

(* Whoever asks for an operation names targets, all of one feature.        *)
LEMMA CreateWithin ==
    ASSUME IInv, Within, Fixed, NEW r \in Caller, NEW a, NEW ts, NEW rel, CreateCheck(r, a, ts, rel)
    PROVE  (\A u \in Caller : RequestWithin(req[u]))'
<1>1. PICK f \in Feature :
          req' = [req EXCEPT ![r] =
              [NoReq EXCEPT !.pc = "insert", !.op = made + 1, !.todo = ts,
                            !.new = [status |-> InitialStatus(a), action |-> a,
                                     feature |-> f, release |-> rel]]]
  BY DEF CreateCheck
<1> DEFINE fresh == [NoReq EXCEPT !.pc = "insert", !.op = made + 1, !.todo = ts,
                                  !.new = [status |-> InitialStatus(a), action |-> a,
                                           feature |-> f, release |-> rel]]
<1>0. fresh.pc = "insert" /\ fresh.todo = ts /\ fresh.new.feature = f
  BY DEF NoReq
<1> HIDE DEF fresh
<1>2. PICK q : /\ req' = [req EXCEPT ![r] = q]
               /\ q.pc = "insert" /\ q.todo = ts /\ q.new.feature = f
  <2>1. req' = [req EXCEPT ![r] = fresh]
    BY <1>1 DEF fresh
  <2> WITNESS fresh
  <2> QED
    BY <1>0, <2>1
<1>3. ts # {}
  BY DEF CreateCheck
<1>4. RequestWithin(q)'
  BY <1>2, <1>3 DEF RequestWithin
<1> QED
  BY <1>2, <1>4, OneRequest

(* A handler goes on to fewer targets of its operation, or to none.        *)
LEMMA HandlerWithin ==
    ASSUME IInv, Within, Fixed, NEW r \in Caller, NEW q, req' = [req EXCEPT ![r] = q],
           q.pc # "insert",
           q.pc = "target" => /\ q.op \in Op /\ op[q.op].status # "absent"
                              /\ q.todo \subseteq TargetsOf(q.op)
    PROVE  (\A u \in Caller : RequestWithin(req[u]))'
<1>1. RequestWithin(q)
  BY DEF RequestWithin
<1>2. RequestWithin(q)'
  BY <1>1, RequestStays
<1> QED
  BY <1>2, OneRequest

LEMMA WithinKept == IInv /\ Within /\ [Next]_vars => Within'
<1> SUFFICES ASSUME IInv, Within, [Next]_vars PROVE Within'
  OBVIOUS
<1>f. Fixed
  BY RowsFixed
<1>1. req \in [Caller -> ReqRec] /\ \A r \in Req : r \in Caller /\ r # "scheduler"
  BY ConstantsAssumption DEF IInv, ShapesOK, Caller
<1>2. ASSUME UNCHANGED sched PROVE InHandWithin(sched)'
  <2>1. PICK s : s = sched /\ s = sched'
    BY <1>2
  <2>2. InHandWithin(s) /\ (s.pc # "idle" => s.op \in Op /\ op[s.op].status # "absent")
    BY <2>1 DEF Within, IInv, SchedFits, ClaimFits
  <2>3. InHandWithin(s)'
    BY <1>f, <2>2, WithinStays
  <2> QED
    BY <2>1, <2>3 DEF InHandWithin
<1>3. ASSUME NEW r \in Caller, req' = [req EXCEPT ![r] = NoReq]
      PROVE  (\A u \in Caller : RequestWithin(req[u]))'
  <2>1. PICK q : req' = [req EXCEPT ![r] = q] /\ q.pc = "idle"
    <3>1. NoReq.pc = "idle"
      BY DEF NoReq
    <3> WITNESS NoReq
    <3> QED
      BY <1>3, <3>1
  <2> QED
    BY <2>1, <1>f, HandlerWithin
<1>4. CASE Scheduler
  <2>1. InHandWithin(sched)'
    BY <1>4, <1>f, SchedWithin
  <2>2. "scheduler" \in Caller
    BY DEF Caller
  <2>3. (\A u \in Caller : RequestWithin(req[u]))'
    <3>1. CASE InsertBundle("scheduler")
      BY <1>3, <2>2, <3>1 DEF InsertBundle
    <3>2. CASE TriggerAutoRollback
      <4>1. CASE UNCHANGED req
        BY <4>1, <1>f, NoRequest
      <4>2. CASE \E t, rel : CreateCheck("scheduler", "rollback", {t}, rel)
        BY <4>2, <1>f, <2>2, CreateWithin
      <4> QED
        BY <3>2, <4>1, <4>2 DEF TriggerAutoRollback
    <3>3. CASE ~InsertBundle("scheduler") /\ ~TriggerAutoRollback
      <4>1. UNCHANGED req
        BY <1>4, <3>3
        DEF Scheduler, ClaimQueuedDeploymentOperation, ListTargets, NextTarget, LoopEnds,
            BeginTarget, CreateTask, StepRefused, StepError, LinkTask, StepSucceeded, StepFailed,
            StepTimeout, Reread, Probe, MarkTarget, ReadTarget, RecordTarget, ReadLastHealthy,
            Finalize, FinishOperation, NoteManualRollbackDecision
      <4> QED
        BY <4>1, <1>f, NoRequest
    <3> QED
      BY <3>1, <3>2, <3>3
  <2> QED
    BY <2>1, <2>3 DEF Within
<1>5. CASE Agent \/ UNCHANGED vars
  <2>1. UNCHANGED <<sched, req>>
    BY <1>5 DEF Agent, TaskEnds, CancelledRuns, vars
  <2> QED
    BY <1>2, <1>f, <2>1, NoRequest DEF Within
<1>6. CASE Restart
  BY <1>6 DEF Restart, NoSched, NoReq, Within, InHandWithin, RequestWithin
<1>7. ASSUME NEW r \in Req, Handler(r) \/ Request(r) PROVE Within'
  <2>1. UNCHANGED sched
    BY <1>1, <1>7
    DEF Handler, Request, InsertBundle, CancelWrite, CancelListTargets, CancelTarget,
        CancelListSteps, CancelReadTask, CancelWriteTask, CancelReturn, ContinueListTargets,
        ContinueWrite, UpdateTargetWrite, CreateOperation, CancelRead, ContinueRead,
        UpdateTargetRead
  <2>2. r \in Caller /\ req[r] \in ReqRec /\ RequestFits(req[r]) /\ RequestWithin(req[r])
    BY <1>1 DEF IInv, Within
  <2>3. (\A u \in Caller : RequestWithin(req[u]))'
    <3>1. CASE InsertBundle(r) \/ CancelReturn(r) \/ ContinueWrite(r) \/ UpdateTargetWrite(r)
      BY <1>3, <2>2, <3>1 DEF InsertBundle, CancelReturn, ContinueWrite, UpdateTargetWrite
    <3>2. CASE CreateOperation(r)
      BY <3>2, <1>f, <2>2, CreateWithin DEF CreateOperation
    <3>3. CASE CancelListTargets(r)
      <4> DEFINE q == [req[r] EXCEPT !.pc = "target", !.todo = Pending(req[r].op)]
      <4>1. req' = [req EXCEPT ![r] = q]
        BY <3>3, <1>1 DEF CancelListTargets
      <4>2. /\ q.pc = "target" /\ q.op = req[r].op /\ q.todo = Pending(req[r].op)
            /\ req[r].op \in Op /\ op[req[r].op].status # "absent"
        BY <2>2, <3>3 DEF ReqRec, CancelListTargets, RequestFits, Handling
      <4>3. Pending(req[r].op) \subseteq TargetsOf(req[r].op)
        BY DEF Pending
      <4> HIDE DEF q
      <4> QED
        BY <4>1, <4>2, <4>3, <2>2, <1>f, HandlerWithin
    <3>4. CASE CancelTarget(r)
      <4>1. PICK t \in req[r].todo : req' = [req EXCEPT ![r].todo = @ \ {t}]
        BY <3>4 DEF CancelTarget
      <4> DEFINE q == [req[r] EXCEPT !.todo = @ \ {t}]
      <4>2. req' = [req EXCEPT ![r] = q]
        BY <4>1, <1>1
      <4>3. /\ q.pc = "target" /\ q.op = req[r].op /\ q.todo = req[r].todo \ {t}
            /\ req[r].op \in Op /\ op[req[r].op].status # "absent"
            /\ req[r].todo \subseteq TargetsOf(req[r].op)
        BY <2>2, <3>4 DEF ReqRec, CancelTarget, RequestFits, RequestWithin, Handling
      <4> HIDE DEF q
      <4> QED
        BY <4>2, <4>3, <2>2, <1>f, HandlerWithin
    <3>5. CASE \/ CancelWrite(r) \/ CancelListSteps(r) \/ CancelReadTask(r) \/ CancelWriteTask(r)
               \/ ContinueListTargets(r)
               \/ \E o \in Op : CancelRead(r, o) \/ ContinueRead(r, o)
               \/ \E t \in Target : UpdateTargetRead(r, t)
      <4>1. ASSUME NEW q, req' = [req EXCEPT ![r] = q], q.pc \notin {"insert", "target"}
            PROVE  (\A u \in Caller : RequestWithin(req[u]))'
        BY <4>1, <2>2, <1>f, HandlerWithin
      <4>2. CASE CancelWrite(r)
        <5>1. req' = [req EXCEPT ![r] = [req[r] EXCEPT !.pc = "targets"]]
          BY <1>1, <4>2 DEF CancelWrite
        <5> QED
          BY <2>2, <4>1, <5>1 DEF ReqRec
      <4>3. CASE CancelListSteps(r)
        <5>1. PICK ks : req' = [req EXCEPT ![r] = [req[r] EXCEPT !.pc = "tasks", !.todo = ks]]
          BY <1>1, <4>3 DEF CancelListSteps
        <5> QED
          BY <2>2, <4>1, <5>1 DEF ReqRec
      <4>4. CASE CancelReadTask(r)
        <5>1. PICK k \in req[r].todo :
                  req' = [req EXCEPT ![r] =
                             [req[r] EXCEPT !.todo = req[r].todo \ {k},
                                            !.pc = IF task[k] = "live" THEN "task" ELSE "tasks",
                                            !.target = IF task[k] = "live" THEN k ELSE None]]
          BY <1>1, <4>4 DEF CancelReadTask
        <5> DEFINE q == [req[r] EXCEPT !.todo = req[r].todo \ {k},
                                       !.pc = IF task[k] = "live" THEN "task" ELSE "tasks",
                                       !.target = IF task[k] = "live" THEN k ELSE None]
        <5>2. q.pc \notin {"insert", "target"}
          BY <2>2 DEF ReqRec
        <5> HIDE DEF q
        <5>3. req' = [req EXCEPT ![r] = q]
          BY <5>1 DEF q
        <5> QED
          BY <4>1, <5>2, <5>3
      <4>5. CASE CancelWriteTask(r)
        <5>1. req' = [req EXCEPT ![r] = [req[r] EXCEPT !.pc = "tasks", !.target = None]]
          BY <1>1, <4>5 DEF CancelWriteTask
        <5> QED
          BY <2>2, <4>1, <5>1 DEF ReqRec
      <4>6. CASE ContinueListTargets(r)
        <5>1. \/ req' = [req EXCEPT ![r] = NoReq]
              \/ req' = [req EXCEPT ![r] = [req[r] EXCEPT !.pc = "requeue"]]
          BY <1>1, <4>6 DEF ContinueListTargets
        <5> QED
          BY <1>3, <2>2, <4>1, <5>1 DEF ReqRec
      <4>7. CASE \/ \E o \in Op : CancelRead(r, o) \/ ContinueRead(r, o)
                 \/ \E t \in Target : UpdateTargetRead(r, t)
        BY <4>1, <4>7 DEF CancelRead, ContinueRead, UpdateTargetRead, NoReq
      <4> QED
        BY <3>5, <4>2, <4>3, <4>4, <4>5, <4>6, <4>7
    <3> QED
      BY <1>7, <3>1, <3>2, <3>3, <3>4, <3>5 DEF Handler, Request
  <2> QED
    BY <1>2, <2>1, <2>3 DEF Within
<1> QED
  BY <1>4, <1>5, <1>6, <1>7 DEF Next

LEMMA WithinInvariance == Spec => []Within
<1>1. Init => Within
  BY DEF Init, NoSched, NoReq, Within, InHandWithin, RequestWithin
<1> QED
  BY <1>1, Invariance, WithinKept, PTL DEF Spec

(* What the abstract operation does meanwhile: a step of its own, or       *)
(* nothing.                                                                *)
LifeStep == [Life!LifeNext]_(Life!lifeVars)

LEMMA Unseen ==
    ASSUME UNCHANGED <<op, opTarget, target, task, ran, continued>>
    PROVE  LifeStep
  BY DEF LifeStep, Life!lifeVars

LEMMA LifeStarts == Init => Life!LifeInit
<1> SUFFICES ASSUME Init PROVE Life!LifeInit
  OBVIOUS
<1>1. [t \in Target |-> target[t].current] = Deployed
  BY ConstantsAssumption DEF Init
<1> QED
  BY <1>1 DEF Init, Life!LifeInit, NoOp, Key

(* Whoever executes an operation may.                                      *)
LEMMA ExecutesRightly ==
    ASSUME IInv, sched.pc # "idle"
    PROVE  sched.op \in Op /\ Life!Executing(sched.op) /\ Life!Agreed(sched.op)
<1>1. ClaimFits(sched)
  BY DEF IInv, SchedFits
<1> QED
  BY <1>1 DEF ClaimFits, Confirmed, NeedsConfirmation, Life!Executing, Life!Unattended, Life!Agreed

LEMMA InsertSeen ==
    ASSUME IInv, Within, NEW r \in Caller, InsertBundle(r)
    PROVE  LifeStep
<1>1. PICK q \in ReqRec : q = req[r]
  BY DEF IInv, ShapesOK
<1>2. /\ q.pc = "insert" /\ q.op \in Op /\ op[q.op].status = "absent"
      /\ q.todo \subseteq Target /\ q.todo # {}
      /\ q.new.status = InitialStatus(q.new.action) /\ q.new.action # "none"
      /\ q.new.feature \in Feature
  BY <1>1 DEF InsertBundle, IInv, RequestFits, Within, RequestWithin
<1>3. UNCHANGED <<target, task, ran, continued>>
  BY DEF InsertBundle, tasks, world
<1>4. CASE ~(FeatureFree(q.new.feature, q.op) /\ NodesFree(q.todo))
  BY <1>1, <1>3, <1>4, Unseen DEF InsertBundle
<1>5. CASE FeatureFree(q.new.feature, q.op) /\ NodesFree(q.todo)
  <2>1. /\ op' = [op EXCEPT ![q.op] = q.new]
        /\ opTarget' = [opTarget EXCEPT ![q.op] =
                           [t \in Target |-> IF t \in q.todo THEN "queued" ELSE "none"]]
    BY <1>1, <1>5 DEF InsertBundle
  <2>2. q.todo \in (SUBSET Target) \ {{}}
    BY <1>2
  <2>9. \A p \in Op, t \in Target, u \in q.todo :
            NodeOf[t] = NodeOf[u] => opTarget[p][t] # "queued"
    BY <1>5 DEF NodesFree
  <2>3. q.new \in OpRow
    BY DEF ReqRec
  <2>4. PICK a, f, rel : a = q.new.action /\ f = q.new.feature /\ rel = q.new.release
    OBVIOUS
  <2>5. a \in Life!Kinds /\ f \in Feature /\ rel \in Release \cup {None}
    BY <1>2, <2>3, <2>4, ConstantsAssumption DEF OpRow, Life!Kinds
  <2>6. q.new = [status |-> IF Production /\ a \in {"install", "update"}
                            THEN "awaiting_confirmation" ELSE "queued",
                 action |-> a, feature |-> f, release |-> rel]
    BY <1>2, <2>3, <2>4 DEF OpRow, InitialStatus, NeedsConfirmation
  <2>7. Life!NobodyElse(q.op, f)
    BY <1>5, <2>4 DEF FeatureFree, Active, Life!NobodyElse
  <2>10. \E ts \in (SUBSET Target) \ {{}} :
            /\ opTarget' = [opTarget EXCEPT ![q.op] =
                               [t \in Target |-> IF t \in ts THEN "queued" ELSE "none"]]
            /\ \A p \in Op, t \in Target, u \in ts :
                   NodeOf[t] = NodeOf[u] => opTarget[p][t] # "queued"
    <3>1. PICK ts \in (SUBSET Target) \ {{}} : ts = q.todo
      BY <2>2
    <3> WITNESS ts \in (SUBSET Target) \ {{}}
    <3> QED
      BY <2>1, <2>2, <2>9, <3>1
  <2>11. op' = [op EXCEPT ![q.op] =
                 [status |-> IF Production /\ a \in {"install", "update"}
                             THEN "awaiting_confirmation" ELSE "queued",
                  action |-> a, feature |-> f, release |-> rel]]
    BY <2>1, <2>6
  <2>12. UNCHANGED [t \in Target |-> target[t].current]
    BY <1>3
  <2>8. Life!Insert(q.op)
    BY <1>2, <1>3, <2>5, <2>7, <2>10, <2>11, <2>12 DEF Life!Insert
  <2> QED
    BY <1>2, <2>8 DEF LifeStep, Life!LifeNext
<1> QED
  BY <1>4, <1>5

(* Writes of an operation's status                                         *)
LEMMA StatusSeen ==
    ASSUME IInv, \/ ClaimQueuedDeploymentOperation \/ FinishOperation
                 \/ \E r \in Caller : CancelWrite(r) \/ ContinueWrite(r)
    PROVE  LifeStep
<1> USE DEF tasks, world
<1>1. CASE ClaimQueuedDeploymentOperation
  <2>1. PICK o \in Op : op[o].status = "queued" /\ op' = [op EXCEPT ![o].status = "running"]
    BY <1>1 DEF ClaimQueuedDeploymentOperation
  <2>2. Confirmed(o)
    BY <2>1 DEF IInv, OperationsOK
  <2>3. Life!Claim(o)
    BY <1>1, <2>1, <2>2
    DEF ClaimQueuedDeploymentOperation, Confirmed, NeedsConfirmation, Life!Claim, Life!Agreed,
        Life!SetStatus
  <2> QED
    BY <2>3 DEF LifeStep, Life!LifeNext
<1>2. CASE FinishOperation
  <2>1. PICK o \in Op : o = sched.op /\ Life!Executing(o)
    BY <1>2, ExecutesRightly DEF FinishOperation
  <2>2. PICK outcome \in OpDone : outcome = sched.final
    BY <1>2 DEF FinishOperation, IInv, ShapesOK, SchedRec, SchedFits, OutcomeFits
  <2>3. outcome = "succeeded" => \A t \in Target : Settled(o, t)
    BY <1>2, <2>1, <2>2 DEF FinishOperation, IInv, SchedFits, OutcomeFits
  <2>4. op' = [op EXCEPT ![o].status = outcome]
        /\ UNCHANGED <<opTarget, target, task, ran, continued>>
    BY <1>2, <2>1, <2>2 DEF FinishOperation
  <2>5. outcome \in {"succeeded", "failed", "partial_failed", "cancelled"}
    BY DEF OpDone
  <2>6. Life!Finish(o)
    BY <2>1, <2>3, <2>4, <2>5 DEF Settled, Life!Finish, Life!SetStatus
  <2> QED
    BY <2>6 DEF LifeStep, Life!LifeNext
<1>3. ASSUME NEW r \in Caller, CancelWrite(r) PROVE LifeStep
  <2>1. req[r].op \in Op /\ op[req[r].op].status # "absent"
    BY <1>3 DEF CancelWrite, IInv, RequestFits, Handling
  <2>2. Life!Cancel(req[r].op)
    BY <1>3, <2>1 DEF CancelWrite, Life!Cancel, Life!SetStatus
  <2> QED
    BY <2>1, <2>2 DEF LifeStep, Life!LifeNext
<1>4. ASSUME NEW r \in Caller, ContinueWrite(r) PROVE LifeStep
  <2>1. PICK o \in Op : o = req[r].op /\ op[o].status # "absent"
    BY <1>4 DEF ContinueWrite, IInv, RequestFits, Handling
  <2>2. CASE FeatureFree(op[o].feature, o)
    <3>1. Life!NobodyElse(o, op[o].feature)
      BY <2>2 DEF FeatureFree, Active, Life!NobodyElse
    <3>2. Life!Continue(o)
      BY <1>4, <2>1, <2>2, <3>1 DEF ContinueWrite, Life!Continue, Life!SetStatus
    <3> QED
      BY <3>2 DEF LifeStep, Life!LifeNext
  <2>3. CASE ~FeatureFree(op[o].feature, o)
    BY <1>4, <2>1, <2>3, Unseen DEF ContinueWrite
  <2> QED
    BY <2>2, <2>3
<1> QED
  BY <1>1, <1>2, <1>3, <1>4

(* Every task of a target that is through was run.                         *)
LEMMA ThroughAll ==
    ASSUME NEW o \in Op, NEW t \in Target, Through(o, t)
    PROVE  \A step \in Life!StepsOf(o) : <<o, t, step>> \in ran
  BY DEF Through, FirstKey, FirstStep, NeedsRelease, Life!StepsOf, Life!Deploying

(* Writes of a target's row in an operation                                *)
LEMMA MarkSeen ==
    ASSUME IInv, Within, \/ MarkTarget \/ NoteManualRollbackDecision
                         \/ \E r \in Caller : CancelTarget(r)
    PROVE  LifeStep
<1> USE DEF tasks, world
<1>1. ASSUME NEW o \in Op, NEW t \in TargetsOf(o),
             NEW m \in {"succeeded", "failed", "skipped", "cancelled"},
             opTarget' = [opTarget EXCEPT ![o][t] = m],
             UNCHANGED <<op, target, task, ran, continued>>,
             m # "cancelled" => Life!Executing(o), m = "succeeded" => Through(o, t)
      PROVE  LifeStep
  <2>1. t \in Target /\ opTarget[o][t] # "none"
    BY DEF TargetsOf
  <2>2. m = "succeeded" => \A step \in Life!StepsOf(o) : <<o, t, step>> \in ran
    BY <1>1, <2>1, ThroughAll
  <2>3. Life!Mark(o, t)
    BY <1>1, <2>1, <2>2 DEF Life!Mark
  <2> QED
    BY <2>1, <2>3 DEF LifeStep, Life!LifeNext
<1>2. CASE MarkTarget
  <2>1. /\ sched.op \in Op /\ Life!Executing(sched.op)
        /\ sched.target \in TargetsOf(sched.op)
        /\ sched.mark \in {"succeeded", "failed", "skipped", "cancelled"}
        /\ sched.mark = "succeeded" => Through(sched.op, sched.target)
    BY <1>2, ExecutesRightly
    DEF MarkTarget, IInv, ShapesOK, SchedRec, SchedFits, StepFits, TargetDone, Within,
        InHandWithin, AtTarget
  <2>2. /\ opTarget' = [opTarget EXCEPT ![sched.op][sched.target] = sched.mark]
        /\ UNCHANGED <<op, target, task, ran, continued>>
    BY <1>2 DEF MarkTarget
  <2> QED
    BY <1>1, <2>1, <2>2
<1>3. CASE NoteManualRollbackDecision
  <2>1. /\ sched.op \in Op /\ Life!Executing(sched.op)
        /\ sched.rollback \in TargetsOf(sched.op)
    BY <1>3, ExecutesRightly
    DEF NoteManualRollbackDecision, IInv, SchedFits, OutcomeFits, Within, InHandWithin
  <2>2. /\ opTarget' = [opTarget EXCEPT ![sched.op][sched.rollback] = "failed"]
        /\ UNCHANGED <<op, target, task, ran, continued>>
    BY <1>3 DEF NoteManualRollbackDecision
  <2> QED
    BY <1>1, <2>1, <2>2
<1>4. ASSUME NEW r \in Caller, CancelTarget(r) PROVE LifeStep
  <2>1. PICK t \in req[r].todo : opTarget' = [opTarget EXCEPT ![req[r].op][t] = "cancelled"]
    BY <1>4 DEF CancelTarget
  <2>2. req[r].op \in Op /\ t \in TargetsOf(req[r].op)
    BY <1>4, <2>1 DEF CancelTarget, IInv, RequestFits, Handling, Within, RequestWithin
  <2>3. UNCHANGED <<op, target, task, ran, continued>>
    BY <1>4 DEF CancelTarget
  <2> QED
    BY <1>1, <2>1, <2>2, <2>3
<1> QED
  BY <1>2, <1>3, <1>4

(* Writes of a target's own row                                            *)
LEMMA RecordSeen ==
    ASSUME IInv, RecordTarget \/ \E r \in Caller : UpdateTargetWrite(r)
    PROVE  LifeStep
<1> USE DEF tasks, world
<1>0. target \in [Target -> TargetRow]
  BY DEF IInv, ShapesOK
<1>1. ASSUME NEW t \in Target, NEW row, row.current \in Release \cup {None},
             target' = [target EXCEPT ![t] = row], WasDeployed(t, row.current),
             UNCHANGED <<op, opTarget, task, ran, continued>>
      PROVE  LifeStep
  <2>1. [u \in Target |-> target'[u].current]
            = [[u \in Target |-> target[u].current] EXCEPT ![t] = row.current]
    BY <1>0, <1>1
  <2>2. row.current \notin {None, Deployed[t]} =>
            \E o \in Op : /\ op[o].release = row.current /\ op[o].action \in Life!Deploying
                          /\ {<<o, t, op[o].action>>, <<o, t, "health-check">>} \subseteq ran
    BY <1>1 DEF WasDeployed, NeedsRelease, Life!Deploying
  <2>3. Life!Record(t)
    BY <1>1, <2>1, <2>2 DEF Life!Record
  <2> QED
    BY <2>3 DEF LifeStep, Life!LifeNext
<1>2. CASE RecordTarget
  <2>1. /\ sched.op \in Op /\ sched.target \in Target /\ sched.row \in TargetRow
        /\ Through(sched.op, sched.target) /\ WasDeployed(sched.target, sched.row.current)
    BY <1>2 DEF RecordTarget, IInv, SchedFits, ClaimFits, StepFits, AtTarget
  <2>2. PICK row : row = Recorded(sched.row, op[sched.op].action, op[sched.op].release)
    OBVIOUS
  <2>3. row.current = IF op[sched.op].action \in NeedsRelease THEN op[sched.op].release
                      ELSE sched.row.current
    BY <2>1, <2>2 DEF Recorded, TargetRow
  <2>4. op[sched.op].release \in Release \cup {None}
    BY <2>1 DEF IInv, ShapesOK, OpRow
  <2>5. row.current \in Release \cup {None}
    BY <2>1, <2>3, <2>4 DEF TargetRow
  <2>6. WasDeployed(sched.target, row.current)
    BY <2>1, <2>3 DEF WasDeployed, Through
  <2>7. /\ target' = [target EXCEPT ![sched.target] = row]
        /\ UNCHANGED <<op, opTarget, task, ran, continued>>
    BY <1>2, <2>2 DEF RecordTarget
  <2> QED
    BY <1>1, <2>1, <2>5, <2>6, <2>7
<1>3. ASSUME NEW r \in Caller, UpdateTargetWrite(r) PROVE LifeStep
  <2>1. /\ req[r].target \in Target /\ req[r].row \in TargetRow
        /\ WasDeployed(req[r].target, req[r].row.current)
    BY <1>3 DEF UpdateTargetWrite, IInv, RequestFits
  <2>2. PICK rel : target' = [target EXCEPT ![req[r].target] =
                                 [req[r].row EXCEPT !.desired = rel]]
    BY <1>3 DEF UpdateTargetWrite
  <2>3. PICK row : row = [req[r].row EXCEPT !.desired = rel]
    OBVIOUS
  <2>4. row.current = req[r].row.current /\ row.current \in Release \cup {None}
    BY <2>1, <2>3 DEF TargetRow
  <2>5. UNCHANGED <<op, opTarget, task, ran, continued>>
    BY <1>3 DEF UpdateTargetWrite
  <2> QED
    BY <1>1, <2>1, <2>2, <2>3, <2>4, <2>5
<1> QED
  BY <1>2, <1>3

(* The scheduler begins a task only when its turn has come.                *)
LEMMA BeginSeen == IInv /\ Within /\ CreateTask => LifeStep
<1> SUFFICES ASSUME IInv, Within, CreateTask PROVE LifeStep
  OBVIOUS
<1>1. PICK o, t, step : o = sched.op /\ t = sched.target /\ step = sched.step
  OBVIOUS
<1>2. PICK k : k = <<o, t, step>>
  OBVIOUS
<1>3. /\ o \in Op /\ Life!Executing(o) /\ Life!Agreed(o)
      /\ t \in Target /\ opTarget[o][t] # "none" /\ step \in Life!StepsOf(o) /\ step \in Step
  BY <1>1, ExecutesRightly
  DEF CreateTask, IInv, SchedFits, StepFits, Within, InHandWithin, AtTarget, AtStep, TargetsOf
<1>4. k \in Key /\ k[1] = o /\ k[2] = t /\ k[3] = step
  BY <1>2, <1>3 DEF Key
<1>5. task \in [Key -> TaskStatus]
  BY DEF IInv, ShapesOK
<1>6. /\ task' = [task EXCEPT ![k] = IF task[k] = "none" THEN "live" ELSE task[k]]
      /\ UNCHANGED <<op, opTarget, target, ran, continued>>
  BY <1>1, <1>2, <1>4, <1>5 DEF CreateTask, CurrentKey, rows, world
<1>7. CASE task[k] # "none"
  BY <1>4, <1>5, <1>6, <1>7, Unseen
<1>8. CASE task[k] = "none"
  <2>1. task' = [task EXCEPT ![k] = "live"]
    BY <1>6, <1>8
  <2>2. /\ FirstKey(o, t) \in ran \cup {<<o, t, step>>}
        /\ step = "update" /\ op[o].feature \in BackedUp => <<o, t, "backup">> \in ran
        /\ step = "health-check" /\ op[o].action \in NeedsRelease =>
               <<o, t, op[o].action>> \in ran
    BY <1>1 DEF CreateTask, IInv, SchedFits, StepFits, AtStep
  <2>3. step # "health-check" \/ op[o].action \notin NeedsRelease \/ FirstKey(o, t) \in ran
    BY <2>2 DEF FirstKey, FirstStep, NeedsRelease
  <2>4. \A s \in Life!Before(o, step) : <<o, t, s>> \in ran
    BY <1>3, <2>2, <2>3
    DEF Life!Before, Life!StepsOf, Life!Deploying, FirstKey, FirstStep, NeedsRelease
  <2>5. (\E u \in Target : opTarget[o][u] = "failed") => o \in continued
    BY <1>1 DEF CreateTask, IInv, SchedFits, ClaimFits, InLoop, Unfailed
  <2>6. UNCHANGED [u \in Target |-> target[u].current]
    BY <1>6
  <2>7. Life!Begin(k)
    BY <1>2, <1>3, <1>4, <1>6, <1>8, <2>1, <2>4, <2>5, <2>6 DEF Life!Begin
  <2>8. k \in DOMAIN task
    BY <1>4, <1>5
  <2> QED
    BY <2>7, <2>8 DEF LifeStep, Life!LifeNext
<1> QED
  BY <1>7, <1>8

(* What happens to a task afterwards                                       *)
LEMMA TaskSeen ==
    ASSUME IInv, Agent \/ \E r \in Caller : CancelWriteTask(r)
    PROVE  LifeStep
<1> USE DEF rows, world
<1>1. task \in [Key -> TaskStatus]
  BY DEF IInv, ShapesOK
<1>2. ASSUME NEW k \in Key, TaskEnds(k) PROVE LifeStep
  <2>1. /\ task[k] = "live" /\ ran' \in {ran, ran \cup {k}}
        /\ UNCHANGED <<op, opTarget, target, continued>>
    BY <1>2 DEF TaskEnds, Effect
  <2>2. PICK outcome \in {"succeeded", "failed"} :
            task' = [task EXCEPT ![k] = outcome] /\ (outcome = "succeeded" => k \in ran')
    BY <1>2 DEF TaskEnds, Effect
  <2>3. UNCHANGED [u \in Target |-> target[u].current]
    BY <2>1
  <2>4. Life!End(k)
    BY <2>1, <2>2, <2>3 DEF Life!End
  <2> QED
    BY <1>1, <2>4 DEF LifeStep, Life!LifeNext
<1>3. ASSUME NEW k \in Key, CancelledRuns(k) PROVE LifeStep
  <2>1. /\ task[k] = "cancelled" /\ ran' = ran \cup {k}
        /\ UNCHANGED <<op, opTarget, target, task, continued>>
    BY <1>3 DEF CancelledRuns, Effect, tasks
  <2>2. UNCHANGED [u \in Target |-> target[u].current]
    BY <2>1
  <2>3. Life!RunLate(k)
    BY <2>1, <2>2 DEF Life!RunLate
  <2> QED
    BY <1>1, <2>3 DEF LifeStep, Life!LifeNext
<1>4. ASSUME NEW r \in Caller, CancelWriteTask(r) PROVE LifeStep
  <2>1. PICK k \in Key : k = req[r].target /\ task[k] # "none"
    BY <1>4 DEF CancelWriteTask, IInv, RequestFits
  <2>2. /\ task' = [task EXCEPT ![k] = "cancelled"]
        /\ UNCHANGED <<op, opTarget, target, ran, continued>>
    BY <1>4, <2>1 DEF CancelWriteTask
  <2>3. UNCHANGED [u \in Target |-> target[u].current]
    BY <2>2
  <2>4. Life!Withdraw(k)
    BY <2>1, <2>2, <2>3 DEF Life!Withdraw
  <2> QED
    BY <1>1, <2>1, <2>4 DEF LifeStep, Life!LifeNext
<1> QED
  BY <1>2, <1>3, <1>4 DEF Agent

(* All the other steps are those of the scheduler and the handlers alone.  *)
LEMMA LifeFollows == IInv /\ Within /\ [Next]_vars => LifeStep
<1> SUFFICES ASSUME IInv, Within, [Next]_vars PROVE LifeStep
  OBVIOUS
<1> USE DEF rows, tasks, world
<1>1. CASE Scheduler
  <2>1. CASE ClaimQueuedDeploymentOperation \/ FinishOperation
    BY <2>1, StatusSeen
  <2>2. CASE MarkTarget \/ NoteManualRollbackDecision
    BY <2>2, MarkSeen
  <2>3. CASE RecordTarget
    BY <2>3, RecordSeen
  <2>4. CASE CreateTask
    BY <2>4, BeginSeen
  <2>5. CASE InsertBundle("scheduler")
    BY <2>5, InsertSeen DEF Caller
  <2>6. CASE \/ ListTargets \/ NextTarget \/ LoopEnds \/ BeginTarget \/ StepRefused
             \/ StepError \/ LinkTask \/ StepSucceeded \/ StepFailed \/ StepTimeout
             \/ Reread \/ Probe \/ ReadTarget \/ ReadLastHealthy \/ Finalize
             \/ TriggerAutoRollback
    BY <2>6, Unseen
    DEF ListTargets, NextTarget, LoopEnds, BeginTarget, StepRefused, StepError, LinkTask,
        StepSucceeded, StepFailed, StepTimeout, Reread, Probe, ReadTarget, ReadLastHealthy,
        Finalize, TriggerAutoRollback, CreateCheck
  <2> QED
    BY <1>1, <2>1, <2>2, <2>3, <2>4, <2>5, <2>6 DEF Scheduler
<1>2. CASE Agent
  BY <1>2, TaskSeen
<1>3. ASSUME NEW r \in Req, Handler(r) \/ Request(r) PROVE LifeStep
  <2>0. r \in Caller
    BY DEF Caller
  <2>1. CASE InsertBundle(r)
    BY <2>0, <2>1, InsertSeen
  <2>2. CASE CancelWrite(r) \/ ContinueWrite(r)
    BY <2>0, <2>2, StatusSeen
  <2>3. CASE CancelTarget(r)
    BY <2>0, <2>3, MarkSeen
  <2>4. CASE UpdateTargetWrite(r)
    BY <2>0, <2>4, RecordSeen
  <2>5. CASE CancelWriteTask(r)
    BY <2>0, <2>5, TaskSeen
  <2>6. CASE \/ CancelListTargets(r) \/ CancelListSteps(r) \/ CancelReadTask(r)
             \/ CancelReturn(r) \/ ContinueListTargets(r) \/ Request(r)
    BY <2>6, Unseen
    DEF CancelListTargets, CancelListSteps, CancelReadTask, CancelReturn, ContinueListTargets,
        Request, CreateOperation, CreateCheck, CancelRead, ContinueRead, UpdateTargetRead
  <2> QED
    BY <1>3, <2>1, <2>2, <2>3, <2>4, <2>5, <2>6 DEF Handler
<1>4. CASE Restart \/ UNCHANGED vars
  BY <1>4, Unseen DEF Restart, vars
<1> QED
  BY <1>1, <1>2, <1>3, <1>4 DEF Next

(* Everything the scheduler, the handlers and the agent do with the rows   *)
(* of an operation is what an operation may do by itself.                  *)
THEOREM Implementation == Spec => ImplementsLife
<1>1. IInv /\ Within /\ [Next]_vars => [Life!LifeNext]_(Life!lifeVars)
  BY LifeFollows DEF LifeStep
<1> QED
  BY <1>1, LifeStarts, Invariance, WithinInvariance, PTL DEF Spec, ImplementsLife, Life!LifeSpec
=============================================================================
