----------------------------- MODULE TaskProofs -----------------------------
(***************************************************************************)
(* What TaskDispatch.tla guarantees for any number of nodes, tasks, keys,  *)
(* administrators and polls, under every fault: its type, that a command   *)
(* is started at most once, that success is never made up, and that it     *)
(* implements TaskLife.tla; and, without faults, that a success is in the  *)
(* task's log.                                                             *)
(*                                                                         *)
(* Polls, agents, requests and handlers carry a task on, or what was read  *)
(* of it, long after the table has changed: the invariant says of each of  *)
(* them what it says of the table.                                         *)
(***************************************************************************)
EXTENDS TaskDispatch, TLAPS

Early == {"absent", "queued"}
HandedOut(t) == t \in Task /\ row[t].status \notin Early

(* An outcome that may be reported of a task.                              *)
Honest(t, o) == o # "failed" => o \in ended[t]

TasksOK ==
    \A t \in Task :
        /\ runs[t] <= 1
        /\ row[t].status \in Early => runs[t] = 0
        /\ runs[t] = 0 => ended[t] = {}
        /\ row[t].status = "succeeded" => "succeeded" \in ended[t]

AdminsOK ==
    \A a \in Admin :
        /\ admin[a].pc # "idle" => admin[a].task \in Task
        /\ admin[a].pc = "cancel" => row[admin[a].task].status # "absent"

(* A poll has a task from its claim on, and nobody has started that.       *)
PollsOK ==
    \A p \in Poll :
        /\ poll[p].stage # "idle" => poll[p].node \in Node
        /\ poll[p].stage \notin {"claimed", "respond"} => poll[p].task = NoTask
        /\ poll[p].stage = "claimed" => poll[p].task # NoTask
        /\ poll[p].task # NoTask => HandedOut(poll[p].task) /\ runs[poll[p].task] = 0

AgentsOK ==
    \A n \in Node :
        /\ cur[n] # NoTask => HandedOut(cur[n])
        /\ pc[n] \notin {"idle", "polling"} => cur[n] # NoTask
        /\ pc[n] \in {"got", "accept", "start"} => runs[cur[n]] = 0
        /\ pc[n] = "run" => runs[cur[n]] = 1 /\ ended[cur[n]] = {}
        /\ pc[n] \in {"accept", "start", "run"} => res[n].outcome = "failed"
        /\ pc[n] \in {"finish", "report"} => Honest(cur[n], res[n].outcome)

(* Whoever holds a task holds it alone.                                    *)
OneHolder ==
    /\ \A p, q \in Poll : poll[p].task # NoTask /\ poll[p].task = poll[q].task => p = q
    /\ \A p \in Poll, n \in Node : poll[p].task # NoTask => poll[p].task # cur[n]
    /\ \A n, m \in Node : cur[n] # NoTask /\ cur[n] = cur[m] => n = m

MsgOK(m) ==
    /\ HandedOut(m.task)
    /\ m.type \in {"completed", "failed", "timed_out", "cancelled"} =>
         Honest(m.task, ClosedBy(m.type))
    /\ m.type = "result" => Honest(m.task, m.report.outcome)

MsgsOK == (\A m \in net : MsgOK(m)) /\ (\A h \in handling : MsgOK(h.msg))

IInv == TypeOK /\ TasksOK /\ AdminsOK /\ PollsOK /\ AgentsOK /\ OneHolder /\ MsgsOK

LifeStep == [Life!LifeNext]_(Life!lifeVars)

-----------------------------------------------------------------------------
(* The records the model is built from have their types.                   *)
LEMMA Records ==
    /\ NoRow \in Row /\ Failure \in Report
    /\ NoAdmin \in [pc : AdminPC, task : Task \cup {NoTask}, snap : Row]
    /\ NoPoll \in [stage : PollStage, node : Node \cup {NoTask},
                   task : Task \cup {NoTask}, snap : Row, conn : BOOLEAN]
    /\ \A r \in Row, s \in Status : Finish(r, s) \in Row /\ Finish(r, s).status = s
    /\ \A r \in Row, x \in ExitCode :
         [r EXCEPT !.exit = x] \in Row /\ [r EXCEPT !.exit = x].status = r.status
  BY DEF NoRow, Row, Status, Terminal, ExitCode, Failure, Report, Outcome, NoAdmin, AdminPC,
         NoPoll, PollStage, Finish

(* A log entry is typed like the event.                                    *)
LEMMA Logs ==
    ASSUME TypeOK, NEW t \in Task, NEW s \in Nat, NEW type \in EventType,
           AppendTaskEventDedup(t, s, type)
    PROVE  events' \in SUBSET (Task \X Nat \X EventType)
  <1>1. events \in SUBSET (Task \X Nat \X EventType)
    BY DEF TypeOK
  <1> QED
    BY <1>1 DEF AppendTaskEventDedup

(* A status only moves on, and to success only after one.                  *)
Onward ==
    \A t \in Task :
        /\ row'[t].status \in Early => row[t].status \in Early
        /\ row'[t].status = "absent" => row[t].status = "absent"
        /\ row'[t].status = "succeeded" => "succeeded" \in ended[t]

(* What a step that at most moves statuses on leaves in order.             *)
LEMMA Quiet ==
    ASSUME IInv, Onward, UNCHANGED <<runs, ended>>
    PROVE  /\ TasksOK'
           /\ UNCHANGED admin => AdminsOK'
           /\ UNCHANGED poll => PollsOK'
           /\ UNCHANGED <<pc, cur, res>> => AgentsOK'
           /\ UNCHANGED <<poll, cur>> => OneHolder'
           /\ net' \subseteq net /\ handling' \subseteq handling => MsgsOK'
           /\ UNCHANGED net /\ (\A k \in handling' : \E h \in handling : k.msg = h.msg)
              => MsgsOK'
  <1> USE DEF IInv, HandedOut, Honest, Onward
  <1>1. TasksOK'
    BY DEF TasksOK
  <1>2. UNCHANGED admin => AdminsOK'
    BY DEF AdminsOK
  <1>3. UNCHANGED poll => PollsOK'
    BY DEF PollsOK, TypeOK
  <1>4. UNCHANGED <<pc, cur, res>> => AgentsOK'
    BY DEF AgentsOK
  <1>5. UNCHANGED <<poll, cur>> => OneHolder'
    BY DEF OneHolder
  <1>6. net' \subseteq net /\ handling' \subseteq handling => MsgsOK'
    BY DEF MsgsOK, MsgOK
  <1>7. ASSUME UNCHANGED net, \A k \in handling' : \E h \in handling : k.msg = h.msg
        PROVE  MsgsOK'
    BY <1>7 DEF MsgsOK, MsgOK
  <1> QED
    BY <1>1, <1>2, <1>3, <1>4, <1>5, <1>6, <1>7

(* An unchanged table is one.                                              *)
LEMMA Same ==
    ASSUME IInv, UNCHANGED row
    PROVE  Onward
  BY DEF IInv, TasksOK, Onward

(* Each operation of TaskLife is a step of it.                             *)
LEMMA Moving ==
    ASSUME NEW t \in Task,
           \/ Life!Create(t) \/ Life!HandOut(t) \/ Life!ShowRunning(t) \/ Life!Start(t)
           \/ Life!Cancel(t) \/ \E o \in Life!Closed : Life!End(t, o) \/ Life!Close(t, o)
    PROVE  LifeStep
  <1>1. Life!LifeNext
    BY DEF Life!LifeNext
  <1> QED
    BY <1>1 DEF LifeStep

(* A step that only makes holders lose tasks is one of TaskLife.           *)
LEMMA Losing ==
    ASSUME UNCHANGED <<row, runs, ended>>, Held' \subseteq Held
    PROVE  LifeStep
  <1>1. Held' = Held \ (Held \ Held') /\ Held \ Held' \in SUBSET Task
    BY DEF Held
  <1>2. Life!Drop(Held \ Held')
    BY <1>1 DEF Life!Drop
  <1> QED
    BY <1>1, <1>2 DEF LifeStep, Life!LifeNext

-----------------------------------------------------------------------------
(* Administrators                                                          *)

(* A request that only looks or fails changes no task.                     *)
LEMMA Creating ==
    ASSUME IInv, NEW a \in Admin,
           \/ \E t \in Task : CreateLookup(a, t) \/ CancelRead(a, t)
           \/ CreateReject(a) \/ CreateNotify(a) \/ CancelAbandoned(a)
    PROVE  IInv' /\ LifeStep
  <1> USE DEF CreateLookup, CreateReject, CreateNotify, CancelRead, CancelAbandoned, db, agent,
              history
  <1>1. TypeOK'
    <2> USE Records DEF IInv, TypeOK, AdminPC
    <2>1. ASSUME NEW t \in Task, CreateLookup(a, t) \/ CancelRead(a, t)
          PROVE  TypeOK'
      BY <2>1
    <2>2. CASE CreateReject(a) \/ CancelAbandoned(a)
      BY <2>2
    <2>3. CASE CreateNotify(a)
      <3>1. wake' \in [Node -> {"none", "empty", "token"}]
        BY <2>3
      <3> QED
        BY <2>3, <3>1
    <2> QED
      BY <2>1, <2>2, <2>3
  <1>2. AdminsOK'
    BY SMTT(30) DEF IInv, AdminsOK, TypeOK, NoAdmin
  <1>3. IInv'
    BY Quiet, Same, <1>1, <1>2 DEF IInv
  <1>4. Held' \subseteq Held
    BY DEF Held
  <1> QED
    BY Losing, <1>3, <1>4

(* An insert makes an absent task a queued one.                            *)
LEMMA Inserting ==
    ASSUME IInv, NEW a \in Admin, CreateInsert(a)
    PROVE  IInv' /\ LifeStep
  <1> DEFINE fresh == [NoRow EXCEPT !.status = "queued"]
  <1>1. PICK t \in Task : t = admin[a].task
    BY DEF IInv, AdminsOK, CreateInsert
  <1>2. UNCHANGED <<events, output, wake, poll, net, handling, agent, history>>
    BY DEF CreateInsert, db
  <1>3. CASE UNCHANGED db /\ admin' = [admin EXCEPT ![a] = NoAdmin]
    <2> USE <1>2, <1>3 DEF db, agent, history
    <2>1. TypeOK'
      BY Records DEF IInv, TypeOK
    <2>2. AdminsOK'
      BY DEF IInv, AdminsOK, TypeOK, NoAdmin
    <2>3. IInv'
      BY <2>1, <2>2, Quiet, Same DEF IInv
    <2>4. Held' \subseteq Held
      BY DEF Held
    <2> QED
      BY <2>3, <2>4, Losing
  <1>4. CASE /\ row[t].status = "absent" /\ row' = [row EXCEPT ![t] = fresh]
             /\ queuedAt' = [queuedAt EXCEPT ![t] = clock] /\ clock' = clock + 1
             /\ admin' = [admin EXCEPT ![a].pc = "notify"]
    <2> USE <1>1, <1>2, <1>4 DEF agent, history
    <2>1. fresh \in Row /\ fresh.status = "queued"
      BY DEF NoRow, Row, Status, ExitCode
    <2> HIDE DEF fresh
    <2>2. \A u \in Task : row'[u].status = IF u = t THEN "queued" ELSE row[u].status
      BY <2>1 DEF IInv, TypeOK
    <2>3. Onward
      BY <2>2 DEF Onward, Early, IInv, TasksOK
    <2>4. admin' \in [Admin -> [pc : AdminPC, task : Task \cup {NoTask}, snap : Row]]
      BY DEF IInv, TypeOK, AdminPC
    <2>5. TypeOK'
      BY <2>1, <2>4 DEF IInv, TypeOK
    <2>6. AdminsOK'
      <3>1. \A b \in Admin : admin'[b].task = admin[b].task
        BY DEF IInv, TypeOK
      <3>2. \A b \in Admin : b # a => admin'[b].pc = admin[b].pc
        BY DEF IInv, TypeOK
      <3>3. admin'[a].pc = "notify"
        BY DEF IInv, TypeOK
      <3> QED
        BY <2>2, <3>1, <3>2, <3>3 DEF IInv, AdminsOK
    <2>7. [u \in Task |-> row'[u].status] = [[u \in Task |-> row[u].status] EXCEPT ![t] = "queued"]
      BY <2>2
    <2>8. Life!Create(t)
      BY <2>7 DEF Life!Create, Held
    <2>9. IInv'
      BY <2>3, <2>5, <2>6, Quiet DEF IInv
    <2> QED
      BY <2>8, <2>9, Moving
  <1>5. row[t].status = "absent" \/ \E u \in Task : KeyOf[u] = KeyOf[t] /\ row[u].status # "absent"
    BY <1>1
  <1> QED
    BY <1>1, <1>3, <1>4, <1>5 DEF CreateInsert

(* A late cancellation closes whatever it finds.                           *)
LEMMA Cancelling ==
    ASSUME IInv, NEW a \in Admin, CancelWrite(a)
    PROVE  IInv' /\ LifeStep
  <1> USE DEF CancelWrite, db, agent, history
  <1>1. PICK t \in Task : t = admin[a].task /\ row[t].status # "absent"
    BY DEF IInv, AdminsOK
  <1>2. admin[a].snap \in Row /\ Finish(admin[a].snap, "cancelled") \in Row
    BY Records DEF IInv, TypeOK, Status, Terminal
  <1>3. TypeOK'
    BY <1>1, <1>2, Records DEF IInv, TypeOK, UpdateTask, AdminPC
  <1>4. \A u \in Task : row'[u].status = IF u = t THEN "cancelled" ELSE row[u].status
    BY <1>1, <1>2 DEF IInv, TypeOK, UpdateTask, Finish, Row
  <1>5. Onward
    BY <1>1, <1>4 DEF Onward, Early, IInv, TasksOK
  <1>6. AdminsOK'
    BY <1>1, <1>4 DEF IInv, AdminsOK, TypeOK, NoAdmin
  <1>7. [u \in Task |-> row'[u].status] = [[u \in Task |-> row[u].status] EXCEPT ![t] = "cancelled"]
    BY <1>1, <1>4
  <1>8. Life!Cancel(t)
    BY <1>1, <1>7 DEF Life!Cancel, Held
  <1>9. IInv'
    BY <1>3, <1>5, <1>6, Quiet DEF IInv
  <1> QED
    BY <1>1, <1>8, <1>9, Moving

(* The entry it makes in the log changes no task.                          *)
LEMMA CancelLogging ==
    ASSUME IInv, NEW a \in Admin, CancelLog(a)
    PROVE  IInv' /\ LifeStep
  <1> USE DEF CancelLog, agent, history
  <1>1. PICK t \in Task : t = admin[a].task
    BY DEF IInv, AdminsOK
  <1>2. events' \in SUBSET (Task \X Nat \X EventType)
    BY <1>1, Logs DEF IInv, EventType
  <1>3. TypeOK'
    BY <1>2, Records DEF IInv, TypeOK
  <1>4. AdminsOK'
    BY DEF IInv, AdminsOK, TypeOK, NoAdmin
  <1>5. IInv'
    BY <1>3, <1>4, Quiet, Same DEF IInv
  <1>6. Held' \subseteq Held
    BY DEF Held
  <1> QED
    BY <1>5, <1>6, Losing

-----------------------------------------------------------------------------
(* Polls                                                                   *)

(* A poll that goes on, with the task it has or without one.               *)
LEMMA PollGoesOn ==
    ASSUME IInv, NEW p \in Poll, NEW stage \in PollStage, UNCHANGED <<db, agent, history>>,
           wake' \in [Node -> {"none", "empty", "token"}], UNCHANGED <<admin, net, handling>>,
           poll' = [poll EXCEPT ![p].stage = stage],
           stage \in {"missed", "wait", "second"} =>
             poll[p].stage \notin {"idle", "claimed", "respond"},
           stage = "respond" => poll[p].stage # "idle",
           stage \notin {"idle", "first", "claimed"}
    PROVE  IInv' /\ LifeStep
  <1> USE DEF db, agent, history
  <1>1. TypeOK'
    <2> DEFINE R == [stage : PollStage, node : Node \cup {NoTask}, task : Task \cup {NoTask},
                     snap : Row, conn : BOOLEAN]
               r == [poll[p] EXCEPT !.stage = stage]
    <2>1. poll \in [Poll -> R]
      BY DEF IInv, TypeOK
    <2>2. poll[p] \in R
      BY <2>1
    <2>3. r \in R
      BY <2>2
    <2>4. poll' = [poll EXCEPT ![p] = r]
      OBVIOUS
    <2> HIDE DEF r
    <2>5. poll' \in [Poll -> R]
      BY <2>1, <2>3, <2>4
    <2> QED
      BY <2>5 DEF IInv, TypeOK
  <1>2. \A q \in Poll : poll'[q].task = poll[q].task /\ poll'[q].node = poll[q].node
    BY DEF IInv, TypeOK
  <1>3. \A q \in Poll : poll'[q].stage = IF q = p THEN stage ELSE poll[q].stage
    BY DEF IInv, TypeOK
  <1>4. PollsOK'
    BY <1>2, <1>3 DEF IInv, PollsOK, HandedOut, PollStage
  <1>5. OneHolder'
    BY <1>2 DEF IInv, OneHolder
  <1>6. Held' \subseteq Held
    BY <1>2 DEF Held
  <1>7. IInv'
    BY <1>1, <1>4, <1>5, Quiet, Same DEF IInv
  <1> QED
    BY <1>6, <1>7, Losing

(* A poll that waits or signs leaves the tasks alone.                      *)
LEMMA Waiting ==
    ASSUME IInv, NEW p \in Poll, PollMiss(p) \/ WaitEnter(p) \/ WaitReturn(p) \/ PollSign(p)
    PROVE  IInv' /\ LifeStep
  <1> USE DEF PollStage, db, agent, history
  <1>1. CASE PollMiss(p)
    <2>1. PICK stage \in {"missed", "respond"} :
            /\ poll' = [poll EXCEPT ![p].stage = stage]
            /\ poll[p].stage \in {"first", "second"}
      BY <1>1 DEF PollMiss
    <2> QED
      BY <1>1, <2>1, PollGoesOn DEF PollMiss, IInv, TypeOK
  <1>2. CASE WaitEnter(p)
    <2>1. wake' \in [Node -> {"none", "empty", "token"}]
      BY <1>2 DEF WaitEnter, IInv, TypeOK
    <2> QED
      BY <1>2, <2>1, PollGoesOn DEF WaitEnter
  <1>3. CASE WaitReturn(p)
    <2>1. wake' \in [Node -> {"none", "empty", "token"}]
      BY <1>3 DEF WaitReturn, IInv, TypeOK
    <2> QED
      BY <1>3, <2>1, PollGoesOn DEF WaitReturn
  <1>4. CASE PollSign(p)
    BY <1>4, PollGoesOn DEF PollSign, IInv, TypeOK
  <1> QED
    BY <1>1, <1>2, <1>3, <1>4

(* A poll that ends without a task for its agent.                          *)
LEMMA PollEnds ==
    ASSUME IInv, NEW p \in Poll, poll' = [poll EXCEPT ![p] = NoPoll]
    PROVE  /\ Onward /\ UNCHANGED runs => PollsOK'
           /\ UNCHANGED cur => OneHolder' /\ Held' \subseteq Held
           /\ poll' \in [Poll -> [stage : PollStage, node : Node \cup {NoTask},
                     task : Task \cup {NoTask}, snap : Row, conn : BOOLEAN]]
  <1>1. poll'[p] = NoPoll /\ \A q \in Poll : q # p => poll'[q] = poll[q]
    BY DEF IInv, TypeOK
  <1>2. NoPoll.task = NoTask /\ NoPoll.stage = "idle"
    BY DEF NoPoll
  <1>3. Onward /\ UNCHANGED runs => PollsOK'
    BY <1>1, <1>2 DEF IInv, PollsOK, HandedOut, Onward, TypeOK
  <1>4. UNCHANGED cur => OneHolder'
    BY <1>1, <1>2 DEF IInv, OneHolder
  <1>5. UNCHANGED cur => Held' \subseteq Held
    BY <1>1, <1>2, ConstantsAssumption DEF Held
  <1> QED
    BY <1>3, <1>4, <1>5, Records DEF IInv, TypeOK

(* What the agent whose poll fails does is nothing to the invariant.       *)
LEMMA AgentRetries ==
    ASSUME IInv, NEW n, Onward, UNCHANGED <<runs, ended, cur, res>>, PollError(n) \/ UNCHANGED pc
    PROVE  AgentsOK' /\ pc' \in [Node -> AgentPC]
  <1>1. pc' \in [Node -> AgentPC]
    BY DEF IInv, TypeOK, PollError, AgentPC
  <1>2. \A m \in Node : pc'[m] = pc[m] \/ pc'[m] = "idle"
    BY DEF IInv, TypeOK, PollError
  <1> QED
    BY <1>1, <1>2 DEF IInv, AgentsOK, Onward, HandedOut, Honest

(* A poll that ends without an answer loses its task for good.             *)
LEMMA GivingUp ==
    ASSUME IInv, NEW p \in Poll, PollUnsigned(p) \/ PollAbandoned(p)
    PROVE  IInv' /\ LifeStep
  <1>1. /\ poll' = [poll EXCEPT ![p] = NoPoll]
        /\ UNCHANGED <<db, wake, admin, net, handling, cur, seq, res, doneCache, history>>
        /\ PollError(poll[p].node) \/ UNCHANGED pc
    BY DEF PollUnsigned, PollAbandoned, agent
  <1> USE <1>1 DEF db, history
  <1>2. AgentsOK' /\ pc' \in [Node -> AgentPC]
    BY AgentRetries, Same
  <1>3. TypeOK'
    BY <1>2, PollEnds DEF IInv, TypeOK
  <1>4. IInv'
    BY <1>2, <1>3, PollEnds, Quiet, Same DEF IInv
  <1> QED
    BY <1>4, PollEnds, Losing

(* A row that is written back as closed.                                   *)
LEMMA Writing ==
    ASSUME IInv, NEW t \in Task, NEW r \in Row, UpdateTask(t, r), HandedOut(t),
           r.status \in Life!Closed, Honest(t, r.status)
    PROVE  /\ Onward /\ row' \in [Task -> Row]
           /\ /\ Held' \in {Held, Held \ {t}}
              /\ UNCHANGED <<runs, ended>>
              => LifeStep
  <1>1. \A u \in Task : row'[u].status = IF u = t THEN r.status ELSE row[u].status
    BY DEF IInv, TypeOK, UpdateTask
  <1>2. row' \in [Task -> Row]
    BY DEF IInv, TypeOK, UpdateTask
  <1>3. Onward
    BY <1>1 DEF Onward, Early, HandedOut, Honest, IInv, TasksOK, Life!Closed
  <1>4. [u \in Task |-> row'[u].status] = [[u \in Task |-> row[u].status] EXCEPT ![t] = r.status]
    BY <1>1
  <1>5. PICK o \in Life!Closed : o = r.status
    OBVIOUS
  <1>6. ASSUME Held' \in {Held, Held \ {t}}, UNCHANGED <<runs, ended>>
        PROVE  LifeStep
    <2>1. Life!Close(t, o)
      BY <1>4, <1>5, <1>6 DEF Life!Close, HandedOut, Early, Honest
    <2> QED
      BY <2>1, Moving
  <1> QED
    BY <1>2, <1>3, <1>6

(* A task whose command is gone is closed instead of answered.             *)
LEMMA CommandGone ==
    ASSUME IInv, NEW p \in Poll, PollCommandGone(p)
    PROVE  IInv' /\ LifeStep
  <1>1. PICK t \in Task : t = poll[p].task /\ HandedOut(t)
    BY DEF PollCommandGone, IInv, PollsOK, HandedOut
  <1>2. PICK r \in Row : r = Finish(poll[p].snap, "failed") /\ r.status = "failed"
    <2>1. poll[p].snap \in Row /\ "failed" \in Status
      BY DEF IInv, TypeOK, Status, Terminal
    <2> QED
      BY <2>1, Records
  <1>3. /\ poll' = [poll EXCEPT ![p] = NoPoll] /\ UpdateTask(t, r)
        /\ UNCHANGED <<queuedAt, clock, events, output, wake, admin, net, handling,
                       cur, seq, res, doneCache, runs, ended>>
        /\ PollError(poll[p].node) \/ UNCHANGED pc
    BY <1>1, <1>2 DEF PollCommandGone, history
  <1>4. Onward /\ row' \in [Task -> Row] /\ (Held' \in {Held, Held \ {t}} => LifeStep)
    BY <1>1, <1>2, <1>3, Writing DEF Honest, Life!Closed
  <1>5. AgentsOK' /\ pc' \in [Node -> AgentPC]
    BY <1>3, <1>4, AgentRetries
  <1>6. TypeOK'
    BY <1>3, <1>4, <1>5, PollEnds DEF IInv, TypeOK
  <1>7. IInv'
    BY <1>3, <1>4, <1>5, <1>6, PollEnds, Quiet DEF IInv
  <1>8. Held' \in {Held, Held \ {t}}
    <2>1. \A q \in Poll : q # p => poll'[q] = poll[q]
      BY <1>3 DEF IInv, TypeOK
    <2>2. poll'[p].task = NoTask
      BY <1>3 DEF IInv, TypeOK, NoPoll
    <2>3. Held \ {t} \subseteq Held'
      BY <1>1, <1>3, <2>1 DEF Held
    <2>4. Held' \subseteq Held
      BY <1>3, PollEnds
    <2> QED
      BY <2>3, <2>4
  <1> QED
    BY <1>4, <1>7, <1>8

(* The claim takes a queued task, which nobody else can hold.              *)
LEMMA Claiming ==
    ASSUME IInv, NEW p \in Poll, ClaimNextTask(p)
    PROVE  IInv' /\ LifeStep
  <1>1. PICK t \in Oldest(poll[p].node) :
          /\ row' = [row EXCEPT ![t].status = "dispatched", ![t].started = TRUE]
          /\ poll' = [poll EXCEPT ![p].stage = "claimed", ![p].task = t, ![p].snap = row[t]]
    BY DEF ClaimNextTask
  <1>2. /\ t \in Task /\ t # NoTask /\ row[t].status = "queued" /\ row[t] \in Row
        /\ runs[t] = 0
        /\ poll[p].stage \in {"first", "second"} /\ poll[p].task = NoTask
        /\ poll[p].node \in Node
    BY ConstantsAssumption
    DEF ClaimNextTask, Oldest, Queued, IInv, PollsOK, TypeOK, TasksOK, Early
  <1>3. UNCHANGED <<queuedAt, clock, events, output, wake, admin, net, handling,
                   pc, cur, seq, res, doneCache, runs, ended>>
    BY DEF ClaimNextTask, agent, history
  <1>4. row' \in [Task -> Row]
    BY <1>1, <1>2 DEF IInv, TypeOK, Row, Status
  <1>5. \A u \in Task : row'[u].status = IF u = t THEN "dispatched" ELSE row[u].status
    BY <1>1, <1>2 DEF IInv, TypeOK, Row
  <1>6. Onward
    BY <1>2, <1>5 DEF Onward, Early, IInv, TasksOK
  <1>7. poll' \in [Poll -> [stage : PollStage, node : Node \cup {NoTask},
                    task : Task \cup {NoTask}, snap : Row, conn : BOOLEAN]]
    BY <1>1, <1>2 DEF IInv, TypeOK, PollStage
  <1>8. TypeOK'
    BY <1>3, <1>4, <1>7 DEF IInv, TypeOK
  <1>9. /\ \A q \in Poll : q # p => poll'[q] = poll[q]
        /\ poll'[p].stage = "claimed" /\ poll'[p].task = t /\ poll'[p].node = poll[p].node
    BY <1>1 DEF IInv, TypeOK
  <1>10. PollsOK'
    BY <1>2, <1>3, <1>5, <1>9 DEF IInv, PollsOK, HandedOut, Early
  <1>11. /\ \A q \in Poll : poll[q].task # t
         /\ \A n \in Node : cur[n] # t
    BY <1>2 DEF IInv, PollsOK, AgentsOK, HandedOut, Early
  <1>12. OneHolder'
    BY <1>3, <1>9, <1>11 DEF IInv, OneHolder
  <1>13. IInv'
    BY <1>3, <1>6, <1>8, <1>10, <1>12, Quiet DEF IInv
  <1>14. Held' = Held \cup {t}
    BY <1>2, <1>3, <1>9, ConstantsAssumption DEF Held
  <1>15. [u \in Task |-> row'[u].status] =
           [[u \in Task |-> row[u].status] EXCEPT ![t] = "dispatched"]
    BY <1>2, <1>5
  <1>16. Life!HandOut(t)
    BY <1>2, <1>3, <1>14, <1>15 DEF Life!HandOut
  <1> QED
    BY <1>2, <1>13, <1>16, Moving

(* The answer moves a task from its poll to the agent, or loses it.        *)
LEMMA Responding ==
    ASSUME IInv, NEW p \in Poll, PollRespond(p)
    PROVE  IInv' /\ LifeStep
  <1>1. PICK n \in Node : n = poll[p].node
    BY DEF PollRespond, IInv, PollsOK
  <1>2. PICK t \in Task \cup {NoTask} : t = poll[p].task
    BY DEF IInv, TypeOK
  <1>3. /\ poll' = [poll EXCEPT ![p] = NoPoll]
        /\ pc' = [pc EXCEPT ![n] = IF t = NoTask THEN "idle" ELSE "got"]
        /\ cur' = [cur EXCEPT ![n] = t]
        /\ UNCHANGED <<row, queuedAt, clock, events, output, wake, admin, net, handling,
                       seq, res, doneCache, runs, ended>>
    BY <1>1, <1>2 DEF PollRespond, db, history
  <1>4. t # NoTask => HandedOut(t) /\ runs[t] = 0
    BY <1>2 DEF IInv, PollsOK
  <1>5. PollsOK' /\ TypeOK'
    BY <1>1, <1>3, PollEnds, Same DEF IInv, TypeOK, AgentPC
  <1>6. /\ cur'[n] = t /\ pc'[n] = IF t = NoTask THEN "idle" ELSE "got"
        /\ \A m \in Node : m # n => cur'[m] = cur[m] /\ pc'[m] = pc[m]
    BY <1>3 DEF IInv, TypeOK
  <1>7. AgentsOK'
    BY <1>3, <1>4, <1>6 DEF IInv, AgentsOK, HandedOut, Honest
  <1>8. /\ poll'[p].task = NoTask
        /\ \A q \in Poll : q # p => poll'[q] = poll[q]
    BY <1>3 DEF IInv, TypeOK, NoPoll
  <1>9. OneHolder'
    BY <1>2, <1>6, <1>8 DEF IInv, OneHolder
  <1>10. IInv'
    BY <1>3, <1>5, <1>7, <1>9, Quiet, Same DEF IInv
  <1>11. Held' \subseteq Held
    BY <1>2, <1>6, <1>8, ConstantsAssumption DEF Held
  <1> QED
    BY <1>3, <1>10, <1>11, Losing

(* Polls whose client is gone keep their stage and their task.             *)
LEMMA HangingUp ==
    ASSUME IInv, NEW n, poll' = Disconnect(n)
    PROVE  /\ poll' \in [Poll -> [stage : PollStage, node : Node \cup {NoTask},
                         task : Task \cup {NoTask}, snap : Row, conn : BOOLEAN]]
           /\ \A p \in Poll : /\ poll'[p].stage = poll[p].stage
                              /\ poll'[p].node = poll[p].node
                              /\ poll'[p].task = poll[p].task
  <1>1. \A p \in Poll : poll'[p] \in {poll[p], [poll[p] EXCEPT !.conn = FALSE]}
    BY DEF Disconnect
  <1>2. \A p \in Poll : /\ [poll[p] EXCEPT !.conn = FALSE].stage = poll[p].stage
                        /\ [poll[p] EXCEPT !.conn = FALSE].node = poll[p].node
                        /\ [poll[p] EXCEPT !.conn = FALSE].task = poll[p].task
                        /\ [poll[p] EXCEPT !.conn = FALSE] \in
                             [stage : PollStage, node : Node \cup {NoTask},
                              task : Task \cup {NoTask}, snap : Row, conn : BOOLEAN]
    BY ZenonT(40) DEF IInv, TypeOK
  <1>3. poll' \in [Poll -> [stage : PollStage, node : Node \cup {NoTask},
                    task : Task \cup {NoTask}, snap : Row, conn : BOOLEAN]]
    BY <1>1, <1>2 DEF Disconnect, IInv, TypeOK
  <1> QED
    BY <1>1, <1>2, <1>3

(* A new poll, or one whose client is gone.                                *)
LEMMA Polling ==
    ASSUME IInv, NEW n \in Node,
           (\E p \in Poll : AgentPoll(n, p)) \/ PollTimeout(n)
    PROVE  IInv' /\ LifeStep
  <1>1. /\ pc' \in [Node -> AgentPC]
        /\ \A m \in Node : pc'[m] = pc[m] \/ pc'[m] \in {"idle", "polling"}
        /\ UNCHANGED <<row, queuedAt, clock, events, output, wake, admin, net, handling,
                       cur, seq, res, doneCache, runs, ended>>
    BY DEF AgentPoll, PollTimeout, IInv, TypeOK, AgentPC, db, history
  <1>2. /\ poll' \in [Poll -> [stage : PollStage, node : Node \cup {NoTask},
                    task : Task \cup {NoTask}, snap : Row, conn : BOOLEAN]]
        /\ \A p \in Poll :
             \/ poll'[p].stage = poll[p].stage /\ poll'[p].node = poll[p].node
             \/ poll[p].stage = "idle" /\ poll'[p].stage = "first" /\ poll'[p].node \in Node
        /\ \A p \in Poll : poll'[p].task = poll[p].task
    <2>1. CASE PollTimeout(n)
      BY <2>1, HangingUp DEF PollTimeout
    <2>2. ASSUME NEW p \in Poll, AgentPoll(n, p)
          PROVE  <1>2!1 /\ <1>2!2 /\ <1>2!3
      <3>1. PICK new : /\ new = [NoPoll EXCEPT !.stage = "first", !.node = n, !.conn = TRUE]
                       /\ poll' = [poll EXCEPT ![p] = new]
        BY <2>2 DEF AgentPoll
      <3>2. /\ new \in [stage : PollStage, node : Node \cup {NoTask},
                        task : Task \cup {NoTask}, snap : Row, conn : BOOLEAN]
            /\ new.stage = "first" /\ new.node = n /\ new.task = NoTask
        BY <3>1, Records DEF NoPoll, PollStage
      <3>3. poll[p].stage = "idle" /\ poll[p].task = NoTask
        BY <2>2 DEF AgentPoll, IInv, PollsOK
      <3> QED
        BY <3>1, <3>2, <3>3 DEF IInv, TypeOK
    <2> QED
      BY <2>1, <2>2
  <1>3. TypeOK'
    BY <1>1, <1>2 DEF IInv, TypeOK
  <1>4. PollsOK'
    BY <1>1, <1>2 DEF IInv, PollsOK, HandedOut
  <1>5. AgentsOK'
    BY <1>1 DEF IInv, AgentsOK, HandedOut, Honest
  <1>6. OneHolder'
    BY <1>1, <1>2 DEF IInv, OneHolder
  <1>7. IInv'
    BY <1>1, <1>3, <1>4, <1>5, <1>6, Quiet, Same DEF IInv
  <1>8. Held' \subseteq Held
    BY <1>1, <1>2 DEF Held
  <1> QED
    BY <1>1, <1>7, <1>8, Losing

-----------------------------------------------------------------------------
(* Handlers of the agent's requests                                        *)

(* A handler that is done with the row keeps its message.                  *)
LEMMA Done ==
    ASSUME NEW m \in Msg
    PROVE  /\ RowDone(m) \in [msg : Msg, snap : Row, stage : HandlerStage]
           /\ RowDone(m).msg = m
           /\ RowDone(m).stage = IF m.type = "result" THEN "output" ELSE "log"
  BY Records DEF RowDone, HandlerStage

(* Reading a row, or losing a request, changes no task.                    *)
LEMMA Reading ==
    ASSUME IInv, NEW m \in net, HandlerRead(m) \/ LoseRequest(m)
    PROVE  IInv' /\ LifeStep
  <1> USE DEF HandlerRead, LoseRequest, db, agent, history
  <1>1. m \in Msg /\ m.task \in Task /\ row[m.task] \in Row
    BY DEF IInv, TypeOK, Msg
  <1>2. handling' \subseteq handling \cup
          {[msg |-> m, snap |-> row[m.task], stage |-> "row"], RowDone(m)}
    OBVIOUS
  <1>3. TypeOK'
    <2>1. [msg |-> m, snap |-> row[m.task], stage |-> "row"] \in
            [msg : Msg, snap : Row, stage : HandlerStage]
      BY <1>1 DEF HandlerStage
    <2>2. handling' \in SUBSET [msg : Msg, snap : Row, stage : HandlerStage]
      BY <1>1, <1>2, <2>1, Done DEF IInv, TypeOK
    <2> QED
      BY <2>2 DEF IInv, TypeOK
  <1>4. MsgsOK'
    <2>1. \A k \in handling' : k \in handling \/ k.msg = m
      BY <1>1, <1>2, Done
    <2> QED
      BY <2>1 DEF IInv, MsgsOK, MsgOK, HandedOut, Honest
  <1>5. IInv'
    BY <1>3, <1>4, Quiet, Same DEF IInv
  <1>6. Held' \subseteq Held
    BY DEF Held
  <1> QED
    BY <1>5, <1>6, Losing

(* What every statement of a handler leaves in order: the handler is done, *)
(* or goes on with its message.                                            *)
LEMMA Handled ==
    ASSUME IInv, NEW h \in handling, Onward,
           \/ handling' = handling \ {h}
           \/ handling' = (handling \ {h}) \cup {RowDone(h.msg)}
           \/ handling' = (handling \ {h}) \cup {[h EXCEPT !.stage = "log"]},
           row' \in [Task -> Row], events' \in SUBSET (Task \X Nat \X EventType),
           output' \in SUBSET Task,
           UNCHANGED <<queuedAt, clock, wake, admin, poll, net, agent, history>>
    PROVE  IInv' /\ Held' = Held
  <1> USE DEF agent, history
  <1>1. \A k \in handling' : /\ k \in [msg : Msg, snap : Row, stage : HandlerStage]
                             /\ k \in handling \/ k.msg = h.msg
    <2>1. h \in [msg : Msg, snap : Row, stage : HandlerStage]
      BY DEF IInv, TypeOK
    <2>2. PICK k : k = [h EXCEPT !.stage = "log"]
      OBVIOUS
    <2>3. k \in [msg : Msg, snap : Row, stage : HandlerStage] /\ k.msg = h.msg
      BY <2>1, <2>2 DEF HandlerStage
    <2>4. h.msg \in Msg
      BY <2>1
    <2> QED
      BY <2>2, <2>3, <2>4, Done DEF IInv, TypeOK
  <1>2. TypeOK'
    BY <1>1 DEF IInv, TypeOK
  <1>3. \A k \in handling' : \E j \in handling : k.msg = j.msg
    BY <1>1
  <1>4. IInv'
    BY <1>2, <1>3, Quiet DEF IInv
  <1> QED
    BY <1>4 DEF Held

(* Without a change of the table they are steps of nobody's.               *)
LEMMA HandledOnly ==
    ASSUME IInv, NEW h \in handling,
           StoreOutput(h) \/ AppendEvent(h) \/ HandlerAbandoned(h)
    PROVE  IInv' /\ LifeStep
  <1> USE DEF StoreOutput, AppendEvent, HandlerAbandoned, db
  <1>1. h.msg.task \in Task /\ h.msg.seq \in Nat /\ h.msg.type \in EventType
    BY DEF IInv, TypeOK, Msg
  <1>2. events' \in SUBSET (Task \X Nat \X EventType)
    BY <1>1, Logs DEF IInv, TypeOK
  <1>3. output' \in SUBSET Task
    BY <1>1 DEF IInv, TypeOK
  <1>4. UNCHANGED <<row, queuedAt, clock, wake, admin, poll, net, agent, history>>
    OBVIOUS
  <1>5. IInv' /\ Held' = Held
    BY <1>2, <1>3, <1>4, Handled, Same DEF IInv, TypeOK
  <1> QED
    BY <1>4, <1>5, Losing DEF history

(* An event closes a task only by what its execution reported.             *)
LEMMA Recording ==
    ASSUME IInv, NEW h \in handling, RecordEvent(h)
    PROVE  IInv' /\ LifeStep
  <1>1. PICK t \in Task, type \in EventType \ {"result"} :
          /\ t = h.msg.task /\ type = h.msg.type /\ h.msg.seq \in Nat /\ h.snap \in Row
          /\ MsgOK(h.msg)
    BY DEF RecordEvent, IInv, TypeOK, MsgsOK, Msg
  <1>2. HandedOut(t)
    BY <1>1 DEF MsgOK
  <1>3. /\ handling' = (handling \ {h}) \cup {RowDone(h.msg)} /\ output' \in SUBSET Task
        /\ UNCHANGED <<queuedAt, clock, output, wake, admin, poll, net, agent, history>>
    BY DEF RecordEvent, IInv, TypeOK
  <1>4. events' \in SUBSET (Task \X Nat \X EventType)
    BY DEF RecordEvent, IInv, TypeOK
  <1>5. UNCHANGED <<runs, ended>>
    BY <1>3 DEF history
  <1>6. CASE UNCHANGED row
    <2>1. IInv' /\ Held' = Held
      BY <1>3, <1>4, <1>6, Handled, Same DEF IInv, TypeOK
    <2> QED
      BY <1>5, <1>6, <2>1, Losing
  <1>7. CASE MarkTaskRunning(t) /\ row' # row
    <2>1. row[t].status = "dispatched" /\ row' = [row EXCEPT ![t].status = "running"]
      BY <1>7 DEF MarkTaskRunning
    <2>2. row' \in [Task -> Row]
      <3>1. row \in [Task -> Row]
        BY DEF IInv, TypeOK
      <3>2. PICK r \in Row : r = [row[t] EXCEPT !.status = "running"]
        BY <3>1 DEF Row, Status
      <3>3. row' = [row EXCEPT ![t] = r]
        BY <2>1, <3>2
      <3> QED
        BY <3>1, <3>3
    <2>3. \A u \in Task : row'[u].status = IF u = t THEN "running" ELSE row[u].status
      BY <2>1 DEF IInv, TypeOK, Row
    <2>4. Onward
      BY <2>3 DEF Onward, Early, IInv, TasksOK
    <2>5. IInv' /\ Held' = Held
      BY <1>3, <1>4, <2>2, <2>4, Handled
    <2>6. [u \in Task |-> row'[u].status] = [[u \in Task |-> row[u].status] EXCEPT ![t] = "running"]
      BY <2>3
    <2>7. Life!ShowRunning(t)
      BY <1>5, <2>1, <2>5, <2>6 DEF Life!ShowRunning
    <2> QED
      BY <2>5, <2>7, Moving
  <1>8. CASE /\ type \in {"completed", "failed", "timed_out", "cancelled"}
             /\ UpdateTask(t, Finish(h.snap, ClosedBy(type)))
    <2>1. /\ ClosedBy(type) \in Life!Closed /\ ClosedBy(type) \in Status
          /\ Honest(t, ClosedBy(type))
      BY <1>1, <1>8 DEF ClosedBy, Life!Closed, Status, Terminal, MsgOK
    <2>2. PICK r \in Row : r = Finish(h.snap, ClosedBy(type)) /\ r.status = ClosedBy(type)
      BY <1>1, <2>1, Records
    <2>3. Onward /\ row' \in [Task -> Row] /\ (Held' \in {Held, Held \ {t}} => LifeStep)
      BY <1>2, <1>5, <1>8, <2>1, <2>2, Writing
    <2> QED
      BY <1>3, <1>4, <2>3, Handled
  <1> QED
    BY <1>1, <1>6, <1>7, <1>8 DEF RecordEvent, EventType

(* A result does so too, also over a row read long before.                 *)
LEMMA Resulting ==
    ASSUME IInv, NEW h \in handling, RecordResult(h)
    PROVE  IInv' /\ LifeStep
  <1>1. PICK t \in Task, rep \in Report :
          /\ t = h.msg.task /\ rep = h.msg.report /\ h.snap \in Row
          /\ MsgOK(h.msg) /\ h.msg.type = "result"
    BY DEF RecordResult, IInv, TypeOK, MsgsOK, Msg
  <1>2. HandedOut(t) /\ Honest(t, rep.outcome)
    BY <1>1 DEF MsgOK
  <1>3. /\ handling' = (handling \ {h}) \cup {RowDone(h.msg)} /\ output' \in SUBSET Task
        /\ UNCHANGED <<queuedAt, clock, wake, admin, poll, net, agent, history>>
    BY DEF RecordResult, IInv, TypeOK
  <1>4. events' \in SUBSET (Task \X Nat \X EventType)
    BY DEF RecordResult, IInv, TypeOK
  <1>5. UNCHANGED <<runs, ended>>
    BY <1>3 DEF history
  <1>7. CASE UpdateTask(t, [Finish(h.snap, rep.outcome) EXCEPT !.exit = rep.exit])
    <2>1. rep.outcome \in Life!Closed /\ rep.outcome \in Status /\ rep.exit \in ExitCode
      BY <1>1 DEF Report, Outcome, Life!Closed, Status, Terminal
    <2>4. PICK f \in Row : f = Finish(h.snap, rep.outcome) /\ f.status = rep.outcome
      BY <1>1, <2>1, Records
    <2>5. [f EXCEPT !.exit = rep.exit] \in Row /\ [f EXCEPT !.exit = rep.exit].status = f.status
      BY <2>1, Records
    <2>2. PICK r \in Row : r = [f EXCEPT !.exit = rep.exit] /\ r.status = rep.outcome
      BY <2>4, <2>5
    <2>3. Onward /\ row' \in [Task -> Row] /\ (Held' \in {Held, Held \ {t}} => LifeStep)
      BY <1>2, <1>5, <1>7, <2>1, <2>4, <2>2, Writing
    <2> QED
      BY <1>3, <1>4, <2>3, Handled
  <1> QED
    BY <1>1, <1>7 DEF RecordResult

-----------------------------------------------------------------------------
(* Agents                                                                  *)

(* A request says nothing that did not happen.                             *)
LEMMA Sending ==
    ASSUME IInv, NEW n \in Node, NEW type \in EventType, NEW s \in Nat, Send(n, type, s),
           cur[n] # NoTask, UNCHANGED <<row, ended, handling>>,
           type \in {"completed", "failed", "timed_out", "cancelled"} =>
             Honest(cur[n], ClosedBy(type)),
           type = "result" => Honest(cur[n], res[n].outcome)
    PROVE  MsgsOK' /\ net' \in SUBSET Msg
  <1>1. HandedOut(cur[n]) /\ res[n] \in Report
    BY DEF IInv, AgentsOK, TypeOK
  <1>4. [task |-> cur[n], type |-> type, seq |-> s, report |-> res[n]] \in Msg
    BY <1>1 DEF Msg, HandedOut
  <1>2. PICK m \in Msg : /\ net' = net \cup {m}
                         /\ m.task = cur[n] /\ m.type = type /\ m.report = res[n]
    BY <1>4 DEF Send
  <1>3. MsgOK(m)
    BY <1>1, <1>2 DEF MsgOK
  <1> QED
    BY <1>2, <1>3 DEF IInv, TypeOK, MsgsOK, MsgOK, HandedOut, Honest

(* An agent that goes on with its task, or drops it.                       *)
LEMMA AgentGoesOn ==
    ASSUME IInv, NEW n \in Node, NEW l \in AgentPC,
           UNCHANGED <<db, wake, admin, handling, runs, ended>>,
           poll' \in {poll, Disconnect(n)},
           pc' = [pc EXCEPT ![n] = l],
           cur' \in {cur, [cur EXCEPT ![n] = NoTask]},
           MsgsOK' /\ net' \in SUBSET Msg,
           seq' \in [Node -> Nat], res' \in [Node -> Report],
           doneCache' \in [Node -> SUBSET Task],
           \A m \in Node : m # n => res'[m] = res[m],
           l \notin {"idle", "polling"} => cur' = cur /\ cur[n] # NoTask,
           l \in {"got", "accept", "start"} => runs[cur[n]] = 0,
           l \in {"accept", "start"} => res'[n].outcome = "failed",
           l = "run" => pc[n] = "run" /\ res' = res,
           l \in {"finish", "report"} => Honest(cur[n], res'[n].outcome)
    PROVE  IInv' /\ LifeStep
  <1> USE DEF db
  <1>1. /\ poll' \in [Poll -> [stage : PollStage, node : Node \cup {NoTask},
                    task : Task \cup {NoTask}, snap : Row, conn : BOOLEAN]]
        /\ \A p \in Poll : /\ poll'[p].stage = poll[p].stage
                           /\ poll'[p].node = poll[p].node
                           /\ poll'[p].task = poll[p].task
    BY HangingUp DEF IInv, TypeOK
  <1>2. cur' \in [Node -> Task \cup {NoTask}]
    BY DEF IInv, TypeOK
  <1>3. \A m \in Node : cur'[m] = cur[m] \/ (m = n /\ cur'[m] = NoTask)
    BY DEF IInv, TypeOK
  <1>4. pc'[n] = l /\ \A m \in Node : m # n => pc'[m] = pc[m]
    BY DEF IInv, TypeOK
  <1>5. TypeOK'
    BY <1>1, <1>2 DEF IInv, TypeOK
  <1>6. PollsOK'
    BY <1>1 DEF IInv, PollsOK, HandedOut
  <1>7. AgentsOK'
    <2> SUFFICES ASSUME NEW m \in Node
                 PROVE  /\ cur'[m] # NoTask => cur'[m] \in Task /\ row[cur'[m]].status \notin Early
                        /\ pc'[m] \notin {"idle", "polling"} => cur'[m] # NoTask
                        /\ pc'[m] \in {"got", "accept", "start"} => runs[cur'[m]] = 0
                        /\ pc'[m] = "run" => runs[cur'[m]] = 1 /\ ended[cur'[m]] = {}
                        /\ pc'[m] \in {"accept", "start", "run"} => res'[m].outcome = "failed"
                        /\ pc'[m] \in {"finish", "report"} =>
                             (res'[m].outcome # "failed" => res'[m].outcome \in ended[cur'[m]])
      BY DEF AgentsOK, HandedOut, Honest
    <2>1. CASE m = n
      <3>1. pc'[n] = l
        BY <1>4
      <3>2. cur'[n] = cur[n] \/ cur'[n] = NoTask
        BY <1>3
      <3>3. cur[n] # NoTask => cur[n] \in Task /\ row[cur[n]].status \notin Early
        BY DEF IInv, AgentsOK, HandedOut
      <3>4. l \notin {"idle", "polling"} => cur'[n] = cur[n] /\ cur[n] # NoTask
        OBVIOUS
      <3>5. cur'[n] # NoTask => cur'[n] \in Task /\ row[cur'[n]].status \notin Early
        BY <3>2, <3>3
      <3>6. CASE l \in {"idle", "polling"}
        BY <2>1, <3>1, <3>5, <3>6
      <3>7. CASE l \notin {"idle", "polling"}
        <4>1. cur'[n] = cur[n] /\ cur[n] # NoTask
          BY <3>4, <3>7
        <4>2. l \in {"got", "accept", "start"} => runs[cur'[n]] = 0
          BY <4>1
        <4>5. l = "run" => runs[cur'[n]] = 1 /\ ended[cur'[n]] = {} /\ res[n].outcome = "failed"
          BY <4>1 DEF IInv, AgentsOK
        <4>3. l \in {"accept", "start", "run"} => res'[n].outcome = "failed"
          BY <4>5
        <4>4. l \in {"finish", "report"} =>
                (res'[n].outcome # "failed" => res'[n].outcome \in ended[cur'[n]])
          BY <4>1 DEF Honest
        <4> QED
          BY <2>1, <3>1, <3>5, <4>1, <4>2, <4>3, <4>4, <4>5
      <3> QED
        BY <3>6, <3>7
    <2>2. CASE m # n
      <3>1. pc'[m] = pc[m] /\ cur'[m] = cur[m] /\ res'[m] = res[m]
        BY <1>3, <1>4, <2>2
      <3> QED
        BY <3>1 DEF IInv, AgentsOK, HandedOut, Honest
    <2> QED
      BY <2>1, <2>2
  <1>8. OneHolder'
    BY <1>1, <1>3 DEF IInv, OneHolder
  <1>9. IInv'
    BY <1>5, <1>6, <1>7, <1>8, Quiet, Same DEF IInv
  <1>10. Held' \subseteq Held
    BY <1>1, <1>3, ConstantsAssumption DEF Held
  <1> QED
    BY <1>9, <1>10, Losing

(* What an agent holds, by the point it is at.                             *)
LEMMA Holding ==
    ASSUME IInv, NEW n \in Node
    PROVE  /\ pc[n] \notin {"idle", "polling"} => cur[n] # NoTask /\ cur[n] \in Task
           /\ seq[n] \in Nat /\ res[n] \in Report
           /\ TypeOK /\ MsgsOK
           /\ UNCHANGED <<row, ended, net, handling>> => MsgsOK' /\ net' \in SUBSET Msg
  BY DEF IInv, TypeOK, AgentsOK, HandedOut, MsgsOK, MsgOK, Honest

(* An agent that is done with a task holds none.                           *)
LEMMA Dropping ==
    ASSUME IInv, NEW n \in Node, HandleDrop(n) \/ ExecuteReturn(n)
    PROVE  IInv' /\ LifeStep
  <1> USE DEF HandleDrop, ExecuteReturn, Goto, history, agent
  <1>1. MsgsOK' /\ net' \in SUBSET Msg
    BY Holding DEF db
  <1>2. /\ seq' \in [Node -> Nat] /\ res' \in [Node -> Report]
        /\ doneCache' \in [Node -> SUBSET Task]
        /\ \A m \in Node : m # n => res'[m] = res[m]
    BY SMTT(30), Records DEF IInv, TypeOK
  <1>3. "idle" \in AgentPC
    BY DEF AgentPC
  <1> QED
    BY <1>1, <1>2, <1>3, AgentGoesOn

(* A task of an unknown command is reported as failed.                     *)
LEMMA Refusing ==
    ASSUME IInv, NEW n \in Node, HandleUnknown(n)
    PROVE  IInv' /\ LifeStep
  <1> USE DEF HandleUnknown, Goto, history, agent
  <1>1. HandedOut(cur[n]) /\ cur[n] # NoTask
    BY DEF IInv, AgentsOK
  <1>2. PICK m \in Msg : /\ net' = net \cup {m} /\ m.task = cur[n] /\ m.type = "result"
                         /\ m.report = Failure
    <2>1. [task |-> cur[n], type |-> "result", seq |-> 0, report |-> Failure] \in Msg
      BY <1>1, Records DEF Msg, EventType, HandedOut
    <2> QED
      BY <2>1
  <1>3. MsgOK(m)
    BY <1>1, <1>2 DEF MsgOK, Honest, Failure
  <1>4. MsgsOK' /\ net' \in SUBSET Msg
    BY <1>2, <1>3 DEF IInv, TypeOK, MsgsOK, MsgOK, HandedOut, Honest, db
  <1>5. "closing" \in AgentPC
    BY DEF AgentPC
  <1> QED
    BY <1>1, <1>4, <1>5, AgentGoesOn DEF IInv, TypeOK

(* An accepted task has not been started yet.                              *)
LEMMA Accepting ==
    ASSUME IInv, NEW n \in Node, HandleTask(n)
    PROVE  IInv' /\ LifeStep
  <1> USE DEF HandleTask, Goto, history, agent
  <1>1. cur[n] # NoTask /\ cur[n] \in Task /\ runs[cur[n]] = 0
    BY Holding DEF IInv, AgentsOK
  <1>2. MsgsOK' /\ net' \in SUBSET Msg
    BY <1>1, Sending DEF db, EventType
  <1>3. /\ seq' \in [Node -> Nat] /\ res' \in [Node -> Report] /\ res'[n].outcome = "failed"
        /\ \A m \in Node : m # n => res'[m] = res[m]
    BY Records DEF IInv, TypeOK, Failure
  <1>4. doneCache' \in [Node -> SUBSET Task]
    BY <1>1 DEF IInv, TypeOK
  <1>5. "accept" \in AgentPC
    BY DEF AgentPC
  <1> QED
    BY <1>1, <1>2, <1>3, <1>4, <1>5, AgentGoesOn

(* What an agent sends is honest about its execution.                      *)
LEMMA Reporting ==
    ASSUME IInv, NEW n \in Node,
           SendStarted(n) \/ SendChunk(n) \/ SendClosing(n) \/ SendResult(n)
    PROVE  IInv' /\ LifeStep
  <1> USE DEF SendStarted, SendChunk, SendClosing, SendResult, Goto, history, agent
  <1>1. cur[n] # NoTask /\ seq[n] \in Nat /\ res[n] \in Report
    BY Holding
  <1>2. seq' \in [Node -> Nat] /\ res' = res /\ res \in [Node -> Report]
        /\ doneCache' \in [Node -> SUBSET Task]
    BY <1>1 DEF IInv, TypeOK
  <1>3. {"start", "run", "report", "closing"} \subseteq AgentPC
    BY DEF AgentPC
  <1>4. CASE SendStarted(n)
    <2>1. MsgsOK' /\ net' \in SUBSET Msg
      BY <1>1, <1>4, Sending DEF db, EventType
    <2>2. runs[cur[n]] = 0 /\ res[n].outcome = "failed"
      BY <1>4 DEF IInv, AgentsOK
    <2> QED
      BY <1>1, <1>2, <1>3, <1>4, <2>1, <2>2, AgentGoesOn
  <1>5. CASE SendChunk(n)
    <2>1. MsgsOK' /\ net' \in SUBSET Msg
      BY <1>1, <1>5, Sending DEF db, EventType
    <2>2. pc' = [pc EXCEPT ![n] = "run"] /\ pc[n] = "run"
      BY <1>5 DEF IInv, TypeOK
    <2> QED
      BY <1>1, <1>2, <1>3, <1>5, <2>1, <2>2, AgentGoesOn
  <1>6. CASE SendClosing(n)
    <2>1. PICK type \in EventType :
            /\ type = IF res[n].outcome = "succeeded" THEN "completed" ELSE res[n].outcome
            /\ type # "result" /\ ClosedBy(type) = res[n].outcome
      BY <1>1 DEF Report, Outcome, EventType, ClosedBy
    <2>2. Honest(cur[n], res[n].outcome)
      BY <1>6 DEF IInv, AgentsOK
    <2>3. MsgsOK' /\ net' \in SUBSET Msg
      BY <1>1, <1>6, <2>1, <2>2, Sending DEF db
    <2> QED
      BY <1>1, <1>2, <1>3, <1>6, <2>2, <2>3, AgentGoesOn
  <1>7. CASE SendResult(n)
    <2>1. Honest(cur[n], res[n].outcome)
      BY <1>7 DEF IInv, AgentsOK
    <2>2. MsgsOK' /\ net' \in SUBSET Msg
      BY <1>1, <1>7, <2>1, Sending DEF db, EventType
    <2> QED
      BY <1>1, <1>2, <1>3, <1>7, <2>2, AgentGoesOn
  <1> QED
    BY <1>4, <1>5, <1>6, <1>7

(* Only the one holder of a task starts it.                                *)
LEMMA Starting ==
    ASSUME IInv, NEW n \in Node, StartProcess(n)
    PROVE  IInv' /\ LifeStep
  <1>1. PICK t \in Task : t = cur[n] /\ t # NoTask /\ HandedOut(t) /\ runs[t] = 0
    BY DEF StartProcess, IInv, AgentsOK, HandedOut
  <1>2. UNCHANGED <<db, wake, admin, poll, net, handling, cur, seq, res, doneCache, ended>>
    BY DEF StartProcess
  <1>3. res[n].outcome = "failed" /\ ended[t] = {}
    BY <1>1 DEF StartProcess, IInv, AgentsOK, TasksOK
  <1>4. CASE pc' = [pc EXCEPT ![n] = "finish"] /\ UNCHANGED runs
    <2>1. "finish" \in AgentPC /\ Honest(cur[n], res[n].outcome)
      BY <1>3 DEF AgentPC, Honest
    <2>2. MsgsOK' /\ net' \in SUBSET Msg
      BY <1>2, Holding DEF db
    <2> QED
      BY <1>1, <1>2, <1>4, <2>1, <2>2, AgentGoesOn DEF IInv, TypeOK
  <1>5. CASE pc' = [pc EXCEPT ![n] = "run"] /\ runs' = [runs EXCEPT ![t] = @ + 1]
    <2> USE <1>2 DEF db
    <2>1. runs' = [runs EXCEPT ![t] = 1] /\ runs' \in [Task -> Nat]
      BY <1>1, <1>5 DEF IInv, TypeOK
    <2>2. \A u \in Task : runs'[u] = IF u = t THEN 1 ELSE runs[u]
      BY <2>1 DEF IInv, TypeOK
    <2>3. pc' \in [Node -> AgentPC] /\ pc'[n] = "run" /\ \A m \in Node : m # n => pc'[m] = pc[m]
      BY <1>5 DEF IInv, TypeOK, AgentPC
    <2>4. TypeOK'
      BY <2>1, <2>3 DEF IInv, TypeOK
    <2>5. TasksOK'
      BY <1>1, <2>2 DEF IInv, TasksOK, HandedOut
    <2>6. AdminsOK' /\ MsgsOK' /\ OneHolder'
      BY DEF IInv, AdminsOK, MsgsOK, MsgOK, HandedOut, Honest, OneHolder
    <2>7. /\ \A p \in Poll : poll[p].task # t
          /\ \A m \in Node : m # n => cur[m] # t
      BY <1>1 DEF IInv, OneHolder
    <2>8. PollsOK'
      BY <2>2, <2>7 DEF IInv, PollsOK, HandedOut
    <2>9. AgentsOK'
      <3> SUFFICES ASSUME NEW m \in Node
                   PROVE  /\ cur[m] # NoTask => HandedOut(cur[m])
                          /\ pc'[m] \notin {"idle", "polling"} => cur[m] # NoTask
                          /\ pc'[m] \in {"got", "accept", "start"} => runs'[cur[m]] = 0
                          /\ pc'[m] = "run" => runs'[cur[m]] = 1 /\ ended[cur[m]] = {}
                          /\ pc'[m] \in {"accept", "start", "run"} => res[m].outcome = "failed"
                          /\ pc'[m] \in {"finish", "report"} => Honest(cur[m], res[m].outcome)
        BY DEF AgentsOK, HandedOut, Honest
      <3>1. CASE m = n
        BY <1>1, <1>3, <2>2, <2>3, <3>1
      <3>2. CASE m # n
        BY <2>2, <2>3, <2>7, <3>2 DEF IInv, AgentsOK, HandedOut
      <3> QED
        BY <3>1, <3>2
    <2>10. t \in Held /\ Held' = Held
      BY <1>1 DEF Held
    <2>11. Life!Start(t)
      BY <1>1, <2>1, <2>10 DEF Life!Start
    <2> QED
      BY <2>4, <2>5, <2>6, <2>8, <2>9, <2>11, Moving DEF IInv
  <1> QED
    BY <1>1, <1>4, <1>5 DEF StartProcess, Goto

(* The execution ends once, with the outcome it reports.                   *)
LEMMA Exiting ==
    ASSUME IInv, NEW n \in Node, ProcessExit(n)
    PROVE  IInv' /\ LifeStep
  <1>1. PICK t \in Task : t = cur[n] /\ t # NoTask /\ runs[t] = 1 /\ ended[t] = {}
    BY DEF ProcessExit, IInv, AgentsOK, HandedOut
  <1>2. PICK o \in Ends : /\ res' = [res EXCEPT ![n] = [outcome |-> o, exit |-> o]]
                          /\ ended' = [ended EXCEPT ![t] = @ \cup {o}]
    BY <1>1 DEF ProcessExit
  <1>3. UNCHANGED <<db, wake, admin, poll, net, handling, cur, seq, doneCache, runs>>
    BY DEF ProcessExit
  <1>4. o \in Outcome /\ o \in Life!Closed
    BY ConstantsAssumption DEF Outcome, Life!Closed
  <1> USE <1>3 DEF db
  <1>5. ended' = [ended EXCEPT ![t] = {o}] /\ ended' \in [Task -> SUBSET Outcome]
    BY <1>1, <1>2, <1>4 DEF IInv, TypeOK
  <1>6. \A u \in Task : ended'[u] = IF u = t THEN {o} ELSE ended[u]
    BY <1>5 DEF IInv, TypeOK
  <1>7. /\ pc' \in [Node -> AgentPC] /\ pc'[n] = "finish"
        /\ \A m \in Node : m # n => pc'[m] = pc[m]
    BY DEF ProcessExit, Goto, IInv, TypeOK, AgentPC
  <1>8. /\ res' \in [Node -> Report] /\ res'[n].outcome = o
        /\ \A m \in Node : m # n => res'[m] = res[m]
    BY <1>2, <1>4 DEF IInv, TypeOK, Report, ExitCode
  <1>9. TypeOK'
    BY <1>5, <1>7, <1>8 DEF IInv, TypeOK
  <1>10. \A u \in Task : ended[u] \subseteq ended'[u]
    BY <1>1, <1>6
  <1>11. TasksOK'
    BY <1>1, <1>6, <1>10 DEF IInv, TasksOK
  <1>12. AdminsOK' /\ PollsOK' /\ OneHolder'
    BY DEF IInv, AdminsOK, PollsOK, OneHolder, HandedOut
  <1>13. MsgsOK'
    <2>1. \A m : MsgOK(m) => MsgOK(m)'
      BY <1>10 DEF MsgOK, HandedOut, Honest
    <2> QED
      BY <2>1 DEF IInv, MsgsOK
  <1>14. \A m \in Node : m # n => cur[m] # t
    BY <1>1 DEF IInv, OneHolder
  <1>15. AgentsOK'
    <2> SUFFICES ASSUME NEW m \in Node
                 PROVE  /\ cur[m] # NoTask => HandedOut(cur[m])
                        /\ pc'[m] \notin {"idle", "polling"} => cur[m] # NoTask
                        /\ pc'[m] \in {"got", "accept", "start"} => runs[cur[m]] = 0
                        /\ pc'[m] = "run" => runs[cur[m]] = 1 /\ ended'[cur[m]] = {}
                        /\ pc'[m] \in {"accept", "start", "run"} => res'[m].outcome = "failed"
                        /\ pc'[m] \in {"finish", "report"} =>
                             (res'[m].outcome # "failed" => res'[m].outcome \in ended'[cur[m]])
      BY DEF AgentsOK, HandedOut, Honest
    <2>1. CASE m = n
      BY <1>1, <1>6, <1>7, <1>8, <2>1 DEF IInv, AgentsOK
    <2>2. CASE m # n
      BY <1>6, <1>7, <1>8, <1>14, <2>2 DEF IInv, AgentsOK, HandedOut, Honest
    <2> QED
      BY <2>1, <2>2
  <1>16. t \in Held /\ Held' = Held
    BY <1>1 DEF Held
  <1>17. Life!End(t, o)
    BY <1>1, <1>5, <1>16 DEF Life!End
  <1> QED
    BY <1>4, <1>9, <1>11, <1>12, <1>13, <1>15, <1>17, Moving DEF IInv

(* An agent that crashes loses what it held.                               *)
LEMMA Crashing ==
    ASSUME IInv, NEW n \in Node, AgentCrash(n)
    PROVE  IInv' /\ LifeStep
  <1> USE DEF AgentCrash, Goto, history
  <1>1. MsgsOK' /\ net' \in SUBSET Msg
    BY Holding DEF db
  <1>2. /\ seq' \in [Node -> Nat] /\ res' \in [Node -> Report]
        /\ doneCache' \in [Node -> SUBSET Task]
        /\ \A m \in Node : m # n => res'[m] = res[m]
    BY Records DEF IInv, TypeOK
  <1>3. "idle" \in AgentPC
    BY DEF AgentPC
  <1> QED
    BY <1>1, <1>2, <1>3, AgentGoesOn

(* A restart of the control plane loses polls and handlers.                *)
LEMMA Restarting ==
    ASSUME IInv, Restart
    PROVE  IInv' /\ LifeStep
  <1> USE DEF Restart, db, history
  <1>1. /\ pc' \in [Node -> AgentPC]
        /\ \A n \in Node : pc'[n] = pc[n] \/ pc'[n] = "idle"
    BY DEF IInv, TypeOK, AgentPC
  <1>2. /\ \A p \in Poll : poll'[p].task = NoTask /\ poll'[p].stage = "idle"
        /\ \A a \in Admin : admin'[a].pc = "idle"
    BY DEF NoPoll, NoAdmin
  <1>3. TypeOK'
    BY <1>1, Records DEF IInv, TypeOK
  <1>4. AdminsOK' /\ PollsOK' /\ MsgsOK'
    BY <1>2 DEF AdminsOK, PollsOK, MsgsOK
  <1>5. AgentsOK'
    BY <1>1 DEF IInv, AgentsOK, HandedOut, Honest
  <1>6. OneHolder'
    BY <1>2 DEF IInv, OneHolder
  <1>7. IInv'
    BY <1>3, <1>4, <1>5, <1>6, Quiet, Same DEF IInv
  <1>8. Held' \subseteq Held
    BY <1>2, ConstantsAssumption DEF Held
  <1> QED
    BY <1>7, <1>8, Losing

-----------------------------------------------------------------------------
(* The initial states are in order, and are initial states of TaskLife.    *)
LEMMA Beginning ==
    ASSUME Init
    PROVE  IInv /\ Life!LifeInit
  <1> USE DEF Init
  <1>1. TypeOK
    BY Records DEF TypeOK, AgentPC
  <1>2. TasksOK
    BY DEF TasksOK, Early, NoRow
  <1>3. AdminsOK /\ PollsOK
    BY DEF AdminsOK, PollsOK, NoAdmin, NoPoll
  <1>4. AgentsOK
    BY DEF AgentsOK
  <1>5. OneHolder
    BY DEF OneHolder, NoPoll
  <1>6. MsgsOK
    BY DEF MsgsOK
  <1>7. Held = {}
    BY ConstantsAssumption DEF Held, NoPoll
  <1>8. [t \in Task |-> row[t].status] = [t \in Task |-> "absent"]
    BY DEF NoRow
  <1> QED
    BY <1>1, <1>2, <1>3, <1>4, <1>5, <1>6, <1>7, <1>8 DEF IInv, Life!LifeInit

(* Every step keeps the order, and is a step of TaskLife.                  *)
LEMMA Stepping ==
    ASSUME IInv, [Next /\ UNCHANGED faults]_<<vars, faults>>
    PROVE  IInv' /\ LifeStep
  <1>1. ASSUME NEW a \in Admin, AdminStep(a)
        PROVE  IInv' /\ LifeStep
    BY <1>1, Creating, Inserting, Cancelling, CancelLogging DEF AdminStep
  <1>2. ASSUME NEW p \in Poll, PollStep(p)
        PROVE  IInv' /\ LifeStep
    BY <1>2, Claiming, Waiting, GivingUp, CommandGone, Responding DEF PollStep
  <1>3. ASSUME HandlerStep
        PROVE  IInv' /\ LifeStep
    BY <1>3, Reading, Recording, Resulting, HandledOnly DEF HandlerStep, HandlerGoesOn
  <1>4. ASSUME NEW n \in Node, AgentStep(n)
        PROVE  IInv' /\ LifeStep
    BY <1>4, Polling, Dropping, Refusing, Accepting, Reporting, Starting, Exiting DEF AgentStep
  <1>5. ASSUME FaultStep
        PROVE  IInv' /\ LifeStep
    BY <1>5, Polling, Crashing, Restarting DEF FaultStep
  <1>6. CASE UNCHANGED <<vars, faults>>
    <2> USE <1>6 DEF vars, db, agent, history
    <2>1. TypeOK' /\ IInv'
      BY DEF IInv, TypeOK, TasksOK, AdminsOK, PollsOK, AgentsOK, OneHolder, MsgsOK, MsgOK,
             HandedOut, Honest
    <2>2. Held' \subseteq Held
      BY DEF Held
    <2> QED
      BY <2>1, <2>2, Losing
  <1> QED
    BY <1>1, <1>2, <1>3, <1>4, <1>5, <1>6 DEF Next

(* The inductive invariant holds in every state: whoever carries a task    *)
(* carries it alone, and nothing in flight claims what did not happen.     *)
THEOREM Invariance == Spec => []IInv
  <1>1. Init => IInv
    BY Beginning
  <1>2. IInv /\ [Next /\ UNCHANGED faults]_<<vars, faults>> => IInv'
    BY Stepping
  <1> QED
    BY <1>1, <1>2, PTL DEF Spec

(* Whatever rows handlers write back late, every variable keeps its type.  *)
THEOREM TypeCorrect == Spec => []TypeOK
  <1>1. IInv => TypeOK
    BY DEF IInv
  <1> QED
    BY <1>1, Invariance, PTL

(* For any number of tasks, nodes and polls, and all the faults, a command *)
(* is started at most once.                                                *)
THEOREM AtMostOnceHolds == Spec => []AtMostOnce
  <1>1. IInv => AtMostOnce
    BY DEF IInv, TasksOK, AtMostOnce
  <1> QED
    BY <1>1, Invariance, PTL

(* A task that is shown as succeeded did succeed.                          *)
THEOREM TruthfulSuccessHolds == Spec => []TruthfulSuccess
  <1>1. IInv => TruthfulSuccess
    BY DEF IInv, TasksOK, TruthfulSuccess
  <1> QED
    BY <1>1, Invariance, PTL

(* The dispatch of tasks implements TaskLife.                              *)
THEOREM Implementation == Spec => ImplementsLife
  <1>1. Init => Life!LifeInit
    BY Beginning
  <1>2. IInv /\ [Next /\ UNCHANGED faults]_<<vars, faults>> => LifeStep
    BY Stepping
  <1> QED
    BY <1>1, <1>2, Invariance, PTL DEF Spec, ImplementsLife, Life!LifeSpec, LifeStep

-----------------------------------------------------------------------------
(* The log of a task, in behaviours without faults.                        *)

Sent == net \cup {h.msg : h \in handling}

(* No request about a task is under way; its log ends with a sequence; and *)
(* it has the "completed" event.                                           *)
Silent(t) == \A m \in Sent : m.task # t
Fresh(t, k) == \A s \in Nat, type \in EventType : <<t, s, type>> \in events => s <= k
Logged(t) == \E s \in 1 .. MaxChunk + 3 : <<t, s, "completed">> \in events
Shown(t) == Logged(t) \/ Logging(t)

(* A task that no agent has taken over has an empty log, but for a         *)
(* cancellation.                                                           *)
UntakenLog ==
    /\ \A t \in Task : row[t].status \in Early => Fresh(t, 0)
    /\ \A p \in Poll : poll[p].task # NoTask => Fresh(poll[p].task, 0)

(* Whoever waits for a poll's answer waits for that one only.              *)
Waits(p) == poll[p].stage # "idle" /\ poll[p].conn
PollWaits ==
    \A p \in Poll :
        Waits(p) => /\ pc[poll[p].node] = "polling"
                    /\ \A q \in Poll : Waits(q) /\ poll[q].node = poll[p].node => q = p

(* How far the log of an agent's task may have come at each of its steps.  *)
AgentLogOf(n) ==
    /\ pc[n] = "got" => Fresh(cur[n], 0) /\ Silent(cur[n])
    /\ pc[n] = "accept" => seq[n] = 1
    /\ pc[n] = "start" => seq[n] = 2
    /\ pc[n] \in {"run", "finish"} => seq[n] \in 2 .. MaxChunk + 2
    /\ pc[n] \in {"accept", "start", "run", "finish"} => Fresh(cur[n], seq[n])
    /\ pc[n] = "finish" => Silent(cur[n])
    /\ pc[n] = "report" /\ res[n].outcome = "succeeded" => Logged(cur[n]) \/ ~Silent(cur[n])
    /\ pc[n] = "closing" /\ res[n].outcome = "succeeded" => Logged(cur[n])
AgentLog == \A n \in Node : AgentLogOf(n)

(* A request under way is one of the agent that has its task, and of the   *)
(* step the agent is at.                                                   *)
SentBy(n, m) ==
    /\ cur[n] = m.task
    /\ \/ /\ pc[n] \in {"accept", "start", "run"}
          /\ m.type \notin {"completed", "result"} /\ m.seq <= seq[n]
       \/ /\ pc[n] = "report"
          /\ m.type # "result" /\ m.seq \in 1 .. MaxChunk + 3
          /\ (m.type = "completed") <=> (res[n].outcome = "succeeded")
          /\ m.type = "completed" => Fresh(m.task, m.seq - 1) \/ Logged(m.task)
       \/ /\ pc[n] = "closing"
          /\ m.type = "result" /\ m.seq = 0 /\ m.report = res[n]
SentLog == \A m \in Sent : \E n \in Node : SentBy(n, m)

ShownLog == \A t \in Task : row[t].status = "succeeded" => Shown(t)

AllLog == UntakenLog /\ PollWaits /\ AgentLog /\ SentLog /\ ShownLog
LogInv == faults = {} => AllLog

(* A message has a task and a sequence.                                    *)
LEMMA SentTypes ==
    ASSUME TypeOK
    PROVE  Sent \subseteq Msg /\ \A m \in Sent : m.task \in Task /\ m.seq \in Nat
  BY DEF TypeOK, Sent, Msg

(* What has sequence 0 makes no log less fresh, and nothing is taken out.  *)
ZeroEvents ==
    /\ events \subseteq events'
    /\ \A t \in Task, s \in Nat, type \in EventType :
         <<t, s, type>> \in events' => <<t, s, type>> \in events \/ s = 0

(* Such a step keeps what logs have.                                       *)
LEMMA Zero ==
    ASSUME ZeroEvents, NEW t \in Task
    PROVE  /\ \A k \in Nat : Fresh(t, k) => Fresh(t, k)'
           /\ Logged(t) => Logged(t)'
  BY DEF ZeroEvents, Fresh, Logged

(* Steps of administrators, polls and handlers that hand nothing to an     *)
(* agent and log nothing of it.                                            *)
LEMMA LogElsewhere ==
    ASSUME IInv, AllLog, ZeroEvents, UNCHANGED <<Sent, cur, seq, res>>,
           \A n \in Node : pc'[n] = pc[n] \/ {pc[n], pc'[n]} \subseteq {"idle", "polling"},
           \A t \in Task : Logging(t) => Logging(t)',
           \A t \in Task : row'[t].status = "succeeded" =>
             row[t].status = "succeeded" \/ Shown(t)',
           \A t \in Task : row'[t].status \in Early => row[t].status \in Early,
           \A p \in Poll : poll'[p].task # NoTask =>
             \/ poll'[p].task = poll[p].task
             \/ row[poll'[p].task].status \in Early /\ poll'[p].task \in Task,
           PollWaits'
    PROVE  AllLog'
<1>t. TypeOK /\ AgentsOK /\ PollsOK
  BY DEF IInv
<1>0. Sent' = Sent /\ \A m \in Sent : m.task \in Task /\ m.seq \in Nat
  BY <1>t, SentTypes
<1>1. UntakenLog'
  <2>1. \A p \in Poll : poll[p].task # NoTask => poll[p].task \in Task
    BY <1>t DEF PollsOK, HandedOut
  <2> QED
    BY <2>1, Zero DEF AllLog, UntakenLog
<1>2. AgentLog'
  <2> SUFFICES ASSUME NEW n \in Node PROVE AgentLogOf(n)'
    BY DEF AgentLog
  <2>1. CASE pc'[n] \in {"idle", "polling"}
    BY <2>1 DEF AgentLogOf
  <2>2. CASE pc'[n] \notin {"idle", "polling"}
    <3>1. pc'[n] = pc[n] /\ cur[n] \in Task /\ seq[n] \in Nat
      BY <1>t, <2>2 DEF AgentsOK, HandedOut, TypeOK
    <3>2. AgentLogOf(n)
      BY DEF AllLog, AgentLog
    <3>3. Silent(cur[n])' <=> Silent(cur[n])
      BY <1>0 DEF Silent
    <3> QED
      BY <3>1, <3>2, <3>3, Zero DEF AgentLogOf
  <2> QED
    BY <2>1, <2>2
<1>3. SentLog'
  <2> SUFFICES ASSUME NEW m \in Sent PROVE \E n \in Node : SentBy(n, m)'
    BY <1>0 DEF SentLog
  <2>1. PICK n \in Node : SentBy(n, m)
    BY DEF AllLog, SentLog
  <2>2. pc'[n] = pc[n] /\ m.task \in Task /\ m.seq \in Nat
    BY <1>0, <2>1 DEF SentBy
  <2>3. Fresh(m.task, m.seq - 1) /\ m.seq \in 1 .. MaxChunk + 3 => Fresh(m.task, m.seq - 1)'
    BY <2>2, Zero
  <2>4. Logged(m.task) => Logged(m.task)'
    BY <2>2, Zero
  <2> QED
    BY <2>1, <2>2, <2>3, <2>4 DEF SentBy
<1>4. ShownLog'
  BY Zero DEF AllLog, ShownLog, Shown
<1> QED
  BY <1>1, <1>2, <1>3, <1>4 DEF AllLog

(* Without a change of the log, of an agent or of who waits.               *)
LEMMA SameLog == ASSUME UNCHANGED events PROVE ZeroEvents
  BY DEF ZeroEvents

(* Without a change of what is under way.                                  *)
LEMMA SameSent ==
    ASSUME UNCHANGED <<net, handling>>
    PROVE  UNCHANGED Sent /\ \A t : Logging(t) => Logging(t)'
  BY DEF Sent, Logging

(* Nobody waits who has not waited before.                                 *)
LEMMA SameWaits ==
    ASSUME TypeOK, AllLog, UNCHANGED pc,
           \A p \in Poll : Waits(p)' => Waits(p) /\ poll'[p].node = poll[p].node
    PROVE  PollWaits'
  BY DEF AllLog, PollWaits

(* Administrators log nothing but a cancellation, at 0.                    *)
LEMMA AdminLog ==
    ASSUME IInv, AllLog, NEW a \in Admin, AdminStep(a)
    PROVE  AllLog'
<1>t. TypeOK
  BY DEF IInv
<1>0. UNCHANGED <<poll, net, handling, pc, cur, seq, res>>
  BY DEF AdminStep, CreateLookup, CancelRead, CreateReject, CreateInsert, CreateNotify,
         CancelWrite, CancelLog, CancelAbandoned, agent, db
<1>s. UNCHANGED Sent /\ \A t : Logging(t) => Logging(t)'
  BY <1>0, SameSent
<1>1. PollWaits'
  BY <1>0, <1>t, SameWaits DEF Waits
<1>2. CASE UNCHANGED <<row, events>>
  BY <1>0, <1>s, <1>1, <1>2, LogElsewhere, SameLog
<1>3. CASE CreateInsert(a) /\ row' # row
  <2>1. PICK t : /\ row[t].status = "absent" /\ UNCHANGED events
                 /\ row' = [row EXCEPT ![t] = [NoRow EXCEPT !.status = "queued"]]
    <3>1. admin[a].pc # "idle"
      BY <1>3 DEF CreateInsert
    <3> QED
      BY <1>3, <3>1 DEF CreateInsert, db, IInv, AdminsOK
  <2>2. [NoRow EXCEPT !.status = "queued"].status = "queued"
    BY DEF NoRow
  <2>3. \A u \in Task : row'[u].status = IF u = t THEN "queued" ELSE row[u].status
    BY <1>t, <2>1, <2>2 DEF TypeOK
  <2> QED
    BY <1>0, <1>s, <1>1, <2>1, <2>3, LogElsewhere, SameLog DEF Early
<1>4. CASE CancelWrite(a)
  <2>1. PICK t \in Task : t = admin[a].task
    BY <1>4 DEF CancelWrite, IInv, AdminsOK
  <2>2. Finish(admin[a].snap, "cancelled").status = "cancelled"
    BY <1>t, Records DEF TypeOK, Status, Terminal
  <2>3. \A u \in Task : row'[u].status = IF u = t THEN "cancelled" ELSE row[u].status
    BY <1>t, <1>4, <2>1, <2>2 DEF TypeOK, CancelWrite, UpdateTask
  <2>4. ZeroEvents
    BY <1>4, SameLog DEF CancelWrite
  <2> QED
    BY <1>0, <1>s, <1>1, <2>3, <2>4, LogElsewhere DEF Early
<1>5. CASE CancelLog(a)
  <2>1. UNCHANGED row
    BY <1>5 DEF CancelLog
  <2>2. ZeroEvents
    BY <1>5 DEF CancelLog, AppendTaskEventDedup, ZeroEvents
  <2> QED
    BY <1>0, <1>s, <1>1, <2>1, <2>2, LogElsewhere
<1> QED
  BY <1>2, <1>3, <1>4, <1>5 DEF CancelAbandoned, AdminStep, CreateLookup, CancelRead, CreateReject, CreateInsert,
                          CreateNotify, db

(* Without faults every claimed task is answered with.                     *)
LEMMA PollLog ==
    ASSUME IInv, AllLog, faults = {}, NEW p \in Poll, PollStep(p)
    PROVE  AllLog'
<1>t. TypeOK /\ PollsOK /\ AgentsOK /\ OneHolder
  BY DEF IInv
<1>1. CASE PollMiss(p) \/ WaitEnter(p) \/ WaitReturn(p) \/ PollSign(p) \/ PollAbandoned(p)
  <2>1. UNCHANGED <<row, events, net, handling, pc, cur, seq, res>>
    BY <1>1 DEF PollMiss, WaitEnter, WaitReturn, PollSign, PollAbandoned, agent, db
  <2>2. \E stage : poll' = [poll EXCEPT ![p].stage = stage] \/ poll' = [poll EXCEPT ![p] = NoPoll]
    BY <1>1 DEF PollMiss, WaitEnter, WaitReturn, PollSign, PollAbandoned
  <2>3. \A q \in Poll : /\ poll'[q].task \in {poll[q].task, NoTask}
                        /\ Waits(q)' => Waits(q) /\ poll'[q].node = poll[q].node
    <3>1. CASE poll' = [poll EXCEPT ![p] = NoPoll]
      BY <1>t, <3>1 DEF TypeOK, Waits, NoPoll
    <3>2. ASSUME NEW stage, poll' = [poll EXCEPT ![p].stage = stage], poll[p].stage # "idle"
          PROVE  <2>3
      BY <1>t, <3>2 DEF TypeOK, Waits
    <3>3. poll[p].stage # "idle"
      BY <1>1 DEF PollMiss, WaitEnter, WaitReturn, PollSign, PollAbandoned
    <3> QED
      BY <2>2, <3>1, <3>2, <3>3
  <2>4. PollWaits'
    BY <1>t, <2>1, <2>3, SameWaits
  <2> QED
    BY <2>1, <2>3, <2>4, LogElsewhere, SameLog, SameSent
<1>2. CASE ClaimNextTask(p)
  <2>1. PICK t \in Task :
          /\ row[t].status = "queued"
          /\ row' = [row EXCEPT ![t].status = "dispatched", ![t].started = TRUE]
          /\ poll' = [poll EXCEPT ![p].stage = "claimed", ![p].task = t, ![p].snap = row[t]]
    BY <1>2 DEF ClaimNextTask, Oldest, Queued
  <2>2. \A u \in Task : row'[u].status = IF u = t THEN "dispatched" ELSE row[u].status
    BY <1>t, <2>1 DEF TypeOK, Row
  <2>3. /\ \A q \in Poll : poll'[q].task = IF q = p THEN t ELSE poll[q].task
        /\ \A q \in Poll : Waits(q)' => Waits(q) /\ poll'[q].node = poll[q].node
    BY <1>t, <1>2, <2>1 DEF TypeOK, Waits, ClaimNextTask
  <2>4. UNCHANGED <<events, net, handling, pc, cur, seq, res>>
    BY <1>2 DEF ClaimNextTask, agent
  <2>5. PollWaits'
    BY <1>t, <2>3, <2>4, SameWaits
  <2>6. /\ \A u \in Task : row'[u].status = "succeeded" => row[u].status = "succeeded"
        /\ \A u \in Task : row'[u].status \in Early => row[u].status \in Early
    BY <2>2 DEF Early
  <2>7. \A q \in Poll : poll'[q].task # NoTask =>
          \/ poll'[q].task = poll[q].task
          \/ row[poll'[q].task].status \in Early /\ poll'[q].task \in Task
    BY <2>1, <2>3 DEF Early
  <2>8. /\ ZeroEvents
        /\ \A x \in Node : pc'[x] = pc[x] \/ {pc[x], pc'[x]} \subseteq {"idle", "polling"}
        /\ UNCHANGED Sent /\ \A u : Logging(u) => Logging(u)'
    BY <2>4, SameLog, SameSent
  <2> QED
    BY <2>4, <2>5, <2>6, <2>7, <2>8, LogElsewhere
<1>3. CASE PollRespond(p)
  <2>1. PICK n \in Node : n = poll[p].node
    BY <1>t, <1>3 DEF PollRespond, PollsOK
  <2>2. pc[n] = "polling" /\ \A q \in Poll : Waits(q) /\ poll[q].node = n => q = p
    BY <1>3, <2>1 DEF AllLog, PollWaits, Waits, PollRespond
  <2>3. UNCHANGED <<row, events, net, handling, seq, res>>
    BY <1>3 DEF PollRespond, db
  <2>4. /\ pc'[n] = IF poll[p].task = NoTask THEN "idle" ELSE "got"
        /\ cur'[n] = poll[p].task
        /\ \A x \in Node : x # n => pc'[x] = pc[x] /\ cur'[x] = cur[x]
        /\ \A q \in Poll : q # p => poll'[q] = poll[q]
        /\ poll'[p].task = NoTask /\ poll'[p].stage = "idle"
    BY <1>t, <1>3, <2>1 DEF PollRespond, TypeOK, NoPoll
  <2>5. Sent' = Sent
    BY <2>3 DEF Sent
  <2>6. UntakenLog' /\ ShownLog'
    BY <2>3, <2>4 DEF AllLog, UntakenLog, ShownLog, Shown, Fresh, Logged, Logging
  <2>7. PollWaits'
    <3> SUFFICES ASSUME NEW q \in Poll, Waits(q)'
                 PROVE  /\ pc'[poll'[q].node] = "polling"
                        /\ \A r \in Poll : Waits(r)' /\ poll'[r].node = poll'[q].node => r = q
      BY DEF PollWaits
    <3>1. q # p /\ Waits(q) /\ poll[q].node # n /\ poll[q].node \in Node
      BY <1>t, <2>2, <2>4 DEF Waits, PollsOK
    <3>2. \A r \in Poll : Waits(r)' => Waits(r) /\ poll'[r] = poll[r]
      BY <2>4 DEF Waits
    <3> QED
      BY <2>4, <3>1, <3>2 DEF AllLog, PollWaits
  <2>8. SentLog'
    <3> SUFFICES ASSUME NEW m \in Sent PROVE \E x \in Node : SentBy(x, m)'
      BY <2>5 DEF SentLog
    <3>1. PICK x \in Node : SentBy(x, m)
      BY DEF AllLog, SentLog
    <3>2. x # n
      BY <2>2, <3>1 DEF SentBy
    <3> QED
      BY <2>3, <2>4, <3>1, <3>2 DEF SentBy, Fresh, Logged
  <2>9. AgentLog'
    <3> SUFFICES ASSUME NEW x \in Node PROVE AgentLogOf(x)'
      BY DEF AgentLog
    <3>1. CASE x # n
      BY <2>3, <2>4, <2>5, <3>1 DEF AllLog, AgentLog, AgentLogOf, Fresh, Logged, Silent
    <3>2. CASE x = n /\ poll[p].task = NoTask
      BY <2>4, <3>2 DEF AgentLogOf
    <3>3. CASE x = n /\ poll[p].task # NoTask
      <4>1. Fresh(poll[p].task, 0)
        BY <3>3 DEF AllLog, UntakenLog
      <4>2. Silent(poll[p].task)
        <5> SUFFICES ASSUME NEW m \in Sent, m.task = poll[p].task PROVE FALSE
          BY DEF Silent
        <5>1. PICK y \in Node : cur[y] = m.task
          BY DEF AllLog, SentLog, SentBy
        <5> QED
          BY <1>t, <3>3, <5>1 DEF OneHolder
      <4> QED
        BY <2>3, <2>4, <2>5, <3>3, <4>1, <4>2 DEF AgentLogOf, Fresh, Silent
    <3> QED
      BY <3>1, <3>2, <3>3
  <2> QED
    BY <2>6, <2>7, <2>8, <2>9 DEF AllLog
<1> QED
  BY <1>1, <1>2, <1>3 DEF PollStep, PollUnsigned, PollCommandGone

(* An agent that polls waits for that poll only.                           *)
LEMMA AgentPollLog ==
    ASSUME IInv, AllLog, NEW n \in Node, NEW p \in Poll, AgentPoll(n, p)
    PROVE  AllLog'
<1>t. TypeOK /\ PollsOK
  BY DEF IInv
<1>0. UNCHANGED <<row, events, net, handling, cur, seq, res>>
  BY DEF AgentPoll, db
<1>1. /\ pc[n] = "idle" /\ pc'[n] = "polling"
      /\ \A x \in Node : x # n => pc'[x] = pc[x]
      /\ \A q \in Poll : q # p => poll'[q] = poll[q]
      /\ poll'[p].node = n /\ poll'[p].task = NoTask
  BY <1>t DEF AgentPoll, TypeOK, NoPoll
<1>2. PollWaits'
  <2>1. \A q \in Poll : Waits(q) => poll[q].node # n /\ poll[q].node \in Node
    BY <1>t, <1>1 DEF AllLog, PollWaits, Waits, PollsOK
  <2>2. \A q \in Poll : q # p => (Waits(q)' <=> Waits(q))
    BY <1>1 DEF Waits
  <2> QED
    BY <1>1, <2>1, <2>2 DEF AllLog, PollWaits
<1> QED
  BY <1>0, <1>1, <1>2, LogElsewhere, SameLog, SameSent

(* A handler that goes on with a request keeps it under way.               *)
LEMMA UnderWay ==
    ASSUME TypeOK, NEW h \in handling, NEW k,
           handling' = (handling \ {h}) \cup {k}, k.msg = h.msg,
           h.stage = "log" => k.stage = "log", UNCHANGED net
    PROVE  UNCHANGED Sent /\ \A t : Logging(t) => Logging(t)'
<1>1. \A j \in handling : j # h => j \in handling'
  OBVIOUS
<1>2. k \in handling'
  OBVIOUS
<1>3. Sent' \subseteq Sent
  BY DEF Sent
<1>4. Sent \subseteq Sent'
  BY <1>1, <1>2 DEF Sent
<1>5. ASSUME NEW t, Logging(t) PROVE Logging(t)'
  BY <1>1, <1>2, <1>5 DEF Logging
<1> QED
  BY <1>3, <1>4, <1>5

(* A handler reads the row of a request that stays under way.              *)
LEMMA ReadLog ==
    ASSUME IInv, AllLog, NEW m \in net, HandlerRead(m)
    PROVE  AllLog'
<1>t. TypeOK
  BY DEF IInv
<1>1. UNCHANGED <<row, events, poll, pc, cur, seq, res>>
  BY DEF HandlerRead, db, agent
<1>2. PICK k : /\ handling' = handling \cup {k} /\ net' = net \ {m} /\ k.msg = m
  <2>1. PICK k : k = [msg |-> m, snap |-> row[m.task], stage |-> "row"]
    OBVIOUS
  <2>2. k.msg = m /\ RowDone(m).msg = m
    BY <1>t, <2>1, Done DEF TypeOK
  <2>3. CASE WritesRow(m.type, row[m.task].status)
    BY <2>1, <2>2, <2>3 DEF HandlerRead
  <2>4. CASE ~WritesRow(m.type, row[m.task].status)
    BY <2>2, <2>4 DEF HandlerRead
  <2> QED
    BY <2>3, <2>4
<1>3. UNCHANGED Sent
  BY <1>2 DEF Sent
<1>4. \A t \in Task : Logging(t) => Logging(t)'
  BY <1>2 DEF Logging
<1>5. PollWaits'
  BY <1>t, <1>1, SameWaits DEF Waits
<1> QED
  BY <1>1, <1>3, <1>4, <1>5, LogElsewhere, SameLog

(* A handler that is done has logged its request.                          *)
LEMMA AppendLog ==
    ASSUME IInv, IInv', AllLog, NEW h \in handling, AppendEvent(h)
    PROVE  AllLog'
<1>a. PICK t \in Task, s \in Nat, type \in EventType :
        t = h.msg.task /\ s = h.msg.seq /\ type = h.msg.type
  BY DEF IInv, TypeOK, Msg
<1>b. /\ AppendTaskEventDedup(t, s, type)
      /\ handling' = handling \ {h}
      /\ UNCHANGED <<row, net, poll, pc, cur, seq, res>>
  BY <1>a DEF AppendEvent, agent
<1> USE <1>a, <1>b
<1>t. TypeOK /\ PollsOK /\ AgentsOK /\ OneHolder /\ TasksOK
  BY DEF IInv
<1>0. h.msg \in Sent /\ Sent' \subseteq Sent /\ Sent \ {h.msg} \subseteq Sent'
  BY DEF Sent
<1>1. \A m \in Sent : m.task \in Task /\ m.seq \in Nat
  BY <1>t, SentTypes
<1>2. PICK n \in Node : SentBy(n, h.msg)
  BY <1>0 DEF AllLog, SentLog
<1>3. cur[n] = t /\ cur[n] # NoTask /\ HandedOut(t) /\ seq[n] \in Nat
      /\ (\A x \in Node : x # n => cur[x] # t) /\ (\A p \in Poll : poll[p].task # t)
  BY <1>2, <1>t, ConstantsAssumption DEF SentBy, OneHolder, AgentsOK, TypeOK
<1>4. /\ events \subseteq events'
      /\ \A u \in Task, i \in Nat, y \in EventType :
           <<u, i, y>> \in events' => <<u, i, y>> \in events \/ (u = t /\ i = s)
  BY DEF AppendTaskEventDedup
<1>5. /\ \A u \in Task : Logged(u) => Logged(u)'
      /\ \A u \in Task, k \in Nat : u # t \/ s <= k => (Fresh(u, k) => Fresh(u, k)')
  BY <1>4 DEF Logged, Fresh
<1>6. UntakenLog'
  <2>1. row'[t].status \notin Early
    BY <1>3 DEF HandedOut
  <2>2. \A p \in Poll : poll[p].task # NoTask => poll[p].task \in Task
    BY <1>t DEF PollsOK, HandedOut
  <2> QED
    BY <1>3, <1>5, <2>1, <2>2 DEF AllLog, UntakenLog
<1>7. PollWaits'
  BY DEF AllLog, PollWaits, Waits
<1>9. ASSUME type = "completed" PROVE Logged(t)'
  <2>1. s \in 1 .. MaxChunk + 3 /\ (Fresh(t, s - 1) \/ Logged(t))
    BY <1>2, <1>9 DEF SentBy
  <2>2. CASE Logged(t)
    BY <1>5, <2>2
  <2>3. CASE Fresh(t, s - 1)
    <3>1. ASSUME NEW y \in EventType, <<t, s, y>> \in events PROVE FALSE
      <4>1. s <= s - 1
        BY <2>3, <3>1 DEF Fresh
      <4> QED
        BY <4>1
    <3>2. <<t, s, "completed">> \in events'
      BY <1>9, <3>1 DEF AppendTaskEventDedup
    <3> QED
      BY <2>1, <3>2 DEF Logged
  <2> QED
    BY <2>1, <2>2, <2>3
<1>8. ShownLog'
  <2> SUFFICES ASSUME NEW u \in Task, row[u].status = "succeeded", Logging(u)
               PROVE  Logged(u)' \/ Logging(u)'
    BY <1>5 DEF AllLog, ShownLog, Shown
  <2>1. PICK k \in handling : k.msg.task = u /\ k.msg.type = "completed" /\ k.stage = "log"
    BY DEF Logging
  <2>2. CASE k = h
    BY <1>9, <2>1, <2>2
  <2>3. CASE k # h
    BY <2>1, <2>3 DEF Logging
  <2> QED
    BY <2>2, <2>3
<1>10. /\ \A u \in Task : Silent(u) => Silent(u)'
       /\ \A u \in Task : u # t => (Silent(u)' => Silent(u))
  BY <1>0 DEF Silent
<1>11. AgentLog'
  <2> SUFFICES ASSUME NEW x \in Node, pc[x] \notin {"idle", "polling"} PROVE AgentLogOf(x)'
    BY DEF AgentLog, AgentLogOf
  <2>1. cur[x] \in Task /\ seq[x] \in Nat /\ AgentLogOf(x)
    BY <1>t DEF AgentsOK, HandedOut, TypeOK, AllLog, AgentLog
  <2>2. CASE x # n
    BY <1>3, <1>5, <1>10, <2>1, <2>2 DEF AgentLogOf
  <2>3. CASE x = n
    <3>1. pc[n] \notin {"got", "finish"}
      BY <1>2 DEF SentBy
    <3>2. ASSUME pc[n] \in {"accept", "start", "run"} PROVE s <= seq[n]
      BY <1>2, <1>3, <3>2 DEF SentBy
    <3>3. ASSUME pc[n] = "report", res[n].outcome = "succeeded"
          PROVE  Logged(t)' \/ ~Silent(t)'
      <4>1. h.msg.type = "completed"
        BY <1>2, <3>3 DEF SentBy
      <4> QED
        BY <1>9, <4>1
    <3> QED
      BY <1>3, <1>5, <2>1, <2>3, <3>1, <3>2, <3>3 DEF AgentLogOf
  <2> QED
    BY <2>2, <2>3
<1>12. SentLog'
  <2> SUFFICES ASSUME NEW m \in Sent PROVE \E x \in Node : SentBy(x, m)'
    BY <1>0 DEF SentLog
  <2>1. PICK x \in Node : SentBy(x, m)
    BY DEF AllLog, SentLog
  <2>2. Logged(m.task) => Logged(m.task)'
    BY <1>1, <1>5
  <2>3. ASSUME pc[x] = "report", m.type = "completed"
        PROVE  Fresh(m.task, m.seq - 1)' \/ Logged(m.task)'
    <3>1. Fresh(m.task, m.seq - 1) \/ Logged(m.task)
      BY <2>1, <2>3 DEF SentBy
    <3>2. m.seq \in 1 .. MaxChunk + 3 /\ m.seq - 1 \in Nat
      BY <2>1, <2>3, <1>1 DEF SentBy
    <3>3. CASE x # n
      <4>1. m.task # t /\ m.task \in Task
        BY <1>1, <1>3, <2>1, <3>3 DEF SentBy
      <4> QED
        BY <1>5, <2>2, <3>1, <3>2, <4>1
    <3>4. CASE x = n
      <4>1. type = "completed" /\ m.task = t
        BY <1>2, <1>3, <2>1, <2>3, <3>4 DEF SentBy
      <4> QED
        BY <1>9, <4>1
    <3> QED
      BY <3>3, <3>4
  <2> QED
    BY <2>1, <2>2, <2>3 DEF SentBy
<1> QED
  BY <1>6, <1>7, <1>8, <1>11, <1>12 DEF AllLog

(* The other statements of a handler log nothing, and their request stays  *)
(* under way.                                                              *)
LEMMA HandlerLog ==
    ASSUME IInv, AllLog, NEW h \in handling, NEW k,
           handling' = (handling \ {h}) \cup {k}, k.msg = h.msg,
           h.stage = "log" => k.stage = "log",
           UNCHANGED <<events, net, poll, pc, cur, seq, res>>,
           \A t \in Task : row'[t].status \in Early => row[t].status \in Early,
           \A t \in Task : row'[t].status = "succeeded" =>
             row[t].status = "succeeded" \/ Shown(t)'
    PROVE  AllLog'
<1>t. TypeOK
  BY DEF IInv
<1>1. UNCHANGED Sent /\ \A t \in Task : Logging(t) => Logging(t)'
  BY <1>t, UnderWay
<1>2. PollWaits'
  BY <1>t, SameWaits DEF Waits
<1> QED
  BY <1>1, <1>2, LogElsewhere, SameLog

(* An event shows success only if it is logged as "completed" next.        *)
LEMMA EventLog ==
    ASSUME IInv, AllLog, NEW h \in handling, RecordEvent(h)
    PROVE  AllLog'
<1>t. TypeOK
  BY DEF IInv
<1>1. PICK t \in Task, type \in EventType \ {"stdout_chunk", "result"} :
        t = h.msg.task /\ type = h.msg.type /\ h.msg \in Msg /\ h.snap \in Row
  BY <1>t DEF RecordEvent, TypeOK, Msg
<1>2. PICK k : k = RowDone(h.msg)
  OBVIOUS
<1>3. k.msg = h.msg /\ k.stage = "log" /\ h.stage = "row"
  BY <1>1, <1>2, Done DEF RecordEvent
<1>4. /\ handling' = (handling \ {h}) \cup {k}
      /\ UNCHANGED <<events, net, poll, pc, cur, seq, res>>
  BY <1>2 DEF RecordEvent, agent
<1>5. type = "completed" => Shown(t)'
  BY <1>1, <1>3, <1>4 DEF Shown, Logging
<1>6. /\ \A u \in Task : row'[u].status \in Early => row[u].status \in Early
      /\ \A u \in Task : row'[u].status = "succeeded" =>
           row[u].status = "succeeded" \/ Shown(u)'
  <2>1. CASE UNCHANGED row
    BY <2>1
  <2>2. CASE MarkTaskRunning(t) /\ row' # row
    <3>1. row' = [row EXCEPT ![t].status = "running"]
      BY <2>2 DEF MarkTaskRunning
    <3>2. \A u \in Task : row'[u].status = IF u = t THEN "running" ELSE row[u].status
      BY <1>t, <3>1 DEF TypeOK, Row
    <3> QED
      BY <3>2 DEF Early
  <2>3. CASE /\ type \in {"completed", "failed", "timed_out", "cancelled"}
             /\ UpdateTask(t, Finish(h.snap, ClosedBy(type)))
    <3>1. ClosedBy(type) \in Status \ Early /\ (ClosedBy(type) = "succeeded" => type = "completed")
      BY <2>3 DEF ClosedBy, Status, Terminal, Early
    <3>2. Finish(h.snap, ClosedBy(type)).status = ClosedBy(type)
      BY <1>1, <3>1, Records
    <3>3. \A u \in Task : row'[u].status = IF u = t THEN ClosedBy(type) ELSE row[u].status
      BY <1>t, <2>3, <3>2 DEF TypeOK, UpdateTask
    <3> QED
      BY <1>5, <3>1, <3>3
  <2> QED
    BY <1>1, <2>1, <2>2, <2>3 DEF RecordEvent, EventType
<1> QED
  BY <1>3, <1>4, <1>6, HandlerLog

(* A result of a success was sent after its "completed" event was logged.  *)
LEMMA ResultLog ==
    ASSUME IInv, AllLog, NEW h \in handling, RecordResult(h)
    PROVE  AllLog'
<1>t. TypeOK
  BY DEF IInv
<1>1. PICK t \in Task, rep \in Report :
        /\ t = h.msg.task /\ rep = h.msg.report /\ h.snap \in Row /\ h.msg.type = "result"
        /\ h.msg \in Msg
  BY <1>t DEF RecordResult, TypeOK, Msg
<1>2. PICK k : k = RowDone(h.msg)
  OBVIOUS
<1>3. k.msg = h.msg /\ h.stage = "row"
  BY <1>1, <1>2, Done DEF RecordResult
<1>4. /\ handling' = (handling \ {h}) \cup {k}
      /\ UNCHANGED <<events, net, poll, pc, cur, seq, res>>
  BY <1>2 DEF RecordResult, agent
<1>5. ASSUME rep.outcome = "succeeded" PROVE Shown(t)'
  <2>1. PICK n \in Node : SentBy(n, h.msg)
    BY DEF AllLog, SentLog, Sent
  <2>2. pc[n] = "closing" /\ cur[n] = t /\ res[n] = rep
    BY <1>1, <2>1 DEF SentBy
  <2>3. Logged(t)
    BY <1>5, <2>2 DEF AllLog, AgentLog, AgentLogOf
  <2> QED
    BY <1>4, <2>3 DEF Shown, Logged
<1>6. /\ \A u \in Task : row'[u].status \in Early => row[u].status \in Early
      /\ \A u \in Task : row'[u].status = "succeeded" =>
           row[u].status = "succeeded" \/ Shown(u)'
  <2>1. UpdateTask(t, [Finish(h.snap, rep.outcome) EXCEPT !.exit = rep.exit])
    BY <1>1 DEF RecordResult
  <2>2. rep.outcome \in Status \ Early /\ rep.exit \in ExitCode
    BY DEF Report, Outcome, Status, Terminal, Early
  <2>3. [Finish(h.snap, rep.outcome) EXCEPT !.exit = rep.exit].status = rep.outcome
    BY SMTT(30), <1>1, <2>2, Records
  <2>4. \A u \in Task : row'[u].status = IF u = t THEN rep.outcome ELSE row[u].status
    BY <1>t, <2>1, <2>3 DEF TypeOK, UpdateTask
  <2> QED
    BY <1>5, <2>2, <2>4
<1> QED
  BY <1>3, <1>4, <1>6, HandlerLog

(* Nor does the output of a result, which is stored between the two.       *)
LEMMA OutputLog ==
    ASSUME IInv, AllLog, NEW h \in handling, StoreOutput(h)
    PROVE  AllLog'
<1>1. PICK k : k = [h EXCEPT !.stage = "log"]
  OBVIOUS
<1>2. k.msg = h.msg /\ k.stage = "log"
  BY <1>1 DEF IInv, TypeOK
<1>3. /\ handling' = (handling \ {h}) \cup {k}
      /\ UNCHANGED <<row, events, net, poll, pc, cur, seq, res>>
  BY <1>1 DEF StoreOutput, agent
<1> QED
  BY <1>2, <1>3, HandlerLog

(* A step of an agent that has no request under way, and may send one.     *)
LEMMA AgentMoves ==
    ASSUME IInv, AllLog, NEW n \in Node, UNCHANGED <<row, events, poll, handling>>,
           pc[n] \notin {"idle", "polling"}, pc'[n] # "polling", Silent(cur[n]),
           \A x \in Node : x # n =>
             pc'[x] = pc[x] /\ cur'[x] = cur[x] /\ seq'[x] = seq[x] /\ res'[x] = res[x],
           net \subseteq net',
           \A m \in net' \ net : m.task = cur[n] /\ SentBy(n, m)',
           AgentLogOf(n)'
    PROVE  AllLog'
<1>t. TypeOK /\ PollsOK /\ AgentsOK /\ OneHolder
  BY DEF IInv
<1>1. UntakenLog' /\ ShownLog'
  BY DEF AllLog, UntakenLog, ShownLog, Shown, Fresh, Logged, Logging
<1>2. PollWaits'
  BY <1>t DEF AllLog, PollWaits, Waits, PollsOK
<1>3. Sent \subseteq Sent' /\ \A m \in Sent' \ Sent : m \in net' \ net
  BY DEF Sent
<1>4. AgentLog'
  <2> SUFFICES ASSUME NEW x \in Node, x # n PROVE AgentLogOf(x)'
    BY DEF AgentLog
  <2>1. AgentLogOf(x)
    BY DEF AllLog, AgentLog
  <2>2. pc[x] \notin {"idle", "polling"} => cur[x] # NoTask
    BY <1>t DEF AgentsOK
  <2>3. cur[x] # NoTask => cur[x] # cur[n]
    BY <1>t DEF OneHolder
  <2>4. pc[x] \notin {"idle", "polling"} => (Silent(cur[x]) <=> Silent(cur[x])')
    BY <1>3, <2>2, <2>3 DEF Silent
  <2> QED
    BY <2>1, <2>4 DEF AgentLogOf, Fresh, Logged
<1>5. SentLog'
  <2> SUFFICES ASSUME NEW m \in Sent' PROVE \E x \in Node : SentBy(x, m)'
    BY DEF SentLog
  <2>1. CASE m \in Sent
    <3>1. PICK x \in Node : SentBy(x, m)
      BY <2>1 DEF AllLog, SentLog
    <3>2. x # n
      BY <2>1, <3>1 DEF SentBy, Silent
    <3> QED
      BY <3>1, <3>2 DEF SentBy, Fresh, Logged
  <2>2. CASE m \notin Sent
    BY <1>3, <2>2
  <2> QED
    BY <2>1, <2>2
<1> QED
  BY <1>1, <1>2, <1>4, <1>5 DEF AllLog

(* Without faults an agent that goes on has been answered.                 *)
LEMMA AnsweredLog ==
    ASSUME faults = {}, NEW n \in Node, Answered(n)
    PROVE  Silent(cur[n])
  BY DEF Answered, Silent, Sent

(* The steps of an agent with a task.                                      *)
LEMMA AgentStepLog ==
    ASSUME IInv, IInv', AllLog, faults = {}, NEW n \in Node,
           \/ HandleDrop(n) \/ HandleTask(n) \/ SendStarted(n) \/ StartProcess(n) \/ SendChunk(n)
           \/ ProcessExit(n) \/ SendClosing(n) \/ SendResult(n) \/ ExecuteReturn(n)
    PROVE  AllLog'
<1>t. TypeOK /\ AgentsOK /\ TypeOK'
  BY DEF IInv
<1>m. MaxChunk \in Nat
  BY ConstantsAssumption
<1>a. AgentLogOf(n)
  BY DEF AllLog, AgentLog
<1>0. UNCHANGED <<row, events, poll, handling>>
  BY DEF HandleDrop, HandleTask, SendStarted, StartProcess, SendChunk, ProcessExit, SendClosing,
         SendResult, ExecuteReturn, db
<1>1. Silent(cur[n]) /\ pc[n] \notin {"idle", "polling"}
  BY <1>a, AnsweredLog DEF AgentLogOf, HandleDrop, HandleTask, SendStarted, StartProcess, SendChunk,
         ProcessExit, SendClosing, SendResult, ExecuteReturn
<1>2. seq[n] \in Nat /\ res[n] \in Report /\ cur[n] \in Task
  BY <1>t, <1>1 DEF TypeOK, AgentsOK, HandedOut
<1>3. \A x \in Node : x # n =>
        pc'[x] = pc[x] /\ cur'[x] = cur[x] /\ seq'[x] = seq[x] /\ res'[x] = res[x]
  BY <1>t DEF TypeOK, HandleDrop, HandleTask, SendStarted, StartProcess, SendChunk, ProcessExit,
         SendClosing, SendResult, ExecuteReturn, Goto
<1>4. CASE HandleDrop(n) \/ ExecuteReturn(n)
  <2>1. pc'[n] = "idle" /\ UNCHANGED net
    BY <1>t, <1>4 DEF TypeOK, HandleDrop, ExecuteReturn, Goto
  <2>2. AgentLogOf(n)'
    BY <2>1 DEF AgentLogOf
  <2> QED
    BY <1>0, <1>1, <1>3, <2>1, <2>2, AgentMoves
<1>5. CASE StartProcess(n)
  <2>1. /\ pc[n] = "start" /\ pc'[n] \in {"run", "finish"}
        /\ UNCHANGED <<net, cur, seq, res>>
    BY <1>t, <1>5 DEF TypeOK, StartProcess, Goto
  <2>2. Silent(cur[n])'
    BY <1>0, <1>1, <2>1 DEF Silent, Sent
  <2>3. AgentLogOf(n)'
    BY <1>0, <1>a, <1>m, <2>1, <2>2 DEF AgentLogOf, Fresh
  <2> QED
    BY <1>0, <1>1, <1>3, <2>1, <2>3, AgentMoves
<1>6. CASE ProcessExit(n)
  <2>1. pc[n] = "run" /\ pc'[n] = "finish" /\ UNCHANGED <<net, cur, seq>>
    BY <1>t, <1>6 DEF TypeOK, ProcessExit, Goto
  <2>2. Silent(cur[n])'
    BY <1>0, <1>1, <2>1 DEF Silent, Sent
  <2>3. AgentLogOf(n)'
    BY <1>0, <1>a, <2>1, <2>2 DEF AgentLogOf, Fresh
  <2> QED
    BY <1>0, <1>1, <1>3, <2>1, <2>3, AgentMoves
<1>7. ASSUME NEW type \in EventType, NEW s \in Nat, Send(n, type, s)
      PROVE  \E m : /\ net' = net \cup {m} /\ m.task = cur[n] /\ m.type = type /\ m.seq = s
                    /\ m.report = res[n]
  <2>1. PICK m : m = [task |-> cur[n], type |-> type, seq |-> s, report |-> res[n]]
    OBVIOUS
  <2>2. m.task = cur[n] /\ m.type = type /\ m.seq = s /\ m.report = res[n]
    BY <2>1
  <2> QED
    BY <1>7, <2>1, <2>2 DEF Send
<1>8. CASE HandleTask(n) \/ SendStarted(n) \/ SendChunk(n)
  <2>1. PICK type \in {"accepted", "started", "stdout_chunk"} :
          Send(n, type, seq'[n]) /\ cur' = cur /\ seq'[n] \in Nat
    BY <1>t, <1>8 DEF TypeOK, HandleTask, SendStarted, SendChunk
  <2>2. PICK m : net' = net \cup {m} /\ m.task = cur[n] /\ m.type = type /\ m.seq = seq'[n]
    BY <1>7, <2>1 DEF EventType
  <2>3. pc'[n] \in {"accept", "start", "run"}
    BY <1>t, <1>8 DEF TypeOK, HandleTask, SendStarted, SendChunk, Goto
  <2>4. SentBy(n, m)'
    BY <2>1, <2>2, <2>3 DEF SentBy
  <2>5. AgentLogOf(n)'
    <3>1. CASE HandleTask(n)
      <4>1. pc[n] = "got" /\ pc'[n] = "accept" /\ seq'[n] = 1
        BY <1>t, <3>1 DEF TypeOK, HandleTask, Goto
      <4>2. Fresh(cur[n], 1)'
        BY <1>0, <1>a, <2>1, <4>1 DEF AgentLogOf, Fresh
      <4> QED
        BY <2>1, <4>1, <4>2 DEF AgentLogOf
    <3>2. CASE SendStarted(n)
      <4>1. pc[n] = "accept" /\ pc'[n] = "start" /\ seq'[n] = 2
        BY <1>t, <3>2 DEF TypeOK, SendStarted, Goto
      <4>2. Fresh(cur[n], 2)'
        BY <1>0, <1>a, <2>1, <4>1 DEF AgentLogOf, Fresh
      <4> QED
        BY <2>1, <4>1, <4>2 DEF AgentLogOf
    <3>3. CASE SendChunk(n)
      <4>1. /\ pc[n] = "run" /\ pc'[n] = "run" /\ seq'[n] = seq[n] + 1
            /\ seq[n] < 2 + MaxChunk
        BY <1>t, <3>3 DEF TypeOK, SendChunk
      <4>2. Fresh(cur[n], seq[n])'
        BY <1>0, <1>2, <1>a, <2>1, <4>1 DEF AgentLogOf, Fresh
      <4>3. seq[n] + 1 \in 2 .. MaxChunk + 2
        BY <1>2, <1>a, <1>m, <4>1 DEF AgentLogOf
      <4> QED
        BY <2>1, <4>1, <4>2, <4>3 DEF AgentLogOf
    <3> QED
      BY <1>8, <3>1, <3>2, <3>3
  <2> QED
    BY <1>0, <1>1, <1>3, <2>2, <2>3, <2>4, <2>5, AgentMoves
<1>9. CASE SendClosing(n)
  <2>1. PICK type \in EventType :
          /\ type = IF res[n].outcome = "succeeded" THEN "completed" ELSE res[n].outcome
          /\ type # "result" /\ ((type = "completed") <=> (res[n].outcome = "succeeded"))
    BY <1>2 DEF Report, Outcome, EventType
  <2>2. Send(n, type, seq[n] + 1) /\ UNCHANGED <<cur, res>>
    BY <1>9, <2>1 DEF SendClosing
  <2>3. pc[n] = "finish" /\ pc'[n] = "report"
    BY <1>t, <1>9 DEF TypeOK, SendClosing, Goto
  <2>4. PICK m : net' = net \cup {m} /\ m.task = cur[n] /\ m.type = type /\ m.seq = seq[n] + 1
    BY <1>2, <1>7, <2>2
  <2>5. m.seq \in 1 .. MaxChunk + 3 /\ m.seq - 1 = seq[n]
    BY <1>2, <1>a, <1>m, <2>3, <2>4 DEF AgentLogOf
  <2>6. Fresh(m.task, m.seq - 1)'
    BY <1>0, <1>a, <2>3, <2>4, <2>5 DEF AgentLogOf, Fresh
  <2>7. SentBy(n, m)'
    BY <2>1, <2>2, <2>3, <2>4, <2>5, <2>6 DEF SentBy
  <2>8. ~Silent(cur[n])'
    BY <2>2, <2>4 DEF Silent, Sent
  <2>9. AgentLogOf(n)'
    BY <2>3, <2>8 DEF AgentLogOf
  <2> QED
    BY <1>0, <1>1, <1>3, <2>3, <2>4, <2>7, <2>9, AgentMoves
<1>10. CASE SendResult(n)
  <2>1. Send(n, "result", 0) /\ UNCHANGED <<cur, res>> /\ "result" \in EventType
    BY <1>10 DEF SendResult, EventType
  <2>2. pc[n] = "report" /\ pc'[n] = "closing"
    BY <1>t, <1>10 DEF TypeOK, SendResult, Goto
  <2>3. PICK m : /\ net' = net \cup {m} /\ m.task = cur[n] /\ m.type = "result" /\ m.seq = 0
                 /\ m.report = res[n]
    BY <1>7, <2>1
  <2>4. SentBy(n, m)'
    BY <2>1, <2>2, <2>3 DEF SentBy
  <2>5. AgentLogOf(n)'
    BY <1>0, <1>1, <1>a, <2>1, <2>2 DEF AgentLogOf, Logged
  <2> QED
    BY <1>0, <1>1, <1>3, <2>2, <2>3, <2>4, <2>5, AgentMoves
<1> QED
  BY <1>4, <1>5, <1>6, <1>8, <1>9, <1>10

(* Every step keeps the log, as long as nothing fails.                     *)
LEMMA LogKept ==
    ASSUME IInv, LogInv, [Next /\ UNCHANGED faults]_<<vars, faults>>
    PROVE  LogInv'
<1> SUFFICES ASSUME faults = {}, UNCHANGED faults PROVE AllLog'
  BY DEF LogInv
<1>1. AllLog /\ IInv'
  BY Stepping DEF LogInv
<1>2. ASSUME NEW a \in Admin, AdminStep(a) PROVE AllLog'
  BY <1>1, <1>2, AdminLog
<1>3. ASSUME NEW p \in Poll, PollStep(p) PROVE AllLog'
  BY <1>1, <1>3, PollLog
<1>4. CASE HandlerStep
  BY <1>1, <1>4, ReadLog, EventLog, ResultLog, OutputLog, AppendLog
     DEF HandlerStep, HandlerGoesOn, HandlerAbandoned, LoseRequest
<1>5. ASSUME NEW n \in Node, AgentStep(n) PROVE AllLog'
  BY <1>1, <1>5, AgentPollLog, AgentStepLog DEF AgentStep, HandleUnknown
<1>6. ~FaultStep
  BY DEF FaultStep, PollTimeout, AgentCrash, Restart
<1>7. CASE UNCHANGED <<vars, faults>>
  <2>1. UNCHANGED <<row, events, poll, net, handling, pc, cur, seq, res>>
    BY <1>7 DEF vars, db, agent
  <2> QED
    BY <1>1, <2>1 DEF AllLog, UntakenLog, PollWaits, Waits, AgentLog, AgentLogOf, SentLog, SentBy,
                      ShownLog, Shown, Fresh, Logged, Logging, Silent, Sent
<1> QED
  BY <1>2, <1>3, <1>4, <1>5, <1>6, <1>7 DEF Next

(* At first nothing is logged.                                             *)
LEMMA LogStart == Init => LogInv
<1> SUFFICES ASSUME Init PROVE AllLog
  BY DEF LogInv
<1>1. UntakenLog /\ PollWaits
  BY DEF Init, UntakenLog, Fresh, PollWaits, Waits, NoPoll
<1>2. AgentLog /\ SentLog
  BY DEF Init, AgentLog, AgentLogOf, SentLog, Sent
<1>3. ShownLog
  BY DEF Init, ShownLog, NoRow
<1> QED
  BY <1>1, <1>2, <1>3 DEF AllLog

(* Without faults, for any number of tasks, chunks and handlers, a task    *)
(* that is shown as succeeded has its "completed" event, or the handler    *)
(* that closed it has yet to append it.                                    *)
THEOREM SuccessLoggedHolds == Spec => []SuccessLogged
<1>1. IInv /\ LogInv /\ [Next /\ UNCHANGED faults]_<<vars, faults>> => LogInv'
  BY LogKept
<1>2. LogInv => SuccessLogged
  BY DEF LogInv, AllLog, ShownLog, Shown, SuccessLogged, Logged
<1> QED
  BY <1>1, <1>2, LogStart, Invariance, PTL DEF Spec
=============================================================================
