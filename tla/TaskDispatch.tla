---------------------------- MODULE TaskDispatch ----------------------------
(***************************************************************************)
(* The life of a task: created and cancelled through TaskService, claimed  *)
(* by a long-polling node agent, executed there, and closed by the events  *)
(* and the result the agent posts back.                                    *)
(*                                                                         *)
(* The rows of the task table are read by one statement and written back,  *)
(* whole, by a later one (TaskByID ... UpdateTask); the log and the output *)
(* are written by statements of their own after that.  Every handler is    *)
(* one step per statement here, with the row it read in between.  HTTP     *)
(* handlers, the agent, lost and late requests, agent crashes and          *)
(* control-plane restarts interleave freely.                               *)
(*                                                                         *)
(* A definition right before the one it alters (ClaimWithoutUpdate before  *)
(* ClaimNextTask) is that step with a plausible mistake in it.  Next does  *)
(* not use it: it shows which mistake a property catches.                  *)
(***************************************************************************)
EXTENDS Naturals, FiniteSets

CONSTANTS
    Node,       \* approved nodes, one agent each
    Task,       \* task ids (fresh UUIDs)
    Key,        \* (requested_by, idempotency_key) pairs
    Admin,      \* concurrent admin request handlers
    Poll,       \* concurrent long-poll request handlers
    NodeOf,     \* the node a task id is created for
    KeyOf,      \* the idempotency key a task id is created with
    NoTask,     \* "no task"
    MaxChunk,   \* bound: output chunks an execution reports
    Ends,       \* the outcomes an execution may end with
    FaultSets   \* a behaviour has the faults of one of these sets

(* What the agent may report as the end of an execution.                   *)
Outcome == {"succeeded", "failed", "timed_out", "cancelled"}

FaultKind == {"crash",      \* an agent process dies and is restarted
              "restart",    \* the control plane is restarted
              "loss",       \* a request of the agent never arrives
              "late",       \* an HTTP client gives up on a request
              "unsigned",   \* the control plane cannot sign a payload
              "unverified", \* the agent cannot verify a payload
              "unknown"}    \* the command is no longer registered

ASSUME ConstantsAssumption ==
    /\ NodeOf \in [Task -> Node]
    /\ KeyOf \in [Task -> Key]
    /\ NoTask \notin Task
    /\ MaxChunk \in Nat
    /\ Ends \subseteq Outcome
    /\ FaultSets \subseteq SUBSET FaultKind

-----------------------------------------------------------------------------
(* model.Task* statuses; "absent" is an id that has no row.                *)
Terminal == {"succeeded", "failed", "timed_out", "cancelled",
             "node_unreachable", "result_unknown"}
Status == {"absent", "queued", "dispatched", "running"} \cup Terminal

IsTaskTerminal(s) == s \in Terminal

(* exit_code: NULL, or the code of an execution that ended with outcome o. *)
ExitCode == {"null"} \cup Outcome

(* The columns of a task row that UpdateTask writes.                       *)
Row == [status : Status, started : BOOLEAN, finished : BOOLEAN, exit : ExitCode]

NoRow == [status |-> "absent", started |-> FALSE, finished |-> FALSE, exit |-> "null"]

EventType == {"accepted", "started", "stdout_chunk", "completed",
              "failed", "timed_out", "cancelled", "result"}

(* What the executor reports of an execution; no exit code without one.    *)
Report == [outcome : Outcome, exit : ExitCode]
Failure == [outcome |-> "failed", exit |-> "null"]

(* Requests of the agent: an event, or (type "result") the final result.   *)
Msg == [task : Task, type : EventType, seq : Nat, report : Report]

VARIABLES
    row,        \* the task table
    queuedAt,   \* the queued_at column
    clock,      \* the next queued_at
    events,     \* the task_event table, keyed by (task, sequence)
    output,     \* the tasks that have a task_output row
    wake,       \* the Dispatcher channel of each node
    admin,      \* the admin handlers in progress
    poll,       \* the long-poll handlers in progress
    net,        \* agent requests sent and not yet read by a handler
    handling,   \* handlers of agent requests that have read the task row
    pc,         \* where the agent's task loop is
    cur,        \* the task the agent holds
    seq,        \* event sequence of the current execution
    res,        \* the outcome of the current execution
    doneCache,  \* Agent.doneCache
    runs,       \* history: how often a task's command was started
    ended,      \* history: the outcomes executions of a task ended with
    faults      \* the faults this behaviour may have; it never changes

db == <<row, queuedAt, clock, events, output>>
agent == <<pc, cur, seq, res, doneCache>>
history == <<runs, ended>>
vars == <<db, wake, admin, poll, net, handling, agent, history>>

AdminPC == {"idle", "create", "notify", "cancel", "log"}
PollStage == {"idle", "first", "missed", "wait", "second", "claimed", "respond"}
AgentPC == {"idle", "polling", "got", "accept", "start", "run",
            "finish", "report", "closing"}


(* How far a handler is: before its row, its output, its log entry.        *)
HandlerStage == {"row", "output", "log"}

NoAdmin == [pc |-> "idle", task |-> NoTask, snap |-> NoRow]
NoPoll == [stage |-> "idle", node |-> NoTask, task |-> NoTask, snap |-> NoRow, conn |-> FALSE]

TypeOK ==
    /\ row \in [Task -> Row]
    /\ queuedAt \in [Task -> Nat]
    /\ clock \in Nat
    /\ events \in SUBSET (Task \X Nat \X EventType)
    /\ output \in SUBSET Task
    /\ wake \in [Node -> {"none", "empty", "token"}]
    /\ admin \in [Admin -> [pc : AdminPC, task : Task \cup {NoTask}, snap : Row]]
    /\ poll \in [Poll -> [stage : PollStage, node : Node \cup {NoTask},
                          task : Task \cup {NoTask}, snap : Row, conn : BOOLEAN]]
    /\ net \in SUBSET Msg
    /\ handling \in SUBSET [msg : Msg, snap : Row, stage : HandlerStage]
    /\ pc \in [Node -> AgentPC]
    /\ cur \in [Node -> Task \cup {NoTask}]
    /\ seq \in [Node -> Nat]
    /\ res \in [Node -> Report]
    /\ doneCache \in [Node -> SUBSET Task]
    /\ runs \in [Task -> Nat]
    /\ ended \in [Task -> SUBSET Outcome]

Init ==
    /\ row = [t \in Task |-> NoRow]
    /\ queuedAt = [t \in Task |-> 0]
    /\ clock = 0
    /\ events = {}
    /\ output = {}
    /\ wake = [n \in Node |-> "none"]
    /\ admin = [a \in Admin |-> NoAdmin]
    /\ poll = [p \in Poll |-> NoPoll]
    /\ net = {}
    /\ handling = {}
    /\ pc = [n \in Node |-> "idle"]
    /\ cur = [n \in Node |-> NoTask]
    /\ seq = [n \in Node |-> 0]
    /\ res = [n \in Node |-> Failure]
    /\ doneCache = [n \in Node |-> {}]
    /\ runs = [t \in Task |-> 0]
    /\ ended = [t \in Task |-> {}]
    /\ faults \in FaultSets

-----------------------------------------------------------------------------
(* Store accessors.                                                        *)

(* UpdateTask writes every mutable column from the struct it is given.     *)
UpdateTask(t, r) == row' = [row EXCEPT ![t] = r]

(* MarkTaskRunning: conditional on the row still being dispatched.         *)
MarkTaskRunningAlways(t) == row' = [row EXCEPT ![t].status = "running"]
MarkTaskRunning(t) ==
    row' = IF row[t].status = "dispatched" THEN [row EXCEPT ![t].status = "running"] ELSE row

Finish(r, s) == [r EXCEPT !.status = s, !.finished = TRUE]

(* AppendTaskEventDedup: the first event with a sequence wins.             *)
AppendTaskEventDedup(t, s, type) ==
    events' = IF \E ty \in EventType : <<t, s, ty>> \in events
              THEN events ELSE events \cup {<<t, s, type>>}

(* Rows ClaimNextTask may select for node n: ORDER BY queued_at.           *)
Queued(n) == {t \in Task : NodeOf[t] = n /\ row[t].status = "queued"}
Oldest(n) == {t \in Queued(n) : \A u \in Queued(n) : queuedAt[t] <= queuedAt[u]}

-----------------------------------------------------------------------------
(* TaskService.CreateTask                                                  *)

(* No row has the idempotency key yet, so a task is built.  With a row,    *)
(* the handler returns it and changes nothing.                             *)
CreateLookup(a, t) ==
    /\ admin[a].pc = "idle"
    /\ row[t].status = "absent"
    /\ \A b \in Admin : admin[b].pc = "create" => admin[b].task # t
    /\ \A u \in Task : KeyOf[u] = KeyOf[t] => row[u].status = "absent"
    /\ admin' = [admin EXCEPT ![a] = [pc |-> "create", task |-> t, snap |-> NoRow]]
    /\ UNCHANGED <<db, wake, poll, net, handling, agent, history>>

(* A check on the node, the command or the arguments fails.                *)
CreateReject(a) ==
    /\ admin[a].pc = "create"
    /\ admin' = [admin EXCEPT ![a] = NoAdmin]
    /\ UNCHANGED <<db, wake, poll, net, handling, agent, history>>

(* The INSERT; UNIQUE(requested_by, idempotency_key) refuses a second one. *)
CreateInsert(a) ==
    LET t == admin[a].task IN
    /\ admin[a].pc = "create"
    /\ \/ /\ \E u \in Task : KeyOf[u] = KeyOf[t] /\ row[u].status # "absent"
          /\ admin' = [admin EXCEPT ![a] = NoAdmin]
          /\ UNCHANGED db
       \/ /\ \A u \in Task : KeyOf[u] = KeyOf[t] => row[u].status = "absent"
          /\ row' = [row EXCEPT ![t] = [NoRow EXCEPT !.status = "queued"]]
          /\ queuedAt' = [queuedAt EXCEPT ![t] = clock]
          /\ clock' = clock + 1
          /\ admin' = [admin EXCEPT ![a].pc = "notify"]
          /\ UNCHANGED <<events, output>>
    /\ UNCHANGED <<wake, poll, net, handling, agent, history>>

(* Dispatcher.Notify: a token for the node's poller, unless it has no      *)
(* channel yet or the channel is full.                                     *)
CreateNotify(a) ==
    LET n == NodeOf[admin[a].task] IN
    /\ admin[a].pc = "notify"
    /\ wake' = [wake EXCEPT ![n] = IF @ = "none" THEN @ ELSE "token"]
    /\ admin' = [admin EXCEPT ![a] = NoAdmin]
    /\ UNCHANGED <<db, poll, net, handling, agent, history>>

-----------------------------------------------------------------------------
(* TaskService.CancelTask                                                  *)

CancelRead(a, t) ==
    /\ admin[a].pc = "idle"
    /\ row[t].status # "absent"
    /\ ~IsTaskTerminal(row[t].status)
    /\ admin' = [admin EXCEPT ![a] = [pc |-> "cancel", task |-> t, snap |-> row[t]]]
    /\ UNCHANGED <<db, wake, poll, net, handling, agent, history>>

CancelWrite(a) ==
    LET t == admin[a].task IN
    /\ admin[a].pc = "cancel"
    /\ UpdateTask(t, Finish(admin[a].snap, "cancelled"))
    /\ admin' = [admin EXCEPT ![a].pc = "log"]
    /\ UNCHANGED <<queuedAt, clock, events, output, wake, poll, net, handling, agent, history>>

CancelLog(a) ==
    /\ admin[a].pc = "log"
    /\ AppendTaskEventDedup(admin[a].task, 0, "cancelled")
    /\ admin' = [admin EXCEPT ![a] = NoAdmin]
    /\ UNCHANGED <<row, queuedAt, clock, output, wake, poll, net, handling, agent, history>>

(* The administrator's client is gone: the next statement fails, which for *)
(* the log entry is only a warning.                                        *)
CancelAbandoned(a) ==
    /\ "late" \in faults
    /\ admin[a].pc \in {"cancel", "log"}
    /\ admin' = [admin EXCEPT ![a] = NoAdmin]
    /\ UNCHANGED <<db, wake, poll, net, handling, agent, history>>

-----------------------------------------------------------------------------
(* handleAgentTaskPoll: PollTask, Dispatcher.Wait, PollTask, respond.      *)

(* The agent's loop sends GET /tasks/poll.                                 *)
AgentPoll(n, p) ==
    /\ pc[n] = "idle"
    /\ poll[p].stage = "idle"
    /\ pc' = [pc EXCEPT ![n] = "polling"]
    /\ poll' = [poll EXCEPT ![p] = [NoPoll EXCEPT !.stage = "first", !.node = n, !.conn = TRUE]]
    /\ UNCHANGED <<db, wake, admin, net, handling, cur, seq, res, doneCache, history>>

ClaimWithoutUpdate(p) ==
    /\ poll[p].stage \in {"first", "second"}
    /\ \E t \in Oldest(poll[p].node) :
         poll' = [poll EXCEPT ![p].stage = "claimed", ![p].task = t, ![p].snap = row[t]]
    /\ UNCHANGED <<db, wake, admin, net, handling, agent, history>>

(* ClaimNextTask: in one transaction, the oldest queued row of the node    *)
(* becomes dispatched.  The struct handed back was scanned before that.    *)
(* A handler does not know at once that its client is gone.                *)
ClaimNextTask(p) ==
    /\ poll[p].stage \in {"first", "second"}
    /\ \E t \in Oldest(poll[p].node) :
         /\ row' = [row EXCEPT ![t].status = "dispatched", ![t].started = TRUE]
         /\ poll' = [poll EXCEPT ![p].stage = "claimed", ![p].task = t, ![p].snap = row[t]]
    /\ UNCHANGED <<queuedAt, clock, events, output, wake, admin, net, handling, agent, history>>

(* The queue is empty: wait for a token the first time, answer "no task"   *)
(* the second time.                                                        *)
PollMiss(p) ==
    /\ poll[p].stage \in {"first", "second"}
    /\ Queued(poll[p].node) = {}
    /\ poll' = [poll EXCEPT ![p].stage = IF @ = "first" THEN "missed" ELSE "respond"]
    /\ UNCHANGED <<db, wake, admin, net, handling, agent, history>>

(* Dispatcher.Wait looks its channel up, or makes it.                      *)
WaitEnter(p) ==
    LET n == poll[p].node IN
    /\ poll[p].stage = "missed"
    /\ wake' = [wake EXCEPT ![n] = IF @ = "none" THEN "empty" ELSE @]
    /\ poll' = [poll EXCEPT ![p].stage = "wait"]
    /\ UNCHANGED <<db, admin, net, handling, agent, history>>

WaitWithoutTimer(p) ==
    LET n == poll[p].node IN
    /\ poll[p].stage = "wait"
    /\ wake[n] = "token"
    /\ wake' = [wake EXCEPT ![n] = "empty"]
    /\ poll' = [poll EXCEPT ![p].stage = "second"]
    /\ UNCHANGED <<db, admin, net, handling, agent, history>>

(* A token, or the timer.  Any waiter of the node may take the token.      *)
WaitReturn(p) ==
    LET n == poll[p].node IN
    /\ poll[p].stage = "wait"
    /\ \/ wake[n] = "token" /\ wake' = [wake EXCEPT ![n] = "empty"]
       \/ UNCHANGED wake
    /\ poll' = [poll EXCEPT ![p].stage = "second"]
    /\ UNCHANGED <<db, admin, net, handling, agent, history>>

(* PollTask after the claim: sign the payload, ...                         *)
PollSign(p) ==
    /\ poll[p].stage = "claimed"
    /\ poll' = [poll EXCEPT ![p].stage = "respond"]
    /\ UNCHANGED <<db, wake, admin, net, handling, agent, history>>

(* The agent sees its poll fail and goes round its loop again.             *)
PollError(n) == pc' = [pc EXCEPT ![n] = IF @ = "polling" THEN "idle" ELSE @]

(* ... or answer 503 because the credential cannot be derived, ...         *)
PollUnsigned(p) ==
    /\ "unsigned" \in faults
    /\ poll[p].stage = "claimed"
    /\ poll' = [poll EXCEPT ![p] = NoPoll]
    /\ IF poll[p].conn THEN PollError(poll[p].node) ELSE UNCHANGED pc
    /\ UNCHANGED <<db, wake, admin, net, handling, cur, seq, res, doneCache, history>>

(* ... or fail the task, because the command is no longer registered.      *)
PollCommandGone(p) ==
    /\ "unknown" \in faults
    /\ poll[p].stage = "claimed"
    /\ UpdateTask(poll[p].task, Finish(poll[p].snap, "failed"))
    /\ poll' = [poll EXCEPT ![p] = NoPoll]
    /\ IF poll[p].conn THEN PollError(poll[p].node) ELSE UNCHANGED pc
    /\ UNCHANGED <<queuedAt, clock, events, output, wake, admin, net, handling,
                   cur, seq, res, doneCache, history>>

(* The response reaches the agent, with a task or without one.             *)
PollRespond(p) ==
    LET n == poll[p].node IN
    /\ poll[p].stage = "respond"
    /\ poll[p].conn
    /\ pc' = [pc EXCEPT ![n] = IF poll[p].task = NoTask THEN "idle" ELSE "got"]
    /\ cur' = [cur EXCEPT ![n] = poll[p].task]
    /\ poll' = [poll EXCEPT ![p] = NoPoll]
    /\ UNCHANGED <<db, wake, admin, net, handling, seq, res, doneCache, history>>

(* A handler whose client is gone fails its next query (the request        *)
(* context is cancelled) or writes to a closed connection.                 *)
PollAbandoned(p) ==
    /\ poll[p].stage \in {"first", "second", "claimed", "respond"}
    /\ ~poll[p].conn
    /\ poll' = [poll EXCEPT ![p] = NoPoll]
    /\ UNCHANGED <<db, wake, admin, net, handling, agent, history>>

Disconnect(n) == [p \in Poll |-> IF poll[p].node = n THEN [poll[p] EXCEPT !.conn = FALSE]
                                                     ELSE poll[p]]

(* The agent's HTTP client gives up on the poll and retries.               *)
PollTimeout(n) ==
    /\ "late" \in faults
    /\ pc[n] = "polling"
    /\ pc' = [pc EXCEPT ![n] = "idle"]
    /\ poll' = Disconnect(n)
    /\ UNCHANGED <<db, wake, admin, net, handling, cur, seq, res, doneCache, history>>

-----------------------------------------------------------------------------
(* handleAgentTaskEvent and handleAgentTaskResult                          *)

(* Whether a request changes a row it was read with: "accepted" and        *)
(* "started" mark a dispatched task running, output only logs, a closing   *)
(* event and a result write nothing when the status read was terminal.     *)
WritesRow(type, status) ==
    CASE type \in {"accepted", "started"} -> status = "dispatched"
      [] type = "stdout_chunk" -> FALSE
      [] OTHER -> ~IsTaskTerminal(status)

(* The handler of m after it is done with the row, which it needs no more. *)
RowDone(m) == [msg |-> m, snap |-> NoRow, stage |-> IF m.type = "result" THEN "output" ELSE "log"]

(* TaskByID: the handler holds the row as it is now.                       *)
HandlerRead(m) ==
    /\ m \in net
    /\ net' = net \ {m}
    /\ handling' = handling \cup
         {IF WritesRow(m.type, row[m.task].status)
          THEN [msg |-> m, snap |-> row[m.task], stage |-> "row"]
          ELSE RowDone(m)}
    /\ UNCHANGED <<db, wake, admin, poll, agent, history>>

(* The status RecordEvent gives a task for a closing event.                *)
ClosedByName(type) == type
ClosedAsSuccess(type) == "succeeded"
ClosedBy(type) == IF type = "completed" THEN "succeeded" ELSE type

(* RecordEvent: the row, if the event changes it.  An error is ignored.    *)
RecordEvent(h) ==
    LET t == h.msg.task  type == h.msg.type IN
    /\ h \in handling
    /\ h.stage = "row" /\ type \notin {"stdout_chunk", "result"}
    /\ IF type \in {"accepted", "started"} THEN MarkTaskRunning(t)
       ELSE UpdateTask(t, Finish(h.snap, ClosedBy(type)))
    /\ handling' = (handling \ {h}) \cup {RowDone(h.msg)}
    /\ UNCHANGED <<queuedAt, clock, events, output, wake, admin, poll, net, agent, history>>

(* RecordResult: status and exit code, if the row was not terminal, ...    *)
RecordResult(h) ==
    LET t == h.msg.task  r == h.msg.report IN
    /\ h \in handling
    /\ h.stage = "row" /\ h.msg.type = "result"
    /\ UpdateTask(t, [Finish(h.snap, r.outcome) EXCEPT !.exit = r.exit])
    /\ handling' = (handling \ {h}) \cup {RowDone(h.msg)}
    /\ UNCHANGED <<queuedAt, clock, events, output, wake, admin, poll, net, agent, history>>

(* ... the output row in any case, ...                                     *)
StoreOutput(h) ==
    /\ h \in handling
    /\ h.stage = "output"
    /\ output' = output \cup {h.msg.task}
    /\ handling' = (handling \ {h}) \cup {[h EXCEPT !.stage = "log"]}
    /\ UNCHANGED <<row, queuedAt, clock, events, wake, admin, poll, net, agent, history>>

(* ... and, for an event as for a result, the log entry, which ends the    *)
(* handler.  The entry of a result has sequence 0, like its message.       *)
AppendEvent(h) ==
    /\ h \in handling
    /\ h.stage = "log"
    /\ AppendTaskEventDedup(h.msg.task, h.msg.seq, h.msg.type)
    /\ handling' = handling \ {h}
    /\ UNCHANGED <<row, queuedAt, clock, output, wake, admin, poll, net, agent, history>>

(* A handler whose client gave up or died: its context is cancelled, and   *)
(* the statements it has not run yet fail.                                 *)
HandlerAbandoned(h) ==
    /\ {"late", "crash"} \cap faults # {}
    /\ h \in handling
    /\ handling' = handling \ {h}
    /\ UNCHANGED <<db, wake, admin, poll, net, agent, history>>

LoseRequest(m) ==
    /\ "loss" \in faults
    /\ m \in net
    /\ net' = net \ {m}
    /\ UNCHANGED <<db, wake, admin, poll, handling, agent, history>>

-----------------------------------------------------------------------------
(* The agent's task loop: handleTask and Executor.Execute                  *)

(* The agent's previous request was answered, or its client gave up on it. *)
Answered(n) ==
    \/ /\ \A m \in net : m.task # cur[n]
       /\ \A h \in handling : h.msg.task # cur[n]
    \/ "late" \in faults

Send(n, type, s) ==
    net' = net \cup {[task |-> cur[n], type |-> type, seq |-> s, report |-> res[n]]}

Goto(n, l) == pc' = [pc EXCEPT ![n] = l]

(* handleTask drops a task it has executed, or whose payload it cannot     *)
(* verify, without telling anyone.                                         *)
HandleDrop(n) ==
    /\ pc[n] = "got"
    /\ cur[n] \in doneCache[n] \/ "unverified" \in faults
    /\ Goto(n, "idle")
    /\ cur' = [cur EXCEPT ![n] = NoTask]
    /\ UNCHANGED <<db, wake, admin, poll, net, handling, seq, res, doneCache, history>>

(* The node does not know the command: a failed result, no execution.      *)
HandleUnknown(n) ==
    /\ "unknown" \in faults
    /\ pc[n] = "got"
    /\ cur[n] \notin doneCache[n]
    /\ net' = net \cup {[task |-> cur[n], type |-> "result", seq |-> 0, report |-> Failure]}
    /\ Goto(n, "closing")
    /\ UNCHANGED <<db, wake, admin, poll, handling, cur, seq, res, doneCache, history>>

(* markDone, which may drop entries older than an hour, then Execute.      *)
HandleTask(n) ==
    /\ pc[n] = "got"
    /\ cur[n] \notin doneCache[n]
    /\ \E kept \in SUBSET doneCache[n] :
         doneCache' = [doneCache EXCEPT ![n] = kept \cup {cur[n]}]
    /\ seq' = [seq EXCEPT ![n] = 1]
    /\ res' = [res EXCEPT ![n] = Failure]
    /\ Send(n, "accepted", 1)
    /\ Goto(n, "accept")
    /\ UNCHANGED <<db, wake, admin, poll, handling, cur, history>>

SendStarted(n) ==
    /\ pc[n] = "accept"
    /\ Answered(n)
    /\ seq' = [seq EXCEPT ![n] = 2]
    /\ Send(n, "started", 2)
    /\ Goto(n, "start")
    /\ UNCHANGED <<db, wake, admin, poll, handling, cur, res, doneCache, history>>

(* proc.Start succeeds, or the execution fails without an exit code.       *)
StartProcess(n) ==
    /\ pc[n] = "start"
    /\ Answered(n)
    /\ \/ /\ Goto(n, "run")
          /\ runs' = [runs EXCEPT ![cur[n]] = @ + 1]
       \/ Goto(n, "finish") /\ UNCHANGED runs
    /\ UNCHANGED <<db, wake, admin, poll, net, handling, cur, seq, res, doneCache, ended>>

SendChunk(n) ==
    /\ pc[n] = "run"
    /\ Answered(n)
    /\ seq[n] < 2 + MaxChunk
    /\ seq' = [seq EXCEPT ![n] = @ + 1]
    /\ Send(n, "stdout_chunk", seq[n] + 1)
    /\ UNCHANGED <<db, wake, admin, poll, handling, pc, cur, res, doneCache, history>>

(* The process is over, for whatever reason (module Executor has them).    *)
ProcessExit(n) ==
    /\ pc[n] = "run"
    /\ Answered(n)
    /\ \E o \in Ends :
         /\ res' = [res EXCEPT ![n] = [outcome |-> o, exit |-> o]]
         /\ ended' = [ended EXCEPT ![cur[n]] = @ \cup {o}]
    /\ Goto(n, "finish")
    /\ UNCHANGED <<db, wake, admin, poll, net, handling, cur, seq, doneCache, runs>>

SendClosingSameSeq(n) ==
    LET o == res[n].outcome IN
    /\ pc[n] = "finish"
    /\ Send(n, IF o = "succeeded" THEN "completed" ELSE o, seq[n])
    /\ Goto(n, "report")
    /\ UNCHANGED <<db, wake, admin, poll, handling, cur, seq, res, doneCache, history>>

(* finish: the closing event ...                                           *)
SendClosing(n) ==
    LET o == res[n].outcome IN
    /\ pc[n] = "finish"
    /\ seq' = [seq EXCEPT ![n] = @ + 1]
    /\ Send(n, IF o = "succeeded" THEN "completed" ELSE o, seq[n] + 1)
    /\ Goto(n, "report")
    /\ UNCHANGED <<db, wake, admin, poll, handling, cur, res, doneCache, history>>

(* ... then the result, and the loop polls again.                          *)
SendResult(n) ==
    /\ pc[n] = "report"
    /\ Answered(n)
    /\ Send(n, "result", 0)
    /\ Goto(n, "closing")
    /\ UNCHANGED <<db, wake, admin, poll, handling, cur, seq, res, doneCache, history>>

ExecuteReturn(n) ==
    /\ pc[n] = "closing"
    /\ Answered(n)
    /\ cur' = [cur EXCEPT ![n] = NoTask]
    /\ seq' = [seq EXCEPT ![n] = 0]
    /\ res' = [res EXCEPT ![n] = Failure]
    /\ Goto(n, "idle")
    /\ UNCHANGED <<db, wake, admin, poll, net, handling, doneCache, history>>

-----------------------------------------------------------------------------
(* Faults                                                                  *)

(* The agent dies (its service manager kills the child with it) and is     *)
(* started again: everything it held in memory is gone.                    *)
AgentCrash(n) ==
    /\ "crash" \in faults
    /\ pc[n] # "idle"
    /\ Goto(n, "idle")
    /\ cur' = [cur EXCEPT ![n] = NoTask]
    /\ seq' = [seq EXCEPT ![n] = 0]
    /\ res' = [res EXCEPT ![n] = Failure]
    /\ doneCache' = [doneCache EXCEPT ![n] = {}]
    /\ poll' = Disconnect(n)
    /\ UNCHANGED <<db, wake, admin, net, handling, history>>

(* The control plane restarts: handlers, channels and connections are gone,*)
(* the database stays.                                                     *)
Restart ==
    /\ "restart" \in faults
    /\ wake' = [n \in Node |-> "none"]
    /\ admin' = [a \in Admin |-> NoAdmin]
    /\ poll' = [p \in Poll |-> NoPoll]
    /\ net' = {}
    /\ handling' = {}
    /\ pc' = [n \in Node |-> IF pc[n] = "polling" THEN "idle" ELSE pc[n]]
    /\ UNCHANGED <<db, cur, seq, res, doneCache, history>>

-----------------------------------------------------------------------------
AdminStep(a) ==
    \/ \E t \in Task : CreateLookup(a, t) \/ CancelRead(a, t)
    \/ CreateReject(a) \/ CreateInsert(a) \/ CreateNotify(a)
    \/ CancelWrite(a) \/ CancelLog(a) \/ CancelAbandoned(a)

PollStep(p) ==
    \/ ClaimNextTask(p) \/ PollMiss(p) \/ WaitEnter(p) \/ WaitReturn(p)
    \/ PollSign(p) \/ PollUnsigned(p) \/ PollCommandGone(p)
    \/ PollRespond(p) \/ PollAbandoned(p)

HandlerGoesOn(h) == RecordEvent(h) \/ RecordResult(h) \/ StoreOutput(h) \/ AppendEvent(h)

HandlerStep ==
    \/ \E m \in net : HandlerRead(m) \/ LoseRequest(m)
    \/ \E h \in handling : HandlerGoesOn(h) \/ HandlerAbandoned(h)

AgentStep(n) ==
    \/ \E p \in Poll : AgentPoll(n, p)
    \/ HandleDrop(n) \/ HandleUnknown(n) \/ HandleTask(n)
    \/ SendStarted(n) \/ StartProcess(n) \/ SendChunk(n) \/ ProcessExit(n)
    \/ SendClosing(n) \/ SendResult(n) \/ ExecuteReturn(n)

FaultStep ==
    \/ \E n \in Node : PollTimeout(n) \/ AgentCrash(n)
    \/ Restart

Next ==
    \/ \E a \in Admin : AdminStep(a)
    \/ \E p \in Poll : PollStep(p)
    \/ HandlerStep
    \/ \E n \in Node : AgentStep(n)
    \/ FaultStep

Spec == Init /\ [][Next /\ UNCHANGED faults]_<<vars, faults>>

(* Requests in progress are carried on with, Wait has a timer, the agent's *)
(* loop never stops, and every execution ends (module Executor shows under *)
(* which conditions).  Nobody has to create or cancel a task.              *)
Fairness ==
    /\ \A a \in Admin : WF_vars(CreateInsert(a) \/ CreateNotify(a) \/ CancelWrite(a) \/ CancelLog(a))
    /\ \A p \in Poll : WF_vars(PollStep(p))
    /\ \A t \in Task : WF_vars(\E m \in net : m.task = t /\ HandlerRead(m))
    /\ \A t \in Task : WF_vars(\E h \in handling : h.msg.task = t /\ HandlerGoesOn(h))
    /\ \A n \in Node : WF_vars(AgentStep(n))

FairSpec == Spec /\ Fairness

-----------------------------------------------------------------------------
(* Properties                                                              *)

(* A task's command is started at most once, whatever is lost, cancelled,  *)
(* crashes or restarts: ClaimNextTask hands a row out once and nothing     *)
(* requeues it, so the agent's volatile doneCache is never what saves it.  *)
AtMostOnce == \A t \in Task : runs[t] <= 1

(* The tasks whose claim, answer or execution is in progress.              *)
Held == {t \in Task : \/ \E p \in Poll : poll[p].task = t
                     \/ \E n \in Node : cur[n] = t}

Life == INSTANCE TaskLife WITH state <- [t \in Task |-> row[t].status],
                               held <- Held, starts <- runs

(* The dispatch implements module TaskLife: the status of a task moves as  *)
(* the state machine of doc/02 section 7 has it, whatever rows handlers    *)
(* write back late, only who claimed a task starts it, and a task that was *)
(* closed before it was claimed never starts.                              *)
ImplementsLife == Life!LifeSpec

(* A task is shown as succeeded only when an execution of its command did  *)
(* end in success: no stale write, duplicate or crash makes one up.        *)
TruthfulSuccess ==
    \A t \in Task : row[t].status = "succeeded" => "succeeded" \in ended[t]

(* Once crashes, restarts and client timeouts stop, no task stays queued:  *)
(* a token lost by Dispatcher.Notify or taken by a dead poller only delays *)
(* the hand-over until a later poll.                                       *)
QueueDrains ==
    <>[][~FaultStep]_vars =>
        \A t \in Task : row[t].status = "queued" ~> row[t].status # "queued"

(* Without faults, a task shown as succeeded has the agent's "completed"   *)
(* event in its log, or the handler that closed it is about to append it   *)
(* (RecordEvent writes the row first), although the log drops what has a   *)
(* used sequence.                                                          *)
Logging(t) == \E h \in handling :
    h.msg.task = t /\ h.msg.type = "completed" /\ h.stage = "log"
SuccessLogged ==
    \A t \in Task : faults = {} /\ row[t].status = "succeeded" =>
        \/ \E s \in 1 .. MaxChunk + 3 : <<t, s, "completed">> \in events
        \/ Logging(t)

(* Without faults, every task that is queued is closed.                    *)
EveryTaskCloses ==
    \A t \in Task : faults = {} /\ row[t].status = "queued" ~> IsTaskTerminal(row[t].status)

-----------------------------------------------------------------------------
(* What a comment says, and the code does not do                           *)

(* RecordResult stores the final result: when the output of an execution   *)
(* has been stored, the row has the exit code it ended with.               *)
ResultStored ==
    \A t \in output : ended[t] # {} => row[t].exit \in ended[t]

=============================================================================
