------------------------------ MODULE TaskLife ------------------------------
(***************************************************************************)
(* What the dispatch of tasks promises, without handlers, requests and     *)
(* agents: a task is handed out at most once, whoever holds it may start   *)
(* its command at most once or lose it, and its state tells no lies about  *)
(* that.  TaskDispatch implements this module.                             *)
(***************************************************************************)
CONSTANT Task

VARIABLES
    state,   \* what the control plane shows of each task
    held,    \* the tasks that are on their way to an agent or at one
    starts,  \* how often the command of each task was started
    ended    \* the outcomes its executions ended with

lifeVars == <<state, held, starts, ended>>

Closed == {"succeeded", "failed", "timed_out", "cancelled"}

LifeInit ==
    /\ state = [t \in Task |-> "absent"]
    /\ held = {}
    /\ starts = [t \in Task |-> 0]
    /\ ended = [t \in Task |-> {}]

Create(t) ==
    /\ state[t] = "absent"
    /\ state' = [state EXCEPT ![t] = "queued"]
    /\ UNCHANGED <<held, starts, ended>>

(* Only a queued task is handed out, and no task is queued twice.          *)
HandOut(t) ==
    /\ state[t] = "queued"
    /\ state' = [state EXCEPT ![t] = "dispatched"]
    /\ held' = held \cup {t}
    /\ UNCHANGED <<starts, ended>>

ShowRunning(t) ==
    /\ state[t] = "dispatched"
    /\ state' = [state EXCEPT ![t] = "running"]
    /\ UNCHANGED <<held, starts, ended>>

Start(t) ==
    /\ t \in held
    /\ starts[t] = 0
    /\ starts' = [starts EXCEPT ![t] = 1]
    /\ UNCHANGED <<state, held, ended>>

End(t, outcome) ==
    /\ t \in held
    /\ starts[t] = 1
    /\ ended[t] = {}
    /\ ended' = [ended EXCEPT ![t] = {outcome}]
    /\ UNCHANGED <<state, held, starts>>

(* Holders lose what they hold: they are done with it, crash, or give up.  *)
Drop(lost) ==
    /\ held' = held \ lost
    /\ UNCHANGED <<state, starts, ended>>

(* An administrator may always cancel, also a task that is closed: the     *)
(* cancellation may be a late one.                                         *)
Cancel(t) ==
    /\ state[t] # "absent"
    /\ state' = [state EXCEPT ![t] = "cancelled"]
    /\ UNCHANGED <<held, starts, ended>>

(* Besides, a task that was handed out is closed as failed at any time, as *)
(* anything else only if it ended so.                                      *)
Close(t, outcome) ==
    /\ state[t] \notin {"absent", "queued"}
    /\ outcome # "failed" => outcome \in ended[t]
    /\ state' = [state EXCEPT ![t] = outcome]
    /\ held' \in {held, held \ {t}}
    /\ UNCHANGED <<starts, ended>>

LifeNext ==
    \/ \E t \in Task : Create(t) \/ HandOut(t) \/ ShowRunning(t) \/ Start(t) \/ Cancel(t)
    \/ \E t \in Task, outcome \in Closed : End(t, outcome) \/ Close(t, outcome)
    \/ \E lost \in SUBSET Task : Drop(lost)

LifeSpec == LifeInit /\ [][LifeNext]_lifeVars
=============================================================================
