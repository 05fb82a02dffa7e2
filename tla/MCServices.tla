----------------------------- MODULE MCServices -----------------------------
(***************************************************************************)
(* TLC instance of the smaller services of the control plane and of one    *)
(* call of the agent's executor.  They share no state: a behaviour is one  *)
(* of one of them, and the others stay where they begin.                   *)
(***************************************************************************)
EXTENDS Executor, Registry, Sessions, Tokens, Notify, Retention

VARIABLE part

Parts == {"executor", "registry", "sessions", "tokens", "notify", "retention"}

(* The registry and the retention begin in several states: the retention   *)
(* with two leases that may be protected, or with a lease and two tasks    *)
(* and the runs of administrators.                                         *)
ServicesInit ==
    /\ part \in Parts
    /\ InitAt(IF part = "executor" THEN "called" ELSE "returned")
    /\ RegistryInit /\ (part # "registry" => regFaults = {} /\ directory = NoCommands)
    /\ SessionsInit /\ TokensInit /\ NotifyInit
    /\ RetentionInit /\ (part # "retention" => besides = "protection")
    /\ besides = "protection" <=> rows \subseteq LeaseTables \X KeptLease

servicesVars == <<part, vars, registryVars, sessionsVars, tokensVars, notifyVars, retentionVars>>

ServicesNext ==
    \/ /\ part = "executor" /\ Next
       /\ UNCHANGED <<part, registryVars, sessionsVars, tokensVars, notifyVars, retentionVars>>
    \/ /\ part = "registry" /\ RegistryNext
       /\ UNCHANGED <<part, vars, sessionsVars, tokensVars, notifyVars, retentionVars>>
    \/ /\ part = "sessions" /\ SessionsNext
       /\ UNCHANGED <<part, vars, registryVars, tokensVars, notifyVars, retentionVars>>
    \/ /\ part = "tokens" /\ TokensNext
       /\ UNCHANGED <<part, vars, registryVars, sessionsVars, notifyVars, retentionVars>>
    \/ /\ part = "notify" /\ NotifyNext
       /\ UNCHANGED <<part, vars, registryVars, sessionsVars, tokensVars, retentionVars>>
    \/ /\ part = "retention" /\ RetentionNext
       /\ UNCHANGED <<part, vars, registryVars, sessionsVars, tokensVars, notifyVars>>

(* The agent's watch loop ticks for ever, the scheduler starts its weekly  *)
(* run for ever, and what has begun goes on.                               *)
ServicesFairness ==
    /\ WF_vars(part = "executor" /\ Execute /\ pc # "deploy")
    /\ WF_vars(part = "executor" /\ Sender)
    /\ WF_vars(part = "executor" /\ Watcher)
    /\ \A s \in Stream : WF_vars(part = "executor" /\ Reader(s))
    /\ WF_vars(part = "executor" /\ KillTimer)
    /\ WF_vars(part = "executor" /\ Timeout)
    /\ WF_registryVars(part = "registry" /\ reloadCommands)
    /\ \A s \in Snap : WF_registryVars(part = "registry" /\ SnapshotStep(s))
    /\ WF_retentionVars(part = "retention" /\ ScheduledRun)
    /\ \A r \in Run : WF_retentionVars(part = "retention" /\ RunStep(r))

ServicesSpec == ServicesInit /\ [][ServicesNext]_servicesVars /\ ServicesFairness

(* Every variable of every part has its type.                              *)
ServicesTypeOK ==
    /\ TypeOK
    /\ RegistryTypeOK /\ SessionsTypeOK /\ TokensTypeOK /\ NotifyTypeOK /\ RetentionTypeOK

AllFaults == FaultKind
AgentFaults == {{}, {"lost", "restart"}, {"late"}}
DataTypes == {<<"leases">>, <<"tasks">>}
LeasesOrMore == {KeptLease, KeptTask \cup {CHOOSE l \in KeptLease : TRUE}}
=============================================================================
