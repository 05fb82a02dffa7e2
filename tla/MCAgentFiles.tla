---------------------------- MODULE MCAgentFiles ----------------------------
(***************************************************************************)
(* TLC instance of what an agent keeps in files: the key lines of leases   *)
(* in authorized_keys, with the control plane they come from, and the      *)
(* rendered releases of a feature.  They share no state: a behaviour is    *)
(* one of one of them, and the other stays where it begins.                *)
(***************************************************************************)
EXTENDS Lease, Runner

VARIABLE part

AgentFilesInit == part \in {"lease", "runner"} /\ Init /\ RunnerInit

AgentFilesNext ==
    \/ part = "lease" /\ Next /\ UNCHANGED <<part, runnerVars>>
    \/ part = "runner" /\ RunnerNext /\ UNCHANGED <<part, vars>>

AgentFilesSpec ==
    /\ AgentFilesInit /\ [][AgentFilesNext]_<<part, vars, runnerVars>>
    /\ WF_vars(part = "lease" /\ Tick) /\ WF_vars(part = "lease" /\ SweepExpired)
    /\ WF_vars(part = "lease" /\ CloseStale)
    /\ \A c \in Call : WF_vars(part = "lease" /\ CallStep(c))
    /\ \A s \in Slot : WF_vars(part = "lease" /\ BeatStep(s))

AllFaults == FaultKind
=============================================================================
