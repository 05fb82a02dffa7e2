---------------------------- MODULE MCDeployLive ----------------------------
(***************************************************************************)
(* TLC instance of what has to arrive: the operations of a feature on two  *)
(* targets at their end, and the deployment repository on a node.  They    *)
(* share no state: a behaviour is one of one of them, and the other stays  *)
(* where it begins.                                                        *)
(***************************************************************************)
EXTENDS MCDeployment, Repository

CONSTANTS x1, x2, y1

VARIABLE part

(* What a behaviour of the repository has: two changes of the secret and a *)
(* failure, or any change and a failure, or any change and an operation,   *)
(* or an operation and syncs that overlap, where the row and the seed have *)
(* different configurations.                                               *)
RepositoryBegins ==
    /\ reference # Gone => reference.hash = x1
    /\ \/ part = "secrets" /\ operations = 1 /\ changes = 0 /\ trouble = 0 /\ ~prefixed
                            /\ profile = x2
       \/ part = "repository" /\ operations = 1 /\ changes = 1 /\ trouble = 0
       \/ part = "repository" /\ operations = 0 /\ changes = 1 /\ trouble = 1 /\ ~prefixed
       \/ part = "syncs" /\ operations = 0 /\ changes = 2 /\ trouble = 1 /\ ~prefixed
                          /\ profile = x1 /\ reference = Gone

(* Another sync than y1 begins only while an operation is being created:   *)
(* two that overlap again and again would put the seed's configuration     *)
(* into the bucket again and again.                                        *)
SyncsOverlap ==
    \A y \in Syncer \ {y1} : syncer[y] = IdleSyncer /\ syncer'[y] # IdleSyncer =>
        part = "syncs" /\ operation.step \in {"freeze", "queued"}

(* Where it is in a behaviour of the operations: delivered, and empty.     *)
RepositoryRests ==
    /\ profile = Gone /\ reference = Gone /\ local # EmptyZone /\ ~prefixed
    /\ changes = 0 /\ trouble = 0 /\ operations = 0

LiveInit ==
    /\ part \in {"operations", "secrets", "repository", "syncs"}
    /\ Init
    /\ RepositoryInit /\ IF part = "operations" THEN RepositoryRests ELSE RepositoryBegins

LiveNext ==
    \/ part = "operations" /\ Next /\ UNCHANGED <<part, repositoryVars>>
    \/ part # "operations" /\ RepositoryNext /\ SyncsOverlap /\ UNCHANGED <<part, vars>>
                            /\ (part = "secrets" => UNCHANGED profile)

LiveSpec ==
    /\ LiveInit /\ [][LiveNext]_<<part, vars, repositoryVars>>
    /\ WF_vars(part = "operations" /\ Scheduler)
    /\ \A r \in Req : WF_vars(part = "operations" /\ Handler(r))
    /\ \A w \in Writer : WF_repositoryVars(part # "operations" /\ WriterStep(w))
    /\ WF_repositoryVars(part # "operations" /\ DeleteSecretReference)
    /\ WF_repositoryVars(part # "operations" /\ copySeedRepository(y1))
    /\ \A y \in Syncer : WF_repositoryVars(part # "operations" /\ SyncStep(y))
    /\ WF_repositoryVars(part # "operations" /\ (ListObjects \/ DownloadStep))
    /\ WF_repositoryVars(part # "operations" /\ (FreezeSecrets \/ Dispatch \/ preflight \/ HookEnds))
=============================================================================
