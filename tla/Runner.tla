------------------------------- MODULE Runner -------------------------------
(***************************************************************************)
(* The deployment runner of an agent: the directories of one feature's     *)
(* releases under .servercli-local/rendered/, and the steps in which a     *)
(* task of the runner changes them.  The agent runs one task at a time; it *)
(* may be killed between any two steps.                                    *)
(*                                                                         *)
(* What a task checks before it changes anything (layout, repository,      *)
(* release, hash and signature of the bundle) is one step that may fail.   *)
(* What the hooks do to the machine is not modelled, except that files     *)
(* they create as root may keep the agent from removing a directory.  A    *)
(* task with references to secrets is one created through the task API,    *)
(* with arguments that fit the schema of its command.                      *)
(*                                                                         *)
(* A definition right before the one it alters is that definition with a   *)
(* plausible mistake in it and is not part of RunnerNext.                  *)
(***************************************************************************)
EXTENDS Naturals

CONSTANTS
    Release,   \* versions of the feature
    Missing,   \* no such directory; not a Release
    MaxFault   \* bound: kills, and removals and renames that fail

Kind == {"install", "backup", "rollback", "health"}

(* A release directory: its runtime-config.yaml was written, and copies of *)
(* secrets are under its secrets/.                                         *)
Directory == [config : BOOLEAN, secrets : BOOLEAN]
Extracted == [config |-> FALSE, secrets |-> FALSE]

ASSUME RunnerConstants == Missing \notin Release \cup Directory /\ MaxFault \in Nat

VARIABLES
    rendered,  \* rendered/<version>
    backup,    \* rendered/<version>.old
    task,      \* the task the runner is in
    archives,  \* of the backup archives in OSS: whether one has secret material
    tainted,   \* history: the agent was killed, or a removal or a rename back failed
    faults

runnerVars == <<rendered, backup, task, archives, tainted, faults>>

IdleTask == [kind |-> "health", release |-> Missing, refs |-> FALSE, step |-> "idle",
         moved |-> FALSE, current |-> Missing, packed |-> FALSE]

(* The steps of a task, in the order an install goes through them; "run"   *)
(* is the hook, "refused" a directory switch that failed on a leftover.    *)
Step == {"idle", "check", "moveaway", "movein", "clear", "render", "materialize", "run",
         "cleanup", "upload", "refused"}

(* Entries of rendered/ that ReadDir may return.                           *)
Entry == Release \X {"version", "old"}
At(entry) == IF entry[2] = "version" THEN rendered[entry[1]] ELSE backup[entry[1]]

RunnerTypeOK ==
    /\ rendered \in [Release -> Directory \cup {Missing}]
    /\ backup \in [Release -> Directory \cup {Missing}]
    /\ task \in [kind : Kind, release : Release \cup {Missing}, refs : BOOLEAN, step : Step,
                 moved : BOOLEAN, current : Entry \cup {Missing}, packed : BOOLEAN]
    /\ archives \subseteq BOOLEAN
    /\ tainted \in BOOLEAN
    /\ faults \in 0..MaxFault

RunnerInit ==
    /\ rendered = [v \in Release |-> Missing]
    /\ backup = [v \in Release |-> Missing]
    /\ task = IdleTask
    /\ archives = {}
    /\ tainted = FALSE
    /\ faults = 0

Fault == faults < MaxFault /\ faults' = faults + 1
Taint == Fault /\ tainted' = TRUE
NoFault == UNCHANGED <<tainted, faults>>

Goto(step) == task' = [task EXCEPT !.step = step]
Finish == task' = IdleTask

-----------------------------------------------------------------------------
(* A task arrives; with references to secrets or without.                  *)
Run(k, v, refs) ==
    /\ task = IdleTask
    /\ task' = [IdleTask EXCEPT !.kind = k, !.release = v, !.refs = refs, !.step = "check"]
    /\ UNCHANGED <<rendered, backup, archives>> /\ NoFault

(* The entries that otherRenderedVersion counts: every directory with a    *)
(* rendered configuration that is not named like the version.              *)
OthersNamed(v) == {e \in Entry : e # <<v, "version">> /\ At(e) # Missing}
Others(v) == {e \in OthersNamed(v) : At(e).config}

(* An install goes on to its directories ...                               *)
CheckInstall == task.kind = "install" /\ Goto("moveaway")

(* ... the other tasks need one, a rollback the only other one beside it.  *)
CheckHealth == task.kind = "health" /\ rendered[task.release] # Missing /\ Goto("run")
CheckBackup == task.kind = "backup" /\ rendered[task.release] # Missing /\ Goto("run")

CheckRollback ==
    /\ task.kind = "rollback" /\ rendered[task.release] # Missing
    /\ \E e \in Others(task.release) :
         /\ Others(task.release) = {e}
         /\ task' = [task EXCEPT !.step = "run", !.current = e]

Check ==
    /\ task.step = "check"
    /\ CheckInstall \/ CheckHealth \/ CheckBackup \/ CheckRollback \/ Finish
    /\ UNCHANGED <<rendered, backup, archives>> /\ NoFault

(* SwitchDir: the old directory is renamed, which fails if there is still  *)
(* one of an earlier switch ...                                            *)
MoveAwayByRemoval ==
    /\ task.step = "moveaway"
    /\ rendered' = [rendered EXCEPT ![task.release] = Missing]
    /\ Goto("movein")
    /\ UNCHANGED <<backup, archives>> /\ NoFault

MoveAway ==
    /\ task.step = "moveaway"
    /\ LET v == task.release IN
       \/ /\ rendered[v] = Missing
          /\ Goto("movein")
          /\ UNCHANGED <<rendered, backup>>
       \/ /\ rendered[v] # Missing /\ backup[v] = Missing
          /\ backup' = [backup EXCEPT ![v] = rendered[v]]
          /\ rendered' = [rendered EXCEPT ![v] = Missing]
          /\ task' = [task EXCEPT !.step = "movein", !.moved = TRUE]
       \/ /\ rendered[v] # Missing /\ backup[v] # Missing
          /\ Goto("refused")
          /\ UNCHANGED <<rendered, backup>>
    /\ UNCHANGED archives /\ NoFault

(* ... the staged one takes its place; if that fails the old one goes back *)
(* unless that fails too ...                                               *)
MoveIn ==
    /\ task.step = "movein"
    /\ LET v == task.release IN
       \/ /\ rendered' = [rendered EXCEPT ![v] = Extracted]
          /\ Goto("clear")
          /\ UNCHANGED backup /\ NoFault
       \/ /\ IF task.moved
             THEN /\ rendered' = [rendered EXCEPT ![v] = backup[v]]
                  /\ backup' = [backup EXCEPT ![v] = Missing]
             ELSE UNCHANGED <<rendered, backup>>
          /\ Fault /\ Finish /\ UNCHANGED tainted
       \/ task.moved /\ Taint /\ Finish /\ UNCHANGED <<rendered, backup>>
    /\ UNCHANGED archives

(* ... and the old one is removed, best effort, if this switch moved it.   *)
Clear ==
    /\ task.step = "clear"
    /\ \/ ~task.moved /\ UNCHANGED backup /\ NoFault
       \/ task.moved /\ backup' = [backup EXCEPT ![task.release] = Missing] /\ NoFault
       \/ task.moved /\ UNCHANGED backup /\ Taint
    /\ Goto("render")
    /\ UNCHANGED <<rendered, archives>>

(* A hook that is missing and a configuration that is not the frozen one   *)
(* end the task with the new directory in place.                           *)
writeRuntimeConfig ==
    /\ task.step = "render"
    /\ \/ /\ rendered' = [rendered EXCEPT ![task.release].config = TRUE]
          /\ Goto("materialize")
       \/ Finish /\ UNCHANGED rendered
    /\ UNCHANGED <<backup, archives>> /\ NoFault

(* From here on the copies are removed at the end, also of a failure half  *)
(* way through the references.                                             *)
materializeSecrets ==
    /\ task.step = "materialize"
    /\ rendered' = [rendered EXCEPT ![task.release].secrets = task.refs]
    /\ Goto("run") \/ (task.refs /\ Goto("cleanup"))
    /\ UNCHANGED <<backup, archives>> /\ NoFault

(* The hook ends: well, badly, by the timeout or by a cancellation.  Only  *)
(* that of an install has copies to clean up.  That of a backup has packed *)
(* an archive, of its data or of all its directory: packed is whether a    *)
(* copy of a secret is in it.                                              *)
Packable == {FALSE, rendered[task.release].secrets}
BackupPacked ==
    /\ task.kind = "backup"
    /\ \E packed \in Packable : task' = [task EXCEPT !.step = "upload", !.packed = packed]

runHookEndsTaskIfCancelled ==
    /\ task.step = "run"
    /\ \/ task.kind = "install" /\ Goto("cleanup")
       \/ BackupPacked
       \/ Finish
    /\ UNCHANGED <<rendered, backup, archives>> /\ NoFault

runHook ==
    /\ task.step = "run"
    /\ \/ task.kind = "install" /\ Goto("cleanup")
       \/ BackupPacked
       \/ task.kind # "install" /\ Finish
    /\ UNCHANGED <<rendered, backup, archives>> /\ NoFault

cleanupMaterializedSecrets ==
    /\ task.step = "cleanup"
    /\ \/ /\ rendered' = [rendered EXCEPT ![task.release].secrets = FALSE]
          /\ NoFault
       \/ task.refs /\ UNCHANGED rendered /\ Taint
    /\ Finish
    /\ UNCHANGED <<backup, archives>>

(* An archive with a member under secrets/ is not uploaded; of the others  *)
(* the upload may fail.                                                    *)
backupContainsSecrets == task.packed

UploadUnscanned ==
    /\ task.step = "upload"
    /\ archives' = archives \cup {task.packed}
    /\ Finish
    /\ UNCHANGED <<rendered, backup>> /\ NoFault

Upload ==
    /\ task.step = "upload"
    /\ \/ ~backupContainsSecrets /\ archives' = archives \cup {task.packed}
       \/ UNCHANGED archives
    /\ Finish
    /\ UNCHANGED <<rendered, backup>> /\ NoFault

Refused ==
    /\ task.step = "refused"
    /\ Finish
    /\ UNCHANGED <<rendered, backup, archives>> /\ NoFault

(* The agent is killed; the directories stay as they are.                  *)
Kill ==
    /\ task # IdleTask
    /\ Taint /\ Finish
    /\ UNCHANGED <<rendered, backup, archives>>

RunnerNext ==
    \/ \E k \in Kind, v \in Release, refs \in BOOLEAN : Run(k, v, refs)
    \/ Check \/ MoveAway \/ MoveIn \/ Clear \/ writeRuntimeConfig \/ materializeSecrets
    \/ runHook \/ cleanupMaterializedSecrets \/ Upload \/ Refused
    \/ Kill

RunnerSpec == RunnerInit /\ [][RunnerNext]_runnerVars

-----------------------------------------------------------------------------
(* Plain copies of secrets do not outlive their task, however it ends:     *)
(* only a killed agent, or a removal that fails, leaves one.               *)
SecretsTransient ==
    task = IdleTask /\ ~tainted =>
        \A e \in Entry : At(e) # Missing => ~At(e).secrets

(* A release that was once rendered is never gone, wherever in SwitchDir   *)
(* the agent is killed: it, or the one that replaced it, is under its name *)
(* or is the backup.                                                       *)
Rendered(v) == rendered[v] # Missing \/ backup[v] # Missing
NothingLost == [][\A v \in Release : Rendered(v) => Rendered(v)']_runnerVars

(* No archive with secret material reaches the bucket, also if a killed    *)
(* agent left copies in the directory a later backup packs.                *)
ArchivesClean == TRUE \notin archives

(* Secrets stay in the directories of running tasks.                       *)
SecretsContained == SecretsTransient /\ ArchivesClean

(* A release can be installed again and again: the switch finds a leftover *)
(* in its way only after a kill or a removal that failed.                  *)
SwitchRepeats == task.step = "refused" => tainted

(* A rollback's hook is told of one other release, and of one that was     *)
(* rendered to the end, as the current one; never of a leftover unless     *)
(* there was a kill or a removal that failed.                              *)
RollbackSound ==
    task.kind = "rollback" /\ task.step = "run" =>
        /\ At(task.current).config
        /\ tainted \/ (task.current[2] = "version" /\ task.current[1] # task.release)

(* What a switch leaves behind never misleads a later task, unless it was  *)
(* a kill or a removal that failed.                                        *)
LeftoversHarmless == SwitchRepeats /\ RollbackSound
=============================================================================
