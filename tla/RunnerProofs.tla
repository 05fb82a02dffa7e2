---------------------------- MODULE RunnerProofs ----------------------------
(***************************************************************************)
(* What Runner.tla guarantees for any set of releases and any number of    *)
(* faults: its type, that no release is lost, that secrets do not stay     *)
(* behind, and that what a switch leaves never misleads a later task.      *)
(*                                                                         *)
(* The properties speak of the moments between tasks; the invariant says   *)
(* where in a task a backup directory, a copy of a secret and a directory  *)
(* that has to be there may be found.                                      *)
(***************************************************************************)
EXTENDS Runner, TLAPS

(* A task has a release, and only an install goes through the switch.      *)
TaskOK ==
    /\ task.step # "idle" => task.release \in Release
    /\ task.step \in {"moveaway", "movein", "clear", "render", "materialize", "cleanup"} =>
         task.kind = "install"
    /\ task.step \in {"check", "moveaway"} => ~task.moved

(* The directory a task works in is there, and a switch that moved the old *)
(* one away still has it.                                                  *)
PlaceOK ==
    /\ task.step \in {"clear", "render", "materialize", "run", "cleanup", "upload"} =>
         rendered[task.release] # Missing
    /\ task.step = "movein" /\ task.moved => backup[task.release] # Missing

(* Unless there was a fault, a backup is the one of a switch in progress.  *)
BackupsOK ==
    \A v \in Release :
        ~tainted /\ backup[v] # Missing =>
            task.step \in {"movein", "clear"} /\ task.moved /\ v = task.release

(* Unless there was a fault, a copy of a secret is one of a task that has  *)
(* yet to clean up.                                                        *)
SecretsOK ==
    ~tainted =>
        /\ \A v \in Release : backup[v] # Missing => ~backup[v].secrets
        /\ \A v \in Release :
             rendered[v] # Missing /\ rendered[v].secrets =>
                 task.step \in {"run", "cleanup"} /\ task.kind = "install" /\ v = task.release

RollbackOK ==
    task.kind = "rollback" /\ task.step = "run" =>
        /\ task.current \in Entry
        /\ At(task.current) # Missing
        /\ At(task.current).config
        /\ tainted \/ (task.current[2] = "version" /\ task.current[1] # task.release)

IInv ==
    /\ RunnerTypeOK
    /\ TaskOK /\ PlaceOK /\ BackupsOK /\ SecretsOK /\ RollbackOK
    /\ SwitchRepeats /\ ArchivesClean

TaskRec == [kind : Kind, release : Release \cup {Missing}, refs : BOOLEAN, step : Step,
            moved : BOOLEAN, current : Entry \cup {Missing}, packed : BOOLEAN]

-----------------------------------------------------------------------------
(* The idle task is one, and going on changes only the step of a task.     *)
LEMMA Tasks ==
    /\ IdleTask \in TaskRec /\ IdleTask.step = "idle" /\ IdleTask.kind = "health"
    /\ \A t \in TaskRec, step \in Step :
         LET u == [t EXCEPT !.step = step] IN
         /\ u \in TaskRec /\ u.step = step /\ u.kind = t.kind /\ u.release = t.release
         /\ u.refs = t.refs /\ u.moved = t.moved /\ u.current = t.current
  <1>1. IdleTask \in TaskRec
    BY DEF IdleTask, TaskRec, Kind, Step
  <1>2. IdleTask.step = "idle" /\ IdleTask.kind = "health"
    BY DEF IdleTask
  <1>3. ASSUME NEW t \in TaskRec, NEW step \in Step
        PROVE  LET u == [t EXCEPT !.step = step] IN
               /\ u \in TaskRec /\ u.step = step /\ u.kind = t.kind /\ u.release = t.release
               /\ u.refs = t.refs /\ u.moved = t.moved /\ u.current = t.current
    BY DEF TaskRec
  <1> QED
    BY <1>1, <1>2, <1>3

(* A freshly extracted directory has neither configuration nor secrets.    *)
LEMMA Fresh ==
    Extracted \in Directory /\ Extracted # Missing /\ ~Extracted.secrets
  <1>1. Extracted \in Directory
    BY DEF Extracted, Directory
  <1>2. ~Extracted.secrets
    BY DEF Extracted
  <1> QED
    BY <1>1, <1>2, RunnerConstants

(* Faults are counted, and a taint stays.                                  *)
LEMMA Faulting ==
    ASSUME RunnerTypeOK, Taint \/ NoFault \/ (Fault /\ UNCHANGED tainted)
    PROVE  tainted' \in BOOLEAN /\ faults' \in 0..MaxFault /\ (tainted => tainted')
  <1>1. tainted' = TRUE \/ tainted' = tainted
    BY DEF Taint, NoFault
  <1>2. tainted' \in BOOLEAN /\ (tainted => tainted')
    BY <1>1 DEF RunnerTypeOK
  <1>3. faults' \in 0..MaxFault
    BY RunnerConstants DEF RunnerTypeOK, Taint, NoFault, Fault
  <1> QED
    BY <1>2, <1>3

(* A task that ends leaves an invariant state, if nobody misses its        *)
(* clean-up.                                                               *)
LEMMA Ending ==
    ASSUME IInv, Finish, Taint \/ NoFault \/ (Fault /\ UNCHANGED tainted),
           rendered' \in [Release -> Directory \cup {Missing}],
           backup' \in [Release -> Directory \cup {Missing}],
           archives' \subseteq {FALSE},
           tainted' \/ \A v \in Release :
             /\ backup'[v] = Missing
             /\ rendered'[v] # Missing => ~rendered'[v].secrets
    PROVE  IInv'
  <1> USE Tasks DEF Finish
  <1>1. RunnerTypeOK'
    BY Faulting DEF IInv, RunnerTypeOK, TaskRec
  <1>2. TaskOK' /\ PlaceOK' /\ RollbackOK' /\ SwitchRepeats'
    BY DEF TaskOK, PlaceOK, RollbackOK, SwitchRepeats
  <1>3. BackupsOK' /\ SecretsOK'
    BY DEF BackupsOK, SecretsOK
  <1>4. ArchivesClean'
    BY DEF ArchivesClean
  <1> QED
    BY <1>1, <1>2, <1>3, <1>4 DEF IInv

(* A task that goes on to another step.                                    *)
LEMMA GoingOn ==
    ASSUME IInv, NEW step \in Step, Goto(step)
    PROVE  /\ task' \in TaskRec /\ task'.step = step
           /\ UNCHANGED <<task.kind, task.release, task.refs, task.moved, task.current>>
  BY Tasks DEF Goto, IInv, RunnerTypeOK, TaskRec

-----------------------------------------------------------------------------
(* A new task.                                                             *)
LEMMA Arriving ==
    ASSUME IInv, NEW k \in Kind, NEW v \in Release, NEW refs \in BOOLEAN, Run(k, v, refs)
    PROVE  IInv'
  <1>1. task' = [kind |-> k, release |-> v, refs |-> refs, step |-> "check",
                 moved |-> FALSE, current |-> Missing, packed |-> FALSE]
    BY DEF Run, IdleTask
  <1>2. task' \in TaskRec
    BY <1>1 DEF TaskRec, Step
  <1>3. task'.step = "check" /\ task'.release = v /\ ~task'.moved /\ task.step = "idle"
    <2>1. task'.step = "check" /\ task'.release = v /\ ~task'.moved
      BY <1>1
    <2> QED
      BY <2>1, Tasks DEF Run
  <1>4. UNCHANGED <<rendered, backup, archives, tainted, faults>>
    BY DEF Run, NoFault
  <1>5. RunnerTypeOK'
    BY <1>2, <1>4 DEF IInv, RunnerTypeOK, TaskRec
  <1>6. TaskOK' /\ PlaceOK' /\ RollbackOK' /\ SwitchRepeats'
    BY <1>3 DEF TaskOK, PlaceOK, RollbackOK, SwitchRepeats
  <1>7. BackupsOK' /\ SecretsOK'
    BY <1>3, <1>4 DEF IInv, BackupsOK, SecretsOK
  <1> QED
    BY <1>4, <1>5, <1>6, <1>7 DEF IInv, ArchivesClean

(* A check that succeeds leaves the directories as they are.               *)
LEMMA Checking ==
    ASSUME IInv, Check
    PROVE  IInv'
  <1>9. /\ rendered' = rendered /\ backup' = backup /\ archives' = archives
        /\ tainted' = tainted /\ faults' = faults
    BY DEF Check, NoFault
  <1>1. task.step = "check" /\ task.release \in Release /\ "run" \in Step /\ "moveaway" \in Step
    BY DEF Check, IInv, TaskOK, Step
  <1>2. tainted \/ \A v \in Release : /\ backup[v] = Missing
                                      /\ rendered[v] # Missing => ~rendered[v].secrets
    BY <1>1 DEF IInv, BackupsOK, SecretsOK
  <1>3. archives \subseteq {FALSE}
    BY DEF IInv, RunnerTypeOK, ArchivesClean
  <1>4. CASE Finish
    <2>1. tainted' \/ \A v \in Release : /\ backup'[v] = Missing
                                         /\ rendered'[v] # Missing => ~rendered'[v].secrets
      BY <1>2, <1>9
    <2>2. /\ rendered' \in [Release -> Directory \cup {Missing}]
          /\ backup' \in [Release -> Directory \cup {Missing}]
          /\ archives' \subseteq {FALSE}
      BY <1>3, <1>9 DEF IInv, RunnerTypeOK
    <2> QED
      BY <1>4, <1>9, <2>1, <2>2, Ending DEF NoFault
  <1>5. ASSUME task' \in TaskRec, task'.kind = task.kind, task'.release = task.release,
               task'.moved = task.moved,
               \/ task'.step = "moveaway" /\ task.kind = "install"
               \/ task'.step = "run" /\ rendered[task.release] # Missing /\ RollbackOK'
        PROVE  IInv'
    <2>1. RunnerTypeOK'
      BY <1>5, <1>9 DEF IInv, RunnerTypeOK, TaskRec
    <2>2. TaskOK' /\ PlaceOK' /\ RollbackOK' /\ SwitchRepeats'
      BY <1>1, <1>5, <1>9 DEF IInv, TaskOK, PlaceOK, RollbackOK, SwitchRepeats
    <2>3. BackupsOK'
      BY <1>2, <1>9 DEF BackupsOK
    <2>4. SecretsOK'
      BY <1>2, <1>9 DEF SecretsOK
    <2> QED
      BY <2>1, <2>2, <2>3, <2>4, <1>9 DEF IInv, ArchivesClean
  <1>6. CASE CheckInstall
    BY <1>1, <1>5, <1>6, GoingOn DEF CheckInstall
  <1>7. CASE CheckHealth \/ CheckBackup
    <2>1. task'.kind # "rollback" /\ task'.step = "run" /\ task' \in TaskRec
          /\ task'.kind = task.kind /\ task'.release = task.release /\ task'.moved = task.moved
      BY <1>1, <1>7, GoingOn DEF CheckHealth, CheckBackup
    <2> QED
      BY <1>5, <1>7, <2>1 DEF CheckHealth, CheckBackup, RollbackOK
  <1>8. CASE CheckRollback
    <2>1. PICK e \in Others(task.release) :
            task' = [task EXCEPT !.step = "run", !.current = e]
      BY <1>8 DEF CheckRollback
    <2>2. e \in Entry /\ e # <<task.release, "version">> /\ At(e) # Missing /\ At(e).config
      BY <2>1 DEF Others, OthersNamed
    <2>3. /\ task' \in TaskRec /\ task'.kind = task.kind /\ task'.release = task.release
          /\ task'.step = "run" /\ task'.current = e /\ task'.moved = task.moved
      BY <1>1, <2>1, <2>2 DEF IInv, RunnerTypeOK, TaskRec
    <2>4. tainted \/ (e[2] = "version" /\ e[1] # task.release)
      <3>1. PICK v \in Release, w \in {"version", "old"} : e = <<v, w>>
        BY <2>2 DEF Entry
      <3>2. w = "version" => v # task.release
        BY <2>2, <3>1
      <3>3. w = "old" => backup[v] # Missing
        BY <2>2, <3>1 DEF At
      <3> QED
        BY <1>2, <3>1, <3>2, <3>3
    <2>5. At(e)' = At(e)
      BY <1>9 DEF At
    <2>6. RollbackOK'
      BY <1>9, <2>2, <2>3, <2>4, <2>5 DEF RollbackOK, Entry
    <2> QED
      BY <1>5, <1>8, <2>3, <2>6 DEF CheckRollback
  <1> QED
    BY <1>4, <1>6, <1>7, <1>8 DEF Check

(* What is left to show of a step that goes on in the same task.           *)
LEMMA Continuing ==
    ASSUME IInv, task' \in TaskRec, task.step # "idle",
           task'.release = task.release, task'.kind = task.kind,
           task'.step \notin {"idle", "check", "moveaway"},
           task'.step \in {"movein", "clear", "render", "materialize", "cleanup"} =>
             task.kind = "install",
           task'.kind = "rollback" => task'.step # "run",
           rendered' \in [Release -> Directory \cup {Missing}],
           backup' \in [Release -> Directory \cup {Missing}],
           UNCHANGED archives, Taint \/ NoFault, PlaceOK', SwitchRepeats',
           ~tainted' => BackupsOK' /\ SecretsOK'
    PROVE  IInv'
  <1>1. RunnerTypeOK'
    BY Faulting DEF IInv, RunnerTypeOK, TaskRec
  <1>2. TaskOK' /\ RollbackOK'
    BY DEF IInv, TaskOK, RollbackOK
  <1>3. BackupsOK' /\ SecretsOK'
    BY DEF BackupsOK, SecretsOK
  <1> QED
    BY <1>1, <1>2, <1>3 DEF IInv, ArchivesClean

(* The switch.                                                             *)
LEMMA MovingAway ==
    ASSUME IInv, MoveAway
    PROVE  IInv'
  <1>1. PICK v \in Release : /\ v = task.release /\ task.step = "moveaway"
                             /\ task.kind = "install" /\ task.moved = FALSE
    BY DEF MoveAway, IInv, TaskOK, RunnerTypeOK
  <1>2. UNCHANGED <<archives, tainted, faults>> /\ NoFault
    BY DEF MoveAway, NoFault
  <1>3. "movein" \in Step /\ "refused" \in Step
    BY DEF Step
  <1>4. ~tainted => \A u \in Release : /\ backup[u] = Missing
                                       /\ rendered[u] # Missing => ~rendered[u].secrets
    BY <1>1 DEF IInv, BackupsOK, SecretsOK
  <1>5. /\ rendered \in [Release -> Directory \cup {Missing}]
        /\ backup \in [Release -> Directory \cup {Missing}]
    BY DEF IInv, RunnerTypeOK
  <1>6. CASE rendered[v] = Missing /\ Goto("movein") /\ UNCHANGED <<rendered, backup>>
    <2>1. /\ task' \in TaskRec /\ task'.step = "movein" /\ task'.release = v
          /\ task'.kind = "install" /\ task'.moved = FALSE
      BY <1>1, <1>3, <1>6, GoingOn
    <2>2. PlaceOK' /\ SwitchRepeats'
      BY <2>1 DEF PlaceOK, SwitchRepeats
    <2>3. ~tainted' => BackupsOK' /\ SecretsOK'
      BY <1>2, <1>4, <1>6 DEF BackupsOK, SecretsOK
    <2> QED
      BY <1>1, <1>2, <1>5, <1>6, <2>1, <2>2, <2>3, Continuing
  <1>7. CASE /\ rendered[v] # Missing /\ backup[v] = Missing
             /\ backup' = [backup EXCEPT ![v] = rendered[v]]
             /\ rendered' = [rendered EXCEPT ![v] = Missing]
             /\ task' = [task EXCEPT !.step = "movein", !.moved = TRUE]
    <2>1. /\ task' \in TaskRec /\ task'.step = "movein" /\ task'.release = v
          /\ task'.kind = "install" /\ task'.moved = TRUE
      BY <1>1, <1>3, <1>7 DEF IInv, RunnerTypeOK, TaskRec
    <2>2. /\ rendered' \in [Release -> Directory \cup {Missing}]
          /\ backup' \in [Release -> Directory \cup {Missing}]
          /\ \A u \in Release : backup'[u] = IF u = v THEN rendered[v] ELSE backup[u]
          /\ \A u \in Release : rendered'[u] = IF u = v THEN Missing ELSE rendered[u]
      BY <1>5, <1>7
    <2>3. PlaceOK' /\ SwitchRepeats'
      BY <1>7, <2>1, <2>2 DEF PlaceOK, SwitchRepeats
    <2>4. ~tainted' => BackupsOK'
      BY <1>2, <1>4, <2>1, <2>2 DEF BackupsOK
    <2>5. ~tainted' => SecretsOK'
      BY <1>2, <1>4, <2>1, <2>2 DEF SecretsOK
    <2> QED
      BY <1>1, <1>2, <2>1, <2>2, <2>3, <2>4, <2>5, Continuing
  <1>8. CASE backup[v] # Missing /\ Goto("refused") /\ UNCHANGED <<rendered, backup>>
    <2>1. /\ task' \in TaskRec /\ task'.step = "refused" /\ task'.release = v
          /\ task'.kind = "install"
      BY <1>1, <1>3, <1>8, GoingOn
    <2>2. tainted /\ tainted'
      BY <1>2, <1>4, <1>8
    <2>3. PlaceOK' /\ SwitchRepeats'
      BY <2>1, <2>2 DEF PlaceOK, SwitchRepeats
    <2> QED
      BY <1>1, <1>2, <1>5, <1>8, <2>1, <2>2, <2>3, Continuing
  <1> QED
    BY <1>1, <1>6, <1>7, <1>8 DEF MoveAway

(* The new directory takes its place, or the old one goes back.            *)
LEMMA MovingIn ==
    ASSUME IInv, MoveIn
    PROVE  IInv'
  <1>1. PICK v \in Release : v = task.release /\ task.step = "movein" /\ task.kind = "install"
    BY DEF MoveIn, IInv, TaskOK
  <1>2. UNCHANGED archives /\ archives' \subseteq {FALSE}
    BY DEF MoveIn, IInv, RunnerTypeOK, ArchivesClean
  <1>3. /\ rendered \in [Release -> Directory \cup {Missing}]
        /\ backup \in [Release -> Directory \cup {Missing}]
    BY DEF IInv, RunnerTypeOK
  <1>4. ~tainted => \A u \in Release : /\ backup[u] # Missing => u = v /\ task.moved
                                       /\ backup[u] # Missing => ~backup[u].secrets
                                       /\ rendered[u] # Missing => ~rendered[u].secrets
    BY <1>1 DEF IInv, BackupsOK, SecretsOK
  <1>5. CASE /\ rendered' = [rendered EXCEPT ![v] = Extracted]
             /\ Goto("clear") /\ UNCHANGED backup /\ NoFault
    <2>1. /\ task' \in TaskRec /\ task'.step = "clear" /\ task'.release = v
          /\ task'.kind = "install" /\ task'.moved = task.moved
      BY <1>1, <1>5, GoingOn DEF Step
    <2>2. /\ rendered' \in [Release -> Directory \cup {Missing}]
          /\ \A u \in Release : rendered'[u] = IF u = v THEN Extracted ELSE rendered[u]
      BY <1>3, <1>5, Fresh
    <2>3. PlaceOK' /\ SwitchRepeats'
      BY <2>1, <2>2, Fresh DEF PlaceOK, SwitchRepeats
    <2>4. ~tainted' => BackupsOK'
      BY <1>4, <1>5, <2>1 DEF BackupsOK, NoFault
    <2>5. ~tainted' => SecretsOK'
      BY <1>4, <1>5, <2>1, <2>2, Fresh DEF SecretsOK, NoFault
    <2> QED
      BY <1>1, <1>2, <1>3, <1>5, <2>1, <2>2, <2>3, <2>4, <2>5, Continuing
  <1>6. CASE /\ IF task.moved
                THEN /\ rendered' = [rendered EXCEPT ![v] = backup[v]]
                     /\ backup' = [backup EXCEPT ![v] = Missing]
                ELSE UNCHANGED <<rendered, backup>>
             /\ Fault /\ Finish /\ UNCHANGED tainted
    <2>1. /\ rendered' \in [Release -> Directory \cup {Missing}]
          /\ backup' \in [Release -> Directory \cup {Missing}]
      BY <1>3, <1>6
    <2>2. tainted' \/ \A u \in Release :
            /\ backup'[u] = Missing
            /\ rendered'[u] # Missing => ~rendered'[u].secrets
      <3>1. CASE task.moved
        BY <1>3, <1>4, <1>6, <3>1
      <3>2. CASE ~task.moved
        BY <1>4, <1>6, <3>2
      <3> QED
        BY <3>1, <3>2
    <2> QED
      BY <1>2, <1>6, <2>1, <2>2, Ending
  <1>7. CASE Taint /\ Finish /\ UNCHANGED <<rendered, backup>>
    <2>1. tainted'
      BY <1>7 DEF Taint
    <2> QED
      BY <1>2, <1>3, <1>7, <2>1, Ending
  <1> QED
    BY <1>1, <1>5, <1>6, <1>7 DEF MoveIn

(* The old directory goes, or the task is tainted.                         *)
LEMMA Clearing ==
    ASSUME IInv, Clear
    PROVE  IInv'
  <1>1. PICK v \in Release : /\ v = task.release /\ task.step = "clear"
                             /\ task.kind = "install" /\ rendered[v] # Missing
    BY DEF Clear, IInv, TaskOK, PlaceOK
  <1>2. UNCHANGED <<rendered, archives>>
    BY DEF Clear
  <1>3. /\ task' \in TaskRec /\ task'.step = "render" /\ task'.release = v
        /\ task'.kind = "install" /\ task'.moved = task.moved
    BY <1>1, GoingOn DEF Clear, Step
  <1>4. /\ rendered \in [Release -> Directory \cup {Missing}]
        /\ backup \in [Release -> Directory \cup {Missing}]
    BY DEF IInv, RunnerTypeOK
  <1>5. ~tainted => \A u \in Release : /\ backup[u] # Missing => u = v /\ task.moved
                                       /\ rendered[u] # Missing => ~rendered[u].secrets
    BY <1>1 DEF IInv, BackupsOK, SecretsOK
  <1>6. PlaceOK' /\ SwitchRepeats'
    BY <1>1, <1>2, <1>3 DEF PlaceOK, SwitchRepeats
  <1>7. CASE ~task.moved /\ UNCHANGED backup /\ NoFault
    <2>1. ~tainted' => BackupsOK' /\ SecretsOK'
      BY <1>2, <1>5, <1>7 DEF BackupsOK, SecretsOK, NoFault
    <2> QED
      BY <1>1, <1>2, <1>3, <1>4, <1>6, <1>7, <2>1, Continuing
  <1>8. CASE backup' = [backup EXCEPT ![v] = Missing] /\ NoFault
    <2>1. /\ backup' \in [Release -> Directory \cup {Missing}]
          /\ \A u \in Release : backup'[u] = IF u = v THEN Missing ELSE backup[u]
      BY <1>4, <1>8
    <2>2. ~tainted' => BackupsOK' /\ SecretsOK'
      BY <1>2, <1>5, <1>8, <2>1 DEF BackupsOK, SecretsOK, NoFault
    <2> QED
      BY <1>1, <1>2, <1>3, <1>4, <1>6, <1>8, <2>1, <2>2, Continuing
  <1>9. CASE UNCHANGED backup /\ Taint
    <2>1. tainted'
      BY <1>9 DEF Taint
    <2> QED
      BY <1>1, <1>2, <1>3, <1>4, <1>6, <1>9, <2>1, Continuing
  <1> QED
    BY <1>1, <1>7, <1>8, <1>9 DEF Clear

(* The configuration, then the secrets, then the hook.                     *)
LEMMA Rendering ==
    ASSUME IInv, writeRuntimeConfig
    PROVE  IInv'
  <1>1. PICK v \in Release : /\ v = task.release /\ task.step = "render"
                             /\ task.kind = "install" /\ rendered[v] # Missing
    BY DEF writeRuntimeConfig, IInv, TaskOK, PlaceOK
  <1>2. UNCHANGED <<backup, archives>> /\ NoFault /\ archives' \subseteq {FALSE}
    BY DEF writeRuntimeConfig, IInv, RunnerTypeOK, ArchivesClean
  <1>3. /\ rendered \in [Release -> Directory \cup {Missing}]
        /\ backup \in [Release -> Directory \cup {Missing}]
    BY DEF IInv, RunnerTypeOK
  <1>4. ~tainted => \A u \in Release : /\ backup[u] = Missing
                                       /\ rendered[u] # Missing => ~rendered[u].secrets
    BY <1>1 DEF IInv, BackupsOK, SecretsOK
  <1>5. CASE Finish /\ UNCHANGED rendered
    <2>1. tainted' \/ \A u \in Release : /\ backup'[u] = Missing
                                         /\ rendered'[u] # Missing => ~rendered'[u].secrets
      BY <1>2, <1>4, <1>5 DEF NoFault
    <2> QED
      BY <1>2, <1>3, <1>5, <2>1, Ending
  <1>6. CASE rendered' = [rendered EXCEPT ![v].config = TRUE] /\ Goto("materialize")
    <2>1. /\ task' \in TaskRec /\ task'.step = "materialize" /\ task'.release = v
          /\ task'.kind = "install"
      BY <1>1, <1>6, GoingOn DEF Step
    <2>2. /\ [rendered[v] EXCEPT !.config = TRUE] \in Directory
          /\ [rendered[v] EXCEPT !.config = TRUE].secrets = rendered[v].secrets
      BY <1>1, <1>3 DEF Directory
    <2>3. /\ rendered' \in [Release -> Directory \cup {Missing}] /\ rendered'[v] # Missing
          /\ \A u \in Release : rendered'[u] = IF u = v THEN [rendered[v] EXCEPT !.config = TRUE]
                                                        ELSE rendered[u]
      BY <1>3, <1>6, <2>2, RunnerConstants
    <2>4. PlaceOK' /\ SwitchRepeats'
      BY <2>1, <2>3 DEF PlaceOK, SwitchRepeats
    <2>5. ~tainted' => BackupsOK'
      BY <1>2, <1>4 DEF BackupsOK, NoFault
    <2>6. ~tainted' => SecretsOK'
      BY <1>1, <1>2, <1>4, <2>2, <2>3 DEF SecretsOK, NoFault
    <2> QED
      BY <1>1, <1>2, <1>3, <2>1, <2>3, <2>4, <2>5, <2>6, Continuing
  <1> QED
    BY <1>1, <1>5, <1>6 DEF writeRuntimeConfig

(* Copies are made in the directory of the task only.                      *)
LEMMA Materializing ==
    ASSUME IInv, materializeSecrets
    PROVE  IInv'
  <1>1. PICK v \in Release : /\ v = task.release /\ task.step = "materialize"
                             /\ task.kind = "install" /\ rendered[v] # Missing
    BY DEF materializeSecrets, IInv, TaskOK, PlaceOK
  <1>2. UNCHANGED <<backup, archives>> /\ NoFault
    BY DEF materializeSecrets
  <1>3. /\ rendered \in [Release -> Directory \cup {Missing}]
        /\ backup \in [Release -> Directory \cup {Missing}]
    BY DEF IInv, RunnerTypeOK
  <1>4. ~tainted => \A u \in Release : /\ backup[u] = Missing
                                       /\ rendered[u] # Missing => ~rendered[u].secrets
    BY <1>1 DEF IInv, BackupsOK, SecretsOK
  <1>5. /\ task' \in TaskRec /\ task'.step \in {"run", "cleanup"} /\ task'.release = v
        /\ task'.kind = "install"
    BY <1>1, GoingOn DEF materializeSecrets, Step
  <1>6. [rendered[v] EXCEPT !.secrets = task.refs] \in Directory
    BY <1>1, <1>3 DEF Directory, IInv, RunnerTypeOK
  <1>7. /\ rendered' \in [Release -> Directory \cup {Missing}] /\ rendered'[v] # Missing
        /\ \A u \in Release : u # v => rendered'[u] = rendered[u]
    BY <1>1, <1>3, <1>6, RunnerConstants DEF materializeSecrets
  <1>8. PlaceOK' /\ SwitchRepeats'
    BY <1>5, <1>7 DEF PlaceOK, SwitchRepeats
  <1>9. ~tainted' => BackupsOK' /\ SecretsOK'
    BY <1>2, <1>4, <1>5, <1>7 DEF BackupsOK, SecretsOK, NoFault
  <1> QED
    BY <1>1, <1>2, <1>3, <1>5, <1>7, <1>8, <1>9, Continuing

(* The hook of an install leads to the cleaning up of its copies.          *)
LEMMA Hooking ==
    ASSUME IInv, runHook
    PROVE  IInv'
  <1>1. PICK v \in Release : v = task.release /\ task.step = "run" /\ rendered[v] # Missing
    BY DEF runHook, IInv, TaskOK, PlaceOK
  <1>2. UNCHANGED <<rendered, backup, archives>> /\ NoFault /\ archives' \subseteq {FALSE}
    BY DEF runHook, IInv, RunnerTypeOK, ArchivesClean
  <1>3. /\ rendered \in [Release -> Directory \cup {Missing}]
        /\ backup \in [Release -> Directory \cup {Missing}]
    BY DEF IInv, RunnerTypeOK
  <1>4. ~tainted => \A u \in Release :
          /\ backup[u] = Missing
          /\ rendered[u] # Missing /\ rendered[u].secrets => u = v /\ task.kind = "install"
    BY <1>1 DEF IInv, BackupsOK, SecretsOK
  <1>5. CASE task.kind = "install" /\ Goto("cleanup")
    <2>1. /\ task' \in TaskRec /\ task'.step = "cleanup" /\ task'.release = v
          /\ task'.kind = "install"
      BY <1>1, <1>5, GoingOn DEF Step
    <2>2. PlaceOK' /\ SwitchRepeats'
      BY <1>1, <1>2, <2>1 DEF PlaceOK, SwitchRepeats
    <2>3. ~tainted' => BackupsOK' /\ SecretsOK'
      BY <1>2, <1>4, <2>1 DEF BackupsOK, SecretsOK, NoFault
    <2> QED
      BY <1>1, <1>2, <1>3, <1>5, <2>1, <2>2, <2>3, Continuing
  <1>6. CASE BackupPacked
    <2>0. PICK packed \in BOOLEAN : task' = [task EXCEPT !.step = "upload", !.packed = packed]
      BY <1>1, <1>3, <1>6 DEF BackupPacked, Packable, Directory
    <2>1. /\ task' \in TaskRec /\ task'.step = "upload" /\ task'.release = v
          /\ task'.kind = "backup" /\ task.kind = "backup"
      BY <1>1, <1>6, <2>0 DEF BackupPacked, IInv, RunnerTypeOK, TaskRec, Step
    <2>2. PlaceOK' /\ SwitchRepeats'
      BY <1>1, <1>2, <2>1 DEF PlaceOK, SwitchRepeats
    <2>3. ~tainted' => BackupsOK' /\ SecretsOK'
      BY <1>2, <1>4, <2>1 DEF BackupsOK, SecretsOK, NoFault
    <2> QED
      BY <1>1, <1>2, <1>3, <2>1, <2>2, <2>3, Continuing
  <1>7. CASE task.kind # "install" /\ Finish
    <2>1. tainted' \/ \A u \in Release : /\ backup'[u] = Missing
                                         /\ rendered'[u] # Missing => ~rendered'[u].secrets
      BY <1>2, <1>4, <1>7 DEF NoFault
    <2> QED
      BY <1>2, <1>3, <1>7, <2>1, Ending
  <1> QED
    BY <1>5, <1>6, <1>7 DEF runHook

(* The ends of a task.                                                     *)
LEMMA CleaningUp ==
    ASSUME IInv, cleanupMaterializedSecrets
    PROVE  IInv'
  <1>1. PICK v \in Release : /\ v = task.release /\ task.step = "cleanup"
                             /\ rendered[v] # Missing
    BY DEF cleanupMaterializedSecrets, IInv, TaskOK, PlaceOK
  <1>2. UNCHANGED <<backup, archives>> /\ Finish /\ archives' \subseteq {FALSE}
    BY DEF cleanupMaterializedSecrets, IInv, RunnerTypeOK, ArchivesClean
  <1>3. /\ rendered \in [Release -> Directory \cup {Missing}]
        /\ backup \in [Release -> Directory \cup {Missing}]
    BY DEF IInv, RunnerTypeOK
  <1>4. ~tainted => \A u \in Release :
          /\ backup[u] = Missing
          /\ rendered[u] # Missing /\ rendered[u].secrets => u = v
    BY <1>1 DEF IInv, BackupsOK, SecretsOK
  <1>5. CASE rendered' = [rendered EXCEPT ![v].secrets = FALSE] /\ NoFault
    <2>1. /\ [rendered[v] EXCEPT !.secrets = FALSE] \in Directory
          /\ [rendered[v] EXCEPT !.secrets = FALSE].secrets = FALSE
      BY <1>1, <1>3 DEF Directory
    <2>2. /\ rendered' \in [Release -> Directory \cup {Missing}]
          /\ \A u \in Release : rendered'[u] = IF u = v THEN [rendered[v] EXCEPT !.secrets = FALSE]
                                                        ELSE rendered[u]
      BY <1>3, <1>5, <2>1
    <2>3. tainted' \/ \A u \in Release : /\ backup'[u] = Missing
                                         /\ rendered'[u] # Missing => ~rendered'[u].secrets
      BY <1>2, <1>4, <1>5, <2>1, <2>2 DEF NoFault
    <2> QED
      BY <1>2, <1>3, <1>5, <2>2, <2>3, Ending
  <1>6. CASE UNCHANGED rendered /\ Taint
    <2>1. tainted'
      BY <1>6 DEF Taint
    <2> QED
      BY <1>2, <1>3, <1>6, <2>1, Ending
  <1> QED
    BY <1>1, <1>5, <1>6 DEF cleanupMaterializedSecrets

(* A task ends, well or not.                                               *)
LEMMA Closing ==
    ASSUME IInv, Upload \/ Refused \/ Kill
    PROVE  IInv'
  <1>1. /\ rendered' = rendered
        /\ backup' = backup
        /\ Finish
        /\ \/ task.step \in {"upload", "refused"} /\ NoFault
           \/ Taint
    BY DEF Upload, Refused, Kill
  <1>2. archives' \subseteq {FALSE}
    <2>1. archives \subseteq {FALSE}
      BY DEF IInv, RunnerTypeOK, ArchivesClean
    <2>2. task.packed \in BOOLEAN
      BY DEF IInv, RunnerTypeOK
    <2> QED
      BY <2>1, <2>2 DEF Upload, backupContainsSecrets, Refused, Kill
  <1>3. /\ rendered' \in [Release -> Directory \cup {Missing}]
        /\ backup' \in [Release -> Directory \cup {Missing}]
    BY <1>1 DEF IInv, RunnerTypeOK
  <1>4. CASE task.step \in {"upload", "refused"} /\ NoFault
    <2>1. ASSUME ~tainted, NEW u \in Release
          PROVE  backup[u] = Missing /\ (rendered[u] # Missing => ~rendered[u].secrets)
      BY <1>4, <2>1 DEF IInv, BackupsOK, SecretsOK
    <2>2. tainted' \/ \A u \in Release : /\ backup'[u] = Missing
                                         /\ rendered'[u] # Missing => ~rendered'[u].secrets
      BY <1>1, <1>4, <2>1 DEF NoFault
    <2> QED
      BY <1>1, <1>2, <1>3, <1>4, <2>2, Ending
  <1>5. CASE Taint
    <2>1. tainted'
      BY <1>5 DEF Taint
    <2> QED
      BY <1>1, <1>2, <1>3, <1>5, <2>1, Ending
  <1> QED
    BY <1>1, <1>4, <1>5

-----------------------------------------------------------------------------
(* In the initial state there is no directory and no task.                 *)
LEMMA Beginning ==
    ASSUME RunnerInit
    PROVE  IInv
  <1> USE DEF RunnerInit
  <1>1. RunnerTypeOK
    <2>1. /\ rendered \in [Release -> Directory \cup {Missing}]
          /\ backup \in [Release -> Directory \cup {Missing}]
      OBVIOUS
    <2>2. task \in TaskRec
      BY Tasks
    <2>3. archives \subseteq BOOLEAN /\ tainted \in BOOLEAN
      OBVIOUS
    <2>4. faults \in 0..MaxFault
      BY RunnerConstants
    <2> QED
      BY <2>1, <2>2, <2>3, <2>4 DEF RunnerTypeOK, TaskRec
  <1>2. TaskOK /\ PlaceOK /\ RollbackOK /\ SwitchRepeats
    BY Tasks DEF TaskOK, PlaceOK, RollbackOK, SwitchRepeats
  <1>3. BackupsOK /\ SecretsOK /\ ArchivesClean
    BY DEF BackupsOK, SecretsOK, ArchivesClean
  <1> QED
    BY <1>1, <1>2, <1>3 DEF IInv

(* Every step keeps the invariant.                                         *)
LEMMA Stepping ==
    ASSUME IInv, [RunnerNext]_runnerVars
    PROVE  IInv'
  <1>1. CASE RunnerNext
    BY <1>1, Arriving, Checking, MovingAway, MovingIn, Clearing, Rendering, Materializing,
       Hooking, CleaningUp, Closing DEF RunnerNext
  <1>2. CASE UNCHANGED runnerVars
    BY <1>2 DEF runnerVars, IInv, RunnerTypeOK, TaskOK, PlaceOK, BackupsOK, SecretsOK, RollbackOK,
                SwitchRepeats, ArchivesClean, At
  <1> QED
    BY <1>1, <1>2

(* Where in a task a backup directory, a copy of a secret and a directory  *)
(* that has to be there are found, whatever was killed or failed before.   *)
THEOREM Invariance == RunnerSpec => []IInv
  <1>1. RunnerInit => IInv
    BY Beginning
  <1>2. IInv /\ [RunnerNext]_runnerVars => IInv'
    BY Stepping
  <1> QED
    BY <1>1, <1>2, PTL DEF RunnerSpec

(* Every variable of the runner keeps its type.                            *)
THEOREM TypeCorrect == RunnerSpec => []RunnerTypeOK
  <1>1. IInv => RunnerTypeOK
    BY DEF IInv
  <1> QED
    BY <1>1, Invariance, PTL

(* Plain copies of secrets do not outlive their task, and no archive has   *)
(* any, for any number of releases and faults.                             *)
THEOREM SecretsContainedHolds == RunnerSpec => []SecretsContained
  <1>1. IInv => SecretsContained
    <2> SUFFICES ASSUME IInv, task = IdleTask, ~tainted, NEW e \in Entry, At(e) # Missing
                 PROVE  ~At(e).secrets
      BY DEF IInv, SecretsContained, SecretsTransient
    <2>1. PICK v \in Release, w \in {"version", "old"} : e = <<v, w>>
      BY DEF Entry
    <2>2. task.step = "idle"
      BY Tasks
    <2> QED
      BY <2>1, <2>2 DEF IInv, SecretsOK, At
  <1> QED
    BY <1>1, Invariance, PTL

(* What a switch leaves behind misleads neither a later switch nor a       *)
(* rollback, unless there was a kill or a removal that failed.             *)
THEOREM LeftoversHarmlessHolds == RunnerSpec => []LeftoversHarmless
  <1>1. IInv => LeftoversHarmless
    BY DEF IInv, LeftoversHarmless, RollbackOK, RollbackSound
  <1> QED
    BY <1>1, Invariance, PTL

(* No step of any task, and no kill, loses a release that was rendered.    *)
THEOREM NothingLostHolds == RunnerSpec => NothingLost
  <1>1. ASSUME IInv, [RunnerNext]_runnerVars, NEW v \in Release, Rendered(v)
        PROVE  Rendered(v)'
    <2>1. CASE UNCHANGED <<rendered, backup>>
      BY <1>1, <2>1 DEF Rendered
    <2>2. CASE MoveAway
      BY <1>1, <2>2 DEF MoveAway, Rendered, IInv, RunnerTypeOK
    <2>3. CASE MoveIn
      BY <1>1, <2>3, Fresh DEF MoveIn, Rendered, IInv, RunnerTypeOK, PlaceOK
    <2>4. CASE Clear
      BY <1>1, <2>4 DEF Clear, Rendered, IInv, RunnerTypeOK, PlaceOK
    <2>5. CASE writeRuntimeConfig \/ materializeSecrets \/ cleanupMaterializedSecrets
      <3>1. task.release \in Release /\ rendered[task.release] \in Directory
        BY <1>1, <2>5 DEF writeRuntimeConfig, materializeSecrets, cleanupMaterializedSecrets,
                    IInv, RunnerTypeOK, TaskOK, PlaceOK
      <3>2. PICK d \in Directory : d = rendered[task.release]
        BY <3>1
      <3>3. \A x \in BOOLEAN : /\ [d EXCEPT !.config = x] \in Directory
                               /\ [d EXCEPT !.secrets = x] \in Directory
        BY DEF Directory
      <3>4. \/ rendered' = rendered
            \/ \E x \in BOOLEAN :
                 \/ rendered' = [rendered EXCEPT ![task.release] = [d EXCEPT !.config = x]]
                 \/ rendered' = [rendered EXCEPT ![task.release] = [d EXCEPT !.secrets = x]]
        <4>1. CASE writeRuntimeConfig
          BY <3>2, <4>1 DEF writeRuntimeConfig
        <4>2. CASE materializeSecrets
          <5>1. task.refs \in BOOLEAN
            BY <1>1 DEF IInv, RunnerTypeOK
          <5> QED
            BY <3>2, <4>2, <5>1 DEF materializeSecrets
        <4>3. CASE cleanupMaterializedSecrets
          BY <3>2, <4>3 DEF cleanupMaterializedSecrets
        <4> QED
          BY <2>5, <4>1, <4>2, <4>3
      <3>5. backup' = backup
        BY <2>5 DEF writeRuntimeConfig, materializeSecrets, cleanupMaterializedSecrets
      <3>6. \A e \in Directory : e # Missing
        BY RunnerConstants
      <3>7. rendered \in [Release -> Directory \cup {Missing}]
        BY <1>1 DEF IInv, RunnerTypeOK
      <3> QED
        BY <1>1, <3>1, <3>3, <3>4, <3>5, <3>6, <3>7 DEF Rendered
    <2> QED
      BY <1>1, <2>1, <2>2, <2>3, <2>4, <2>5
      DEF RunnerNext, runnerVars, Run, Check, runHook, Upload, Refused, Kill
  <1>2. IInv /\ [RunnerNext]_runnerVars =>
          [\A v \in Release : Rendered(v) => Rendered(v)']_runnerVars
    BY <1>1
  <1> QED
    BY <1>2, Invariance, PTL DEF RunnerSpec, NothingLost
=============================================================================
