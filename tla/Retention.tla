----------------------------- MODULE Retention -----------------------------
(***************************************************************************)
(* The retention cleanup: CleanupService.Run, by the weekly schedule or by *)
(* an administrator, removes old rows table by table, in batches of one    *)
(* DELETE each.  Runs may overlap.                                         *)
(*                                                                         *)
(* The rows are those of leases and of tasks; the other tables have        *)
(* neither parents nor children and go like outputs.                       *)
(*                                                                         *)
(* A definition right before the one it alters is that definition with a   *)
(* plausible mistake in it and is not part of RetentionNext.               *)
(***************************************************************************)
EXTENDS Naturals, Sequences, SequencesExt, FiniteSets, FiniteSetsExt

CONSTANTS
    KeptLease,   \* leases; each has a request and a session
    KeptTask,    \* tasks; each has an output
    Schedule,    \* the run of the scheduler, one at a time
    Manual,      \* runs of administrators
    BatchLimit,  \* rows of one DELETE
    Beginnings,  \* bound: the sets of leases and tasks there may be at first
    Asked        \* bound: the data_types administrators ask for; <<>> stands for all

Run == Manual \cup {Schedule}

LeaseTables == {"sessions", "requests", "leases"}
Tables == LeaseTables \cup {"outputs", "tasks"}

ASSUME RetentionConstants ==
    /\ BatchLimit \in Nat \ {0}
    /\ Schedule \notin Manual
    /\ IsFiniteSet(KeptLease) /\ IsFiniteSet(KeptTask)
    /\ Asked \subseteq Seq(Tables)
    /\ Beginnings \subseteq SUBSET (KeptLease \cup KeptTask)

Row == (LeaseTables \X KeptLease) \cup ({"outputs", "tasks"} \X KeptTask)
Table(row) == row[1]
Thing == KeptLease \cup KeptTask

(* The tables of runAll, in its order.                                     *)
AllTypes == <<"outputs", "sessions", "tasks", "requests", "leases">>
TypeLists == {IF types = <<>> THEN AllTypes ELSE types : types \in Asked}

(* A run: the tables left, the candidates counted, the rows older than its *)
(* cutoffs, and whether a table failed.                                    *)
RunRecord == [step : {"idle", "count", "delete", "finish"}, types : Seq(Tables), left : Nat,
              due : SUBSET Row, failed : BOOLEAN]
IdleRun == [step |-> "idle", types |-> <<>>, left |-> 0, due |-> {}, failed |-> FALSE]

VARIABLES
    besides,    \* bound: what happens besides scheduled runs in this behaviour
    rows,       \* the rows there are
    age,        \* of each lease and task: 0, past 7 days, past 30 days
    important,  \* the leases with is_protected
    held,       \* the rows slow writers of leases hold, each with its is_protected
    run,        \* the runs
    recorded,   \* their rows in cleanup_run
    undone      \* history: a slow writer has undone a protection

retentionVars == <<besides, rows, age, important, held, run, recorded, undone>>

RetentionTypeOK ==
    /\ besides \in {"protection", "manual runs"}
    /\ rows \subseteq Row
    /\ age \in [Thing -> 0..2]
    /\ important \subseteq KeptLease
    /\ held \subseteq KeptLease \X BOOLEAN
    /\ run \in [Run -> RunRecord]
    /\ recorded \in [Run -> {"none", "running", "completed", "failed"}]
    /\ undone \in BOOLEAN

RetentionInit ==
    /\ besides \in {"protection", "manual runs"}
    /\ \E things \in Beginnings : rows = {row \in Row : row[2] \in things}
    /\ age = [t \in Thing |-> 0]
    /\ important = {}
    /\ held = {}
    /\ run = [r \in Run |-> IdleRun]
    /\ recorded = [r \in Run |-> "none"]
    /\ undone = FALSE

Ages(t) ==
    /\ age[t] < 2 /\ \E row \in rows : row[2] = t
    /\ age' = [age EXCEPT ![t] = @ + 1]
    /\ UNCHANGED <<besides, rows, important, held, run, recorded, undone>>

(* Sessions and outputs are kept for 7 days, the others for 30.            *)
Old(row) == age[row[2]] >= IF Table(row) \in {"sessions", "outputs"} THEN 1 ELSE 2

-----------------------------------------------------------------------------
(* Every writer of a lease reads the row and writes it back whole, at any  *)
(* time and over whatever another one has written; ProtectLease sets the   *)
(* mark in between.  Several may hold the same row.                        *)
ReadLease(l, mark) ==
    /\ besides = "protection"
    /\ <<"leases", l>> \in rows
    /\ held' = held \cup {<<l, mark>>}
    /\ UNCHANGED <<besides, rows, age, important, run, recorded, undone>>

ReadForUpdate(l) == \E mark \in BOOLEAN : (mark <=> l \in important) /\ ReadLease(l, mark)
ProtectLease(l) == ReadLease(l, TRUE)

(* No row is written if it has been deleted.                               *)
UpdateLease(l, mark) ==
    /\ <<l, mark>> \in held
    /\ held' \in {held, held \ {<<l, mark>>}}
    /\ important' = IF mark /\ <<"leases", l>> \in rows THEN important \cup {l}
                    ELSE important \ {l}
    /\ undone' = (undone \/ (l \in important /\ ~mark))
    /\ UNCHANGED <<besides, rows, age, run, recorded>>

-----------------------------------------------------------------------------
(* Run: the row of cleanup_run and the cutoffs.  A dry run only counts; it *)
(* is a run for which nothing is old.                                      *)
CreateCleanupRun(r, types, dry) ==
    /\ run[r].step = "idle"
    /\ run' = [run EXCEPT ![r] = [IdleRun EXCEPT !.step = "count", !.types = types,
                    !.due = {row \in rows : ~dry /\ Old(row) /\ Contains(types, Table(row))}]]
    /\ recorded' = [recorded EXCEPT ![r] = "running"]
    /\ UNCHANGED <<besides, rows, age, important, held, undone>>

(* The weekly one, and an administrator's with data_types and dry_run.     *)
ScheduledRun == CreateCleanupRun(Schedule, AllTypes, FALSE)
handleCleanupRun ==
    /\ besides = "manual runs"
    /\ \E r \in Manual, types \in TypeLists, dry \in BOOLEAN : CreateCleanupRun(r, types, dry)

(* deleteBatched: the rows it may delete now, ...                          *)
Candidates(r) ==
    {row \in rows \cap run[r].due :
        Table(row) = Head(run[r].types) /\ ~(Table(row) = "leases" /\ row[2] \in important)}

(* ... their number, ...                                                   *)
CountCandidates(r) ==
    /\ run[r].step = "count"
    /\ run' = [run EXCEPT ![r].step = "delete", ![r].left = Cardinality(Candidates(r))]
    /\ UNCHANGED <<besides, rows, age, important, held, recorded, undone>>

NextTable(r, failed) ==
    run' = [run EXCEPT ![r] =
              [step |-> IF Len(@.types) = 1 THEN "finish" ELSE "count", types |-> Tail(@.types),
               left |-> 0, due |-> {row \in @.due : Table(row) # Head(@.types)},
               failed |-> (@.failed \/ failed)]]

(* After an error the other tables are cleaned all the same.               *)
GiveUpRun(r) == run' = [run EXCEPT ![r].types = <<>>, ![r].left = 0, ![r].failed = TRUE,
                                   ![r].step = "finish"]
AfterError(r) == NextTable(r, TRUE)

(* ... and the batches.  A request cannot go while its lease is there; a   *)
(* session goes with its lease and an output with its task.                *)
Referenced(row) == Table(row) = "requests" /\ <<"leases", row[2]>> \in rows
Cascade(batch) == {row \in rows : \/ Table(row) = "sessions" /\ <<"leases", row[2]>> \in batch
                                  \/ Table(row) = "outputs" /\ <<"tasks", row[2]>> \in batch}

Batches(r) == kSubset(Min({BatchLimit, Cardinality(Candidates(r))}), Candidates(r))

AfterBatch(r, n) ==
    IF run[r].left > n THEN run' = [run EXCEPT ![r].left = @ - n] ELSE NextTable(r, FALSE)

DeleteBatch(r) ==
    /\ run[r].step = "delete"
    /\ \/ /\ run[r].left = 0 \/ Candidates(r) = {}
          /\ NextTable(r, FALSE)
          /\ UNCHANGED rows
       \/ /\ run[r].left > 0 /\ Candidates(r) # {}
          /\ \E batch \in Batches(r) :
               IF \E row \in batch : Referenced(row)
               THEN AfterError(r) /\ UNCHANGED rows
               ELSE /\ rows' = rows \ (batch \cup Cascade(batch))
                    /\ AfterBatch(r, Cardinality(batch))
    /\ UNCHANGED <<besides, age, important, held, recorded, undone>>

FinishCleanupRun(r) ==
    /\ run[r].step = "finish"
    /\ recorded' = [recorded EXCEPT ![r] = IF run[r].failed THEN "failed" ELSE "completed"]
    /\ run' = [run EXCEPT ![r] = IdleRun]
    /\ UNCHANGED <<besides, rows, age, important, held, undone>>

(* The administrator's connection is closed: the statements that are left  *)
(* fail, and the row of the run stays as it is.                            *)
RunGone(r) ==
    /\ r \in Manual
    /\ run[r].step # "idle"
    /\ run' = [run EXCEPT ![r] = IdleRun]
    /\ UNCHANGED <<besides, rows, age, important, held, recorded, undone>>

RunStep(r) == CountCandidates(r) \/ DeleteBatch(r) \/ FinishCleanupRun(r)

RetentionNext ==
    \/ \E t \in Thing : Ages(t)
    \/ \E l \in KeptLease : ReadForUpdate(l) \/ ProtectLease(l) \/ \E mark \in BOOLEAN : UpdateLease(l, mark)
    \/ ScheduledRun \/ handleCleanupRun
    \/ \E r \in Run : RunStep(r) \/ RunGone(r)

RetentionSpec == RetentionInit /\ [][RetentionNext]_retentionVars

-----------------------------------------------------------------------------
(* A cleanup skips protected records: no statement of any run removes a    *)
(* lease that is protected at that moment, nor the request it came from.   *)
ProtectedKept ==
    \A l \in important : {<<"leases", l>>, <<"requests", l>>} \cap rows \subseteq rows'

(* A run that goes on from a table without an error, and only requests can *)
(* meet one, has removed what was old in it when it began, however many    *)
(* batches that took, but for the protected leases; unless a slow writer   *)
(* has undone a protection, for then there may be more to remove than was  *)
(* counted.                                                                *)
CompletedMeansClean ==
    \A r \in Run :
        /\ ~undone
        /\ run[r].step = "delete" /\ run'[r].step \in {"count", "finish"}
        /\ Head(run[r].types) = "requests" => ~run'[r].failed
        => {row \in run[r].due \cap rows' : Table(row) = Head(run[r].types)}
               \subseteq {"leases"} \X important

(* Unless a lease is protected, everything old goes, although the requests *)
(* come before the leases that refer to them.                              *)
OldRowsGo == besides # "protection" => <>[](\A row \in rows : ~Old(row))

(* A cleanup removes what it must, in the end and when it says so, and     *)
(* nothing it must keep.                                                   *)
CleanupSound == [][ProtectedKept /\ CompletedMeansClean]_retentionVars /\ OldRowsGo
=============================================================================
