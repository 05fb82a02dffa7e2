------------------------------ MODULE Executor ------------------------------
(***************************************************************************)
(* One call of Executor.Execute on the node agent: the goroutine that runs *)
(* it, the two that read the child's pipes, the one that reports output,   *)
(* the one that watches for cancellation and timeout, the child's process  *)
(* group, and the control plane's push that marks the task as cancelled.   *)
(* The call is module TaskDispatch's run of a task seen from close up.     *)
(*                                                                         *)
(* A definition right before the one it alters (KillLeaderOnly before      *)
(* KillTimer) is that step with a plausible mistake in it, not used by     *)
(* Next: it shows which mistake a property catches.                        *)
(***************************************************************************)
EXTENDS Naturals

CONSTANTS
    Stream,     \* the child's output streams, stdout and stderr
    ChanCap,    \* capacity of the channel between a pipe reader and the sender
    PipeCap,    \* bound: chunks a pipe of the kernel holds
    MaxWrite,   \* bound: chunks written to a stream
    Limit,      \* max_output_bytes, in chunks
    Faults      \* the faults that may happen, a subset of FaultKind

FaultKind == {"setup",     \* a pipe cannot be made
              "start",     \* the program cannot be started
              "wait"}      \* waiting for the child fails

ASSUME ConstantsAssumption ==
    /\ ChanCap \in Nat \ {0} /\ PipeCap \in Nat \ {0}
    /\ MaxWrite \in Nat /\ Limit \in Nat
    /\ Faults \subseteq FaultKind

VARIABLES
    pc,        \* where Execute is
    running,   \* the task has an entry in Executor.running
    cancelled, \* Executor.cancelled of the task
    told,      \* history: MarkCancelled was called for the task
    ctxDone,   \* runCtx is done: timeout, or its cancel function was called
    proc,      \* the child
    exit,      \* how the child ended
    desc,      \* a descendant of the child, in its process group
    signal,    \* what terminateProcessGroup has sent to the group
    pipe,      \* chunks in the kernel's pipes
    written,   \* chunks written to the pipes
    open,      \* the read ends of the pipes are open
    reader,    \* the pipeStream goroutines
    chan,      \* chunks in stdoutCh and stderrCh
    sender,    \* the goroutine that reports output
    sent,      \* chunk events sent
    watcher,   \* the goroutine that watches cancellation and timeout
    procDone,  \* procDone is closed
    closing,   \* the closing event has been sent
    status     \* the status reported

main == <<pc, running, cancelled, told, ctxDone>>
child == <<proc, exit, desc, signal>>
out == <<pipe, written, open, reader, chan, sender, sent>>
fin == <<closing, status>>
vars == <<main, child, out, watcher, procDone, fin>>

Place == {"called", "accept", "deploy", "setup", "start", "forked", "wait",
          "drain", "join", "finish", "report", "startfail", "startdrain", "returned"}

TypeOK ==
    /\ pc \in Place
    /\ running \in BOOLEAN /\ cancelled \in BOOLEAN /\ told \in BOOLEAN /\ ctxDone \in BOOLEAN
    /\ proc \in {"none", "alive", "dead"} /\ desc \in {"none", "alive", "dead"}
    /\ exit \in {"none", "zero", "nonzero", "signal"}
    /\ signal \in {"none", "term", "kill"}
    /\ pipe \in [Stream -> 0 .. PipeCap]
    /\ written \in [Stream -> 0 .. MaxWrite] /\ sent \in [Stream -> 0 .. MaxWrite]
    /\ open \in BOOLEAN
    /\ reader \in [Stream -> {"off", "read", "hold", "done"}]
    /\ chan \in [Stream -> 0 .. ChanCap]
    /\ sender \in {"off", "loop", "done"} /\ watcher \in {"off", "loop", "done"}
    /\ procDone \in BOOLEAN /\ closing \in BOOLEAN
    /\ status \in {"none", "succeeded", "failed", "timed_out", "cancelled"}

(* No execution, seen before Execute is called or after it has returned.   *)
InitAt(place) ==
    /\ pc = place
    /\ running = FALSE /\ cancelled = FALSE /\ told = FALSE /\ ctxDone = FALSE
    /\ proc = "none" /\ exit = "none" /\ desc = "none" /\ signal = "none"
    /\ pipe = [s \in Stream |-> 0] /\ written = [s \in Stream |-> 0]
    /\ open = FALSE
    /\ reader = [s \in Stream |-> "off"]
    /\ chan = [s \in Stream |-> 0]
    /\ sender = "off" /\ sent = [s \in Stream |-> 0]
    /\ watcher = "off" /\ procDone = FALSE
    /\ closing = FALSE /\ status = "none"

Init == InitAt("called")

-----------------------------------------------------------------------------
(* Cancellation and timeout                                                *)

(* MarkCancelled, called by the event stream on a push of the control      *)
(* plane, or by the task loop before it calls Execute.                     *)
MarkCancelled ==
    /\ ~told
    /\ pc # "returned"
    /\ told' = TRUE
    /\ cancelled' = TRUE
    /\ ctxDone' = (ctxDone \/ running)
    /\ UNCHANGED <<pc, running, child, out, watcher, procDone, fin>>

(* The timer of context.WithTimeout.                                       *)
Timeout ==
    /\ running
    /\ ~ctxDone
    /\ ctxDone' = TRUE
    /\ UNCHANGED <<pc, running, cancelled, told, child, out, watcher, procDone, fin>>

-----------------------------------------------------------------------------
(* Execute                                                                 *)

(* The task is registered and its cancellation mark cleared.               *)
Register ==
    /\ pc = "called"
    /\ pc' = "accept"
    /\ running' = TRUE
    /\ cancelled' = FALSE
    /\ UNCHANGED <<told, ctxDone, child, out, watcher, procDone, fin>>

(* "accepted" and "started" are sent; a deployment.* command goes to the   *)
(* DeploymentRunner, the others to a child process.                        *)
SendAccepted ==
    /\ pc = "accept"
    /\ pc' \in {"deploy", "setup"}
    /\ UNCHANGED <<running, cancelled, told, ctxDone, child, out, watcher, procDone, fin>>

(* What DeploymentRunner.Run may return: once its context is done also     *)
(* timed_out, or cancelled if somebody cancelled (which of the two came    *)
(* first is not distinguished).                                            *)
RunnerStatus ==
    {"succeeded", "failed"}
    \cup {st \in {"timed_out", "cancelled"} : ctxDone /\ (st = "cancelled" => told)}

(* It returns a result or an error, or there is no runner.  It need not    *)
(* return: a descendant of its hook may hold the pipe that its Wait reads, *)
(* and a hook that runs as root is not the agent's to kill.                *)
RunDeployment ==
    /\ pc = "deploy"
    /\ pc' = "finish"
    /\ status' \in RunnerStatus
    /\ UNCHANGED <<running, cancelled, told, ctxDone, child, out, watcher, procDone, closing>>

SetupFails ==
    /\ "setup" \in Faults
    /\ pc = "setup"
    /\ pc' = "finish"
    /\ status' = "failed"
    /\ UNCHANGED <<running, cancelled, told, ctxDone, child, out, watcher, procDone, closing>>

(* The pipes, the readers, the sender and the watcher.                     *)
Spawn ==
    /\ pc = "setup"
    /\ pc' = "start"
    /\ open' = TRUE
    /\ reader' = [s \in Stream |-> "read"]
    /\ sender' = "loop"
    /\ watcher' = "loop"
    /\ UNCHANGED <<running, cancelled, told, ctxDone, child, pipe, written, chan, sent, procDone, fin>>

(* proc.Start: the child exists a moment before proc.Process says so.      *)
Fork ==
    /\ pc = "start"
    /\ pc' = "forked"
    /\ proc' = "alive"
    /\ UNCHANGED <<running, cancelled, told, ctxDone, exit, desc, signal, out, watcher, procDone, fin>>

StartReturns ==
    /\ pc = "forked"
    /\ pc' = "wait"
    /\ UNCHANGED <<running, cancelled, told, ctxDone, child, out, watcher, procDone, fin>>

(* It fails, closes the pipes, and the failure is reported before the      *)
(* sender is waited for.                                                   *)
StartFails ==
    /\ "start" \in Faults
    /\ pc = "start"
    /\ pc' = "startfail"
    /\ open' = FALSE
    /\ status' = "failed"
    /\ UNCHANGED <<running, cancelled, told, ctxDone, child, pipe, written, reader, chan, sender, sent,
                   watcher, procDone, closing>>

(* proc.Wait reaps the child and closes the read ends, whatever they still *)
(* hold; procDone is closed.                                               *)
Wait ==
    /\ pc = "wait"
    /\ proc = "dead"
    /\ pc' = "drain"
    /\ open' = FALSE
    /\ procDone' = TRUE
    /\ UNCHANGED <<running, cancelled, told, ctxDone, child, pipe, written, reader, chan, sender, sent,
                   watcher, fin>>

DrainNoWait ==
    /\ pc = "drain"
    /\ pc' = "join"
    /\ UNCHANGED <<running, cancelled, told, ctxDone, child, out, watcher, procDone, fin>>

(* <-sendDone                                                              *)
Drain ==
    /\ pc = "drain"
    /\ sender = "done"
    /\ pc' = "join"
    /\ UNCHANGED <<running, cancelled, told, ctxDone, child, out, watcher, procDone, fin>>

(* The status reported: an *exec.ExitError is a failure whatever caused    *)
(* it; only another error of Wait is a timeout or a cancellation.          *)
ResultStatus(waitFailed) ==
    IF waitFailed THEN (IF cancelled THEN "cancelled" ELSE "timed_out")
    ELSE IF exit = "zero" THEN "succeeded" ELSE "failed"

(* <-watchDone, then the result is made.                                   *)
Join ==
    /\ pc = "join"
    /\ watcher = "done"
    /\ pc' = "finish"
    /\ \/ status' = ResultStatus(FALSE)
       \/ "wait" \in Faults /\ status' = ResultStatus(TRUE)
    /\ UNCHANGED <<running, cancelled, told, ctxDone, child, out, watcher, procDone, closing>>

(* finish: the closing event; SendResult follows.                          *)
SendClosing ==
    /\ \/ pc = "finish" /\ pc' = "report"
       \/ pc = "startfail" /\ pc' = "startdrain"
    /\ closing' = TRUE
    /\ UNCHANGED <<running, cancelled, told, ctxDone, child, out, watcher, procDone, status>>

(* Execute returns: the deferred functions forget the task, cancel runCtx  *)
(* and close procDone.                                                     *)
Return ==
    /\ \/ pc = "report"
       \/ pc = "startdrain" /\ sender = "done"
    /\ pc' = "returned"
    /\ running' = FALSE /\ cancelled' = FALSE
    /\ ctxDone' = TRUE
    /\ procDone' = TRUE
    /\ UNCHANGED <<told, child, out, watcher, fin>>

-----------------------------------------------------------------------------
(* The child and its process group                                         *)

GroupAlive == proc = "alive" \/ desc = "alive"

Write(s) ==
    /\ GroupAlive
    /\ open
    /\ written[s] < MaxWrite /\ pipe[s] < PipeCap
    /\ written' = [written EXCEPT ![s] = @ + 1]
    /\ pipe' = [pipe EXCEPT ![s] = @ + 1]
    /\ UNCHANGED <<main, child, open, reader, chan, sender, sent, watcher, procDone, fin>>

ForkDescendant ==
    /\ proc = "alive"
    /\ desc = "none"
    /\ desc' = "alive"
    /\ UNCHANGED <<main, proc, exit, signal, out, watcher, procDone, fin>>

(* The child ends by itself, or of a SIGTERM (which it may also ignore, or *)
(* handle and exit with any code).                                         *)
Exit ==
    /\ proc = "alive"
    /\ proc' = "dead"
    /\ exit' \in {"zero", "nonzero"} \cup IF signal = "none" THEN {} ELSE {"signal"}
    /\ UNCHANGED <<main, desc, signal, out, watcher, procDone, fin>>

DescendantExit ==
    /\ desc = "alive"
    /\ desc' = "dead"
    /\ UNCHANGED <<main, proc, exit, signal, out, watcher, procDone, fin>>

KillLeaderOnly ==
    /\ signal = "term"
    /\ signal' = "kill"
    /\ proc' = "dead"
    /\ exit' = IF proc = "alive" THEN "signal" ELSE exit
    /\ UNCHANGED <<main, desc, out, watcher, procDone, fin>>

(* The timer of terminateProcessGroup: SIGKILL to the whole group.         *)
KillTimer ==
    /\ signal = "term"
    /\ signal' = "kill"
    /\ proc' = "dead"
    /\ exit' = IF proc = "alive" THEN "signal" ELSE exit
    /\ desc' = IF desc = "alive" THEN "dead" ELSE desc
    /\ UNCHANGED <<main, out, watcher, procDone, fin>>

-----------------------------------------------------------------------------
(* The goroutines                                                          *)

(* pipeStream: a chunk is read ...                                         *)
Read(s) ==
    /\ reader[s] = "read"
    /\ open
    /\ pipe[s] > 0
    /\ pipe' = [pipe EXCEPT ![s] = @ - 1]
    /\ reader' = [reader EXCEPT ![s] = "hold"]
    /\ UNCHANGED <<main, child, written, open, chan, sender, sent, watcher, procDone, fin>>

PushPastCapacity(s) ==
    /\ reader[s] = "hold"
    /\ chan[s] <= ChanCap
    /\ chan' = [chan EXCEPT ![s] = @ + 1]
    /\ reader' = [reader EXCEPT ![s] = "read"]
    /\ UNCHANGED <<main, child, pipe, written, open, sender, sent, watcher, procDone, fin>>

(* ... and sent on the channel, which may block;                           *)
Push(s) ==
    /\ reader[s] = "hold"
    /\ chan[s] < ChanCap
    /\ chan' = [chan EXCEPT ![s] = @ + 1]
    /\ reader' = [reader EXCEPT ![s] = "read"]
    /\ UNCHANGED <<main, child, pipe, written, open, sender, sent, watcher, procDone, fin>>

(* an error ends it: the read end was closed, or nobody can write any more.*)
ReadEnd(s) ==
    /\ reader[s] = "read"
    /\ ~open \/ (pipe[s] = 0 /\ proc = "dead" /\ desc # "alive")
    /\ reader' = [reader EXCEPT ![s] = "done"]
    /\ UNCHANGED <<main, child, pipe, written, open, chan, sender, sent, watcher, procDone, fin>>

(* The sender takes a chunk of either channel and reports it, ...          *)
SendChunk(s) ==
    /\ sender = "loop"
    /\ chan[s] > 0
    /\ chan' = [chan EXCEPT ![s] = @ - 1]
    /\ sent' = [sent EXCEPT ![s] = @ + 1]
    /\ UNCHANGED <<main, child, pipe, written, open, reader, sender, watcher, procDone, fin>>

(* ... until both are closed and empty, or runCtx is done.                 *)
SenderExit ==
    /\ sender = "loop"
    /\ ctxDone \/ \A s \in Stream : reader[s] = "done" /\ chan[s] = 0
    /\ sender' = "done"
    /\ UNCHANGED <<main, child, pipe, written, open, reader, chan, sent, watcher, procDone, fin>>

(* The watcher's select: procDone ends it, ...                             *)
WatchProcDone ==
    /\ watcher = "loop"
    /\ procDone
    /\ watcher' = "done"
    /\ UNCHANGED <<main, child, out, procDone, fin>>

(* ... runCtx, or its ticker with a cancellation mark, makes it terminate  *)
(* the group, once; there is nothing to terminate before proc.Process is   *)
(* set.                                                                    *)
WatchTerminate ==
    /\ watcher = "loop"
    /\ ctxDone \/ cancelled
    /\ watcher' = "done"
    /\ signal' = IF proc = "none" \/ pc = "forked" THEN signal ELSE "term"
    /\ UNCHANGED <<main, proc, exit, desc, out, procDone, fin>>

-----------------------------------------------------------------------------
Execute ==
    \/ Register \/ SendAccepted \/ RunDeployment \/ SetupFails \/ Spawn
    \/ Fork \/ StartReturns \/ StartFails \/ Wait \/ Drain \/ Join
    \/ SendClosing \/ Return

Child == ForkDescendant \/ Exit \/ DescendantExit \/ \E s \in Stream : Write(s)

Reader(s) == Read(s) \/ Push(s) \/ ReadEnd(s)

Sender == SenderExit \/ \E s \in Stream : SendChunk(s)

Watcher == WatchProcDone \/ WatchTerminate

Next ==
    \/ Execute \/ Child \/ Sender \/ Watcher \/ KillTimer
    \/ \E s \in Stream : Reader(s)
    \/ MarkCancelled \/ Timeout

Spec == Init /\ [][Next]_vars

(* The Go scheduler runs every goroutine and timers fire.  The child need  *)
(* not end, nor obey SIGTERM, the deployment runner need not return, and   *)
(* nobody has to cancel.                                                   *)
Fairness ==
    /\ WF_vars(Execute /\ pc # "deploy") /\ WF_vars(Sender) /\ WF_vars(Watcher)
    /\ \A s \in Stream : WF_vars(Reader(s))
    /\ WF_vars(KillTimer) /\ WF_vars(Timeout)

FairSpec == Spec /\ Fairness

-----------------------------------------------------------------------------
(* Properties                                                              *)

(* The closing event is the last event of a task: no goroutine reports     *)
(* output after finish has sent it, so its sequence number is the largest. *)
ClosingIsLast == [][closing => sent' = sent]_vars

(* The watcher looked for a process before there was one, and left.        *)
GaveUp == watcher = "done" /\ pc \in {"start", "forked"}

(* The deployment runner never gives the task back.                        *)
RunnerHangs == <>[](pc = "deploy")

(* Execute returns even if the child ignores SIGTERM, never ends by itself *)
(* and leaves descendants that hold its pipes, unless runCtx was done      *)
(* before proc.Start had returned, or the task is the deployment runner's  *)
(* and that does not return.                                               *)
Returns == []~GaveUp => <>(pc = "returned") \/ RunnerHangs

(* Once terminateProcessGroup has signalled the group, every member of it  *)
(* ends, also when the child was gone before the SIGKILL was due.          *)
GroupDies == signal # "none" ~> ~GroupAlive

(* After Execute has returned no goroutine of it is left, but for a reader *)
(* whose channel was full when the sender left on runCtx.                  *)
GoroutinesEnd ==
    pc = "returned" ~>
        /\ watcher # "loop" /\ sender # "loop"
        /\ \A s \in Stream : reader[s] \in {"off", "done"} \/ chan[s] = ChanCap

(* A call of Execute comes to its end and takes with it what it started.   *)
EverythingEnds == Returns /\ GroupDies /\ GoroutinesEnd

-----------------------------------------------------------------------------
(* What the documents and comments say, and the code does not do           *)

(* Executor runs tasks with timeouts: a child does not outlive runCtx for  *)
(* ever.                                                                   *)
TimeoutEnforced == ctxDone ~> proc # "alive"

=============================================================================
