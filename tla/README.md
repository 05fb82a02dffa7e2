# serverCli: a TLA+ verification project

serverCli is a control plane (Go, SQL database, HTTP API) and a node agent that
runs on every managed server. Administrators create tasks that run registered
commands on a node; AI clients obtain time-limited SSH access to a node, a
lease, with an access token; releases are rolled out by deployment operations.
This directory models the parts where several processes change the same state,
checks them with TLC on small instances and proves the most important facts
with TLAPS for every size.

## 1. Inventory

| Component | State | Operations | Interacts with | What is hard, and what must hold |
|---|---|---|---|---|
| Task dispatch (`service/task.go`, `store/task.go`) | `task`, `task_event`, `task_output` rows; one wake-up channel per node | CreateTask, CancelTask, PollTask, RecordEvent, RecordResult, Dispatcher.Notify/Wait | agents by long poll, administrators, deployment scheduler | a row is read by one statement and written back whole by a later one; polls are retried and overlap; events are lost or late. A command runs at most once, success is never made up, the status moves forward, queued tasks are handed out |
| Agent task loop (`agent/agent.go`, `agent/client.go`) | the task it holds, `doneCache` (in memory) | poll, handleTask, markDone, reports | control plane, executor | crash at any point, client timeouts; a task is not run twice |
| Executor (`agent/executor.go`) | `running` and `cancelled` maps, five goroutines, two pipes, two channels, a process group | Execute, MarkCancelled, terminateProcessGroup | child process, event stream (cancel push), control plane | waits on waits; signals against a process that does not exist yet or ignores them. Execute returns, the group dies, nothing is reported after the closing event |
| AI SSH leases (`service/lease.go`) | `ai_lease_request`, `ai_lease` rows | create, renew, heartbeat, disconnect, revoke, disable renewal, protect, agent events, expiry and grace closing, runtime status | access tokens, scheduler, agents | whole-row stale writes by eight kinds of handler. No expiry beyond the cap or the token; a lease is issued once; no session without a live token |
| Lease keys on the node (`agent/leasekeys.go`, `NodeService.leaseOps`) | `authorized_keys` with an expiry marker per line | Apply, SweepExpired | heartbeats (two concurrent ones) | lost answers and reports, crashes: the lines must go without the control plane |
| Access tokens (`service/apitoken.go`, `api/middleware_tokens.go`) | `api_access_token`, usage rows | create, update permissions, revoke with cascade, resolve and authorize a call, record its usage | leases, direct commands, notifications | revocation against requests in flight, two editors, panics and clients that hang up |
| Node enrollment and heartbeat (`service/node.go`, `agent/agent.go`, `agent/identity.go`) | `node_enrollment`, `node` rows, the identity file of the agent | register, approve, reject, claim the credential once, heartbeat, mark offline, patch, disable, delete | agents, scheduler, administrators | registration retries, a token that works once, whole rows written back late. Who is approved joins, what was deleted or disabled stays so, the status follows the heartbeats |
| Command registry (`agent/commands.go`, `NodeService.CommandsSnapshot`) | the commands directory and the agent's copy; `node_command` rows | watch, upload, replace the set row by row | agents, task creation | a handler that outlives its client; a failed upload. The table follows the directory |
| Deployment service (`service/deployment_ops.go`, `service/deployment_service.go`) | `deployment_operation`, `deployment_operation_target`, `deployment_target` rows, the catalogue of features and releases | create, confirm or continue, cancel an operation; edit a target | deployment scheduler through the rows, tasks (cancel) | requests at any moment of the execution; one active operation per feature, nothing runs unconfirmed in production |
| Deployment scheduler (`service/deployment_scheduler.go`) | the operation it executes | Tick: claim, execute target after target (backup, action, health check, probe), finish, automatic rollback | tasks, nodes by HTTP | stale copies, time-outs, restarts, partial failure over targets. A failure stops the operation, a success hides nothing, the recorded release is really deployed |
| Repository (`service/deployment_service.go`, `deployment/repo`, `deployment/ossclient`) | rows of configuration profiles and secret references, three copies of the files (control plane, OSS, node), each with its manifest | edit a profile, overwrite or delete a secret, repository sync, the node's sync, freeze an operation and compare at its task and on the node | administrators, deployment scheduler, runner | no lock and no transaction over row, file and object. A hook runs with what was frozen; a file never drifts from its row unnoticed |
| Deployment runner (`agent/deployment_runner.go`, `deployment/repo/safeextract.go`, `deployment/secretprovider`) | release directories, copies of secrets and rendered configuration on the node, archives in OSS | install, update, roll back, back up, health check | OSS, hooks, task loop | kills and failed renames between its steps. No release is lost, no secret stays behind |
| Scheduler (`scheduler/scheduler.go`) | none | every 15 s: MarkOfflineNodes, ExpireStaleLeases, cleanup when it is due | nodes, leases | runs against everything |
| Event broker (`api/events.go`) | WebSocket subscribers | publish, drop slow subscribers | agents, browsers | pushes may be dropped; polling must be enough |
| Notifications (`service/notification.go`, `service/notify_ratelimit.go`) | two kinds of token bucket (in memory) | acquire, refuse with Retry-After, drop idle buckets | access tokens | rounding and the moment a bucket is dropped |
| Administrators and sessions (`service/auth.go`, `security/ratelimit.go`) | `admin_user`, `admin_session` rows, the login limiter (in memory) | log in, log out, change the password | every administrator's request | slow password hashing between reading and writing a row |
| Retention cleanup (`service/cleanup.go`, `store/cleanup.go`) | `cleanup_run` rows | count, delete in batches, table after table | everything that gets old; lease protection | foreign keys between the tables, overlapping runs. What is protected stays, what is old goes |
| Settings, audit log, child proxy, validation, redaction, frontend, scripts | see `PROJECT.json` | | | request-local, pure I/O or string processing |

How they interact: agents only make outgoing requests. An agent runs five
loops (heartbeat, a serial task poll, command watch, lease sweep, event
stream); the event stream starts a second heartbeat when the control plane
pushes one. The control plane handles every request in a goroutine of its own
and shares nothing between them but the database and the Dispatcher.

## 2. Plan

1. `TaskDispatch`: the core of the program. **Done**, with the abstract task it
   implements.
2. `Lease`: the second protocol between the two machines. **Done**, with `LeaseProofs`.
3. `Executor`: the run of a task seen from close up. **Done**, with `ExecutorProofs`.
4. `Deployment`: operations, targets and their tasks, service against
   scheduler, with restarts. **Done** but for the catalogue and deletions, with
   the abstract operation it implements, `OperationLife`, and `DeploymentProofs`.
5. `Node`: enrollment, approval, the one-time credential, heartbeat against
   the offline sweep, deletion. **Done**, with `NodeProofs`.
6. `Repository`: rows, files, objects and what an operation freezes. **Done**,
   with `RepositoryProofs`.
7. `Runner`: the release directories on the node with kills between the steps.
   **Done**, with `RunnerProofs`.
8. `Registry`, `Sessions`, `Tokens`, `Notify`, `Retention`: the smaller services.
   **Done**, with `ServicesProofs`.
9. Proofs for any number of tasks, polls and faults: `TaskProofs`, with the
   refinement of `TaskLife`. **Done.**
10. Left: the catalogue of features and releases; OSS profiles and bootstrap
   sessions.

## 3. The modules

Every database statement, and every transaction, is one step; everything
between two statements of a handler can be interleaved. What a handler read is
part of the state (`snap`). Payloads, names and messages are left out; times
are small natural numbers. `PROJECT.json` maps every definition to its lines.

Each module stands alone; modules named `MC...` give the constants their values
for TLC. Three of them put several modules side by side: `MCAgentFiles` (Lease
and Runner), `MCDeployLive` (Deployment and Repository) and `MCServices`
(Executor and the smaller services). These share no variable, so a behaviour
of such a run is one of one part, chosen at the start, while the others rest.
The components that do share state are modelled together, in one module: the
control plane's handlers with the agent and the network in TaskDispatch, Lease,
Node, Registry and Repository, the service with its scheduler in Deployment.
A definition right before the one it alters is that definition with a plausible
mistake in it. It is no part of the model: `PROJECT.json` says which property
such a mistake breaks.

### TaskDispatch

| TLA+ | Code |
|---|---|
| `row`, `queuedAt`, `events`, `output` | tables `task`, `task_event`, `task_output` |
| `wake` | `Dispatcher.chans`: no channel, empty, or a token in it |
| `admin`, `CreateLookup` .. `CancelLog` | CreateTask and CancelTask, split at their statements; the log entry is the last of them, and `CancelAbandoned` is a client that hung up before it |
| `poll`, `ClaimNextTask` .. `PollAbandoned` | handleAgentTaskPoll: claim, wait, claim again, sign, respond; a handler outlives its client (`conn`) |
| `net`, `handling`, `HandlerRead`, `RecordEvent`, `RecordResult`, `StoreOutput`, `AppendEvent` | the agent's event and result requests and their handlers: read, write the row, store the output (a result only), append to the log |
| `HandlerAbandoned` | the context of a handler ends with its client: the statements it has not reached are not executed |
| `pc`, `cur`, `seq`, `res`, `doneCache` and the agent's actions | taskPollLoop, handleTask, Execute and finish as the control plane sees them |
| `Answered` | the agent sends a request when the last one was answered, or its client gave up on it |
| `AgentCrash`, `Restart`, `LoseRequest`, `PollTimeout` | the faults; `faults` is the set of those that a behaviour has, one of `FaultSets` |

`runs` and `ended` are history variables: how often a command was started and
how its executions ended.

`TaskLife` is the same without handlers, requests and agents: what a user may
rely on. Its state is the status of each task, the tasks that somebody `held`
(a poll that claimed it, or an agent), how often each was started, and how it
ended. Only a queued task is handed out, only who holds a task starts it, and
a task is closed as anything but failed or cancelled only if it ended so.
`ImplementsLife` says that TaskDispatch implements it, with `Life` as the
refinement mapping: `state` is the status in the table, `held` is `Held`.

### Lease

| TLA+ | Code |
|---|---|
| `row`, `issued`, `request` | tables `ai_lease`, `ai_lease_request`; `absolute_expires_at` is `issued + Cap` |
| `call` | a request handler, or the scheduler closing a silent lease, with the row it read |
| `Authenticate`, `CreateLeaseRequest`, `IssueLease` | tokenAuth, then the two inserts of a creation |
| `ReadLease`, then `Renew`, `Heartbeat`, `WriteLease` | the other operations of LeaseService |
| `RevokeToken` | RevokeAccessTokenAndLeases, one transaction |
| `stale`, `FindStale`, `ExpireStale`, `GraceRead` | ExpireStaleLeases: the selection of the expired leases, then one conditional update for each; the leases that fell silent |
| `beat`: `LeaseOps`, `Apply`, `EventRead`, `EventWrite` | sendHeartbeat: the orders in the answer, the key file, one report per lease |
| `keys`, `SweepExpired` | authorized_keys, the marker of each managed line |
| `OpenSession`, `RuntimeStatusOK` | servercli-lease-shell asking handleLeaseRuntimeStatus |

The silence that makes the scheduler close a lease is not measured: GraceRead
may happen whenever the lease has heartbeated once. The session_started and
session_ended events, which no code in the repository sends, write the row back
as `protect` does. One clock stands for both machines.

### Executor

One call of Execute. `pc` is the goroutine that runs it; `reader`, `sender` and
`watcher` are its goroutines, `chan` the channels between them, `pipe` the
kernel's pipes. `proc` is the child, `desc` a descendant in its group, and
`signal` what terminateProcessGroup has sent. `Fork` and `StartReturns` are two
steps because the watcher may read `proc.Process` in between; that unsynchronized
read finds it unset until Start has returned. The child is external: it may
write, fork, end with any code, ignore SIGTERM, and need not end. A deployment
task is the runner's (`RunDeployment`): it reports success or failure, or, once
runCtx is done, a timeout or a cancellation (`RunnerStatus`), and need not
report anything.

### Deployment

| TLA+ | Code |
|---|---|
| `op`, `opTarget`, `target` | tables `deployment_operation`, `deployment_operation_target`, `deployment_target` |
| `task`, `linked` | task rows by their idempotency key (operation, target, step), and the steps that have their `task_id` |
| `FeatureFree`, `NodesFree` | the two partial unique indexes (migrations 0009, 0010) |
| `CreateOperation`, `CreateCheck`, `InsertBundle` | CreateOperation: its checks, then the transaction |
| `CancelRead` .. `CancelReturn`, `ContinueRead` .. `ContinueWrite`, `UpdateTargetRead`, `UpdateTargetWrite` | the other handlers, split at their statements |
| `sched`: `ClaimQueuedDeploymentOperation`, `ListTargets`, `NextTarget`, `LoopEnds`, `Finalize`, `FinishOperation` | Tick and executeOperation, with its local variables |
| `BeginTarget`, `CreateTask` .. `Reread`, `Probe`, `MarkTarget`, `ReadTarget`, `RecordTarget` | executeTarget, runTaskStep, pollTask, controlPlaneHealthCheck, succeedTarget, failTarget, skipTarget, cancelTarget |
| `ReadLastHealthy`, `TriggerAutoRollback`, `NoteManualRollbackDecision` | the automatic rollback, or the note that a human has to decide |
| `TaskEnds`, `CancelledRuns` | the agent, by what TaskDispatch says of a task: run at most once, closed by success or failure, or never |
| `Restart` | the control plane starts again; nothing resumes the operation |

`node` is the release that is really active on the node, `ran` the tasks the
agent has run, `continued` the operations that were confirmed or continued;
the last two are history variables. The checks of CreateOperation are one step,
with the lookup of an active operation in it: a request that fails another
check changes nothing, wherever it fails. Frozen hashes are left out, and
`StepRefused` stands for one that does not match any more. A release name
stands for the release of that name of each feature, since a release belongs
to one feature.

`OperationLife` is an operation without a scheduler, handlers and rows held in
hand: what is shown of the operation, of each target in it and of each target's
release, which tasks exist and were run, and which operations somebody
`approved`. Its actions say what may be done and shown when. A task is begun
once, in the order of the steps of its target, only for an operation that was
agreed to and may be being executed, and not behind a failed target unless
somebody agreed to that too; a target has only succeeded when all its tasks
were run, an operation only when no target failed or is still to come; the
recorded release is one that was deployed and looked after. It also says what
is not promised: a cancellation may be written over any status, a withdrawn
task may still be run, a target may get an older release recorded again.
`ImplementsLife` says that Deployment implements it: `result` is `opTarget`,
`approved` is `continued`, `current` the releases of the targets' rows; the
scheduler, the handlers and `linked`, `node`, `desired` and `lastHealthy` are
hidden.

### Node

| TLA+ | Code |
|---|---|
| `enr`, `node` | tables `node_enrollment`, one row per instance request, and `node`; `gen` counts the enrollments of an agent, from which its credential derives |
| `req` | the handlers in progress, each with the row it read |
| `CreateEnrollment`, `InsertEnrollment` | handleNodeEnroll, its lookup and its insert |
| `ApproveEnrollment`, `ApproveCreate`, `ApproveFinish`, `RejectEnrollment`, `RejectFinish` | the verdicts of administrators, split at their statements |
| `ClaimEnrollment`, `FinishClaim` | the token works once; then the enrollment is written back |
| `Heartbeat`, `FinishHeartbeat`, `PatchNode`, `PatchFinish`, `DeleteNode`, `DeleteFinish` | whole rows written back late; deletion is a transaction |
| `Served` | agentAuth: which agents are answered at all |
| `MarkOfflineNodes`, `MarkOffline` | the sweep, which selects ids and then updates one after the other |
| `pc`, `id`, `eid`, `named`, `ensureIdentity` .. `sendHeartbeat` | the agent and its identity file |
| `HeartbeatAges`, `ClaimExpires` | time: a heartbeat gets older than the threshold, a claim token expires |
| `Crash`, `GiveUp`, `Abort` | an agent dies; it gives up on an answer; a handler's context ends with its connection |

`World` is the set of situations explored (which agents, which faults, how many
administrator requests), because all of them at once are too many. `contested`
is history: the enrollments two administrators were deciding on at once.

### Repository

One feature with one configuration profile and one secret reference; contents
are told apart by their hash.

| TLA+ | Code |
|---|---|
| `profile`, `reference` | rows of `deployment_config_profile` and `deployment_secret_reference` |
| `local`, `oss`, `nodeRepo` | three copies of the files with their manifest: control plane, bucket, node |
| `CreateConfigProfile`, `UpdateConfigProfile`, `DeleteConfigProfile`, `CreateSecretReference` | the edits of rows |
| `BeginOverwrite`, `PutSecret`, `InstallSecret`, `StoreReference` | OverwriteSecret: object, file, row |
| `BeginDeleteSecret`, `DeleteSecretReference` | file and object go, if they can, then the row |
| `RemoveSecret`, `RemovalFails` | os.Remove of the secret's file, whose failure is logged or ignored |
| `copySeedRepository`, `ListProfiles`, `syncConfigProfiles`, `verifySecretReferences`, `SignManifest`, `writeManifest`, `WalkDir`, `uploadRepository` | RepositorySync, which takes no lock: rows are read before files are written, and a directory is listed before its files are opened |
| `FreezeConfig`, `FreezeSecrets`, `Dispatch` | what CreateOperation freezes, and taskArguments with the check of the schema (`SchemaAccepts`) |
| `ListObjects`, `downloadObject`, `VerifyManifest`, `preflight`, `HookEnds` | the node's sync, the checks before a hook and the hook |
| `AbortSync`, `RestartControlPlane` | a call that fails, a restart in the middle of any of these |

`disturbed` is history: two requests for one secret overlapped, or a restart
cut one short; so is `leftover`: the last removal of the secret's file failed.
`operation.used` is what the hook really got.

### Runner

| TLA+ | Code |
|---|---|
| `rendered`, `backup` | `rendered/<version>` and `rendered/<version>.old`: whether there is one, whether its configuration was written, whether secrets are in it |
| `task` | the task the runner is in, and its step |
| `Check`, `MoveAway`, `MoveIn`, `Clear` | the checks of a task; SwitchDir |
| `writeRuntimeConfig`, `materializeSecrets`, `runHook`, `cleanupMaterializedSecrets` | the rest of an installation |
| `BackupPacked`, `Packable` | the archive of a backup is packed: of the release's directory, with whatever copies of secrets are in it, or of a data directory without any |
| `Upload`, `backupContainsSecrets` | the scan of the archive for members under `secrets/`, then its upload |
| `Others`, `CheckRollback` | otherRenderedVersion: every directory with a configuration that is not named like the version, `.old` ones too |
| `Kill`, `Fault`, `Taint` | the agent is killed; a rename fails; a removal or the rename back fails |

What the hooks do to the machine is not modelled. `tainted` is history: there
was a kill, or a removal or a rename back that failed.

### The smaller services

* `Registry`: `directory` is COMMANDS_DIR, `commands` what the agent loaded,
  `registered` the table. `reloadCommands` is one tick of the watch loop,
  `UpsertNodeCommand` to `AnswerSnapshot` the handler of an upload, one command
  at a time. An upload may be lost, given up on (the handler goes on), or cut
  short by a restart.
* `Sessions`: one administrator and one bucket of the limiter. A login checks
  the limiter, reads the row, verifies (slow), and either records the failure
  or writes the whole row back and creates a session; a change of the password
  is one request that does its own read and write beside it. The limiter's list
  of times is a set, in which failures of one second have numbers; `wrong` is
  the same list without the lock that empties it. `raced` is history: a change
  was written while a login held the row.
* `Tokens`: one token with its revision, editors that read it, then update it
  with the optimistic lock, and one call per caller, from Resolve over the hook
  and Authorize to the handler, its usage row and the last-used mark. A handler
  may panic, a client may hang up.
* `Notify`: the buckets count units of `1/Minute` of a token, since the code
  counts in fractions; `refill`, `TryAcquire`, `RetryAfter` and `Cleanup` are
  those of the limiter.
* `Retention`: leases with their requests and sessions, tasks with their
  outputs, and runs that delete what is old, table after table, in batches
  (`CountCandidates`, `DeleteBatch`, `FinishCleanupRun`), against protection.
  `held` are the rows that writers of leases have read and not written yet, of
  any number of writers; `undone` is history: one of them has overwritten a
  protection.

## 4. Runs

| Run | Instance | Shows |
|---|---|---|
| `tasks_delivery` | 1 task, 2 polls, 1 administrator, 2 keys, 2 requests of the agent under way; crashes with client timeouts, or with losses, unsigned, unverified and unknown commands | `AtMostOnce`, `TruthfulSuccess`, `ImplementsLife` |
| `tasks_live` | 2 tasks without faults, or 1 with crashes and restarts; 2 polls, an output chunk | `QueueDrains` (lost tokens only delay), `EveryTaskCloses`, `SuccessLogged` |
| `agent_files` | 1 lease, 1 handler, 1 heartbeat, every fault, clock to 5; or 3 releases with 2 faults | `WithinCap`, `WithinToken`, `IssuedOnce`, `SessionsGated`, `KeysGo`; `SecretsContained`, `LeftoversHarmless`, `NothingLost` |
| `deploy_ops` | 2 backup operations of 1 feature with 2 targets, cancel, continue, restarts | `OneActivePerFeature`, `SucceededHidesNothing`, `FailureStops` |
| `deploy_update` | 2 updates (or an update and its rollback), 2 features, one with backups, 2 releases, production, cancel, continue, edit, time-outs, restarts | `RecordedWasDeployed`, `TasksInOrder` |
| `deploy_live` | 1 operation of 3 kinds on 2 targets with backups, production, time-outs, cancel, continue; or the repository with 2 contents and 2 overwriters: 2 changes of the secret and a failure or restart, or a change and a failure or restart, or a change and an operation, or an operation and 2 syncs that overlap | `OperationEnds`, `ImplementsLife` (OperationLife); `RunsFrozen`, `NoDrift`, `SyncDelivers` |
| `node_join` | 1 agent and 2 node ids without faults, with slow or closed connections, or with crashes; or 2 agents that both ask to be primary; 2 handlers of either kind | `SignableNode`, `DecisionsStick`, `StatusFollows`, `ApprovedJoins` |
| `services` | Executor: 1 stream, channel and pipe of capacity 1, 3 chunks, every fault, or a deployment task that may hang. Registry: 2 commands, 2 contents, 2 snapshots, 2 edits. Sessions: 2 logins, 1 change, 6 guesses, limit 2. Tokens: 2 editors, 1 call, 3 revisions. Notify: 1 token and senders without one, 7 ticks. Retention: 2 leases with slow writers, or a lease and 2 tasks with a scheduled and a manual run, batches of 1 | `EverythingEnds`, `ClosingIsLast`; `RegistryFollows`; `LoginsGuarded`; `TokenBooksTrue`; `QuotaKept`; `CleanupSound` |
| `tasks_result`, `exec_timeout`, `deploy_rollback`, `deploy_secrets` | see section 7 | what comments say and the code does not do |

`tasks_delivery`, `agent_files` (for Lease), `deploy_ops`, `node_join` and
`services` (for all its parts) also check the type of every variable; that of
Runner is proved.

Why the bounds are enough. The interference in TaskDispatch is between handlers
of one task, so one task meets all of it; two polls are a retry and the handler
it overtakes, and they are interchangeable, which is the symmetry of
`tasks_delivery`. Two of the agent's requests under way are one and the one
that overtakes it, between any two statements of their handlers; its fault sets
keep apart what need not meet: a late answer leaves a handler alone as a loss
does, and the proofs have all faults at once. The second task in `tasks_live`
is there for the queue order and for the token one poll leaves to the next;
there polls do not overlap, and where there are crashes and restarts nobody
cancels. What these two runs show of `AtMostOnce`, `TruthfulSuccess` and
`ImplementsLife` is proved for any number. In Lease a stale write needs one
handler that holds a row and a second writer, which is the agent's report, the
scheduler or the token cascade; the theorems have any number of handlers. The
cap (2) is as long as the longest renewal, so a lease renewed at any later time
binds at the cap; leases issued at 1 end at their cap before the token's expiry
(4) and those issued at 3 after it, so each of the two limits decides
somewhere, and at 5 every lease is over. In Runner three releases are the
version of a task, another one and a third that makes a rollback ambiguous; two
faults are a kill and what the next task makes of it; the theorems have any
number of both. In Executor a channel of capacity 1 is full after one chunk,
and 3 chunks fill channel, pipe and the reader's hand. In Deployment a second
target is what a failure stops and what a partial success differs from; a
second operation is what an active one excludes, and what an automatic rollback
is. One request runs beside the scheduler, so each pair of a handler and an
execution interleaves. `deploy_live` checks the refinement on one operation;
what another one excludes is in `deploy_ops`, and the refinement is proved for
any number, with edits and restarts. In Node two handlers of each kind are an
approval and its rival, a heartbeat and the one that overlaps it; a second
enrollment (`MaxGen`) is what an agent makes after its node was deleted. In
Repository two contents tell an old file from a new one, two overwriters
overlap, and a sync meets a change, a failure or a restart between any two of
its steps. In `syncs` behaviours the second sync begins while an operation is
being created: two that overlap again and again would put the seed's
configuration into the bucket again and again, so `SyncDelivers` needs that
they stop. Two snapshots are a late handler and its successor; two logins are
what passes the limiter's check together, and six guesses are two locks with
what was pending at each; a batch of 1 makes the loop over two tasks, or over
two leases one of which is protected and no longer is, go round twice.

One branch is taken in no run: the refusal of an insert whose key another
request has used meanwhile needs two administrators and two tasks of one key
(`CreateInsert`). The proofs of TaskDispatch are about any number of them.

Deadlock is not checked: the bounded clocks, the finite sets of ids and the
end of a call are ordinary ends of these models.

## 5. Fairness

Weak fairness only, for what the code drives by itself: handlers in progress,
`Dispatcher.Wait` (its timer), the agent's loops (task poll, registration and
heartbeat, command watch), the tickers of the scheduler with the offline sweep
and the weekly cleanup, the local sweep of keys, the deployment scheduler's
goroutine with the deadline of pollTask, goroutines and timers of Execute, and
the clock of Lease. Nothing is assumed of clients, of the child process, or of
faults, and of administrators only in one place: `SyncDelivers` is about rows
that reach a node, which no loop of the code drives, so it assumes that
somebody asks for a sync of the repository, and for the node's, again and
again.

Where faults would make a liveness property false, it says so in its own
premise. `QueueDrains` and `EveryTaskCloses` hold once crashes, restarts and
client timeouts stop, or without any fault; `ApprovedJoins` and
`RegistryConverges` in behaviours without faults; `HeartbeatRecovers` without
connections that are given up on; `Returns`, in `EverythingEnds`, unless the
deployment runner hangs (`RunnerHangs`): a hook whose pipe a descendant holds,
or that the agent may not kill, blocks it in `cmd.Wait`
(`agent/deployment_runner.go:1684`), so no fairness is assumed of
RunDeployment, and what then hangs is the node's only task loop;
`OperationEnds` without restarts, and without any fairness of the agent;
`OldRowsGo` without a protection. `KeysGo` is checked with crashes and
restarts; its premise is that new requests stop. `SyncDelivers` allows for a
secret file that has drifted from its row, which refuses every sync.

## 6. Proofs

### LeaseProofs

For any sets of leases, handlers and heartbeats and any cap, duration and
token expiry:

* `TypeCorrect`, `CapHolds`, `TokenHolds`: `TypeOK`, `WithinCap` and
  `WithinToken` are invariants of `Spec`;
* `IssuedOnceHolds`, `SessionsGatedHolds`: the action properties `IssuedOnce`
  and `SessionsGated`.

The properties are not inductive, because a handler or a heartbeat writes back
what it read at some earlier time. The invariant `IInv` says of everything in
flight what it says of the table: a row in a handler's hands, an order in an
answer, a row in a report's hands and a line in the key file all carry an
expiry that is `Good` for their lease (within the cap; within the token's life
or not after the issue time). `Good` depends on `issued`, so the invariant also
has that a lease is issued once: a handler between the two inserts holds a
lease whose `issued` is still 0, and no two handlers hold the same one, since
the request's unique key let only one of them through. When `issued` does move,
from 0 to the present, `Good` only gets weaker. Each action has a lemma of its
own; `Frame` carries the actions that touch neither clock nor issue times.

The assumptions are the module's `ConstantsAssumption`: the bounds are natural
numbers, cap and duration positive, `NoLease` is no lease.

### TaskProofs

For any sets of nodes, tasks, keys, administrators and polls, any number of
output chunks, and under every set of faults:

* `TypeCorrect`, `AtMostOnceHolds`, `TruthfulSuccessHolds`: `TypeOK`,
  `AtMostOnce` and `TruthfulSuccess` are invariants of `Spec`;
* `Implementation`: `Spec` implies `ImplementsLife`, so that TaskDispatch
  implements TaskLife;
* `SuccessLoggedHolds`: `SuccessLogged`, which itself only speaks of behaviours
  without faults, and not of the moment between the two statements of
  RecordEvent: the handler that closed the task is then at its log entry.

None of these is inductive: a poll, an agent, a request on its way and a
handler hold a task, or what they read of it, long after the table has changed.
The invariant follows a task through them. `PollsOK` and `AgentsOK` say what
has happened to a task at each place it can be in (a poll only has a task that
was handed out and was never started; an agent that is about to start one has
not started it), `OneHolder` that it is in one place only, and `MsgsOK` that
whatever request or handler is under way carries a true outcome; it stays true
because `ended` only grows. That a row which has left the queue never returns
to it (`Onward`) is what keeps the first of these through every late write: a
handler only writes rows back with a terminal status. `Quiet` collects what
steps that at most move statuses on leave in order. Each action has one lemma
that shows both that it keeps the invariant and that it is a step of TaskLife
or a stutter, and `LifeStep` names which.

`SuccessLogged` has an invariant of its own, `LogInv`, which like the property
claims nothing where faults may happen. The log drops every event but the first of a sequence
number, so the "completed" event is only sure to be stored if its number is
unused. Who has a task determines how far its log may have come: as long as it
waits, or is with a poll, it has no event of an agent (`UntakenLog`); an agent
has sent the numbers up to the one it is at (`AgentLog`), and a request under
way is one of its present step (`SentLog`). Both need that nothing is sent or
answered twice: an agent waits for one poll, and that poll for nobody else
(`PollWaits`). A handler between its two statements counts as the entry it is
about to append, so a row may be ahead of the log by what a handler has in hand.

The assumptions are the module's `ConstantsAssumption`.

### ExecutorProofs

For any streams, capacities and amounts of output and under every set of
faults: `TypeCorrect`, that `TypeOK` is an invariant, and `ClosingIsLastHolds`,
the action property `ClosingIsLast`, of `Spec`.

Two paths lead to the closing event. After a child has run, Execute has waited
for the sender before. If the child could not be started it waits for the
sender only after the closing event (`agent/executor.go:298`), and the property
holds because the sender has nothing to send. The invariant therefore accounts
for every chunk, from the pipe over the reader's hands and the channel to the
event (`Accounted`), and says that without a child nothing was written
(`NoChild`) and where in Execute there is no child and no sender (`PlaceFits`).

The assumptions are the module's `ConstantsAssumption`.

### DeploymentProofs

For any features, nodes, targets and releases, any number of requests at once
and under all faults: `TypeOK`, `OneActivePerFeature`, `TasksInOrder`,
`SucceededHidesNothing` and `RecordedWasDeployed` are invariants and
`FailureStops` is an action property of `Spec`, and `Implementation`: `Spec`
implies `ImplementsLife`, so that Deployment implements OperationLife.

The scheduler drives an operation from a copy, while handlers write its rows
unconditionally. The invariant says what the scheduler may still rely on:

* `ClaimFits`: its operation was confirmed; its row is never succeeded before
  the scheduler writes that; and if somebody has queued it again, or a target
  of it has failed, then it was continued. Only ContinueOperation brings a
  failed target back into play, so `continued` is what carries `FailureStops`
  through an execution that overlaps a cancellation and a continuation.
* `StepFits`: at which step of the target it is, and the tasks that must have
  been run by then (`Through` after the last of them). It is what makes a
  target's mark "succeeded", and the release that is recorded, true.
* `OutcomeFits`: as long as nothing has failed every target is `Settled`, still
  on the list, or in hand. At the end of the list this is what the final status
  "succeeded" claims.

`RequestFits` says the same of the handlers: who is about to insert an
operation has its number for itself (`OneInsert`), and who is about to write a
target's row back holds a release that was deployed there. All of it survives
the steps of others because of `Grows`: an operation keeps what it was inserted
as, tasks stay, and what was run or continued was. `SchedKept`, `OthersKept`
and `AllKept` carry the parts over; `StatusWrite`, `TargetWrite`, `Recording`
and `TaskWrite` are the four kinds of unconditional writes.

The refinement needs one more thing of what is in hand: that it belongs to the
operation. `Within` says that the targets a scheduler or a cancellation still
has to write are targets of its operation, and the step the scheduler is at is
one that the operation has (an abstract operation could not mark or begin any
other). It is an invariant beside `IInv` (`WithinKept`), because no step
changes what an operation is or takes a target from it (`Fixed`). Given both,
each kind of write has a lemma that names the abstract step it is
(`InsertSeen`, `StatusSeen`, `MarkSeen`, `RecordSeen`, `BeginSeen`,
`TaskSeen`), and all other steps are not seen (`Unseen`). A late write is an
abstract step too: that is why the abstract operation may be cancelled at any
time, but be finished only while somebody may be executing it
(`ExecutesRightly`).

The assumptions are the module's `ConstantsAssumption`.

### NodeProofs

For any agents, node ids, handlers and patches, in every situation: `TypeOK`
and `SignableNode` are invariants and `DecisionsStick` is an action property
of `Spec`.

Every handler writes back a row it read some steps before. `RequestOK` says
what is still true of such a row:

* `VerdictOK`: while nobody else decides on the enrollment it is undecided;
  `OneVerdict` is what `contested` stands for.
* `ClaimOK`: what a claim has read was accepted, and its node, if it is still
  there, is `Tied` to the enrollment: the row names the node and the node has
  the credential of this generation.
* `WriteOK`: the row a heartbeat or a patch holds has the credential of the
  node, and a heartbeat's is enabled, for both checks refuse the other ones.

`WaitOK` and `KnowsOK` say whose answer an agent waits for and what it knows;
with `Tied` that is `SignableNode`. All of it survives the steps of others
because of `Later`, which every step keeps: a generation is never given twice,
a removed node stays away, a node keeps its credential, and an uncontested
enrollment that was accepted stays so until its node is removed. `Later` is
also half of `DecisionsStick`; `WriteOK` is the other.

The assumptions are the module's `NodeConstants`: `None` is nobody, nothing
and no enrollment, and administrators' handlers are not agents' handlers.

### RunnerProofs

For any set of releases and any number of faults: `SecretsContained` and
`LeftoversHarmless` are invariants and `NothingLost` an action property of
`RunnerSpec`. The properties speak of the moments between tasks; the invariant
says where in a task a backup directory (`BackupsOK`), a copy of a secret
(`SecretsOK`) and the directory the task works in (`PlaceOK`) may be. `Ending`
and `Continuing` carry what ends a task and what goes on to its next step.

The assumption is `RunnerConstants`: `Missing` is neither a release nor a
directory, the bound on faults is a natural number.

### RepositoryProofs

For any contents, any seed, any number of overwriters and syncs, and any number
of changes, failures, restarts and operations: `RunsFrozenHolds` and
`NoDriftHolds`, that `RunsFrozen` and `NoDrift` are invariants of
`RepositorySpec`.

`NoDrift` only speaks of the moments when no request for the secret is under
way, but the file changes several steps before the row does. The invariant says
what a request owes in between: until something disturbs it, an overwrite or a
deletion has the secret for itself (`Alone`) and the row is the one it read; an
overwrite that is about to store the row has put its file in place, and a
deletion has taken the file away before it deletes the row, or has failed to
(`Owed`). Once two requests have overlapped, or a restart has cut one short,
nothing is claimed, and neither is it while the last removal of the file is one
that failed (`leftover`), as the property says. For `RunsFrozen` it says that
whatever was sent carries no reference, since the schema would have refused it,
and that the preflight's sync belongs to an operation that was sent
(`OperationOK`). Steps that touch neither secret nor row go through `Elsewhere`
and `Aside`, those of an overwrite through `Advancing`.

The assumption is `RepositoryConstants`: `Gone` and `Unset` are no contents,
`Gone` is no row, the bounds are natural numbers.

### ServicesProofs

Five components that share no state, each with a specification of its own, and
their composition with the executor, for any number of requests and under all
faults:

* `LoginsGuardedHolds`: `LoginsGuarded` is an invariant of `SessionsSpec`. The
  bound speaks of a window, in which nothing counts what is verified while the
  bucket is locked. The invariant counts it: whoever is verified while it is
  locked was `Pending` when it locked, so the recent failures and the pending
  requests together stay within the bound (`WhileLocked`), and those that will
  still be in the window when the lock ends are at most the logins but the one
  that locked (`Late`). When it is open, what came after that lock is exactly
  what the bucket has (`WhileOpen`). That a window is no longer than a lock
  (`SessionsConstants`; both are five minutes in the code) is what keeps a third
  lock out of it.
* `TokenBooksHold`: `TokenBooksTrue` of `TokensSpec`. An editor that holds the
  token's revision saw what the token has (`EditorsSaw`), and a call that is
  about to write its row, or has, tells the truth (`CallsRecorded`).
* `StaysRegisteredHolds`: the safety half of `RegistryFollows`. Without an
  upload that is given up on there is `OneHandler`, it works on what the agent
  has loaded, and what it has upserted is registered (`Progress`).
* `CleanupSafe`: the safety half of `CleanupSound`. Until a protection is undone
  no more can be deleted than was counted (`Counted`), which is why the counted
  loop does not stop early; a protected lease has its row (`LeaseThere`), so
  its request is referenced.
* `QuotaKeptHolds`: `QuotaKept` is an invariant of `NotifySpec`. For
  `RateBound`, the bound on what may be taken in any stretch of time, every
  token taken was paid for (`AllPaid`): at each moment since which one counts,
  what was taken and what the bucket still holds are at most its capacity and
  what it has gained (`Paid`). A bucket that Cleanup drops, and that the next
  request makes anew and full, has been idle for a minute and would be full
  anyway (`PaidDrop`), which is why `Idle >= Minute` is assumed. The history
  `accepted` holds running totals, so that what was taken in a stretch is a
  difference and no sum, and needs no induction. For `RetryAfterSuffices`, a
  bucket that was promised a token has one, or will have gained it by then
  (`Ready`), and refilling early or in several steps changes nothing about that
  (`Refilled`); the rounding up of the wait is what makes it long enough
  (`RoundedUp`, `Waits`).
* `ServicesTypeCorrect` and `PromisesCompose`: the specification that the run
  `services` checks, `ServicesSpec`, keeps the types of all parts and every one
  of these promises, and `ClosingIsLast` of the executor. Its invariant is the
  conjunction of those of the parts (`ServicesInv`); a step of the composition
  is a step of each part or leaves it alone (`OneAtATime`), and an executor
  that is never called keeps its invariant too (`RestInv`).

The assumptions are those of the modules: finite sets of logins, leases and
tasks, positive limits and allowances, a window no longer than a lock, `Absent`
no content.

### Only model-checked

Every invariant that a run checks is proved for every value of the constants,
and so is every action property. The convergence half of `RegistryFollows`, the
progress half of `CleanupSound` and every other liveness property
(`EveryTaskCloses`, `QueueDrains`, `KeysGo`, `OperationEnds`, `SyncDelivers`,
`StatusFollows`, `ApprovedJoins`, `EverythingEnds`) stay with TLC, since the
prover has no fairness.

Two of the proofs were not possible at first, and the models were wrong:
`LockoutBound` did not allow for what is pending at the earlier of two locks,
which needs six guesses; and Retention let only one writer of leases hold a row,
so that no protection was ever undone under a run, which leaves old leases
behind in a table that the run calls clean.

## 7. Where code and documents differ

Runs that end in a violation, each a state the code can reach:

* `tasks_result`: the closing event makes the row terminal, so the result that
  follows does not store the exit code in it.
* `exec_timeout`: if the timeout or a cancellation comes before `proc.Start`
  has returned, the watcher has left and the child has no limit.
* `deploy_rollback`: a rollback is skipped if the current release is the last
  healthy one. A failed update changes neither, so the automatic rollback is
  always skipped, counted as a success, and the node keeps the failed release.
* `deploy_secrets`: the references that taskArguments puts into a task do not
  fit the schema of the command they are for, so no operation of a feature with
  a secret reference gets past the creation of its task. The agent's
  parseSecretRefs would refuse them too.

Met while modelling, present in the models, and not checked by a run:

* Tasks
  * A cancellation that read a running task overwrites a result stored in
    between, although terminal states are called irreversible (`TaskLife` has
    it as `Cancel`).
  * `PollTask` does not requeue a task it could not sign (its comment at
    `service/task.go:230` says so), and no code ever retries or closes a task
    whose agent is lost (`QueueTasksForRetry`, `store/task.go:168`, has no
    caller), so `EveryTaskCloses` needs the absence of faults.
  * Two CreateTask calls with one Idempotency-Key both miss the lookup; the
    unique constraint makes the second fail instead of answering with the task
    (`service/task.go:62`).
  * Execute clears a cancellation mark set before it (`agent/executor.go:162`),
    and a killed child is reported as failed (`:312`, `:349`).
* Leases
  * A heartbeat, renewal or report that read an active lease makes one that was
    closed in between active again.
  * A lease issued by a request in flight survives the revocation cascade of
    its token (it can open no session, `SessionsGated`).
  * A closed lease whose `key_installed` is false gets no removal order; the
    line stays until the local sweep. A report for the line before a renewal
    hides that the new line was never sent (`service/lease.go:376`). With two
    heartbeats in progress, stale reports can re-install a line again and again
    until the lease's expiry, so `KeysGo` is checked with one.
  * A restart between the two inserts leaves an approved request without a lease.
* Deployment operations
  * executeOperation looks for a cancellation in the copy it claimed, which
    never shows one: after a cancelled task it goes on with the next target,
    and a cancellation between its last read and finishOperation is lost.
  * A cancellation that overlaps a confirmation can mark a target cancelled
    under an operation that succeeds, hence the disjunct in
    `SucceededHidesNothing`.
  * After a restart a running operation stays running, and blocks its feature
    and nodes, until someone cancels it.
  * The targets a failed operation never reached stay queued and keep their
    node (migration 0010); a failed operation cannot be cancelled, only
    continued. Skipped targets count as failures then.
  * pollTask's time-out leaves the task open: the agent may still run it.
  * UpdateTarget writes back the release columns it read, so an edit can put
    back an older current release (`RecordedWasDeployed` still holds).
  * Nothing sets a task's result summary, so recordBackupFromTask never stores
    a backup; besides, taskArguments sends a `release_id` that the command of a
    restore does not know. A restore can never be created.
* Repository
  * References of different names for one feature and node share one file, and
    so do shared references of two features with one name: overwriting one of
    them blocks every sync. So does a reference that has no content yet, and the drift that
    overlapping overwrites, or an overwrite and a deletion, leave (`Drifted`).
  * The removal of a secret's file is best effort (`deployment_service.go:1414`,
    `:1577`): one that fails leaves the file. If its row is gone then no sync
    verifies it, and every sync signs it and carries it on to the nodes
    (`leftover`).
  * A crash in OverwriteSecret leaves a `.tmp-secret-*` file that the next sync
    uploads. Its direct put makes the bucket disagree with its manifest until
    the next sync; it and DeleteSecretReference leave the profile's prefix out,
    which uploadRepository adds. A failed sync leaves a mixed repository.
  * The files of a deleted profile stay everywhere. CreateConfigProfile and
    ensureSigningKey check first and write later.
* Runner
  * After a kill or a removal that failed, the `.old` directory makes every
    further install of that version fail (`safeextract.go:272`) and is taken
    for a release by a rollback; `LeftoversHarmless` excepts it by `tainted`.
  * A data directory inside the rendered one is lost on reinstallation
    (`deployment_runner.go:1263`). The backup step of an update looks in the
    directory of the new version.
* Nodes
  * Two approvals of one enrollment make two nodes with one credential, an
    approval and a rejection overwrite each other (`contested`), and two
    primaries may both be enabled (`OnePrimary` is false).
  * A claim whose answer is lost, a crash in the middle of it, or an approval
    that expired leaves the agent stuck until its node is deleted.
  * The deletion's "atomic guard" does not keep a node from coming online
    before it is removed (`DeletedWhileDown` is false). A heartbeat in flight
    can undo a disabling.
* Agent
  * A deployment task whose hook does not come back hangs the node's task loop,
    whatever its timeout (`RunnerHangs`).
  * An event's row is written before its log entry and a result's output
    between the two (`service/task.go:332`, `:362`, `:412`): a client that gives
    up in between leaves a closed task without its event, or without its output.
* Smaller services
  * A failed upload of commands is not retried until the next change
    (`agent.go:478`); a handler that outlives its client deletes commands that
    a newer snapshot has registered.
  * Login writes back the old password over a change that overlaps it;
    ChangePassword revokes no session although its comment (`service/auth.go:172`)
    says so. `LoginLimiter.Cleanup` and `DeleteExpiredSessions` have no caller.
  * UpdatePermissions answers and audits what may be another editor's revision;
    a client that hangs up loses its usage row; a request that is denied later
    has used up its quota.
  * One protected lease makes the deletion of a batch of old requests fail
    (foreign key in `0001_init.sql:222`), and a closed connection leaves a
    cleanup run in state running. A writer that read a lease before it was
    protected undoes the protection, and a cleanup that has counted before may
    then leave an old lease to the next week's.
  * The lock-out counts nothing while it lasts: the requests that had passed its
    check are verified all the same, those of two locks within one window.

## 8. Not modelled

* Of the deployment service: the catalogue (features, releases and their
  publishing), the edits of targets other than those of a release, OSS profiles
  and bootstrap sessions; and the restore, which can never be requested. They
  are the rest of the plan.
* The event broker: its pushes only hasten what polling does. The two that
  matter are in the models, the push of a cancellation in Executor and of a
  heartbeat in Lease.
* Direct commands of a node, parameter histories, auto-approval of leases,
  templates of notifications, settings and the audit log: single inserts or
  single rows that nothing else here depends on.
* What a restart of the control plane empties in memory: the limiter of logins
  and the buckets of notifications. `LoginsGuarded` and `QuotaKept` are about
  one process; a restart starts both counts anew.
* What is written beside the state and read by nothing in it: the rows of
  heartbeats (`CreateHeartbeat`, the statement before `UpdateNode`), and the
  manifest's canonical payload, which only `scripts/` reads. The temporary file
  of OverwriteSecret is no file of `local`.
* Steps that are wider than the code's: computeRepositoryObjects hashes all
  files in one step, and the runtime check of a lease and the opening of its
  session are one.
* A status that a patch of a node makes up is one value, "other", whatever it
  says.
* What RegistryFollows does not say: once a handler has outlived its client or
  an upload has failed it claims nothing, so the deletions of a late handler
  are in the model and in section 7, and checked by no property.
* Database errors in the middle of a handler, except in Retention and
  Repository: they end it as a restart does.
* Left out for good: the frontend, the scripts, the signing of requests,
  archive extraction, schema validation beyond what a task's arguments need,
  secret redaction, password hashing, configuration, HTTP routing, the child
  proxy and migrations, which are request-local, pure I/O or string processing.

`PROJECT.json` gives the reason for each component.
