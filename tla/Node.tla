-------------------------------- MODULE Node --------------------------------
(***************************************************************************)
(* How a node joins, stays visible and leaves: NodeService with its two    *)
(* tables (node_enrollment and node), the agent's registration and         *)
(* heartbeats, and the offline sweep of the scheduler.                     *)
(*                                                                         *)
(* A handler reads a row with one statement and writes it back, whole,     *)
(* with a later one.  Every handler in progress is a record of req with    *)
(* the row it has read, so any two of them may interleave between their    *)
(* statements.                                                             *)
(*                                                                         *)
(* A definition right before the one it alters is that definition with a   *)
(* plausible mistake in it.  Next does not use it: it shows which mistake  *)
(* a property catches.                                                     *)
(***************************************************************************)
EXTENDS Naturals, FiniteSets

CONSTANTS
    Agent,      \* installed agents, each with its instance_request_id
    NodeId,     \* node ids (fresh UUIDs)
    Admin,      \* concurrent handlers of administrator requests
    Serve,      \* concurrent handlers of agent requests
    Patches,    \* the patches an administrator may send
    World,      \* the situations explored, see below
    MaxGen,     \* bound: enrollments of one agent
    None        \* "no agent", "no node", "no handler"

FaultKind == {"crash",  \* an agent process dies and is restarted
              "late",   \* the agent's HTTP client gives up on an answer
              "closed"} \* an administrator closes the page of a request

(* A situation: the agents that are started, the role they ask for, the    *)
(* faults that happen and how many administrator requests there are.       *)
Situation == [agents : SUBSET Agent, role : {"primary", "child"},
              faults : SUBSET FaultKind, requests : Nat]

(* NodePatch: "keep" is a field the request leaves out.  A patch may carry *)
(* any string as the status; "other" stands for all those that mean        *)
(* nothing to the program.                                                 *)
NodePatch == [enabled : {"keep", "on", "off"},
              status : {"keep", "pending", "online", "offline", "disabled", "other"}]

ASSUME NodeConstants ==
    /\ Patches \subseteq NodePatch
    /\ World \subseteq Situation
    /\ MaxGen \in Nat
    /\ None \notin Agent \cup NodeId \cup Admin \cup Serve
    /\ None \notin Agent \X Nat
    /\ Admin \cap Serve = {}

-----------------------------------------------------------------------------
(* An enrollment row.  Its id is the agent and the generation, a new one   *)
(* for every row the agent's request inserts; token is that                *)
(* claim_token_hash is set, live that claim_expires_at is in the future.   *)
NodeEnrollment == [status : {"absent", "pending", "approved", "rejected", "claimed"},
                   gen : Nat, token : BOOLEAN, live : BOOLEAN,
                   node : NodeId \cup {None}]

(* claimTokenFor and credentialFor derive the claim token and from it the  *)
(* credential from the enrollment id, so both are that id here.            *)
Credential == (Agent \X Nat) \cup {None}
credentialFor(a, g) == <<a, g>>

(* A node row; hb is the age of last_heartbeat_at against the threshold.   *)
NodeStatus == {"pending", "online", "offline", "disabled", "other"}
NodeRow == [status : NodeStatus \cup {"absent", "deleted"}, enabled : BOOLEAN,
            cred : Credential, hb : {"never", "fresh", "stale"}]

NoEnrollment == [status |-> "absent", gen |-> 0, token |-> FALSE, live |-> FALSE, node |-> None]
NoRow == [status |-> "absent", enabled |-> FALSE, cred |-> None, hb |-> "never"]

(* A request in progress: what it is, whom it is about, and what it read.  *)
AdminOp == {"approve", "approving", "reject", "patch", "delete"}
AgentOp == {"enroll", "claim", "heartbeat"}
Request == [op : AdminOp \cup AgentOp \cup {"idle"}, agent : Agent \cup {None},
            node : NodeId \cup {None}, enr : NodeEnrollment, row : NodeRow]
Idle == [op |-> "idle", agent |-> None, node |-> None, enr |-> NoEnrollment, row |-> NoRow]

(* The identity file: none, one without a node (its instance_request_id    *)
(* and key are saved before the first request), or a claimed one.          *)
Identity == {"none", "pending", "claimed"}

AgentPC == {"off", "start", "register", "enrolling", "poll", "claim",
            "claiming", "save", "run", "beating"}

VARIABLES
    world,     \* the situation, chosen at the start
    enr,       \* the node_enrollment table, one row per instance request
    node,      \* the node table
    req,       \* the handlers in progress
    sweep,     \* the ids MarkNodesOffline has selected and not yet updated
    pc,        \* where each agent is
    id,        \* the identity file of each agent
    eid,       \* the enrollment the agent knows, from which its credential derives
    named,     \* the node id in that identity
    on,        \* the handler whose answer the agent waits for
    admins,    \* administrator requests so far
    contested  \* history: the enrollments with two verdicts in progress at once

tables == <<enr, node>>
agentVars == <<pc, id, eid, named, on>>
vars == <<world, tables, req, sweep, agentVars, admins, contested>>

TypeOK ==
    /\ world \in World
    /\ enr \in [Agent -> NodeEnrollment]
    /\ node \in [NodeId -> NodeRow]
    /\ req \in [Admin \cup Serve -> Request]
    /\ sweep \subseteq NodeId
    /\ pc \in [Agent -> AgentPC]
    /\ id \in [Agent -> Identity]
    /\ eid \in [Agent -> Credential]
    /\ named \in [Agent -> NodeId \cup {None}]
    /\ on \in [Agent -> Serve \cup {None}]
    /\ admins \in Nat
    /\ contested \subseteq Agent \X Nat

Init ==
    /\ world \in World
    /\ enr = [a \in Agent |-> NoEnrollment]
    /\ node = [n \in NodeId |-> NoRow]
    /\ req = [h \in Admin \cup Serve |-> Idle]
    /\ sweep = {}
    /\ pc = [a \in Agent |-> IF a \in world.agents THEN "start" ELSE "off"]
    /\ id = [a \in Agent |-> "none"]
    /\ eid = [a \in Agent |-> None]
    /\ named = [a \in Agent |-> None]
    /\ on = [a \in Agent |-> None]
    /\ admins = 0
    /\ contested = {}

-----------------------------------------------------------------------------
(* The store: one operator per statement.                                  *)

Exists(n) == node[n].status \notin {"absent", "deleted"}

(* SELECT ... WHERE role='primary' AND enabled=1                           *)
FindEnabledPrimary ==
    {n \in NodeId : Exists(n) /\ node[n].enabled /\ world.role = "primary"}

(* INSERT INTO node with a fresh id.                                       *)
Fresh == {n \in NodeId : node[n].status = "absent"}
CreateNode(n, a, g) ==
    node' = [node EXCEPT ![n] = [status |-> "pending", enabled |-> TRUE,
                                 cred |-> credentialFor(a, g), hb |-> "never"]]

(* INSERT INTO node_enrollment with a fresh id.                            *)
InsertRow(a) ==
    enr' = [enr EXCEPT ![a] = [NoEnrollment EXCEPT !.status = "pending", !.gen = enr[a].gen + 1]]

(* UPDATE node SET every mutable column WHERE id: no row, no effect.       *)
UpdateNode(n, r) == node' = [node EXCEPT ![n] = IF Exists(n) THEN r ELSE @]

(* UPDATE node_enrollment ... WHERE id: no effect on a row that is gone.   *)
UpdateEnrollment(a, e) ==
    enr' = [enr EXCEPT ![a] = IF @.status # "absent" /\ @.gen = e.gen THEN e ELSE @]

(* The transaction of DeleteNodeCascade: the node's enrollment and the     *)
(* node go.  The tables of tasks, leases and measurements that go with     *)
(* them are not part of this module.                                       *)
DeleteNodeCascade(n) ==
    /\ enr' = [a \in Agent |-> IF enr[a].node = n /\ enr[a].status # "absent"
                               THEN [NoEnrollment EXCEPT !.gen = enr[a].gen] ELSE enr[a]]
    /\ node' = [node EXCEPT ![n] = [NoRow EXCEPT !.status = "deleted"]]

-----------------------------------------------------------------------------
(* Answers.  A handler ends by answering; the agent sees the answer only   *)
(* if it still waits for this handler.                                     *)

(* Handlers are alike: of the free ones in H a request takes a fixed one.  *)
IsFree(h, H) ==
    LET free == {x \in H : req[x].op = "idle"}
    IN  free # {} /\ h = CHOOSE x \in free : TRUE

Waits(a, h) == on[a] = h
Done(h) == req' = [req EXCEPT ![h] = Idle]

(* The agent leaves its wait for handler h and goes on at next.            *)
Proceed(a, h, next) ==
    IF Waits(a, h)
    THEN /\ pc' = [pc EXCEPT ![a] = next]
         /\ on' = [on EXCEPT ![a] = None]
    ELSE UNCHANGED <<pc, on>>

(* The agent learns its enrollment from the answer of handler h.           *)
Learn(a, h, g) == eid' = IF Waits(a, h) THEN [eid EXCEPT ![a] = <<a, g>>] ELSE eid

(* POST /agent/enrollments, first statement: an existing row of this       *)
(* instance request is the answer; a second primary is refused.            *)
CreateEnrollment(h) ==
    LET a == req[h].agent IN
    /\ req[h].op = "enroll"
    /\ req[h].enr.status = "absent"
    /\ \/ /\ enr[a].status # "absent"
          /\ Proceed(a, h, "poll") /\ Learn(a, h, enr[a].gen) /\ Done(h)
       \/ /\ enr[a].status = "absent"
          /\ world.role = "primary" /\ FindEnabledPrimary # {}
          /\ Proceed(a, h, "start") /\ Done(h)
          /\ UNCHANGED eid
       \/ /\ enr[a].status = "absent"
          /\ ~(world.role = "primary" /\ FindEnabledPrimary # {})
          /\ enr[a].gen < MaxGen
          /\ req' = [req EXCEPT ![h].enr = [NoEnrollment EXCEPT !.status = "pending"]]
          /\ UNCHANGED <<pc, on, eid>>
    /\ UNCHANGED <<world, tables, sweep, id, named, admins, contested>>

(* Its second statement inserts the row; UNIQUE(environment_id,            *)
(* instance_request_id) refuses the loser of two requests.                 *)
InsertEnrollment(h) ==
    LET a == req[h].agent IN
    /\ req[h].op = "enroll"
    /\ req[h].enr.status = "pending"
    /\ IF enr[a].status = "absent"
       THEN /\ InsertRow(a)
            /\ Proceed(a, h, "poll") /\ Learn(a, h, enr[a].gen + 1)
       ELSE /\ Proceed(a, h, "start")
            /\ UNCHANGED <<enr, eid>>
    /\ Done(h)
    /\ UNCHANGED <<world, node, sweep, id, named, admins, contested>>

(* An enrollment that ClaimEnrollment accepts: approved, its token set and *)
(* not expired.  The agent proves its key, which it always can.            *)
Claimable(e) == e.status = "approved" /\ e.token /\ e.live

(* POST .../claim, reads: the enrollment and its node, whose credential    *)
(* must be the one the claim token yields.                                 *)
ClaimEnrollment(h) ==
    LET a == req[h].agent IN
    /\ req[h].op = "claim"
    /\ req[h].row = NoRow
    /\ IF /\ enr[a].gen = req[h].enr.gen
          /\ Claimable(enr[a])
          /\ Exists(enr[a].node)
          /\ node[enr[a].node].cred = credentialFor(a, enr[a].gen)
       THEN /\ req' = [req EXCEPT ![h].enr = enr[a], ![h].row = node[enr[a].node]]
            /\ UNCHANGED <<pc, on>>
       ELSE Proceed(a, h, "start") /\ Done(h)
    /\ UNCHANGED <<world, tables, sweep, id, eid, named, admins, contested>>

ClaimedCleared(e) == [NoEnrollment EXCEPT !.status = "claimed", !.gen = e.gen]
Claimed(e) == [e EXCEPT !.status = "claimed", !.token = FALSE, !.live = FALSE]

(* ... and its write, which spends the token and answers the identity.     *)
FinishClaim(h) ==
    LET a == req[h].agent
        e == req[h].enr IN
    /\ req[h].op = "claim"
    /\ req[h].row # NoRow
    /\ UpdateEnrollment(a, Claimed(e))
    /\ Proceed(a, h, "save")
    /\ named' = IF Waits(a, h) THEN [named EXCEPT ![a] = e.node] ELSE named
    /\ Done(h)
    /\ UNCHANGED <<world, node, sweep, id, eid, admins, contested>>

(* agentAuth: the rows with the agent's credential.                        *)
NodeByCredentialHash(a) == {n \in NodeId : Exists(n) /\ node[n].cred = eid[a]}

(* Both agentAuth and Heartbeat refuse a node that is not enabled.         *)
ServedAlways(n) == TRUE
Served(n) == node[n].enabled

BeatenKeepingStatus(r) == [r EXCEPT !.hb = "fresh"]
Beaten(r) == [r EXCEPT !.status = "online", !.hb = "fresh"]

(* POST /agent/heartbeat, reads.  If two rows have the credential the      *)
(* query may return either.                                                *)
Heartbeat(h) ==
    LET a == req[h].agent
        found == NodeByCredentialHash(a) IN
    /\ req[h].op = "heartbeat"
    /\ req[h].node = None
    /\ \/ \E n \in found :
            /\ Served(n)
            /\ req' = [req EXCEPT ![h].node = n,
                                  ![h].row = Beaten(node[n])]
            /\ UNCHANGED <<pc, on>>
       \/ /\ found = {} \/ \E n \in found : ~Served(n)
          /\ Proceed(a, h, "run") /\ Done(h)
    /\ UNCHANGED <<world, tables, sweep, id, eid, named, admins, contested>>

(* ... and its writes: the measurement, which is not part of the state and *)
(* whose foreign key ends the request if the node is gone, then the whole  *)
(* node row as read with status online, which has no effect if the node is *)
(* gone by then.  So node is written once, by the second statement.        *)
FinishHeartbeat(h) ==
    LET a == req[h].agent IN
    /\ req[h].op = "heartbeat"
    /\ req[h].node # None
    /\ UpdateNode(req[h].node, req[h].row)
    /\ Proceed(a, h, "run")
    /\ Done(h)
    /\ UNCHANGED <<world, enr, sweep, id, eid, named, admins, contested>>

-----------------------------------------------------------------------------
(* Administrator requests.                                                 *)

AdminMay(h) == IsFree(h, Admin) /\ admins < world.requests

(* Two verdicts on one enrollment are in progress at once.                 *)
Contest(a) ==
    contested' = IF \E h \in Admin : req[h].op \in {"approve", "approving", "reject"} /\ req[h].agent = a
                 THEN contested \cup {<<a, enr[a].gen>>} ELSE contested

(* POST /node-enrollments/{id}/approve, reads: only a pending enrollment,  *)
(* and no second primary.                                                  *)
ApproveEnrollment(h, a) ==
    /\ AdminMay(h)
    /\ enr[a].status = "pending"
    /\ ~(world.role = "primary" /\ FindEnabledPrimary # {})
    /\ req' = [req EXCEPT ![h] = [Idle EXCEPT !.op = "approve", !.agent = a, !.enr = enr[a]]]
    /\ admins' = admins + 1
    /\ Contest(a)
    /\ UNCHANGED <<world, tables, sweep, agentVars>>

(* ... its first write, the node ...                                       *)
ApproveCreate(h) ==
    /\ req[h].op = "approve"
    /\ Fresh # {}
    /\ LET n == CHOOSE x \in Fresh : TRUE
           a == req[h].agent IN
       /\ CreateNode(n, a, req[h].enr.gen)
       /\ req' = [req EXCEPT ![h].op = "approving", ![h].node = n]
    /\ UNCHANGED <<world, enr, sweep, agentVars, admins, contested>>

(* ... and its second, the enrollment as read with the verdict in it.      *)
ApproveFinish(h) ==
    /\ req[h].op = "approving"
    /\ UpdateEnrollment(req[h].agent, [req[h].enr EXCEPT !.status = "approved", !.token = TRUE,
                                                         !.live = TRUE, !.node = req[h].node])
    /\ Done(h)
    /\ UNCHANGED <<world, node, sweep, agentVars, admins, contested>>

(* POST /node-enrollments/{id}/reject: read, then write the whole row.     *)
RejectEnrollment(h, a) ==
    /\ AdminMay(h)
    /\ enr[a].status = "pending"
    /\ req' = [req EXCEPT ![h] = [Idle EXCEPT !.op = "reject", !.agent = a, !.enr = enr[a]]]
    /\ admins' = admins + 1
    /\ Contest(a)
    /\ UNCHANGED <<world, tables, sweep, agentVars>>

RejectFinish(h) ==
    /\ req[h].op = "reject"
    /\ UpdateEnrollment(req[h].agent, [req[h].enr EXCEPT !.status = "rejected"])
    /\ Done(h)
    /\ UNCHANGED <<world, node, sweep, agentVars, admins, contested>>

PatchedVerbatim(r, p) == [r EXCEPT !.enabled = p.enabled = "on", !.status = p.status]

(* The row PatchNode writes: the enabled field first, then the status.     *)
Patched(r, p) ==
    LET e == [r EXCEPT !.enabled = IF p.enabled = "keep" THEN @ ELSE p.enabled = "on",
                       !.status = IF p.enabled = "off" THEN "disabled" ELSE @]
    IN  IF p.status = "keep" THEN e
        ELSE [e EXCEPT !.enabled = @ /\ p.status # "disabled", !.status = p.status]

(* PATCH /nodes/{id}: read, then write the whole row.                      *)
PatchNode(h, n, p) ==
    /\ AdminMay(h)
    /\ Exists(n)
    /\ req' = [req EXCEPT ![h] = [Idle EXCEPT !.op = "patch", !.node = n,
                                              !.row = Patched(node[n], p)]]
    /\ admins' = admins + 1
    /\ UNCHANGED <<world, tables, sweep, agentVars, contested>>

PatchFinish(h) ==
    /\ req[h].op = "patch"
    /\ UpdateNode(req[h].node, req[h].row)
    /\ Done(h)
    /\ UNCHANGED <<world, enr, sweep, agentVars, admins, contested>>

(* A node that may be removed: an offline or disabled child.               *)
Deletable(n) ==
    /\ Exists(n)
    /\ world.role = "child"
    /\ node[n].status \in {"offline", "disabled"}

(* DELETE /nodes/{id}: the checks, then the transaction, which only asks   *)
(* that the row is still there.                                            *)
DeleteNode(h, n) ==
    /\ AdminMay(h)
    /\ Deletable(n)
    /\ req' = [req EXCEPT ![h] = [Idle EXCEPT !.op = "delete", !.node = n]]
    /\ admins' = admins + 1
    /\ UNCHANGED <<world, tables, sweep, agentVars, contested>>

DeleteFinish(h) ==
    /\ req[h].op = "delete"
    /\ IF Exists(req[h].node) THEN DeleteNodeCascade(req[h].node) ELSE UNCHANGED tables
    /\ Done(h)
    /\ UNCHANGED <<world, sweep, agentVars, admins, contested>>

-----------------------------------------------------------------------------
(* The scheduler's offline detection: a SELECT, then one UPDATE per id     *)
(* that does not look at the row again.                                    *)

StaleNodes == {n \in NodeId : /\ Exists(n) /\ node[n].enabled
                              /\ node[n].status = "online"
                              /\ node[n].hb # "fresh"}

MarkOfflineNodes ==
    /\ sweep = {}
    /\ StaleNodes # {}
    /\ sweep' = StaleNodes
    /\ UNCHANGED <<world, tables, req, agentVars, admins, contested>>

MarkOffline(n) ==
    /\ n \in sweep
    /\ sweep' = sweep \ {n}
    /\ UpdateNode(n, [node[n] EXCEPT !.status = "offline"])
    /\ UNCHANGED <<world, enr, req, agentVars, admins, contested>>

-----------------------------------------------------------------------------
(* The agent.                                                              *)

(* Send a request: a free handler takes it, the agent waits at next.       *)
Send(a, op, next) ==
    \E h \in Serve :
        /\ IsFree(h, Serve)
        /\ req' = [req EXCEPT ![h] = [Idle EXCEPT !.op = op, !.agent = a,
                                       !.enr.gen = IF op = "claim" THEN eid[a][2] ELSE 0]]
        /\ on' = [on EXCEPT ![a] = h]
        /\ pc' = [pc EXCEPT ![a] = next]

(* ensureIdentity: a claimed identity on disk is used for ever; otherwise  *)
(* a pending one is saved first, so that every retry has the same          *)
(* instance_request_id.                                                    *)
ensureIdentity(a) ==
    /\ pc[a] = "start"
    /\ pc' = [pc EXCEPT ![a] = IF id[a] = "claimed" THEN "run" ELSE "register"]
    /\ id' = [id EXCEPT ![a] = IF @ = "none" THEN "pending" ELSE @]
    /\ UNCHANGED <<world, tables, req, sweep, eid, named, on, admins, contested>>

registerAndClaim(a) ==
    /\ pc[a] = "register"
    /\ Send(a, "enroll", "enrolling")
    /\ UNCHANGED <<world, tables, sweep, id, eid, named, admins, contested>>

(* GET /agent/enrollments/{id}: the row of the id the agent knows.         *)
Enrollment(a) == IF eid[a] = <<a, enr[a].gen>> THEN enr[a] ELSE NoEnrollment

(* One poll of the enrollment: its token while it is approved and live, an *)
(* error when it is rejected.  Any other answer is polled again.           *)
PollEnrollment(a) ==
    /\ pc[a] = "poll"
    /\ \/ Claimable(Enrollment(a)) /\ pc' = [pc EXCEPT ![a] = "claim"]
       \/ Enrollment(a).status = "rejected" /\ pc' = [pc EXCEPT ![a] = "start"]
    /\ UNCHANGED <<world, tables, req, sweep, id, eid, named, on, admins, contested>>

(* Thirty minutes without a token: the whole registration starts again.    *)
PollDeadline(a) ==
    /\ pc[a] = "poll"
    /\ ~Claimable(Enrollment(a))
    /\ pc' = [pc EXCEPT ![a] = "start"]
    /\ UNCHANGED <<world, tables, req, sweep, id, eid, named, on, admins, contested>>

SendClaim(a) ==
    /\ pc[a] = "claim"
    /\ Send(a, "claim", "claiming")
    /\ UNCHANGED <<world, tables, sweep, id, eid, named, admins, contested>>

SaveSkipped(a) ==
    /\ pc[a] = "save"
    /\ pc' = [pc EXCEPT ![a] = "run"]
    /\ UNCHANGED <<world, tables, req, sweep, id, eid, named, on, admins, contested>>

(* SaveIdentity writes a temporary file and renames it.                    *)
SaveIdentity(a) ==
    /\ pc[a] = "save"
    /\ id' = [id EXCEPT ![a] = "claimed"]
    /\ pc' = [pc EXCEPT ![a] = "run"]
    /\ UNCHANGED <<world, tables, req, sweep, eid, named, on, admins, contested>>

(* heartbeatLoop: one heartbeat per interval, whatever the last one gave.  *)
sendHeartbeat(a) ==
    /\ pc[a] = "run"
    /\ Send(a, "heartbeat", "beating")
    /\ UNCHANGED <<world, tables, sweep, id, eid, named, admins, contested>>

-----------------------------------------------------------------------------
(* Time and faults.                                                        *)

(* A heartbeat interval passes the threshold, also for a row still in a    *)
(* handler's hands.                                                        *)
Age(r) == [r EXCEPT !.hb = IF @ = "fresh" THEN "stale" ELSE @]
HeartbeatAges(n) ==
    /\ node[n].hb = "fresh"
    /\ node' = [node EXCEPT ![n] = Age(@)]
    /\ req' = [h \in Admin \cup Serve |->
                 IF req[h].node = n THEN [req[h] EXCEPT !.row = Age(@)] ELSE req[h]]
    /\ UNCHANGED <<world, enr, sweep, agentVars, admins, contested>>

(* ClaimTTL passes before the token is used.                               *)
ClaimExpires(a) ==
    /\ enr[a].live
    /\ enr' = [enr EXCEPT ![a].live = FALSE]
    /\ UNCHANGED <<world, node, req, sweep, agentVars, admins, contested>>

(* The agent dies and is started again with what it has saved.             *)
Crash(a) ==
    /\ "crash" \in world.faults
    /\ pc[a] \notin {"off", "start"}
    /\ pc' = [pc EXCEPT ![a] = "start"]
    /\ on' = [on EXCEPT ![a] = None]
    /\ eid' = IF id[a] = "claimed" THEN eid ELSE [eid EXCEPT ![a] = None]
    /\ named' = IF id[a] = "claimed" THEN named ELSE [named EXCEPT ![a] = None]
    /\ UNCHANGED <<world, tables, req, sweep, id, admins, contested>>

(* The client's timeout passes: the handler goes on without its caller.    *)
GiveUp(a) ==
    /\ "late" \in world.faults
    /\ on[a] # None
    /\ on' = [on EXCEPT ![a] = None]
    /\ pc' = [pc EXCEPT ![a] = IF @ = "beating" THEN "run" ELSE "start"]
    /\ UNCHANGED <<world, tables, req, sweep, id, eid, named, admins, contested>>

(* The connection of a caller who has gone is closed, which cancels the    *)
(* request's context: its next statement fails and the handler ends.       *)
Abort(h) ==
    /\ req[h].op # "idle"
    /\ IF h \in Serve THEN ~Waits(req[h].agent, h) ELSE "closed" \in world.faults
    /\ Done(h)
    /\ UNCHANGED <<world, tables, sweep, agentVars, admins, contested>>

-----------------------------------------------------------------------------
AgentStep(a) ==
    \/ ensureIdentity(a) \/ registerAndClaim(a) \/ PollEnrollment(a)
    \/ SendClaim(a) \/ SaveIdentity(a) \/ sendHeartbeat(a)

ServeStep(h) ==
    \/ CreateEnrollment(h) \/ InsertEnrollment(h) \/ ClaimEnrollment(h)
    \/ FinishClaim(h) \/ Heartbeat(h) \/ FinishHeartbeat(h)

AdminFinish(h) ==
    \/ ApproveCreate(h) \/ ApproveFinish(h) \/ RejectFinish(h)
    \/ PatchFinish(h) \/ DeleteFinish(h)

SweepStep == MarkOfflineNodes \/ \E n \in NodeId : MarkOffline(n)

Next ==
    \/ \E a \in Agent : AgentStep(a) \/ PollDeadline(a) \/ ClaimExpires(a) \/ Crash(a) \/ GiveUp(a)
    \/ \E h \in Serve : ServeStep(h)
    \/ \E h \in Admin : AdminFinish(h)
    \/ \E h \in Admin \cup Serve : Abort(h)
    \/ \E h \in Admin, a \in Agent : ApproveEnrollment(h, a) \/ RejectEnrollment(h, a)
    \/ \E h \in Admin, n \in NodeId : DeleteNode(h, n) \/ \E p \in Patches : PatchNode(h, n, p)
    \/ SweepStep
    \/ \E n \in NodeId : HeartbeatAges(n)

Spec == Init /\ [][Next]_vars

(* Agents and handlers do not stop between two of their steps, and the     *)
(* scheduler ticks for ever.  Nothing is assumed of administrators, of     *)
(* time and of faults.                                                     *)
Fairness ==
    /\ \A a \in Agent : WF_vars(AgentStep(a))
    /\ \A h \in Serve : WF_vars(ServeStep(h))
    /\ \A h \in Admin : WF_vars(AdminFinish(h))
    /\ WF_vars(MarkOfflineNodes)
    /\ \A n \in NodeId : WF_vars(MarkOffline(n))

FairSpec == Spec /\ Fairness

-----------------------------------------------------------------------------
(* Properties.                                                             *)

(* A node whose agent has its identity keeps the enrollment the identity   *)
(* came from, for CredentialForNode derives from it the key that signs the *)
(* node's tasks; handlers that overlap, crashes and late claims do not     *)
(* change that, as long as no two verdicts on the enrollment overlapped.   *)
SignableNode ==
    \A a \in Agent :
        (/\ id[a] = "claimed"
         /\ Exists(named[a])
         /\ eid[a] \notin contested)
        => /\ Enrollment(a).node = named[a]
           /\ Enrollment(a).status = "claimed"
           /\ node[named[a]].cred = eid[a]

(* What DeleteNodeCascade removed stays removed, although heartbeats,      *)
(* claims, patches and the sweep may still hold the rows they read.        *)
DeletedForGood ==
    /\ \A n \in NodeId : node[n].status = "deleted" => node'[n].status = "deleted"
    /\ \A a \in Agent : /\ enr'[a].gen >= enr[a].gen
                        /\ (enr[a].status = "absent" /\ enr'[a].status # "absent")
                             => enr'[a].gen > enr[a].gen

(* Once the handlers that read a node before it was disabled are done, no  *)
(* heartbeat and no sweep enables it or shows it online again: only a      *)
(* patch of an administrator does.                                         *)
DisableSticks ==
    \A n \in NodeId :
        (/\ Exists(n) /\ ~node[n].enabled
         /\ \A h \in Admin \cup Serve : req[h].node = n => ~req[h].row.enabled
         /\ ~\E h \in Admin : req[h].op = "patch" /\ req[h].node = n)
        => /\ ~node'[n].enabled
           /\ node'[n].status = "online" => node[n].status = "online"

(* What an administrator decided about a node is not undone by a request   *)
(* that read the row before: neither a deletion nor, once those that did   *)
(* are over, a disabling.                                                  *)
DecisionsStick == [][DeletedForGood /\ DisableSticks]_vars

(* NODE-008, first half: an enabled node without a heartbeat within the    *)
(* threshold does not stay online, not even one an administrator set       *)
(* online before its first heartbeat.                                      *)
OfflineDetected ==
    \A n \in NodeId :
        (Exists(n) /\ node[n].enabled /\ node[n].status = "online" /\ node[n].hb # "fresh")
        ~> (~Exists(n) \/ ~node[n].enabled \/ node[n].status # "online" \/ node[n].hb = "fresh")

(* NODE-008, second half: the node of a running agent comes back online    *)
(* whatever a sweep or a patch that overlapped its heartbeats wrote, unless*)
(* it is disabled or removed, or another node has its credential.  Calls   *)
(* that are given up on may be aborted for ever, so there are none.        *)
HeartbeatRecovers ==
    \A a \in Agent :
        (/\ "late" \notin world.faults
         /\ pc[a] \in {"run", "beating"} /\ Exists(named[a]) /\ node[named[a]].enabled)
        ~> (\/ pc[a] \notin {"run", "beating"}
            \/ ~Exists(named[a]) \/ ~node[named[a]].enabled
            \/ node[named[a]].status = "online"
            \/ NodeByCredentialHash(a) # {named[a]})

(* NODE-008: the status of a node follows its heartbeats.                  *)
StatusFollows == OfflineDetected /\ HeartbeatRecovers

(* Without faults an approval gives the agent its identity: the token      *)
(* reaches it and is not spent in vain, unless it expires first, a         *)
(* rejection overwrites it or the node is removed meanwhile.               *)
ApprovedJoins ==
    \A a \in Agent :
        (world.faults = {} /\ enr[a].status \in {"approved", "claimed"})
        ~> (\/ id[a] = "claimed"
            \/ enr[a].status \notin {"approved", "claimed"}
            \/ enr[a].status = "approved" /\ (~enr[a].live \/ ~Exists(enr[a].node)))

(* DeleteNodeCascade says of its transaction: "Atomic guard: the node must *)
(* still be offline/disabled and a child when it is removed".              *)
DeletedWhileDown ==
    [][\A n \in NodeId : (Exists(n) /\ node'[n].status = "deleted")
         => node[n].status \in {"offline", "disabled"}]_vars

(* An environment has one enabled primary node.                            *)
OnePrimary == Cardinality(FindEnabledPrimary) <= 1
=============================================================================
