------------------------------- MODULE Lease -------------------------------
(***************************************************************************)
(* AI SSH leases: the rows LeaseService keeps, the scheduler that closes   *)
(* them, the access token they hang on, and the authorized_keys lines the  *)
(* node agent installs and removes for them.                               *)
(*                                                                         *)
(* A lease row is read by one statement (LeaseByID, ListLeases) and        *)
(* written back whole by a later one (UpdateLease), so every handler that  *)
(* changes a row holds the row it read in between; ExpireLease and the     *)
(* token cascade are single conditional statements.  The agent has two     *)
(* heartbeats going on at a time: its heartbeat loop and its event stream. *)
(*                                                                         *)
(* A definition right before the one it alters (RenewedPastCap before      *)
(* RenewedExpiry) is that step with a plausible mistake in it, not used by *)
(* Next: it shows which mistake a property catches.                        *)
(***************************************************************************)
EXTENDS Naturals, FiniteSets

CONSTANTS
    Lease,        \* leases, one for each client_request_id
    Call,         \* concurrent request handlers
    Slot,         \* heartbeats the agent may have in progress
    NoLease,      \* "no lease"
    MaxTime,      \* bound: the last instant of the clock
    Cap,          \* the absolute lease cap, ai_lease_max_hours
    MaxDuration,  \* the longest time one request or renewal grants
    TokenExpiry,  \* when the access token expires (past MaxTime: never)
    MaxSession,   \* bound: SSH sessions opened per lease
    Faults        \* the faults that may happen, a subset of FaultKind

FaultKind == {"restart",  \* the control plane restarts
              "crash",    \* the agent restarts
              "loss",     \* a request of the agent, or its answer, is lost
              "apply"}    \* the authorized_keys file cannot be written

ASSUME ConstantsAssumption ==
    /\ NoLease \notin Lease
    /\ MaxTime \in Nat /\ Cap \in Nat /\ MaxDuration \in Nat
    /\ TokenExpiry \in Nat /\ MaxSession \in Nat
    /\ Cap > 0 /\ MaxDuration > 0
    /\ Faults \subseteq FaultKind

-----------------------------------------------------------------------------
Closed == {"disconnected", "expired", "revoked", "failed"}
Status == {"absent", "active"} \cup Closed

(* The columns UpdateLease writes: expires_at, status, renewal_disabled,   *)
(* key_installed, and whether last_heartbeat_at is set.                    *)
Row == [status : Status, exp : Nat, rd : BOOLEAN, ki : BOOLEAN, hb : BOOLEAN]

NoRow == [status |-> "absent", exp |-> 0, rd |-> FALSE, ki |-> FALSE, hb |-> FALSE]

ClientOp == {"renew", "heartbeat", "disconnect"}      \* with the access token
AdminOp == {"revoke", "disable", "protect"}           \* with an admin session
Op == {"none", "create", "grace"} \cup ClientOp \cup AdminOp

VARIABLES
    clock,     \* the time, the same on both machines
    row,       \* the ai_lease table
    issued,    \* the issued_at column; absolute_expires_at is issued + Cap
    request,   \* the leases that have an approved ai_lease_request
    tokRevoked,\* revoked_at of the access token is set
    call,      \* the request handlers in progress
    keys,      \* authorized_keys: the expiry marker of a lease's line, 0: none
    beat,      \* the heartbeats of the agent in progress
    sessions,  \* history: SSH sessions opened per lease
    stale      \* the leases the scheduler has found expired and not yet closed

vars == <<clock, row, issued, request, tokRevoked, call, keys, beat, sessions, stale>>

NoCall == [op |-> "none", lease |-> NoLease, stage |-> "idle", snap |-> NoRow]
NoBeat == [stage |-> "idle", inst |-> [l \in Lease |-> 0], rem |-> {},
           ok |-> TRUE, lease |-> NoLease, snap |-> NoRow]

CallRec == [op : Op, lease : Lease \cup {NoLease},
            stage : {"idle", "auth", "insert", "write"}, snap : Row]
BeatRec == [stage : {"idle", "apply", "report", "event"}, inst : [Lease -> Nat],
            rem : SUBSET Lease, ok : BOOLEAN, lease : Lease \cup {NoLease}, snap : Row]

TypeOK ==
    /\ clock \in Nat
    /\ row \in [Lease -> Row]
    /\ issued \in [Lease -> Nat]
    /\ request \in SUBSET Lease
    /\ tokRevoked \in BOOLEAN
    /\ call \in [Call -> CallRec]
    /\ keys \in [Lease -> Nat]
    /\ beat \in [Slot -> BeatRec]
    /\ sessions \in [Lease -> Nat]
    /\ stale \in SUBSET Lease

Init ==
    /\ clock = 1
    /\ row = [l \in Lease |-> NoRow]
    /\ issued = [l \in Lease |-> 0]
    /\ request = {}
    /\ tokRevoked = FALSE
    /\ call = [c \in Call |-> NoCall]
    /\ keys = [l \in Lease |-> 0]
    /\ beat = [s \in Slot |-> NoBeat]
    /\ sessions = [l \in Lease |-> 0]
    /\ stale = {}

Tick ==
    /\ clock < MaxTime
    /\ clock' = clock + 1
    /\ UNCHANGED <<row, issued, request, tokRevoked, call, keys, beat, sessions, stale>>

-----------------------------------------------------------------------------
Least(a, b) == IF a <= b THEN a ELSE b

Absolute(l) == issued[l] + Cap

UpdateLease(l, r) == row' = [row EXCEPT ![l] = r]

(* ExpireLease: conditional on the row still being active.                 *)
ExpireLease(l) ==
    row' = IF row[l].status = "active" THEN [row EXCEPT ![l].status = "expired"] ELSE row

(* TokenService.Resolve                                                    *)
TokenValid == ~tokRevoked /\ clock < TokenExpiry

Return(c) == call' = [call EXCEPT ![c] = NoCall]

-----------------------------------------------------------------------------
(* The request handlers of the control plane                               *)

(* tokenAuth lets a client's request through.                              *)
Authenticate(c, l, op) ==
    /\ call[c].stage = "idle"
    /\ TokenValid
    /\ op \in {"create"} \cup ClientOp
    /\ call' = [call EXCEPT ![c] = [NoCall EXCEPT !.op = op, !.lease = l, !.stage = "auth"]]
    /\ UNCHANGED <<clock, row, issued, request, tokRevoked, keys, beat, sessions, stale>>

(* A gate is closed, the input is invalid, the grant or the node is        *)
(* missing, the request is a replay, the lease is not active, or the       *)
(* database refuses: nothing is changed.                                   *)
Deny(c) ==
    /\ call[c].stage \in {"auth", "insert"}
    /\ Return(c)
    /\ UNCHANGED <<clock, row, issued, request, tokRevoked, keys, beat, sessions, stale>>

CreateReplayed(c) ==
    LET l == call[c].lease IN
    /\ call[c].op = "create" /\ call[c].stage = "auth"
    /\ request' = request \cup {l}
    /\ call' = [call EXCEPT ![c].stage = "insert"]
    /\ UNCHANGED <<clock, row, issued, tokRevoked, keys, beat, sessions, stale>>

(* CreateLeaseRequest: the request is inserted as approved; the            *)
(* idempotency lookup and UNIQUE(client_request_id) admit one.             *)
CreateLeaseRequest(c) ==
    LET l == call[c].lease IN
    /\ call[c].op = "create" /\ call[c].stage = "auth"
    /\ l \notin request
    /\ request' = request \cup {l}
    /\ call' = [call EXCEPT ![c].stage = "insert"]
    /\ UNCHANGED <<clock, row, issued, tokRevoked, keys, beat, sessions, stale>>

(* newLease: the earliest of the requested duration, the cap and the       *)
(* token's expiry, but never before now.                                   *)
NewExpiry(d) ==
    LET e == Least(Least(clock + d, clock + Cap), TokenExpiry) IN
    IF e < clock THEN clock ELSE e

(* issueLease: the lease is inserted (bound: so early that the clock goes  *)
(* past whatever it may be renewed to).                                    *)
IssueLease(c) ==
    LET l == call[c].lease IN
    /\ call[c].stage = "insert"
    /\ NewExpiry(Cap) < MaxTime
    /\ \E d \in 1 .. MaxDuration :
         UpdateLease(l, [NoRow EXCEPT !.status = "active", !.exp = NewExpiry(d)])
    /\ issued' = [issued EXCEPT ![l] = clock]
    /\ Return(c)
    /\ UNCHANGED <<clock, request, tokRevoked, keys, beat, sessions, stale>>

(* LeaseByID: the handler holds the row.  Every operation but ProtectLease *)
(* wants it active, and Renew wants renewals enabled.                      *)
ReadLease(c, l, op) ==
    /\ \/ call[c].stage = "auth" /\ call[c].op = op /\ call[c].lease = l /\ op \in ClientOp
       \/ call[c].stage = "idle" /\ op \in AdminOp
    /\ row[l].status # "absent"
    /\ op # "protect" => row[l].status = "active"
    /\ op = "renew" => ~row[l].rd
    /\ call' = [call EXCEPT ![c] = [op |-> op, lease |-> l, stage |-> "write", snap |-> row[l]]]
    /\ UNCHANGED <<clock, row, issued, request, tokRevoked, keys, beat, sessions, stale>>

(* Renew: an expired lease is closed; else the expiry moves, within the    *)
(* cap and the token's expiry, and the key has to be installed afresh.     *)
RenewedPastCap(l, d) == Least(clock + d, TokenExpiry)
RenewedPastToken(l, d) == Least(clock + d, Absolute(l))
RenewedExpiry(l, d) == Least(Least(clock + d, Absolute(l)), TokenExpiry)

Renew(c) ==
    LET l == call[c].lease  r == call[c].snap IN
    /\ call[c].stage = "write" /\ call[c].op = "renew"
    /\ \/ /\ r.exp <= clock \/ Absolute(l) <= clock
          /\ ExpireLease(l)
       \/ /\ r.exp > clock /\ Absolute(l) > clock
          /\ \E d \in 1 .. MaxDuration :
               IF RenewedExpiry(l, d) > r.exp
               THEN UpdateLease(l, [r EXCEPT !.exp = RenewedExpiry(l, d), !.ki = FALSE, !.hb = TRUE])
               ELSE UNCHANGED row
    /\ Return(c)
    /\ UNCHANGED <<clock, issued, request, tokRevoked, keys, beat, sessions, stale>>

Heartbeat(c) ==
    LET l == call[c].lease  r == call[c].snap IN
    /\ call[c].stage = "write" /\ call[c].op = "heartbeat"
    /\ \/ r.exp <= clock /\ ExpireLease(l)
       \/ r.exp > clock /\ UpdateLease(l, [r EXCEPT !.hb = TRUE])
    /\ Return(c)
    /\ UNCHANGED <<clock, issued, request, tokRevoked, keys, beat, sessions, stale>>

WrittenAsRenewed(op, r) == [r EXCEPT !.status = "renewed"]

(* What the other handlers make of the row they read.  Protecting a lease, *)
(* like the session_started and session_ended events, sets columns nobody  *)
(* else reads and writes the rest of the row back as it was read.          *)
Written(op, r) ==
    CASE op = "disconnect" -> [r EXCEPT !.status = "disconnected", !.hb = TRUE]
      [] op = "revoke"     -> [r EXCEPT !.status = "revoked"]
      [] op = "disable"    -> [r EXCEPT !.rd = TRUE]
      [] op = "grace"      -> [r EXCEPT !.status = "disconnected"]
      [] op = "protect"    -> r

(* Disconnect, Revoke, DisableRenewal, ProtectLease, and the scheduler's   *)
(* closing of a lease whose heartbeat is overdue.                          *)
WriteLease(c) ==
    /\ call[c].stage = "write" /\ call[c].op \notin {"renew", "heartbeat"}
    /\ UpdateLease(call[c].lease, Written(call[c].op, call[c].snap))
    /\ Return(c)
    /\ UNCHANGED <<clock, issued, request, tokRevoked, keys, beat, sessions, stale>>

(* RevokeTokenCascade: the token and its active leases, in one transaction.*)
RevokeToken ==
    /\ ~tokRevoked \/ \E l \in Lease : row[l].status = "active"
    /\ tokRevoked' = TRUE
    /\ row' = [l \in Lease |-> IF row[l].status = "active"
                               THEN [row[l] EXCEPT !.status = "revoked"] ELSE row[l]]
    /\ UNCHANGED <<clock, issued, request, call, keys, beat, sessions, stale>>

-----------------------------------------------------------------------------
(* The scheduler: ExpireStaleLeases                                        *)

Overdue == {l \in Lease : row[l].status = "active" /\ row[l].exp < clock}

FindStale ==
    /\ stale = {} /\ Overdue # {}
    /\ stale' = Overdue
    /\ UNCHANGED <<clock, row, issued, request, tokRevoked, call, keys, beat, sessions>>

(* Each of them is closed by a statement of its own, if it is still        *)
(* active; it may have been renewed since.                                 *)
ExpireStale(l) ==
    /\ l \in stale
    /\ ExpireLease(l)
    /\ stale' = stale \ {l}
    /\ UNCHANGED <<clock, issued, request, tokRevoked, call, keys, beat, sessions>>

(* An active lease that has heartbeated before is found silent for longer  *)
(* than the grace period; the row found is written back by WriteLease.     *)
GraceRead(c, l) ==
    /\ call[c].stage = "idle"
    /\ row[l].status = "active"
    /\ row[l].hb
    /\ call' = [call EXCEPT ![c] = [op |-> "grace", lease |-> l, stage |-> "write", snap |-> row[l]]]
    /\ UNCHANGED <<clock, row, issued, request, tokRevoked, keys, beat, sessions, stale>>

-----------------------------------------------------------------------------
(* The agent: sendHeartbeat and the lease keys                             *)

(* NodeService.leaseOps answers a heartbeat: the lines to install, with    *)
(* the expiry they carry, and the lines to remove.                         *)
ToInstall(l) == row[l].status = "active" /\ ~row[l].ki
ToRemove(l) == row[l].status \in Closed /\ row[l].ki

LeaseOps(s) ==
    /\ beat[s].stage = "idle"
    /\ \E l \in Lease : ToInstall(l) \/ ToRemove(l)
    /\ beat' = [beat EXCEPT ![s] =
         [NoBeat EXCEPT !.stage = "apply",
                        !.inst = [l \in Lease |-> IF ToInstall(l) THEN row[l].exp ELSE 0],
                        !.rem = {l \in Lease : ToRemove(l)}]]
    /\ UNCHANGED <<clock, row, issued, request, tokRevoked, call, keys, sessions, stale>>

(* LeaseKeyManager.Apply: removals, then installs, in one rename.          *)
Apply(s) ==
    LET b == beat[s] IN
    /\ b.stage = "apply"
    /\ \/ /\ keys' = [l \in Lease |-> IF b.inst[l] # 0 THEN b.inst[l]
                                      ELSE IF l \in b.rem THEN 0 ELSE keys[l]]
          /\ beat' = [beat EXCEPT ![s].stage = "report"]
       \/ /\ "apply" \in Faults
          /\ beat' = [beat EXCEPT ![s].stage = "report", ![s].ok = FALSE, ![s].rem = {}]
          /\ UNCHANGED keys
    /\ UNCHANGED <<clock, row, issued, request, tokRevoked, call, sessions, stale>>

Pending(s) == {l \in Lease : beat[s].inst[l] # 0 \/ l \in beat[s].rem}

(* AgentLeaseEvent reads the lease a report is about.                      *)
EventRead(s, l) ==
    /\ beat[s].stage = "report"
    /\ l \in Pending(s)
    /\ beat' = [beat EXCEPT ![s].stage = "event", ![s].lease = l, ![s].snap = row[l]]
    /\ UNCHANGED <<clock, row, issued, request, tokRevoked, call, keys, sessions, stale>>

(* Heartbeat b once its report on l is over.                               *)
Reported(b, l) ==
    [b EXCEPT !.stage = "report", !.inst[l] = 0, !.rem = @ \ {l}, !.lease = NoLease, !.snap = NoRow]

(* ... and writes it: installed, install_failed (an active lease fails) or *)
(* removed.                                                                *)
EventWrite(s) ==
    LET b == beat[s]  l == b.lease IN
    /\ b.stage = "event"
    /\ IF l \in b.rem THEN UpdateLease(l, [b.snap EXCEPT !.ki = FALSE])
       ELSE IF b.ok THEN UpdateLease(l, [b.snap EXCEPT !.ki = TRUE])
       ELSE IF b.snap.status = "active" THEN UpdateLease(l, [b.snap EXCEPT !.status = "failed"])
       ELSE UNCHANGED row
    /\ beat' = [beat EXCEPT ![s] = Reported(@, l)]
    /\ UNCHANGED <<clock, issued, request, tokRevoked, call, keys, sessions, stale>>

LoseReport(s, l) ==
    /\ "loss" \in Faults
    /\ beat[s].stage = "report"
    /\ l \in Pending(s)
    /\ beat' = [beat EXCEPT ![s] = Reported(@, l)]
    /\ UNCHANGED <<clock, row, issued, request, tokRevoked, call, keys, sessions, stale>>

(* The last report is out, or the answer to the heartbeat was lost.        *)
BeatReturn(s) ==
    /\ \/ beat[s].stage = "report" /\ Pending(s) = {}
       \/ beat[s].stage = "apply" /\ "loss" \in Faults
    /\ beat' = [beat EXCEPT ![s] = NoBeat]
    /\ UNCHANGED <<clock, row, issued, request, tokRevoked, call, keys, sessions, stale>>

SweepUnexpired ==
    /\ \E l \in Lease : keys[l] > clock
    /\ keys' = [l \in Lease |-> IF keys[l] > clock THEN 0 ELSE keys[l]]
    /\ UNCHANGED <<clock, row, issued, request, tokRevoked, call, beat, sessions, stale>>

(* SweepExpired: lines past their marker go, without the control plane.    *)
SweepExpired ==
    /\ \E l \in Lease : keys[l] # 0 /\ keys[l] <= clock
    /\ keys' = [l \in Lease |-> IF keys[l] <= clock THEN 0 ELSE keys[l]]
    /\ UNCHANGED <<clock, row, issued, request, tokRevoked, call, beat, sessions, stale>>

-----------------------------------------------------------------------------
(* servercli-lease-shell asks handleLeaseRuntimeStatus before a session:   *)
(* the runtime token (it carries the line's expiry), the lease, and the    *)
(* access token of the lease must all be good.                             *)
RuntimeStatusNoToken(l) ==
    /\ clock <= keys[l]
    /\ row[l].status = "active"
    /\ row[l].exp > clock

RuntimeStatusOK(l) ==
    /\ clock <= keys[l]
    /\ row[l].status = "active"
    /\ row[l].exp > clock
    /\ TokenValid

OpenSession(l) ==
    /\ keys[l] # 0
    /\ RuntimeStatusOK(l)
    /\ sessions[l] < MaxSession
    /\ sessions' = [sessions EXCEPT ![l] = @ + 1]
    /\ UNCHANGED <<clock, row, issued, request, tokRevoked, call, keys, beat, stale>>

-----------------------------------------------------------------------------
(* A restart drops the handlers and the answers; before it serves again    *)
(* the control plane closes what has expired (MigrateLegacyApprovalFlow).  *)
Restart ==
    /\ "restart" \in Faults
    /\ call' = [c \in Call |-> NoCall]
    /\ beat' = [s \in Slot |-> IF beat[s].stage = "event" THEN Reported(beat[s], beat[s].lease)
                                                          ELSE beat[s]]
    /\ row' = [l \in Lease |-> IF row[l].status = "active" /\ row[l].exp <= clock
                               THEN [row[l] EXCEPT !.status = "expired"] ELSE row[l]]
    /\ stale' = {}
    /\ UNCHANGED <<clock, issued, request, tokRevoked, keys, sessions>>

(* The agent dies; started again it sweeps its key file first.             *)
AgentCrash ==
    /\ "crash" \in Faults
    /\ beat' = [s \in Slot |-> NoBeat]
    /\ keys' = [l \in Lease |-> IF keys[l] <= clock THEN 0 ELSE keys[l]]
    /\ UNCHANGED <<clock, row, issued, request, tokRevoked, call, sessions, stale>>

-----------------------------------------------------------------------------
(* Somebody asks for something; nobody has to.                             *)
Ask ==
    \/ \E c \in Call, l \in Lease :
         \/ \E op \in {"create"} \cup ClientOp : Authenticate(c, l, op)
         \/ \E op \in AdminOp : ReadLease(c, l, op)
    \/ RevokeToken
    \/ \E l \in Lease : OpenSession(l)

CallStep(c) ==
    \/ CreateLeaseRequest(c) \/ IssueLease(c) \/ Deny(c)
    \/ \E l \in Lease, op \in ClientOp : ReadLease(c, l, op)
    \/ Renew(c) \/ Heartbeat(c) \/ WriteLease(c)

CloseStale == FindStale \/ \E l \in Lease : ExpireStale(l)

Scheduler == CloseStale \/ \E c \in Call, l \in Lease : GraceRead(c, l)

BeatStep(s) ==
    \/ LeaseOps(s) \/ Apply(s) \/ EventWrite(s) \/ BeatReturn(s)
    \/ \E l \in Lease : EventRead(s, l) \/ LoseReport(s, l)

Next ==
    \/ Tick \/ Ask \/ Scheduler \/ SweepExpired \/ Restart \/ AgentCrash
    \/ \E c \in Call : CallStep(c)
    \/ \E s \in Slot : BeatStep(s)

Spec == Init /\ [][Next]_vars

(* Time passes, handlers finish, the scheduler's ticker and the agent's    *)
(* sweep ticker fire, and the agent's heartbeat loop never stops.          *)
FairSpec ==
    /\ Spec
    /\ WF_vars(Tick) /\ WF_vars(SweepExpired)
    /\ WF_vars(CloseStale)
    /\ \A c \in Call : WF_vars(CallStep(c))
    /\ \A s \in Slot : WF_vars(BeatStep(s))

-----------------------------------------------------------------------------
(* Properties                                                              *)

(* No renewal, stale write or re-install moves a lease past its absolute   *)
(* cap, issued_at plus ai_lease_max_hours (doc/02 section 7): not the row, *)
(* not the line in authorized_keys, not a line on its way to the node.     *)
WithinCap ==
    \A l \in Lease :
        /\ row[l].status # "absent" => row[l].exp <= Absolute(l)
        /\ keys[l] <= Absolute(l)
        /\ \A s \in Slot : beat[s].inst[l] <= Absolute(l)

(* A lease does not outlive the access token it was granted on, except by  *)
(* being issued at the instant the token expires.                          *)
WithinToken ==
    \A l \in Lease : row[l].exp <= TokenExpiry \/ row[l].exp <= issued[l]

(* A lease is issued once: no replayed or concurrent request with the same *)
(* client_request_id, and no stale write, moves issued_at and the cap that *)
(* hangs on it.                                                            *)
IssuedOnce == [][\A l \in Lease : issued[l] # 0 => issued'[l] = issued[l]]_vars

(* Whatever stale handlers write, an SSH session opens only on a lease     *)
(* that was issued, before its cap, and while its access token is good.    *)
SessionsGated ==
    [][\A l \in Lease : sessions'[l] # sessions[l] =>
          /\ l \in request
          /\ issued[l] <= clock /\ clock < Absolute(l)
          /\ ~tokRevoked /\ clock < TokenExpiry]_vars

(* Every key line goes away for good once nobody asks for anything and no  *)
(* process dies, even when reports and answers are lost: the local sweep   *)
(* does not depend on them.                                                *)
KeysGo == <>[][~(Ask \/ Restart \/ AgentCrash)]_vars => <>[](\A l \in Lease : keys[l] = 0)

=============================================================================
