---------------------------- MODULE LeaseProofs ----------------------------
(***************************************************************************)
(* What Lease.tla guarantees for any number of leases, request handlers    *)
(* and heartbeats: its type, the cap and the token bound on every expiry,  *)
(* that a lease is issued once, and what an SSH session needs to open.     *)
(*                                                                         *)
(* None of these is inductive as it stands, because handlers and           *)
(* heartbeats write back what they read earlier: the invariant below       *)
(* speaks of the rows they hold as well as of the table.                   *)
(***************************************************************************)
EXTENDS Lease, TLAPS

(* An expiry lease l may have: within the cap and, unless the lease was    *)
(* issued as its token expired, within the token's life.                   *)
Good(l, e) == e <= Absolute(l) /\ (e <= TokenExpiry \/ e <= issued[l])

RowsOK(rw) ==
    /\ rw \in [Lease -> Row]
    /\ \A l \in Lease : Good(l, rw[l].exp) /\ (rw[l].status # "absent" => l \in request)

KeysOK(ks) == ks \in [Lease -> Nat] /\ \A l \in Lease : Good(l, ks[l])

(* What a request handler holds, and the stage that goes with it.          *)
CallOK(c) ==
    /\ c \in CallRec
    /\ c.stage = "auth" => c.lease \in Lease
    /\ c.stage \in {"insert", "write"} => c.lease \in request
    /\ c.stage = "write" => c.op \in {"grace"} \cup ClientOp \cup AdminOp
    /\ c.stage = "insert" => issued[c.lease] = 0
    /\ c.lease \in Lease => Good(c.lease, c.snap.exp)

(* Two handlers never insert the same lease.                               *)
CallsOK(cl) ==
    /\ cl \in [Call -> CallRec]
    /\ \A c \in Call : CallOK(cl[c])
    /\ \A c, d \in Call :
         /\ cl[c].stage = "insert" /\ cl[d].stage = "insert" /\ cl[c].lease = cl[d].lease
         => c = d

(* What a heartbeat carries.                                               *)
BeatOK(b) ==
    /\ b \in BeatRec
    /\ \A l \in Lease : Good(l, b.inst[l]) /\ (b.inst[l] # 0 => l \in request)
    /\ b.rem \subseteq request
    /\ b.stage = "event" => b.lease \in request
    /\ b.lease \in Lease => Good(b.lease, b.snap.exp)

BeatsOK(bt) == bt \in [Slot -> BeatRec] /\ \A s \in Slot : BeatOK(bt[s])

(* The issue times, and what has no request was never issued.              *)
IssuedOK ==
    /\ clock \in Nat \ {0}
    /\ issued \in [Lease -> Nat]
    /\ request \in SUBSET Lease
    /\ \A l \in Lease : issued[l] <= clock /\ (l \notin request => issued[l] = 0)

IInv ==
    /\ tokRevoked \in BOOLEAN
    /\ sessions \in [Lease -> Nat]
    /\ stale \in SUBSET Lease
    /\ IssuedOK
    /\ RowsOK(row) /\ KeysOK(keys) /\ CallsOK(call) /\ BeatsOK(beat)

-----------------------------------------------------------------------------
(* The records the model is built from have their types.                   *)
LEMMA Records ==
    /\ NoRow \in Row /\ NoCall \in CallRec /\ NoBeat \in BeatRec
    /\ \A r \in Row : r.status \in Status /\ r.exp \in Nat
    /\ \A r \in Row, s \in Status : [r EXCEPT !.status = s] \in Row
  <1> USE DEF Row, NoRow, Status, Closed
  <1>1. NoRow \in Row
    OBVIOUS
  <1>2. NoCall \in CallRec
    BY <1>1 DEF NoCall, CallRec, Op
  <1>3. NoBeat \in BeatRec
    BY <1>1 DEF NoBeat, BeatRec
  <1> QED
    BY <1>1, <1>2, <1>3

(* The idle handler and the idle heartbeat hold nothing.                   *)
LEMMA Idle ==
    ASSUME IssuedOK
    PROVE  CallOK(NoCall) /\ BeatOK(NoBeat)
  <1>1. CallOK(NoCall)
    BY Records, ConstantsAssumption DEF CallOK, NoCall
  <1>2. BeatOK(NoBeat)
    BY Records, ConstantsAssumption DEF BeatOK, NoBeat, IssuedOK, Good, Absolute
  <1> QED
    BY <1>1, <1>2

(* ExpireLease touches the status of an active row only.                   *)
LEMMA Expires ==
    ASSUME RowsOK(row), NEW l \in Lease, ExpireLease(l)
    PROVE  RowsOK(row')
  BY DEF ExpireLease, RowsOK, Row, Status, Closed

(* UpdateLease replaces one row.                                           *)
LEMMA Updates ==
    ASSUME RowsOK(row), NEW l \in Lease, NEW r \in Row, UpdateLease(l, r),
           Good(l, r.exp), l \in request
    PROVE  RowsOK(row')
  BY DEF UpdateLease, RowsOK

(* A handler that returns, or takes up its next stage, is replaced alone.  *)
LEMMA CallChanges ==
    ASSUME CallsOK(call), NEW c \in Call, NEW k, CallOK(k),
           k.stage # "insert", call' = [call EXCEPT ![c] = k]
    PROVE  CallsOK(call')
  BY DEF CallsOK, CallOK

LEMMA BeatChanges ==
    ASSUME BeatsOK(beat), NEW s \in Slot, NEW b, BeatOK(b), beat' = [beat EXCEPT ![s] = b]
    PROVE  BeatsOK(beat')
  BY DEF BeatsOK, BeatOK

(* A step that neither issues nor requests a lease, and moves no clock,    *)
(* preserves the invariant if what it writes is in order.                  *)
LEMMA Frame ==
    ASSUME IInv, UNCHANGED <<clock, issued, request>>,
           tokRevoked' \in BOOLEAN, sessions' \in [Lease -> Nat], stale' \in SUBSET Lease,
           RowsOK(row'), KeysOK(keys'), CallsOK(call'), BeatsOK(beat')
    PROVE  IInv'
  BY DEF IInv, IssuedOK, RowsOK, KeysOK, CallsOK, CallOK, BeatsOK, BeatOK, Good, Absolute

LEMMA InitInv == Init => IInv
  <1> SUFFICES ASSUME Init PROVE IInv
    OBVIOUS
  <1> USE ConstantsAssumption DEF Init
  <1>1. IssuedOK
    BY DEF IssuedOK
  <1>2. RowsOK(row) /\ KeysOK(keys)
    BY Records DEF RowsOK, KeysOK, NoRow, Good, Absolute
  <1>3. CallsOK(call)
    BY <1>1, Idle, Records DEF CallsOK, NoCall
  <1>4. BeatsOK(beat)
    BY <1>1, Idle, Records DEF BeatsOK
  <1> QED
    BY <1>1, <1>2, <1>3, <1>4 DEF IInv

-----------------------------------------------------------------------------
(* Every step preserves the invariant.  First the control plane's.         *)

LEMMA TickInv == IInv /\ Tick => IInv'
  BY DEF IInv, Tick, IssuedOK, RowsOK, KeysOK, CallsOK, CallOK, BeatsOK, BeatOK, Good, Absolute

LEMMA AuthenticateInv ==
    ASSUME IInv, NEW c \in Call, NEW l \in Lease, NEW op \in {"create"} \cup ClientOp,
           Authenticate(c, l, op)
    PROVE  IInv'
  <1> DEFINE k == [NoCall EXCEPT !.op = op, !.lease = l, !.stage = "auth"]
  <1>1. Good(l, 0)
    BY ConstantsAssumption DEF Good, Absolute, IInv, IssuedOK
  <1>2. CallOK(k) /\ k.stage = "auth"
    BY <1>1, Records DEF CallOK, NoCall, CallRec, NoRow, Op, ClientOp
  <1>3. CallsOK(call')
    BY <1>2, CallChanges DEF Authenticate, IInv
  <1> QED
    BY <1>3, Frame DEF Authenticate, IInv

LEMMA DenyInv ==
    ASSUME IInv, NEW c \in Call, Deny(c)
    PROVE  IInv'
  <1>1. CallsOK(call')
    BY Idle, CallChanges DEF Deny, Return, IInv, NoCall
  <1> QED
    BY <1>1, Frame DEF Deny, IInv

LEMMA ReadLeaseInv ==
    ASSUME IInv, NEW c \in Call, NEW l \in Lease, NEW op \in ClientOp \cup AdminOp,
           ReadLease(c, l, op)
    PROVE  IInv'
  <1> DEFINE k == [op |-> op, lease |-> l, stage |-> "write", snap |-> row[l]]
  <1>1. CallOK(k) /\ k.stage = "write"
    BY DEF CallOK, CallRec, ReadLease, IInv, RowsOK, Op, ClientOp, AdminOp
  <1>2. CallsOK(call')
    BY <1>1, CallChanges DEF ReadLease, IInv
  <1> QED
    BY <1>2, Frame DEF ReadLease, IInv

LEMMA GraceReadInv ==
    ASSUME IInv, NEW c \in Call, NEW l \in Lease, GraceRead(c, l)
    PROVE  IInv'
  <1> DEFINE k == [op |-> "grace", lease |-> l, stage |-> "write", snap |-> row[l]]
  <1>1. CallOK(k) /\ k.stage = "write"
    BY DEF CallOK, CallRec, GraceRead, IInv, RowsOK, Op
  <1>2. CallsOK(call')
    BY <1>1, CallChanges DEF GraceRead, IInv
  <1> QED
    BY <1>2, Frame DEF GraceRead, IInv

(* The request is new, so nothing was issued for it and nobody else is     *)
(* about to.                                                               *)
LEMMA CreateLeaseRequestInv ==
    ASSUME IInv, NEW c \in Call, CreateLeaseRequest(c)
    PROVE  IInv'
  <1> DEFINE l == call[c].lease
  <1>1. l \in Lease /\ l \notin request /\ issued[l] = 0
    BY DEF IInv, CallsOK, CallOK, CreateLeaseRequest, IssuedOK
  <1>2. IssuedOK' /\ RowsOK(row)' /\ KeysOK(keys)' /\ BeatsOK(beat)'
    BY <1>1 DEF IInv, CreateLeaseRequest, IssuedOK, RowsOK, KeysOK, BeatsOK, BeatOK, Good, Absolute
  <1>3. CallsOK(call)'
    <2>1. \A d \in Call : call[d].stage = "insert" => call[d].lease # l
      BY <1>1 DEF IInv, CallsOK, CallOK
    <2>2. call' \in [Call -> CallRec]
      BY DEF IInv, CallsOK, CreateLeaseRequest, CallRec
    <2>3. call'[c].stage = "insert" /\ call'[c].lease = l /\ call'[c].snap = call[c].snap
      BY DEF IInv, CallsOK, CreateLeaseRequest, CallRec
    <2>4. \A d \in Call : d # c => call'[d] = call[d]
      BY DEF IInv, CallsOK, CreateLeaseRequest
    <2>5. \A d \in Call : CallOK(call[d])'
      <3>1. ASSUME NEW d \in Call, d # c PROVE CallOK(call[d])'
        BY <3>1, <2>4, <1>1 DEF IInv, CallsOK, CallOK, CreateLeaseRequest, Good, Absolute
      <3>2. CallOK(call[c])'
        <4>1. Good(l, call[c].snap.exp)
          BY <1>1 DEF IInv, CallsOK, CallOK
        <4>2. l \in request' /\ issued' = issued
          BY <1>1 DEF CreateLeaseRequest
        <4> QED
          BY <1>1, <2>2, <2>3, <4>1, <4>2 DEF CallOK, Good, Absolute
      <3> QED
        BY <3>1, <3>2
    <2> QED
      BY <2>1, <2>2, <2>3, <2>4, <2>5 DEF CallsOK, IInv
  <1> QED
    BY <1>2, <1>3 DEF IInv, CreateLeaseRequest

(* The cap of a lease is issued + Cap and the clock has passed the old     *)
(* issue time (0), so what was good stays good.                            *)
LEMMA IssueLeaseInv ==
    ASSUME IInv, NEW c \in Call, IssueLease(c)
    PROVE  IInv'
  <1>1. PICK l \in Lease : l = call[c].lease /\ l \in request /\ issued[l] = 0
    BY DEF IInv, IssuedOK, CallsOK, CallOK, IssueLease
  <1>2. /\ issued' = [issued EXCEPT ![l] = clock]
        /\ UNCHANGED <<clock, request, tokRevoked, keys, beat, sessions, stale>>
    BY <1>1 DEF IssueLease
  <1>3. IssuedOK'
    BY <1>1, <1>2 DEF IInv, IssuedOK
  <1>4. \A k \in Lease, e \in Nat : Good(k, e) => Good(k, e)'
    BY <1>1, <1>2, ConstantsAssumption DEF IInv, IssuedOK, Good, Absolute
  <1>5. PICK d \in 1 .. MaxDuration :
          row' = [row EXCEPT ![l] = [NoRow EXCEPT !.status = "active", !.exp = NewExpiry(d)]]
    BY <1>1 DEF IssueLease, UpdateLease
  <1>6. PICK e \in Nat : e = NewExpiry(d) /\ Good(l, e)'
    BY <1>1, <1>2, ConstantsAssumption DEF NewExpiry, Least, Good, Absolute, IInv, IssuedOK
  <1>7. RowsOK(row)'
    <2> DEFINE n == [NoRow EXCEPT !.status = "active", !.exp = e]
    <2>1. n \in Row /\ n.exp = e /\ n.status = "active"
      BY <1>6 DEF NoRow, Row, Status
    <2>2. row' \in [Lease -> Row] /\ row'[l] = n /\ \A k \in Lease : k # l => row'[k] = row[k]
      BY <1>1, <1>5, <1>6, <2>1 DEF RowsOK, IInv
    <2>3. \A k \in Lease : row[k].exp \in Nat /\ Good(k, row[k].exp)
      BY Records DEF RowsOK, IInv
    <2> QED
      BY <1>1, <1>2, <1>4, <1>6, <2>1, <2>2, <2>3 DEF RowsOK, IInv
  <1>8. KeysOK(keys)'
    BY <1>2, <1>4 DEF KeysOK, IInv
  <1>9. BeatsOK(beat)'
    <2>1. beat \in [Slot -> BeatRec]
      BY DEF IInv, BeatsOK
    <2>2. ASSUME NEW s \in Slot PROVE BeatOK(beat[s])'
      <3>1. BeatOK(beat[s]) /\ beat[s] \in BeatRec
        BY DEF IInv, BeatsOK, BeatOK
      <3>2. /\ beat[s].inst \in [Lease -> Nat]
            /\ beat[s].snap.exp \in Nat
        BY <3>1, Records DEF BeatRec
      <3> QED
        BY <1>2, <1>4, <3>1, <3>2 DEF BeatOK
    <2> QED
      BY <1>2, <2>1, <2>2 DEF BeatsOK
  <1>10. CallsOK(call)'
    <2>1. call' = [call EXCEPT ![c] = NoCall]
      BY DEF IssueLease, Return
    <2>2. \A k \in Call : k # c => ~(call[k].stage = "insert" /\ call[k].lease = l)
      BY <1>1 DEF IInv, CallsOK, IssueLease
    <2>3. ASSUME NEW k \in Call, k # c PROVE CallOK(call[k])'
      BY <1>1, <1>2, <1>4, <2>1, <2>2, <2>3, Records DEF IInv, CallsOK, CallOK, CallRec, IssuedOK
    <2>4. CallOK(call[c])'
      BY <2>1, Records, ConstantsAssumption DEF CallOK, NoCall, IInv, CallsOK
    <2> QED
      BY <2>1, <2>3, <2>4, Records DEF CallsOK, IInv, NoCall
  <1> QED
    BY <1>2, <1>3, <1>7, <1>8, <1>9, <1>10 DEF IInv

LEMMA RenewInv ==
    ASSUME IInv, NEW c \in Call, Renew(c)
    PROVE  IInv'
  <1> DEFINE l == call[c].lease
             r == call[c].snap
  <1>1. l \in Lease /\ l \in request /\ r \in Row /\ Good(l, r.exp)
    BY DEF IInv, CallsOK, CallOK, CallRec, Renew, IssuedOK
  <1>2. RowsOK(row')
    <2>1. CASE ExpireLease(l)
      BY <1>1, <2>1, Expires DEF IInv
    <2>2. CASE \E d \in 1 .. MaxDuration :
                 UpdateLease(l, [r EXCEPT !.exp = RenewedExpiry(l, d), !.ki = FALSE, !.hb = TRUE])
      <3>1. PICK d \in 1 .. MaxDuration :
                 UpdateLease(l, [r EXCEPT !.exp = RenewedExpiry(l, d), !.ki = FALSE, !.hb = TRUE])
        BY <2>2
      <3>2. RenewedExpiry(l, d) \in Nat /\ Good(l, RenewedExpiry(l, d))
        BY <1>1, ConstantsAssumption DEF RenewedExpiry, Least, Good, Absolute, IInv, IssuedOK
      <3> DEFINE n == [r EXCEPT !.exp = RenewedExpiry(l, d), !.ki = FALSE, !.hb = TRUE]
      <3>3. n \in Row /\ n.exp = RenewedExpiry(l, d)
        BY <1>1, <3>2 DEF Row
      <3> QED
        BY <1>1, <3>1, <3>2, <3>3, Updates DEF IInv
    <2>3. CASE UNCHANGED row
      BY <2>3 DEF IInv
    <2> QED
      BY <2>1, <2>2, <2>3 DEF Renew
  <1>3. CallsOK(call')
    BY Idle, CallChanges DEF Renew, Return, IInv, NoCall
  <1> QED
    BY <1>2, <1>3, Frame DEF Renew, IInv

LEMMA HeartbeatInv ==
    ASSUME IInv, NEW c \in Call, Heartbeat(c)
    PROVE  IInv'
  <1> DEFINE l == call[c].lease
             r == call[c].snap
             n == [r EXCEPT !.hb = TRUE]
  <1>1. l \in Lease /\ l \in request /\ r \in Row /\ Good(l, r.exp)
    BY DEF IInv, CallsOK, CallOK, CallRec, Heartbeat, IssuedOK
  <1>2. n \in Row /\ n.exp = r.exp
    BY <1>1 DEF Row
  <1>3. RowsOK(row')
    BY <1>1, <1>2, Expires, Updates DEF Heartbeat, IInv
  <1>4. CallsOK(call')
    BY Idle, CallChanges DEF Heartbeat, Return, IInv, NoCall
  <1> QED
    BY <1>3, <1>4, Frame DEF Heartbeat, IInv

LEMMA WriteLeaseInv ==
    ASSUME IInv, NEW c \in Call, WriteLease(c)
    PROVE  IInv'
  <1> DEFINE l == call[c].lease
             r == call[c].snap
             n == Written(call[c].op, r)
  <1>1. l \in Lease /\ l \in request /\ r \in Row /\ Good(l, r.exp)
    BY DEF IInv, CallsOK, CallOK, CallRec, WriteLease, IssuedOK
  <1>2. call[c].op \in {"disconnect", "revoke", "disable", "grace", "protect"}
    BY DEF IInv, CallsOK, CallOK, WriteLease, ClientOp, AdminOp
  <1>3. n \in Row /\ n.exp = r.exp
    BY <1>1, <1>2 DEF Written, Row, Status, Closed
  <1>4. RowsOK(row')
    BY <1>1, <1>3, Updates DEF WriteLease, IInv
  <1>5. CallsOK(call')
    BY Idle, CallChanges DEF WriteLease, Return, IInv, NoCall
  <1> QED
    BY <1>4, <1>5, Frame DEF WriteLease, IInv

LEMMA RevokeTokenInv == IInv /\ RevokeToken => IInv'
  <1> SUFFICES ASSUME IInv, RevokeToken PROVE IInv'
    OBVIOUS
  <1>1. RowsOK(row')
    <2>1. \A l \in Lease : row[l] \in Row
      BY DEF IInv, RowsOK
    <2>2. \A l \in Lease : row'[l] \in Row /\ row'[l].exp = row[l].exp
                           /\ (row'[l].status # "absent" => row[l].status # "absent")
      BY <2>1 DEF RevokeToken, Row, Status, Closed
    <2>3. row' \in [Lease -> Row]
      BY <2>2 DEF RevokeToken
    <2> QED
      BY <2>2, <2>3 DEF IInv, RowsOK
  <1> QED
    BY <1>1, Frame DEF RevokeToken, IInv

LEMMA OpenSessionInv ==
    ASSUME IInv, NEW l \in Lease, OpenSession(l)
    PROVE  IInv'
  <1>1. sessions' \in [Lease -> Nat]
    BY DEF IInv, OpenSession
  <1> QED
    BY <1>1, Frame DEF OpenSession, IInv

LEMMA FindStaleInv ==
    ASSUME IInv, FindStale
    PROVE  IInv'
  <1>1. stale' \in SUBSET Lease
    BY DEF FindStale, Overdue
  <1> QED
    BY <1>1, Frame DEF FindStale, IInv

LEMMA ExpireStaleInv ==
    ASSUME IInv, NEW l \in Lease, ExpireStale(l)
    PROVE  IInv'
  <1>1. RowsOK(row') /\ stale' \in SUBSET Lease
    BY Expires DEF IInv, ExpireStale
  <1> QED
    BY <1>1, Frame DEF ExpireStale, IInv

-----------------------------------------------------------------------------
(* The agent's steps.                                                      *)

(* A heartbeat whose report on a lease is over is in order.                *)
LEMMA ReportedOK ==
    ASSUME IssuedOK, NEW b, BeatOK(b), NEW l \in Lease
    PROVE  BeatOK(Reported(b, l))
  <1> DEFINE n == Reported(b, l)
  <1>1. /\ n \in BeatRec /\ n.stage = "report" /\ n.rem = b.rem \ {l} /\ n.lease = NoLease
        /\ n.inst = [b.inst EXCEPT ![l] = 0]
    BY Records DEF Reported, BeatOK, BeatRec
  <1>2. Good(l, 0)
    BY ConstantsAssumption DEF Good, Absolute, IssuedOK
  <1>3. \A k \in Lease : Good(k, n.inst[k]) /\ (n.inst[k] # 0 => k \in request)
    BY <1>1, <1>2 DEF BeatOK, BeatRec
  <1> QED
    BY <1>1, <1>3, ConstantsAssumption DEF BeatOK

LEMMA LeaseOpsInv ==
    ASSUME IInv, NEW s \in Slot, LeaseOps(s)
    PROVE  IInv'
  <1> DEFINE b == [NoBeat EXCEPT
                     !.stage = "apply",
                     !.inst = [l \in Lease |-> IF ToInstall(l) THEN row[l].exp ELSE 0],
                     !.rem = {l \in Lease : ToRemove(l)}]
  <1>1. \A l \in Lease : /\ row[l] \in Row /\ row[l].exp \in Nat /\ Good(l, row[l].exp)
                         /\ row[l].status # "absent" => l \in request
    BY Records DEF IInv, RowsOK
  <1>2. \A l \in Lease : Good(l, 0)
    BY ConstantsAssumption DEF Good, Absolute, IInv, IssuedOK
  <1>3. b \in BeatRec /\ b.lease = NoLease /\ b.stage = "apply"
    BY <1>1, Records DEF NoBeat, BeatRec
  <1>4. /\ b.inst = [l \in Lease |-> IF ToInstall(l) THEN row[l].exp ELSE 0]
        /\ b.rem = {l \in Lease : ToRemove(l)}
    BY DEF NoBeat
  <1>5. b.rem \subseteq request
    BY <1>1, <1>4 DEF ToRemove, Closed
  <1>6. \A l \in Lease : Good(l, b.inst[l]) /\ (b.inst[l] # 0 => l \in request)
    BY <1>1, <1>2, <1>4 DEF ToInstall
  <1>7. BeatOK(b)
    BY <1>3, <1>5, <1>6, ConstantsAssumption DEF BeatOK
  <1>8. BeatsOK(beat')
    BY <1>7, BeatChanges DEF IInv, LeaseOps
  <1> QED
    BY <1>8, Frame DEF LeaseOps, IInv

LEMMA ApplyInv ==
    ASSUME IInv, NEW s \in Slot, Apply(s)
    PROVE  IInv'
  <1> DEFINE b == beat[s]
  <1>1. BeatOK(b) /\ b \in BeatRec
    BY DEF IInv, BeatsOK, BeatOK
  <1>2. KeysOK(keys')
    <2>1. CASE keys' = [l \in Lease |-> IF b.inst[l] # 0 THEN b.inst[l]
                                        ELSE IF l \in b.rem THEN 0 ELSE keys[l]]
      <3>1. \A l \in Lease : Good(l, 0) /\ b.inst[l] \in Nat /\ Good(l, b.inst[l])
        BY <1>1, ConstantsAssumption DEF BeatOK, BeatRec, Good, Absolute, IInv, IssuedOK
      <3> QED
        BY <2>1, <3>1 DEF IInv, KeysOK
    <2>2. CASE UNCHANGED keys
      BY <2>2 DEF IInv
    <2> QED
      BY <2>1, <2>2 DEF Apply
  <1>3. BeatsOK(beat')
    <2>1. CASE beat' = [beat EXCEPT ![s].stage = "report"]
      <3> DEFINE n == [b EXCEPT !.stage = "report"]
      <3>1. n \in BeatRec /\ n.stage = "report" /\ n.inst = b.inst /\ n.rem = b.rem
            /\ n.lease = b.lease /\ n.snap = b.snap
        BY <1>1 DEF BeatRec
      <3>2. BeatOK(n)
        BY <1>1, <3>1 DEF BeatOK
      <3>3. beat' = [beat EXCEPT ![s] = n]
        BY <2>1 DEF IInv, BeatsOK
      <3> QED
        BY <3>2, <3>3, BeatChanges DEF IInv
    <2>2. CASE beat' = [beat EXCEPT ![s].stage = "report", ![s].ok = FALSE, ![s].rem = {}]
      <3> DEFINE n == [b EXCEPT !.stage = "report", !.ok = FALSE, !.rem = {}]
      <3>1. n \in BeatRec /\ n.stage = "report" /\ n.inst = b.inst /\ n.rem = {}
            /\ n.lease = b.lease /\ n.snap = b.snap
        BY <1>1 DEF BeatRec
      <3>2. BeatOK(n)
        BY <1>1, <3>1 DEF BeatOK
      <3>3. beat' = [beat EXCEPT ![s] = n]
        BY <2>2 DEF IInv, BeatsOK
      <3> QED
        BY <3>2, <3>3, BeatChanges DEF IInv
    <2> QED
      BY <2>1, <2>2 DEF Apply
  <1> QED
    BY <1>2, <1>3, Frame DEF Apply, IInv

LEMMA EventReadInv ==
    ASSUME IInv, NEW s \in Slot, NEW l \in Lease, EventRead(s, l)
    PROVE  IInv'
  <1> DEFINE b == beat[s]
             n == [b EXCEPT !.stage = "event", !.lease = l, !.snap = row[l]]
  <1>1. BeatOK(b) /\ b \in BeatRec /\ row[l] \in Row /\ Good(l, row[l].exp)
    BY DEF IInv, BeatsOK, BeatOK, RowsOK
  <1>2. n \in BeatRec /\ n.inst = b.inst /\ n.rem = b.rem /\ n.lease = l /\ n.snap = row[l]
    BY <1>1 DEF BeatRec
  <1>3. l \in request
    BY <1>1 DEF EventRead, Pending, BeatOK
  <1>4. BeatOK(n)
    BY <1>1, <1>2, <1>3 DEF BeatOK
  <1>5. beat' = [beat EXCEPT ![s] = n]
    BY DEF EventRead, IInv, BeatsOK
  <1>6. BeatsOK(beat')
    BY <1>4, <1>5, BeatChanges DEF IInv
  <1> QED
    BY <1>6, Frame DEF EventRead, IInv

LEMMA EventWriteInv ==
    ASSUME IInv, NEW s \in Slot, EventWrite(s)
    PROVE  IInv'
  <1> DEFINE b == beat[s]
             l == b.lease
  <1>1. BeatOK(b) /\ b \in BeatRec
    BY DEF IInv, BeatsOK, BeatOK
  <1>2. l \in Lease /\ l \in request /\ b.snap \in Row /\ Good(l, b.snap.exp)
    BY <1>1 DEF EventWrite, BeatOK, BeatRec, IInv, IssuedOK
  <1>3. RowsOK(row')
    <2>1. ASSUME NEW v \in BOOLEAN, UpdateLease(l, [b.snap EXCEPT !.ki = v]) PROVE RowsOK(row')
      <3> DEFINE n == [b.snap EXCEPT !.ki = v]
      <3>1. n \in Row /\ n.exp = b.snap.exp
        BY <1>2 DEF Row
      <3> QED
        BY <1>2, <2>1, <3>1, Updates DEF IInv
    <2>2. CASE UpdateLease(l, [b.snap EXCEPT !.status = "failed"])
      <3> DEFINE n == [b.snap EXCEPT !.status = "failed"]
      <3>1. n \in Row /\ n.exp = b.snap.exp
        BY <1>2 DEF Row, Status, Closed
      <3> QED
        BY <1>2, <2>2, <3>1, Updates DEF IInv
    <2>3. CASE UNCHANGED row
      BY <2>3 DEF IInv
    <2> QED
      BY <2>1, <2>2, <2>3 DEF EventWrite
  <1>4. BeatsOK(beat')
    BY <1>1, <1>2, ReportedOK, BeatChanges DEF EventWrite, IInv, BeatsOK
  <1> QED
    BY <1>3, <1>4, Frame DEF EventWrite, IInv

LEMMA LoseReportInv ==
    ASSUME IInv, NEW s \in Slot, NEW l \in Lease, LoseReport(s, l)
    PROVE  IInv'
  <1>1. BeatOK(Reported(beat[s], l))
    BY ReportedOK DEF IInv, BeatsOK
  <1>2. BeatsOK(beat')
    BY <1>1, BeatChanges DEF LoseReport, IInv, BeatsOK
  <1> QED
    BY <1>2, Frame DEF LoseReport, IInv

LEMMA BeatReturnInv ==
    ASSUME IInv, NEW s \in Slot, BeatReturn(s)
    PROVE  IInv'
  <1>1. BeatsOK(beat')
    BY Idle, BeatChanges DEF BeatReturn, IInv
  <1> QED
    BY <1>1, Frame DEF BeatReturn, IInv

(* The sweep only removes lines.                                           *)
LEMMA Swept ==
    ASSUME IInv, keys' = [l \in Lease |-> IF keys[l] <= clock THEN 0 ELSE keys[l]]
    PROVE  KeysOK(keys')
  <1>1. \A l \in Lease : Good(l, 0)
    BY ConstantsAssumption DEF Good, Absolute, IInv, IssuedOK
  <1> QED
    BY <1>1 DEF IInv, KeysOK

LEMMA SweepExpiredInv == IInv /\ SweepExpired => IInv'
  BY Swept, Frame DEF SweepExpired, IInv

LEMMA AgentCrashInv == IInv /\ AgentCrash => IInv'
  <1> SUFFICES ASSUME IInv, AgentCrash PROVE IInv'
    OBVIOUS
  <1>1. BeatsOK(beat')
    BY Idle, Records DEF AgentCrash, IInv, BeatsOK
  <1> QED
    BY <1>1, Swept, Frame DEF AgentCrash, IInv

LEMMA RestartInv == IInv /\ Restart => IInv'
  <1> SUFFICES ASSUME IInv, Restart PROVE IInv'
    OBVIOUS
  <1>1. RowsOK(row')
    <2>1. \A l \in Lease : row[l] \in Row
      BY DEF IInv, RowsOK
    <2>2. \A l \in Lease : row'[l] \in Row /\ row'[l].exp = row[l].exp
                           /\ (row'[l].status # "absent" => row[l].status # "absent")
      BY <2>1 DEF Restart, Row, Status, Closed
    <2>3. row' \in [Lease -> Row]
      BY <2>2 DEF Restart
    <2> QED
      BY <2>2, <2>3 DEF IInv, RowsOK
  <1>2. CallsOK(call')
    BY Idle, Records DEF Restart, IInv, CallsOK, NoCall
  <1>3. BeatsOK(beat')
    <2>1. ASSUME NEW s \in Slot, beat[s].stage = "event"
          PROVE  BeatOK(Reported(beat[s], beat[s].lease))
      <3>1. BeatOK(beat[s]) /\ beat[s].lease \in Lease
        BY <2>1 DEF IInv, BeatsOK, BeatOK, IssuedOK
      <3> QED
        BY <3>1, ReportedOK DEF IInv
    <2>2. \A s \in Slot : BeatOK(beat'[s])
      BY <2>1 DEF Restart, IInv, BeatsOK
    <2>3. beat' \in [Slot -> BeatRec]
      <3>1. \A s \in Slot : beat'[s] \in BeatRec
        BY <2>2 DEF BeatOK
      <3> QED
        BY <3>1 DEF Restart
    <2> QED
      BY <2>2, <2>3 DEF BeatsOK
  <1> QED
    BY <1>1, <1>2, <1>3, Frame DEF Restart, IInv

-----------------------------------------------------------------------------
LEMMA StutterInv == IInv /\ UNCHANGED vars => IInv'
  BY Frame DEF vars, IInv

(* The inductive step, action by action.                                   *)
LEMMA NextInv == IInv /\ [Next]_vars => IInv'
  <1> SUFFICES ASSUME IInv, [Next]_vars PROVE IInv'
    OBVIOUS
  <1>1. CASE UNCHANGED vars
    BY <1>1, StutterInv
  <1>2. CASE Tick \/ SweepExpired \/ Restart \/ AgentCrash
    BY <1>2, TickInv, SweepExpiredInv, RestartInv, AgentCrashInv
  <1>3. CASE Ask
    BY <1>3, AuthenticateInv, ReadLeaseInv, RevokeTokenInv, OpenSessionInv DEF Ask
  <1>4. CASE Scheduler
    BY <1>4, FindStaleInv, ExpireStaleInv, GraceReadInv DEF Scheduler, CloseStale
  <1>5. CASE \E c \in Call : CallStep(c)
    BY <1>5, CreateLeaseRequestInv, IssueLeaseInv, DenyInv, ReadLeaseInv, RenewInv,
       HeartbeatInv, WriteLeaseInv DEF CallStep
  <1>6. CASE \E s \in Slot : BeatStep(s)
    BY <1>6, LeaseOpsInv, ApplyInv, EventWriteInv, BeatReturnInv, EventReadInv,
       LoseReportInv DEF BeatStep
  <1> QED
    BY <1>1, <1>2, <1>3, <1>4, <1>5, <1>6 DEF Next

(* The invariant holds in every state a run reaches.                       *)
THEOREM Invariance == Spec => []IInv
  BY InitInv, NextInv, PTL DEF Spec

(* Every variable keeps its type: the whole-row writes of LeaseService and *)
(* the scheduler put only well-formed rows back.                           *)
THEOREM TypeCorrect == Spec => []TypeOK
  <1>1. IInv => TypeOK
    BY DEF IInv, TypeOK, IssuedOK, RowsOK, KeysOK, CallsOK, BeatsOK
  <1> QED
    BY <1>1, Invariance, PTL

(* Whatever is written back late, no row, no authorized_keys line and no   *)
(* line on its way outlasts issued_at plus the cap.                        *)
THEOREM CapHolds == Spec => []WithinCap
  <1>1. IInv => WithinCap
    BY DEF IInv, WithinCap, RowsOK, KeysOK, BeatsOK, BeatOK, Good
  <1> QED
    BY <1>1, Invariance, PTL

(* No row outlasts the access token its lease was granted on, but for one  *)
(* issued at the token's last instant.                                     *)
THEOREM TokenHolds == Spec => []WithinToken
  <1>1. IInv => WithinToken
    BY DEF IInv, WithinToken, RowsOK, Good
  <1> QED
    BY <1>1, Invariance, PTL

(* However many handlers race on one client_request_id, issueLease gives a *)
(* lease its issued_at once.                                               *)
THEOREM IssuedOnceHolds == Spec => IssuedOnce
  <1> DEFINE A == \A l \in Lease : issued[l] # 0 => issued'[l] = issued[l]
  <1>1. IInv /\ [Next]_vars => [A]_vars
    <2> SUFFICES ASSUME IInv, Next PROVE A
      OBVIOUS
    <2>1. ASSUME NEW c \in Call, IssueLease(c) PROVE A
      <3>1. issued[call[c].lease] = 0 /\ call[c].lease \in Lease
        BY <2>1 DEF IInv, CallsOK, CallOK, IssueLease, IssuedOK
      <3> QED
        BY <2>1, <3>1 DEF IssueLease, IInv, IssuedOK
    <2>2. CASE UNCHANGED issued
      BY <2>2
    <2>3. UNCHANGED issued \/ \E c \in Call : IssueLease(c)
      BY DEF Next, Ask, Scheduler, CallStep, BeatStep, Tick, SweepExpired, Restart, AgentCrash,
             Authenticate, ReadLease, RevokeToken, OpenSession, CloseStale, FindStale, ExpireStale,
             GraceRead,
             CreateLeaseRequest, Deny, Renew, Heartbeat, WriteLease, LeaseOps, Apply,
             EventWrite, BeatReturn, EventRead, LoseReport
    <2> QED
      BY <2>1, <2>2, <2>3
  <1> QED
    BY <1>1, Invariance, PTL DEF Spec, IssuedOnce

(* handleLeaseRuntimeStatus lets a session open only on an issued lease,   *)
(* before its cap and with a good token, whatever stale rows say.          *)
THEOREM SessionsGatedHolds == Spec => SessionsGated
  <1> DEFINE A == \A l \in Lease : sessions'[l] # sessions[l] =>
                    /\ l \in request
                    /\ issued[l] <= clock /\ clock < Absolute(l)
                    /\ ~tokRevoked /\ clock < TokenExpiry
  <1>1. IInv /\ [Next]_vars => [A]_vars
    <2> SUFFICES ASSUME IInv, Next PROVE A
      OBVIOUS
    <2>1. ASSUME NEW k \in Lease, OpenSession(k) PROVE A
      <3>1. \A l \in Lease : sessions'[l] # sessions[l] => l = k
        BY <2>1 DEF OpenSession, IInv
      <3>2. row[k].exp \in Nat /\ row[k].exp <= Absolute(k) /\ k \in request
        BY <2>1, Records DEF OpenSession, RuntimeStatusOK, IInv, RowsOK, Good
      <3>3. issued[k] <= clock /\ clock \in Nat /\ Absolute(k) \in Nat
        BY ConstantsAssumption DEF IInv, IssuedOK, Absolute
      <3>4. clock < row[k].exp /\ ~tokRevoked /\ clock < TokenExpiry
        BY <2>1, <3>2, <3>3 DEF OpenSession, RuntimeStatusOK, TokenValid
      <3>5. clock < Absolute(k)
        BY <3>2, <3>3, <3>4
      <3> QED
        BY <3>1, <3>2, <3>3, <3>4, <3>5
    <2>2. CASE UNCHANGED sessions
      BY <2>2
    <2>3. UNCHANGED sessions \/ \E k \in Lease : OpenSession(k)
      BY DEF Next, Ask, Scheduler, CallStep, BeatStep, Tick, SweepExpired, Restart, AgentCrash,
             Authenticate, ReadLease, RevokeToken, CloseStale, FindStale, ExpireStale,
             GraceRead, IssueLease,
             CreateLeaseRequest, Deny, Renew, Heartbeat, WriteLease, LeaseOps, Apply,
             EventWrite, BeatReturn, EventRead, LoseReport
    <2> QED
      BY <2>1, <2>2, <2>3
  <1> QED
    BY <1>1, Invariance, PTL DEF Spec, SessionsGated

=============================================================================
