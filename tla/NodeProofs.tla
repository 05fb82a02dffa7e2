----------------------------- MODULE NodeProofs -----------------------------
(***************************************************************************)
(* What Node.tla guarantees for any number of agents, nodes, handlers and  *)
(* patches, in every situation.                                            *)
(*                                                                         *)
(* Every handler writes a row that it has read some steps before.  The     *)
(* invariant says what still holds of such a row: of an enrollment in the  *)
(* hands of an approval, a rejection or a claim, of a node's row in the    *)
(* hands of a heartbeat or a patch, and of the identity an agent has.      *)
(***************************************************************************)
EXTENDS Node, TLAPS

Verdict == {"approve", "approving", "reject"}
Accepted == {"approved", "claimed"}

(* Unless two verdicts on enrollment g of agent a overlapped, or node n is *)
(* gone, the enrollment is in one of the states of S and n is its node.    *)
Tied(a, g, n, S) ==
    <<a, g>> \notin contested /\ Exists(n) =>
        /\ enr[a].gen = g /\ enr[a].node = n /\ enr[a].status \in S
        /\ node[n].cred = <<a, g>>

(* An enrollment row has a node once it was accepted.                      *)
EnrollmentsOK == \A a \in Agent : enr[a].status \in Accepted => enr[a].node \in NodeId

(* A verdict in the hands of handler q: while nobody else decides on the   *)
(* enrollment, it is undecided.                                            *)
VerdictOK(q) ==
    q.op \in Verdict =>
        /\ q.agent \in Agent /\ q.enr.gen <= enr[q.agent].gen
        /\ <<q.agent, q.enr.gen>> \notin contested /\ enr[q.agent].gen = q.enr.gen =>
               enr[q.agent].status \in {"pending", "absent"}
        /\ q.op = "approving" => q.node \in NodeId

(* A claim: what it has read belongs to an enrollment that was accepted.   *)
ClaimOK(q) ==
    q.op = "claim" =>
        /\ q.agent \in Agent /\ q.enr.gen <= enr[q.agent].gen
        /\ q.row # NoRow =>
             /\ q.enr.node \in NodeId /\ node[q.enr.node].status # "absent"
             /\ Tied(q.agent, q.enr.gen, q.enr.node, Accepted)
             /\ <<q.agent, q.enr.gen>> \notin contested /\ enr[q.agent].gen = q.enr.gen =>
                    \/ enr[q.agent].status = "absent"
                    \/ enr[q.agent].status \in Accepted /\ enr[q.agent].node = q.enr.node

(* A node's row that will be written back: it is the row of a node that    *)
(* existed, with its credential, and a heartbeat's is enabled.             *)
WriteOK(q) ==
    /\ q.op \in {"patch", "delete"} => q.node \in NodeId
    /\ q.op \in {"heartbeat", "patch"} /\ q.node # None =>
          /\ q.node \in NodeId /\ node[q.node].status # "absent"
          /\ q.row.status \in NodeStatus
          /\ Exists(q.node) => q.row.cred = node[q.node].cred
          /\ q.op = "heartbeat" => q.row.enabled

RequestOK(q) ==
    /\ q.op \in AgentOp => q.agent \in Agent
    /\ VerdictOK(q) /\ ClaimOK(q) /\ WriteOK(q)

(* Only administrators decide, and never two at once on an enrollment that *)
(* is not contested.                                                       *)
OneVerdict ==
    \A h \in Admin \cup Serve : req[h].op \in Verdict =>
        /\ h \in Admin
        /\ \A i \in Admin \cup Serve :
               /\ req[i].op \in Verdict /\ req[i].agent = req[h].agent
               /\ req[i].enr.gen = req[h].enr.gen
               /\ <<req[h].agent, req[h].enr.gen>> \notin contested
               => h = i

(* The agent waits for the handler that has its request.                   *)
WaitOK(a) ==
    on[a] # None =>
        /\ on[a] \in Serve /\ req[on[a]].agent = a
        /\ <<pc[a], req[on[a]].op>> \in
               {<<"enrolling", "enroll">>, <<"claiming", "claim">>, <<"beating", "heartbeat">>}
        /\ pc[a] = "claiming" => eid[a] = <<a, req[on[a]].enr.gen>>

(* What it knows: an enrollment of its own, and, once its claim was        *)
(* answered, the node of it.                                               *)
KnowsOK(a) ==
    /\ eid[a] # None => eid[a] = <<a, eid[a][2]>> /\ eid[a][2] <= enr[a].gen
    /\ pc[a] \in {"poll", "claim", "claiming"} => eid[a] # None
    /\ id[a] = "claimed" => pc[a] \in {"start", "run", "beating"}
    /\ id[a] = "claimed" \/ pc[a] = "save" =>
          /\ named[a] \in NodeId /\ node[named[a]].status # "absent"
          /\ eid[a] # None
          /\ Tied(a, eid[a][2], named[a], {"claimed"})

IInv ==
    /\ TypeOK
    /\ EnrollmentsOK
    /\ \A h \in Admin \cup Serve : RequestOK(req[h])
    /\ OneVerdict
    /\ \A a \in Agent : WaitOK(a) /\ KnowsOK(a)

-----------------------------------------------------------------------------
(* What no step undoes: a node that was removed stays away and a node      *)
(* keeps its credential; an enrollment that was accepted stays so, with    *)
(* its node, until that node is removed.                                   *)
NodeLater ==
    \A n \in NodeId : node[n].status # "absent" =>
        /\ node'[n].status # "absent"
        /\ Exists(n)' => Exists(n) /\ node'[n].cred = node[n].cred

EnrLater ==
    \A a \in Agent :
        /\ enr[a].gen \in Nat /\ enr'[a].gen \in Nat /\ enr[a].gen <= enr'[a].gen
        /\ enr'[a].gen # enr[a].gen => enr[a].status = "absent"
        /\ enr[a].status = "absent" /\ enr'[a].gen = enr[a].gen => enr'[a].status = "absent"
        /\ <<a, enr[a].gen>> \notin contested' /\ enr[a].status \in Accepted =>
             \/ enr'[a].status = "absent" /\ node'[enr[a].node].status \in {"absent", "deleted"}
             \/ /\ enr'[a].node = enr[a].node /\ enr'[a].status \in Accepted
                /\ enr[a].status = "claimed" => enr'[a].status = "claimed"

Later == NodeLater /\ EnrLater /\ contested \subseteq contested'

(* An enrollment that nobody has decided on is not decided now.            *)
Undecided(a) ==
    /\ <<a, enr[a].gen>> \notin contested' /\ enr'[a].gen = enr[a].gen
    /\ enr[a].status \in {"pending", "absent"}
    => enr'[a].status \in {"pending", "absent"}

(* The tables as they were.                                                *)
LEMMA SameTables ==
    ASSUME TypeOK, UNCHANGED tables, contested \subseteq contested'
    PROVE  Later /\ \A a \in Agent : Undecided(a)
  <1>1. \A a \in Agent : enr[a].gen \in Nat
    BY DEF TypeOK, NodeEnrollment
  <1> QED
    BY <1>1 DEF Later, NodeLater, EnrLater, Undecided, Exists, Accepted, tables

(* A generation that a row has reached is not given to a later row.        *)
LEMMA LaterGen ==
    ASSUME Later, NEW a \in Agent, NEW g \in Nat, g <= enr[a].gen
    PROVE  /\ g <= enr'[a].gen
           /\ enr'[a].gen = g => enr[a].gen = g
  <1>1. enr[a].gen \in Nat /\ enr'[a].gen \in Nat /\ enr[a].gen <= enr'[a].gen
    BY DEF Later, EnrLater
  <1>2. PICK i \in Nat, j \in Nat : i = enr[a].gen /\ j = enr'[a].gen /\ g <= i /\ i <= j
    BY <1>1
  <1>3. g <= j /\ (j = g => i = g)
    BY <1>2
  <1> QED
    BY <1>2, <1>3

(* What is tied stays tied.                                                *)
LEMMA TiedKept ==
    ASSUME Later, NEW a \in Agent, NEW g \in Nat, NEW n \in NodeId, NEW S \in SUBSET Accepted,
           S \in {Accepted, {"claimed"}}, node[n].status # "absent", Tied(a, g, n, S)
    PROVE  Tied(a, g, n, S)'
  <1> SUFFICES ASSUME <<a, g>> \notin contested', Exists(n)'
               PROVE  /\ enr'[a].gen = g /\ enr'[a].node = n /\ enr'[a].status \in S
                      /\ node'[n].cred = <<a, g>>
    BY DEF Tied
  <1>1. Exists(n) /\ node'[n].cred = node[n].cred /\ <<a, g>> \notin contested
    BY DEF Later, NodeLater
  <1>2. /\ enr[a].gen = g /\ enr[a].node = n /\ enr[a].status \in S
        /\ node[n].cred = <<a, g>>
    BY <1>1 DEF Tied
  <1>3. enr'[a].gen = g
    BY <1>2 DEF Later, EnrLater, Accepted
  <1>4. /\ enr'[a].node = n /\ enr'[a].status \in Accepted
        /\ enr[a].status = "claimed" => enr'[a].status = "claimed"
    <2>1. enr[a].status \in Accepted
      BY <1>2
    <2>2. \/ enr'[a].status = "absent" /\ node'[enr[a].node].status \in {"absent", "deleted"}
          \/ /\ enr'[a].node = enr[a].node /\ enr'[a].status \in Accepted
             /\ enr[a].status = "claimed" => enr'[a].status = "claimed"
      BY <1>2, <1>3, <2>1 DEF Later, EnrLater
    <2>3. node'[enr[a].node].status \notin {"absent", "deleted"}
      BY <1>2 DEF Exists
    <2> QED
      BY <1>2, <2>2, <2>3
  <1> QED
    BY <1>1, <1>2, <1>3, <1>4

(* The request of a handler that takes no step.                            *)
LEMMA RequestKept ==
    ASSUME Later, NEW q \in Request, RequestOK(q),
           q.op \in Verdict /\ enr[q.agent].gen = q.enr.gen => Undecided(q.agent)
    PROVE  RequestOK(q)'
  <1>0. q.enr.gen \in Nat
    BY DEF Request, NodeEnrollment
  <1>1. VerdictOK(q)'
    <2> SUFFICES ASSUME q.op \in Verdict
                 PROVE  VerdictOK(q)'
      BY DEF VerdictOK
    <2>1. q.agent \in Agent /\ q.enr.gen <= enr[q.agent].gen
      BY DEF RequestOK, VerdictOK
    <2>2. q.enr.gen <= enr'[q.agent].gen
      BY <1>0, <2>1, LaterGen
    <2>3. ASSUME <<q.agent, q.enr.gen>> \notin contested', enr'[q.agent].gen = q.enr.gen
          PROVE  enr'[q.agent].status \in {"pending", "absent"}
      BY <1>0, <2>1, <2>3, LaterGen DEF Later, Undecided, RequestOK, VerdictOK
    <2> QED
      BY <2>1, <2>2, <2>3 DEF RequestOK, VerdictOK
  <1>2. ClaimOK(q)'
    <2> SUFFICES ASSUME q.op = "claim"
                 PROVE  ClaimOK(q)'
      BY DEF ClaimOK
    <2>1. q.agent \in Agent /\ q.enr.gen <= enr[q.agent].gen
      BY DEF RequestOK, ClaimOK
    <2>2. q.enr.gen <= enr'[q.agent].gen
      BY <1>0, <2>1, LaterGen
    <2>3. ASSUME q.row # NoRow
          PROVE  /\ q.enr.node \in NodeId /\ node'[q.enr.node].status # "absent"
                 /\ Tied(q.agent, q.enr.gen, q.enr.node, Accepted)'
                 /\ <<q.agent, q.enr.gen>> \notin contested' /\ enr'[q.agent].gen = q.enr.gen =>
                        \/ enr'[q.agent].status = "absent"
                        \/ enr'[q.agent].status \in Accepted /\ enr'[q.agent].node = q.enr.node
      <3>1. /\ q.enr.node \in NodeId /\ node[q.enr.node].status # "absent"
            /\ Tied(q.agent, q.enr.gen, q.enr.node, Accepted)
            /\ <<q.agent, q.enr.gen>> \notin contested /\ enr[q.agent].gen = q.enr.gen =>
                   \/ enr[q.agent].status = "absent"
                   \/ enr[q.agent].status \in Accepted /\ enr[q.agent].node = q.enr.node
        BY <2>3 DEF RequestOK, ClaimOK
      <3>2. node'[q.enr.node].status # "absent"
        BY <3>1 DEF Later, NodeLater
      <3>3. Tied(q.agent, q.enr.gen, q.enr.node, Accepted)'
        BY <1>0, <2>1, <3>1, TiedKept
      <3>4. ASSUME <<q.agent, q.enr.gen>> \notin contested', enr'[q.agent].gen = q.enr.gen
            PROVE  \/ enr'[q.agent].status = "absent"
                   \/ enr'[q.agent].status \in Accepted /\ enr'[q.agent].node = q.enr.node
        BY <1>0, <2>1, <3>1, <3>4, LaterGen DEF Later, EnrLater
      <3> QED
        BY <3>1, <3>2, <3>3, <3>4
    <2> QED
      BY <2>1, <2>2, <2>3 DEF ClaimOK
  <1>3. WriteOK(q)'
    BY DEF RequestOK, WriteOK, Later, NodeLater
  <1> QED
    BY <1>1, <1>2, <1>3 DEF RequestOK

(* All handlers but the one that takes the step.                           *)
LEMMA HandlersKept ==
    ASSUME IInv, Later, NEW h \in Admin \cup Serve, NEW q \in Request,
           req' = [req EXCEPT ![h] = q], RequestOK(q)',
           q.op \in Verdict => h \in Admin,
           \A i \in (Admin \cup Serve) \ {h} : req[i].op \in Verdict =>
               /\ q.op \in Verdict /\ req[i].agent = q.agent /\ req[i].enr.gen = q.enr.gen =>
                      <<q.agent, q.enr.gen>> \in contested'
               /\ enr[req[i].agent].gen = req[i].enr.gen => Undecided(req[i].agent)
    PROVE  /\ req' \in [Admin \cup Serve -> Request]
           /\ (\A i \in Admin \cup Serve : RequestOK(req[i]))'
           /\ OneVerdict'
  <1>1. /\ req \in [Admin \cup Serve -> Request] /\ req' \in [Admin \cup Serve -> Request]
        /\ \A i \in Admin \cup Serve : req'[i] = IF i = h THEN q ELSE req[i]
    BY DEF IInv, TypeOK
  <1>2. ASSUME NEW i \in Admin \cup Serve
        PROVE  RequestOK(req[i])'
    <2>1. CASE i = h
      BY <1>1, <2>1
    <2>2. CASE i # h
      <3>1. PICK p \in Request : p = req[i]
        BY <1>1
      <3>2. RequestOK(p)'
        BY <2>2, <3>1, RequestKept DEF IInv
      <3> QED
        BY <1>1, <2>2, <3>1, <3>2
    <2> QED
      BY <2>1, <2>2
  <1>3. OneVerdict'
    <2>1. ASSUME NEW i \in Admin \cup Serve, req'[i].op \in Verdict
          PROVE  i \in Admin
      BY <1>1, <2>1 DEF IInv, OneVerdict
    <2>2. ASSUME NEW i \in Admin \cup Serve, NEW j \in Admin \cup Serve,
                 req'[i].op \in Verdict, req'[j].op \in Verdict, req'[j].agent = req'[i].agent,
                 req'[j].enr.gen = req'[i].enr.gen,
                 <<req'[i].agent, req'[i].enr.gen>> \notin contested'
          PROVE  i = j
      <3>1. CASE i # h /\ j # h
        BY <1>1, <2>2, <3>1 DEF IInv, OneVerdict, Later
      <3>2. CASE i = h /\ j # h
        BY <1>1, <2>2, <3>2
      <3>3. CASE i # h /\ j = h
        BY <1>1, <2>2, <3>3
      <3> QED
        BY <3>1, <3>2, <3>3
    <2> QED
      BY <2>1, <2>2 DEF OneVerdict
  <1> QED
    BY <1>1, <1>2, <1>3

(* All handlers, in a step that none of them takes.                        *)
LEMMA AllKept ==
    ASSUME IInv, Later, UNCHANGED req, \A a \in Agent : Undecided(a)
    PROVE  (\A i \in Admin \cup Serve : RequestOK(req[i]))' /\ OneVerdict'
  <1>1. ASSUME NEW i \in Admin \cup Serve
        PROVE  RequestOK(req[i])'
    <2>1. PICK q \in Request : q = req[i] /\ q = req'[i]
      BY DEF IInv, TypeOK
    <2>2. q.op \in Verdict => Undecided(q.agent)
      BY <2>1 DEF IInv, RequestOK, VerdictOK
    <2>3. RequestOK(q)'
      BY <2>1, <2>2, RequestKept DEF IInv
    <2> QED
      BY <2>1, <2>3
  <1>2. OneVerdict'
    BY DEF IInv, OneVerdict, Later
  <1> QED
    BY <1>1, <1>2

(* An agent that learns nothing.                                           *)
LEMMA KnowsKept ==
    ASSUME IInv, Later, NEW a \in Agent, eid'[a] = eid[a], named'[a] = named[a],
           id'[a] = "claimed" => id[a] = "claimed" \/ pc[a] = "save",
           \/ pc'[a] = pc[a] /\ id'[a] = id[a]
           \/ pc[a] \in {"poll", "claim"} /\ pc'[a] \in {"claim", "claiming"} /\ id'[a] = id[a]
           \/ /\ pc'[a] \notin {"poll", "claim", "claiming", "save"}
              /\ id'[a] = "claimed" => pc'[a] \in {"start", "run", "beating"}
    PROVE  KnowsOK(a)'
  <1>1. KnowsOK(a)
    BY DEF IInv
  <1>2. eid[a] # None => eid[a] = <<a, eid[a][2]>> /\ eid[a][2] \in Nat
    BY <1>1, NodeConstants DEF KnowsOK, IInv, TypeOK, Credential
  <1>3. eid'[a] # None => eid'[a] = <<a, eid'[a][2]>> /\ eid'[a][2] <= enr'[a].gen
    <2>1. enr[a].gen \in Nat /\ (eid[a] # None => eid[a][2] <= enr[a].gen)
      BY <1>1 DEF KnowsOK, IInv, TypeOK, NodeEnrollment
    <2>2. eid[a] # None => eid[a][2] <= enr'[a].gen
      BY <1>2, <2>1, LaterGen
    <2> QED
      BY <1>2, <2>2
  <1>4. ASSUME id'[a] = "claimed" \/ pc'[a] = "save"
        PROVE  /\ named'[a] \in NodeId /\ node'[named'[a]].status # "absent"
               /\ eid'[a] # None /\ Tied(a, eid[a][2], named[a], {"claimed"})'
    <2>1. /\ named[a] \in NodeId /\ node[named[a]].status # "absent"
          /\ eid[a] # None /\ Tied(a, eid[a][2], named[a], {"claimed"})
      BY <1>1, <1>4 DEF KnowsOK
    <2>2. PICK n \in NodeId, g \in Nat : n = named[a] /\ g = eid[a][2]
                                         /\ n = named'[a] /\ g = eid'[a][2]
      BY <1>2, <2>1
    <2>3. Tied(a, g, n, {"claimed"})'
      BY <2>1, <2>2, TiedKept DEF Accepted
    <2> QED
      BY <2>1, <2>2, <2>3 DEF Later, NodeLater
  <1> QED
    BY <1>1, <1>3, <1>4 DEF KnowsOK

(* An agent that goes on waiting, or does not wait.                        *)
LEMMA WaitKept ==
    ASSUME NEW a \in Agent, WaitOK(a), on'[a] = on[a], pc'[a] = pc[a], eid'[a] = eid[a],
           on[a] # None => /\ req'[on[a]].op = req[on[a]].op
                           /\ req'[on[a]].agent = req[on[a]].agent
                           /\ req'[on[a]].enr.gen = req[on[a]].enr.gen
    PROVE  WaitOK(a)'
  BY DEF WaitOK

-----------------------------------------------------------------------------
(* The handlers of agents' requests.                                       *)

(* A free handler has nothing in its hands that could be wrong.            *)
LEMMA IdleFits ==
    Idle \in Request /\ Idle.op = "idle" /\ RequestOK(Idle) /\ RequestOK(Idle)'
  <1>1. Idle \in Request /\ Idle.op = "idle"
    BY DEF Idle, Request, NoEnrollment, NoRow, NodeEnrollment, NodeRow, Credential
  <1>2. Idle.op \notin Verdict \cup AgentOp \cup {"patch", "delete"}
    BY <1>1 DEF Verdict, AgentOp
  <1> QED
    BY <1>1, <1>2 DEF RequestOK, VerdictOK, ClaimOK, WriteOK, AgentOp

(* Only the agent that waits for the answer moves.                         *)
LEMMA Proceeding ==
    ASSUME TypeOK, NEW a \in Agent, NEW h, NEW next \in AgentPC, Proceed(a, h, next)
    PROVE  /\ pc' \in [Agent -> AgentPC] /\ on' \in [Agent -> Serve \cup {None}]
           /\ \A b \in Agent : b # a \/ on[b] # h => pc'[b] = pc[b] /\ on'[b] = on[b]
           /\ on[a] = h => pc'[a] = next /\ on'[a] = None
  BY DEF Proceed, Waits, TypeOK

(* A handler ends and answers; the agent that waits for it goes on, and    *)
(* knows what it may know.                                                 *)
LEMMA Answering ==
    ASSUME IInv, Later, \A b \in Agent : Undecided(b),
           NEW h \in Serve, NEW a \in Agent, NEW next \in {"start", "poll", "save", "run"},
           req[h].agent = a, Proceed(a, h, next), Done(h),
           TypeOK', EnrollmentsOK', id' = id,
           \A b \in Agent : b # a \/ on[b] # h => eid'[b] = eid[b] /\ named'[b] = named[b],
           on[a] = h => KnowsOK(a)'
    PROVE  IInv'
  <1>1. /\ \A b \in Agent : b # a \/ on[b] # h => pc'[b] = pc[b] /\ on'[b] = on[b]
        /\ on[a] = h => pc'[a] = next /\ on'[a] = None
    <2>1. TypeOK /\ next \in AgentPC
      BY DEF IInv, AgentPC
    <2> QED
      BY <2>1, Proceeding
  <1>2. req' = [req EXCEPT ![h] = Idle] /\ req \in [Admin \cup Serve -> Request]
    BY DEF Done, IInv, TypeOK
  <1>3. (\A i \in Admin \cup Serve : RequestOK(req[i]))' /\ OneVerdict'
    <2>1. Idle.op \notin Verdict
      BY IdleFits DEF Verdict
    <2>2. \A i \in Admin \cup Serve : req[i].op \in Verdict => Undecided(req[i].agent)
      BY DEF IInv, RequestOK, VerdictOK
    <2> QED
      BY <1>2, <2>1, <2>2, IdleFits, HandlersKept
  <1>4. ASSUME NEW b \in Agent
        PROVE  WaitOK(b)' /\ KnowsOK(b)'
    <2>1. CASE b = a /\ on[a] = h
      BY <1>1, <2>1 DEF WaitOK
    <2>2. CASE b # a \/ on[b] # h
      <3>1. on[b] # h
        <4>1. WaitOK(b) /\ h # None
          BY NodeConstants DEF IInv
        <4> QED
          BY <2>2, <4>1 DEF WaitOK
      <3>2. on[b] # None => req'[on[b]] = req[on[b]]
        BY <1>2, <3>1 DEF IInv, WaitOK
      <3>3. pc'[b] = pc[b] /\ on'[b] = on[b] /\ eid'[b] = eid[b] /\ named'[b] = named[b]
        BY <1>1, <2>2
      <3>4. WaitOK(b)'
        BY <3>2, <3>3, WaitKept DEF IInv
      <3>5. KnowsOK(b)'
        BY <3>3, KnowsKept
      <3> QED
        BY <3>4, <3>5
    <2> QED
      BY <2>1, <2>2
  <1> QED
    BY <1>3, <1>4 DEF IInv

(* A handler goes on with its request: nobody sees that.                   *)
LEMMA Serving ==
    ASSUME IInv, NEW h \in Serve, NEW q \in Request, req' = [req EXCEPT ![h] = q],
           RequestOK(q), q.op = req[h].op, q.op \in AgentOp, q.agent = req[h].agent,
           q.enr.gen = req[h].enr.gen,
           UNCHANGED <<world, tables, sweep, agentVars, admins, contested>>
    PROVE  IInv' /\ Later
  <1>1. Later /\ \A a \in Agent : Undecided(a)
    BY SameTables DEF IInv
  <1>2. UNCHANGED <<world, enr, node, sweep, pc, id, eid, named, on, admins, contested>>
    BY DEF tables, agentVars
  <1>3. RequestOK(q)'
    BY <1>2 DEF RequestOK, VerdictOK, ClaimOK, WriteOK, Tied, Exists
  <1>4. \A i \in Admin \cup Serve : req[i].op \in Verdict => Undecided(req[i].agent)
    BY <1>1 DEF IInv, RequestOK, VerdictOK
  <1>5. q.op \notin Verdict
    BY DEF Verdict, AgentOp
  <1>6. /\ req' \in [Admin \cup Serve -> Request]
        /\ (\A i \in Admin \cup Serve : RequestOK(req[i]))'
        /\ OneVerdict'
    BY <1>1, <1>3, <1>4, <1>5, HandlersKept
  <1>7. ASSUME NEW b \in Agent
        PROVE  WaitOK(b)' /\ KnowsOK(b)'
    <2>1. on[b] # None => /\ req'[on[b]].op = req[on[b]].op
                          /\ req'[on[b]].agent = req[on[b]].agent
                          /\ req'[on[b]].enr.gen = req[on[b]].enr.gen
      <3>1. on[b] # None => on[b] \in Serve
        BY DEF IInv, WaitOK
      <3>2. req \in [Admin \cup Serve -> Request]
        BY DEF IInv, TypeOK
      <3> QED
        BY <3>1, <3>2
    <2>2. WaitOK(b)'
      BY <1>2, <2>1, WaitKept DEF IInv
    <2>3. KnowsOK(b)'
      BY <1>1, <1>2, KnowsKept
    <2> QED
      BY <2>2, <2>3
  <1>8. TypeOK' /\ EnrollmentsOK'
    BY <1>2, <1>6 DEF IInv, TypeOK, EnrollmentsOK
  <1> QED
    BY <1>1, <1>6, <1>7, <1>8 DEF IInv

(* The answer to a registration.                                           *)
LEMMA Enrolling ==
    ASSUME IInv, NEW h \in Serve, CreateEnrollment(h)
    PROVE  IInv' /\ Later
  <1>1. PICK a \in Agent : a = req[h].agent
    BY DEF CreateEnrollment, IInv, RequestOK, AgentOp
  <1>2. /\ req[h] \in Request /\ req \in [Admin \cup Serve -> Request] /\ req[h].op = "enroll"
        /\ UNCHANGED <<world, enr, node, sweep, id, named, admins, contested>>
    BY DEF CreateEnrollment, tables, IInv, TypeOK
  <1>3. Later /\ \A b \in Agent : Undecided(b)
    BY <1>2, SameTables DEF IInv, tables
  <1>4. EnrollmentsOK'
    BY <1>2 DEF IInv, EnrollmentsOK
  <1>5. on[a] = h => id[a] # "claimed" /\ pc[a] = "enrolling"
    <2>1. h # None
      BY NodeConstants
    <2> QED
      BY <1>2, <2>1 DEF IInv, WaitOK, KnowsOK
  <1>6. enr[a].gen \in Nat
    BY DEF IInv, TypeOK, NodeEnrollment
  <1>7. CASE Proceed(a, h, "poll") /\ Learn(a, h, enr[a].gen) /\ Done(h)
    <2>1. /\ eid' \in [Agent -> Credential]
          /\ \A b \in Agent : b # a \/ on[b] # h => eid'[b] = eid[b]
          /\ on[a] = h => eid'[a] = <<a, enr[a].gen>>
      BY <1>6, <1>7 DEF Learn, Waits, IInv, TypeOK, Credential
    <2>2. /\ pc' \in [Agent -> AgentPC] /\ on' \in [Agent -> Serve \cup {None}]
          /\ on[a] = h => pc'[a] = "poll"
      <3>1. "poll" \in AgentPC /\ TypeOK
        BY DEF AgentPC, IInv
      <3> QED
        BY <1>7, <3>1, Proceeding
    <2>3. on[a] = h => KnowsOK(a)'
      <3>1. <<a, enr[a].gen>> # None /\ enr'[a].gen = enr[a].gen
        BY <1>2, <1>6, NodeConstants
      <3> QED
        BY <1>2, <1>5, <1>6, <2>1, <2>2, <3>1 DEF KnowsOK
    <2>4. TypeOK'
      BY <1>2, <1>7, <2>1, <2>2, IdleFits DEF IInv, TypeOK, Done
    <2> QED
      BY <1>1, <1>2, <1>3, <1>4, <1>7, <2>1, <2>3, <2>4, Answering
  <1>8. CASE Proceed(a, h, "start") /\ Done(h) /\ UNCHANGED eid
    <2>1. /\ pc' \in [Agent -> AgentPC] /\ on' \in [Agent -> Serve \cup {None}]
          /\ on[a] = h => pc'[a] = "start"
      <3>1. "start" \in AgentPC /\ TypeOK
        BY DEF AgentPC, IInv
      <3> QED
        BY <1>8, <3>1, Proceeding
    <2>2. on[a] = h => KnowsOK(a)'
      BY <1>2, <1>3, <1>8, <2>1, KnowsKept
    <2>3. TypeOK'
      BY <1>2, <1>8, <2>1, IdleFits DEF IInv, TypeOK, Done
    <2> QED
      BY <1>1, <1>2, <1>3, <1>4, <1>8, <2>2, <2>3, Answering
  <1>9. CASE /\ req[h].enr.status = "absent"
             /\ req' = [req EXCEPT ![h].enr = [NoEnrollment EXCEPT !.status = "pending"]]
             /\ UNCHANGED <<pc, on, eid>>
    <2> DEFINE q == [req[h] EXCEPT !.enr = [NoEnrollment EXCEPT !.status = "pending"]]
    <2>1. [NoEnrollment EXCEPT !.status = "pending"] \in NodeEnrollment
      BY DEF NoEnrollment, NodeEnrollment
    <2>2. q \in Request /\ q.op = "enroll" /\ q.agent = a /\ req' = [req EXCEPT ![h] = q]
      BY <1>1, <1>2, <1>9, <2>1 DEF Request
    <2>3. PICK p \in Request : p.op = "enroll" /\ p.agent = a /\ req' = [req EXCEPT ![h] = p]
      BY <2>2
    <2>4. RequestOK(p)'
      BY <2>3 DEF RequestOK, VerdictOK, ClaimOK, WriteOK, Verdict
    <2>5. /\ req' \in [Admin \cup Serve -> Request]
          /\ (\A i \in Admin \cup Serve : RequestOK(req[i]))'
          /\ OneVerdict'
      <3>1. \A i \in Admin \cup Serve : req[i].op \in Verdict => Undecided(req[i].agent)
        BY <1>3 DEF IInv, RequestOK, VerdictOK
      <3>2. p.op \notin Verdict
        BY <2>3 DEF Verdict
      <3> QED
        BY <1>3, <2>3, <2>4, <3>1, <3>2, HandlersKept
    <2>6. ASSUME NEW b \in Agent
          PROVE  WaitOK(b)' /\ KnowsOK(b)'
      <3>1. WaitOK(b)' 
        BY <1>1, <1>2, <1>9, <2>3 DEF IInv, WaitOK
      <3>2. KnowsOK(b)'
        BY <1>2, <1>3, <1>9, KnowsKept
      <3> QED
        BY <3>1, <3>2
    <2>7. TypeOK'
      BY <1>2, <1>9, <2>5 DEF IInv, TypeOK
    <2> QED
      BY <1>3, <1>4, <2>5, <2>6, <2>7 DEF IInv
  <1> QED
    BY <1>1, <1>3, <1>7, <1>8, <1>9 DEF CreateEnrollment

(* A write of a node's row that keeps its credential.                      *)
LEMMA NodeWriting ==
    ASSUME IInv, NEW n \in NodeId, NEW r \in NodeRow, UpdateNode(n, r),
           UNCHANGED <<enr, contested>>,
           Exists(n) => r.cred = node[n].cred /\ r.status \in NodeStatus
    PROVE  /\ node' \in [NodeId -> NodeRow]
           /\ Later /\ \A a \in Agent : Undecided(a)
           /\ EnrollmentsOK'
  <1>1. node' \in [NodeId -> NodeRow]
    BY DEF UpdateNode, IInv, TypeOK
  <1>2. \A m \in NodeId : node'[m] = IF m = n /\ Exists(n) THEN r ELSE node[m]
    BY DEF UpdateNode, IInv, TypeOK
  <1>3. NodeLater
    BY <1>2 DEF NodeLater, Exists, NodeStatus
  <1>4. EnrLater /\ \A a \in Agent : Undecided(a)
    <2>1. \A a \in Agent : enr[a].gen \in Nat
      BY DEF IInv, TypeOK, NodeEnrollment
    <2> QED
      BY <2>1 DEF EnrLater, Undecided, Accepted
  <1>5. EnrollmentsOK'
    BY DEF IInv, EnrollmentsOK
  <1> QED
    BY <1>1, <1>3, <1>4, <1>5 DEF Later

(* A write of an enrollment that changes nothing which was accepted.       *)
LEMMA EnrWriting ==
    ASSUME IInv, NEW a \in Agent, NEW e \in NodeEnrollment, e.status # "absent",
           UpdateEnrollment(a, e), UNCHANGED <<node, contested>>,
           e.status \in Accepted => e.node \in NodeId,
           <<a, e.gen>> \notin contested /\ enr[a].gen = e.gen /\ enr[a].status \in Accepted =>
               e.status = "claimed" /\ e.node = enr[a].node
    PROVE  /\ enr' \in [Agent -> NodeEnrollment]
           /\ Later /\ EnrollmentsOK'
           /\ enr'[a] = IF enr[a].status # "absent" /\ enr[a].gen = e.gen THEN e ELSE enr[a]
           /\ \A b \in Agent : b # a \/ enr[a].gen # e.gen \/ enr[a].status # "pending" =>
                  Undecided(b)
  <1>1. /\ enr' \in [Agent -> NodeEnrollment]
        /\ \A b \in Agent : enr'[b] = IF b = a /\ enr[a].status # "absent" /\ enr[a].gen = e.gen
                                       THEN e ELSE enr[b]
    BY DEF UpdateEnrollment, IInv, TypeOK
  <1>2. \A b \in Agent : enr[b].gen \in Nat /\ enr'[b].gen = enr[b].gen
    BY <1>1 DEF IInv, TypeOK, NodeEnrollment
  <1>3. EnrLater
    BY <1>1, <1>2 DEF EnrLater, Accepted
  <1>4. Later
    BY <1>3 DEF Later, NodeLater, Exists
  <1>5. EnrollmentsOK'
    BY <1>1 DEF IInv, EnrollmentsOK
  <1>6. ASSUME NEW b \in Agent, b # a \/ enr[a].gen # e.gen \/ enr[a].status # "pending"
        PROVE  Undecided(b)
    BY <1>1, <1>6 DEF Undecided
  <1> QED
    BY <1>1, <1>4, <1>5, <1>6

(* The agent that waits for handler h.                                     *)
LEMMA Waiting ==
    ASSUME IInv, NEW h \in Serve, NEW a \in Agent, on[a] = h
    PROVE  /\ req[h].agent = a
           /\ <<pc[a], req[h].op>> \in
                {<<"enrolling", "enroll">>, <<"claiming", "claim">>, <<"beating", "heartbeat">>}
           /\ pc[a] = "claiming" => eid[a] = <<a, req[h].enr.gen>>
           /\ id[a] = "claimed" => pc[a] = "beating"
  <1>1. h # None
    BY NodeConstants
  <1> QED
    BY <1>1 DEF IInv, WaitOK, KnowsOK

(* The second statement of a registration: a new generation, or a loser.   *)
LEMMA Inserting ==
    ASSUME IInv, NEW h \in Serve, InsertEnrollment(h)
    PROVE  IInv' /\ Later
  <1>1. PICK a \in Agent : a = req[h].agent
    BY DEF InsertEnrollment, IInv, RequestOK, AgentOp
  <1>2. /\ req \in [Admin \cup Serve -> Request] /\ req[h].op = "enroll" /\ Done(h)
        /\ UNCHANGED <<world, node, sweep, id, named, admins, contested>>
    BY DEF InsertEnrollment, IInv, TypeOK
  <1>3. enr \in [Agent -> NodeEnrollment] /\ enr[a].gen \in Nat
    BY DEF IInv, TypeOK, NodeEnrollment
  <1>4. on[a] = h => id[a] # "claimed" /\ pc[a] = "enrolling"
    BY <1>1, <1>2, Waiting
  <1>5. req' \in [Admin \cup Serve -> Request]
    BY <1>2, IdleFits DEF Done
  <1>6. CASE /\ enr[a].status = "absent" /\ InsertRow(a)
             /\ Proceed(a, h, "poll") /\ Learn(a, h, enr[a].gen + 1)
    <2> DEFINE e == [NoEnrollment EXCEPT !.status = "pending", !.gen = enr[a].gen + 1]
    <2>1. e \in NodeEnrollment /\ e.status = "pending" /\ e.gen = enr[a].gen + 1
      <3>1. PICK g \in Nat : g = enr[a].gen + 1
        BY <1>3
      <3>2. PICK z \in NodeEnrollment : z = NoEnrollment
        BY DEF NoEnrollment, NodeEnrollment
      <3>3. e = [z EXCEPT !.status = "pending", !.gen = g]
        BY <3>1, <3>2
      <3> HIDE DEF e
      <3>4. e \in NodeEnrollment /\ e.status = "pending" /\ e.gen = g
        BY <3>1, <3>3 DEF NodeEnrollment
      <3> QED
        BY <3>1, <3>4
    <2>2. enr' = [enr EXCEPT ![a] = e]
      BY <1>6 DEF InsertRow
    <2> HIDE DEF e
    <2>3. /\ enr' \in [Agent -> NodeEnrollment]
          /\ \A b \in Agent : enr'[b] = IF b = a THEN e ELSE enr[b]
      BY <1>3, <2>1, <2>2
    <2>4. EnrLater /\ \A b \in Agent : Undecided(b)
      <3>1. ASSUME NEW b \in Agent
            PROVE  enr[b].gen \in Nat
        BY <1>3 DEF NodeEnrollment
      <3>2. enr'[a].gen \in Nat /\ enr[a].gen <= enr'[a].gen /\ enr'[a].gen # enr[a].gen
        <4>1. PICK g \in Nat : g = enr[a].gen
          BY <1>3
        <4> QED
          BY <2>1, <2>3, <4>1
      <3> QED
        BY <1>6, <2>1, <2>3, <3>1, <3>2 DEF EnrLater, Undecided, Accepted
    <2>5. Later
      BY <1>2, <2>4 DEF Later, NodeLater, Exists
    <2>6. EnrollmentsOK'
      BY <2>1, <2>3 DEF IInv, EnrollmentsOK, Accepted
    <2>7. <<a, e.gen>> \in Credential /\ <<a, e.gen>> # None
      <3>1. e.gen \in Nat
        BY <1>3, <2>1
      <3> QED
        BY <3>1, NodeConstants DEF Credential
    <2>8. /\ eid' \in [Agent -> Credential]
          /\ \A b \in Agent : b # a \/ on[b] # h => eid'[b] = eid[b]
          /\ on[a] = h => eid'[a] = <<a, e.gen>>
      BY <1>6, <2>1, <2>7 DEF Learn, Waits, IInv, TypeOK
    <2>9. /\ pc' \in [Agent -> AgentPC] /\ on' \in [Agent -> Serve \cup {None}]
          /\ on[a] = h => pc'[a] = "poll"
      <3>1. "poll" \in AgentPC /\ TypeOK
        BY DEF AgentPC, IInv
      <3> QED
        BY <1>6, <3>1, Proceeding
    <2>10. on[a] = h => KnowsOK(a)'
      <3>1. enr'[a].gen = e.gen /\ e.gen <= e.gen
        BY <1>3, <2>1, <2>3
      <3> QED
        BY <1>2, <1>4, <2>7, <2>8, <2>9, <3>1 DEF KnowsOK
    <2>11. TypeOK'
      BY <1>2, <1>5, <2>3, <2>8, <2>9 DEF IInv, TypeOK
    <2> QED
      BY <1>1, <1>2, <1>6, <2>4, <2>5, <2>6, <2>8, <2>10, <2>11, Answering
  <1>7. CASE Proceed(a, h, "start") /\ UNCHANGED <<enr, eid>>
    <2>1. /\ pc' \in [Agent -> AgentPC] /\ on' \in [Agent -> Serve \cup {None}]
          /\ on[a] = h => pc'[a] = "start"
      <3>1. "start" \in AgentPC /\ TypeOK
        BY DEF AgentPC, IInv
      <3> QED
        BY <1>7, <3>1, Proceeding
    <2>2. Later /\ \A b \in Agent : Undecided(b)
      BY <1>2, <1>7, SameTables DEF IInv, tables
    <2>3. on[a] = h => KnowsOK(a)'
      BY <1>2, <1>7, <2>1, <2>2, KnowsKept
    <2>4. TypeOK' /\ EnrollmentsOK'
      BY <1>2, <1>5, <1>7, <2>1 DEF IInv, TypeOK, EnrollmentsOK
    <2> QED
      BY <1>1, <1>2, <1>7, <2>2, <2>3, <2>4, Answering
  <1> QED
    BY <1>1, <1>6, <1>7 DEF InsertEnrollment

(* The read of a claim.                                                    *)
LEMMA ClaimReading ==
    ASSUME IInv, NEW h \in Serve, ClaimEnrollment(h)
    PROVE  IInv' /\ Later
  <1>1. PICK a \in Agent : a = req[h].agent
    BY DEF ClaimEnrollment, IInv, RequestOK, AgentOp
  <1>2. /\ req \in [Admin \cup Serve -> Request] /\ req[h].op = "claim"
        /\ UNCHANGED <<world, enr, node, sweep, id, eid, named, admins, contested>>
    BY DEF ClaimEnrollment, tables, IInv, TypeOK
  <1>3. Later /\ \A b \in Agent : Undecided(b)
    BY <1>2, SameTables DEF IInv, tables
  <1>4. CASE /\ enr[a].gen = req[h].enr.gen /\ Claimable(enr[a]) /\ Exists(enr[a].node)
             /\ node[enr[a].node].cred = credentialFor(a, enr[a].gen)
             /\ req' = [req EXCEPT ![h].enr = enr[a], ![h].row = node[enr[a].node]]
             /\ UNCHANGED <<pc, on>>
    <2>1. PICK e \in NodeEnrollment : e = enr[a]
      BY DEF IInv, TypeOK
    <2>2. /\ e.status = "approved" /\ e.node \in NodeId /\ e.gen \in Nat
          /\ e.gen = req[h].enr.gen
      BY <1>4, <2>1 DEF IInv, EnrollmentsOK, Accepted, Claimable, NodeEnrollment
    <2>3. PICK row \in NodeRow : row = node[e.node]
      BY <2>2 DEF IInv, TypeOK
    <2>4. PICK q \in Request : q = [req[h] EXCEPT !.enr = e, !.row = row]
      BY <1>2 DEF Request
    <2>5. req' = [req EXCEPT ![h] = q]
      BY <1>2, <1>4, <2>1, <2>3, <2>4
    <2>6. q.op = "claim" /\ q.agent = a /\ q.enr = e
      BY <1>1, <1>2, <2>4 DEF Request
    <2>7. Tied(a, e.gen, e.node, Accepted) /\ node[e.node].status # "absent"
      BY <1>4, <2>1, <2>2 DEF Tied, Exists, Accepted, credentialFor
    <2>8. RequestOK(q)
      <3>1. e.gen <= enr[a].gen
        BY <2>1, <2>2
      <3>2. ClaimOK(q)
        BY <2>1, <2>2, <2>6, <2>7, <3>1 DEF ClaimOK, Accepted
      <3> QED
        BY <2>6, <3>2 DEF RequestOK, VerdictOK, WriteOK, Verdict
    <2>9. UNCHANGED <<world, tables, sweep, agentVars, admins, contested>>
      BY <1>2, <1>4 DEF tables, agentVars
    <2>10. q.op = req[h].op /\ q.op \in AgentOp /\ q.agent = req[h].agent
           /\ q.enr.gen = req[h].enr.gen
      BY <1>1, <1>2, <2>2, <2>6 DEF AgentOp
    <2> QED
      BY <2>5, <2>8, <2>9, <2>10, Serving
  <1>5. CASE Proceed(a, h, "start") /\ Done(h)
    <2>1. /\ pc' \in [Agent -> AgentPC] /\ on' \in [Agent -> Serve \cup {None}]
          /\ on[a] = h => pc'[a] = "start"
      <3>1. "start" \in AgentPC /\ TypeOK
        BY DEF AgentPC, IInv
      <3> QED
        BY <1>5, <3>1, Proceeding
    <2>2. on[a] = h => KnowsOK(a)'
      BY <1>2, <1>3, <2>1, KnowsKept
    <2>3. TypeOK' /\ EnrollmentsOK'
      BY <1>2, <1>5, <2>1, IdleFits DEF IInv, TypeOK, Done, EnrollmentsOK
    <2> QED
      BY <1>1, <1>2, <1>3, <1>5, <2>2, <2>3, Answering
  <1> QED
    BY <1>1, <1>4, <1>5 DEF ClaimEnrollment

(* ... and its write: the agent has its node.                              *)
LEMMA Claiming ==
    ASSUME IInv, NEW h \in Serve, FinishClaim(h)
    PROVE  IInv' /\ Later
  <1>1. PICK a \in Agent, e \in NodeEnrollment : a = req[h].agent /\ e = req[h].enr
    BY DEF FinishClaim, IInv, RequestOK, AgentOp, TypeOK, Request
  <1>2. /\ req \in [Admin \cup Serve -> Request] /\ req[h].op = "claim" /\ Done(h)
        /\ UpdateEnrollment(a, Claimed(e)) /\ Proceed(a, h, "save")
        /\ named' = IF on[a] = h THEN [named EXCEPT ![a] = e.node] ELSE named
        /\ UNCHANGED <<world, node, sweep, id, eid, admins, contested>>
    BY <1>1 DEF FinishClaim, IInv, TypeOK, Waits
  <1>3. /\ e.node \in NodeId /\ node[e.node].status # "absent" /\ e.gen <= enr[a].gen
        /\ Tied(a, e.gen, e.node, Accepted)
        /\ <<a, e.gen>> \notin contested /\ enr[a].gen = e.gen =>
               \/ enr[a].status = "absent"
               \/ enr[a].status \in Accepted /\ enr[a].node = e.node
    BY <1>1 DEF FinishClaim, IInv, RequestOK, ClaimOK
  <1>4. PICK c \in NodeEnrollment : /\ c = Claimed(e) /\ c.status = "claimed"
                                    /\ c.gen = e.gen /\ c.node = e.node
    <2> DEFINE d == Claimed(e)
    <2>1. d = [e EXCEPT !.status = "claimed", !.token = FALSE, !.live = FALSE]
      BY DEF Claimed
    <2> HIDE DEF d
    <2>2. d \in NodeEnrollment /\ d.status = "claimed" /\ d.gen = e.gen /\ d.node = e.node
      BY <2>1 DEF NodeEnrollment
    <2> QED
      BY <2>2 DEF d
  <1>5. /\ enr' \in [Agent -> NodeEnrollment]
        /\ Later /\ EnrollmentsOK'
        /\ enr'[a] = IF enr[a].status # "absent" /\ enr[a].gen = c.gen THEN c ELSE enr[a]
        /\ \A b \in Agent : b # a \/ enr[a].gen # c.gen \/ enr[a].status # "pending" =>
               Undecided(b)
    <2>1. c.status # "absent" /\ UNCHANGED <<node, contested>> /\ UpdateEnrollment(a, c)
      BY <1>2, <1>4
    <2>2. c.node \in NodeId
      BY <1>3, <1>4
    <2>3. <<a, c.gen>> \notin contested /\ enr[a].gen = c.gen /\ enr[a].status \in Accepted =>
               c.status = "claimed" /\ c.node = enr[a].node
      BY <1>3, <1>4 DEF Accepted
    <2> QED
      BY <2>1, <2>2, <2>3, EnrWriting
  <1>6. \A b \in Agent : Undecided(b)
    <2>1. CASE enr[a].gen = c.gen /\ enr[a].status = "pending"
      <3>1. <<a, enr[a].gen>> \in contested'
        BY <1>2, <1>3, <1>4, <2>1 DEF Accepted
      <3> QED
        BY <1>5, <3>1 DEF Undecided
    <2> QED
      BY <1>5, <2>1
  <1>7. /\ pc' \in [Agent -> AgentPC] /\ on' \in [Agent -> Serve \cup {None}]
        /\ on[a] = h => pc'[a] = "save"
    <2>1. "save" \in AgentPC /\ TypeOK
      BY DEF AgentPC, IInv
    <2> QED
      BY <1>2, <2>1, Proceeding
  <1>8. /\ named' \in [Agent -> NodeId \cup {None}]
        /\ \A b \in Agent : b # a \/ on[b] # h => named'[b] = named[b]
        /\ on[a] = h => named'[a] = e.node
    BY <1>2, <1>3 DEF IInv, TypeOK
  <1>9. ASSUME on[a] = h
        PROVE  KnowsOK(a)'
    <2>1. id[a] # "claimed" /\ eid[a] = <<a, e.gen>> /\ pc'[a] = "save" /\ named'[a] = e.node
      BY <1>1, <1>2, <1>7, <1>8, <1>9, Waiting
    <2>2. e.gen \in Nat
      BY DEF NodeEnrollment
    <2>3. eid'[a] = <<a, e.gen>> /\ eid'[a] # None /\ e.gen <= enr'[a].gen
      BY <1>2, <1>3, <1>5, <2>1, <2>2, LaterGen, NodeConstants
    <2>4. Tied(a, e.gen, e.node, {"claimed"})'
      <3> SUFFICES ASSUME <<a, e.gen>> \notin contested', Exists(e.node)'
                   PROVE  /\ enr'[a].gen = e.gen /\ enr'[a].node = e.node
                          /\ enr'[a].status = "claimed"
                          /\ node'[e.node].cred = <<a, e.gen>>
        BY DEF Tied
      <3>1. /\ enr[a].gen = e.gen /\ enr[a].status \in Accepted
            /\ node[e.node].cred = <<a, e.gen>>
        BY <1>2, <1>3 DEF Tied, Exists
      <3> QED
        BY <1>2, <1>4, <1>5, <3>1 DEF Accepted
    <2>5. node'[e.node].status # "absent"
      BY <1>2, <1>3
    <2> QED
      BY <1>2, <1>3, <2>1, <2>3, <2>4, <2>5 DEF KnowsOK
  <1>10. TypeOK'
    BY <1>2, <1>5, <1>7, <1>8, IdleFits DEF IInv, TypeOK, Done
  <1> QED
    BY <1>1, <1>2, <1>5, <1>6, <1>8, <1>9, <1>10, Answering

(* The read of a heartbeat.                                                *)
LEMMA BeatReading ==
    ASSUME IInv, NEW h \in Serve, Heartbeat(h)
    PROVE  IInv' /\ Later
  <1>1. PICK a \in Agent : a = req[h].agent
    BY DEF Heartbeat, IInv, RequestOK, AgentOp
  <1>2. /\ req \in [Admin \cup Serve -> Request] /\ req[h].op = "heartbeat"
        /\ UNCHANGED <<world, enr, node, sweep, id, eid, named, admins, contested>>
    BY DEF Heartbeat, tables, IInv, TypeOK
  <1>3. Later /\ \A b \in Agent : Undecided(b)
    BY <1>2, SameTables DEF IInv, tables
  <1>4. ASSUME NEW n \in NodeByCredentialHash(a), Served(n),
               req' = [req EXCEPT ![h].node = n, ![h].row = Beaten(node[n])],
               UNCHANGED <<pc, on>>
        PROVE  IInv'
    <2>1. n \in NodeId /\ Exists(n)
      BY <1>4 DEF NodeByCredentialHash
    <2>2. PICK row \in NodeRow : /\ row = Beaten(node[n]) /\ row.status = "online"
                                 /\ row.enabled = node[n].enabled /\ row.cred = node[n].cred
      <3>1. PICK r \in NodeRow : r = node[n]
        BY <2>1 DEF IInv, TypeOK
      <3> DEFINE b == Beaten(r)
      <3>2. b = [r EXCEPT !.status = "online", !.hb = "fresh"]
        BY DEF Beaten
      <3> HIDE DEF b
      <3>3. /\ b \in NodeRow /\ b.status = "online" /\ b.enabled = r.enabled /\ b.cred = r.cred
        BY <3>2 DEF NodeRow, NodeStatus
      <3> QED
        BY <3>1, <3>3 DEF b
    <2>3. PICK q \in Request : q = [req[h] EXCEPT !.node = n, !.row = row]
      BY <1>2, <2>1 DEF Request
    <2>4. req' = [req EXCEPT ![h] = q]
      BY <1>2, <1>4, <2>2, <2>3
    <2>5. /\ q.op = "heartbeat" /\ q.agent = a /\ q.node = n /\ q.row = row
          /\ q.enr = req[h].enr
      BY <1>1, <1>2, <2>3 DEF Request
    <2>6. RequestOK(q)
      <3>1. WriteOK(q)
        BY <1>4, <2>1, <2>2, <2>5 DEF WriteOK, Served, Exists, NodeStatus
      <3> QED
        BY <2>5, <3>1 DEF RequestOK, VerdictOK, ClaimOK, Verdict
    <2>7. UNCHANGED <<world, tables, sweep, agentVars, admins, contested>>
      BY <1>2, <1>4 DEF tables, agentVars
    <2>8. q.op = req[h].op /\ q.op \in AgentOp /\ q.agent = req[h].agent
          /\ q.enr.gen = req[h].enr.gen
      BY <1>1, <1>2, <2>5 DEF AgentOp
    <2> QED
      BY <2>4, <2>6, <2>7, <2>8, Serving
  <1>5. CASE Proceed(a, h, "run") /\ Done(h)
    <2>1. /\ pc' \in [Agent -> AgentPC] /\ on' \in [Agent -> Serve \cup {None}]
          /\ on[a] = h => pc'[a] = "run"
      <3>1. "run" \in AgentPC /\ TypeOK
        BY DEF AgentPC, IInv
      <3> QED
        BY <1>5, <3>1, Proceeding
    <2>2. on[a] = h => KnowsOK(a)'
      BY <1>2, <1>3, <2>1, KnowsKept
    <2>3. TypeOK' /\ EnrollmentsOK'
      BY <1>2, <1>5, <2>1, IdleFits DEF IInv, TypeOK, Done, EnrollmentsOK
    <2> QED
      BY <1>1, <1>2, <1>3, <1>5, <2>2, <2>3, Answering
  <1> QED
    BY <1>1, <1>3, <1>4, <1>5 DEF Heartbeat

(* ... and its write: the row goes back as it was read, but online.        *)
LEMMA Beating ==
    ASSUME IInv, NEW h \in Serve, FinishHeartbeat(h)
    PROVE  IInv' /\ Later
  <1>1. PICK a \in Agent : a = req[h].agent
    BY DEF FinishHeartbeat, IInv, RequestOK, AgentOp
  <1>2. /\ req \in [Admin \cup Serve -> Request] /\ Done(h) /\ Proceed(a, h, "run")
        /\ UNCHANGED <<world, enr, sweep, id, eid, named, admins, contested>>
    BY <1>1 DEF FinishHeartbeat, IInv, TypeOK
  <1>3. PICK n \in NodeId, row \in NodeRow :
            /\ UpdateNode(n, row) /\ row.status \in NodeStatus
            /\ Exists(n) => row.cred = node[n].cred
    BY <1>2 DEF FinishHeartbeat, IInv, RequestOK, WriteOK, Request
  <1>4. /\ node' \in [NodeId -> NodeRow] /\ Later /\ EnrollmentsOK'
        /\ \A b \in Agent : Undecided(b)
    BY <1>2, <1>3, NodeWriting
  <1>5. /\ pc' \in [Agent -> AgentPC] /\ on' \in [Agent -> Serve \cup {None}]
        /\ on[a] = h => pc'[a] = "run"
    <2>1. "run" \in AgentPC /\ TypeOK
      BY DEF AgentPC, IInv
    <2> QED
      BY <1>2, <2>1, Proceeding
  <1>6. on[a] = h => KnowsOK(a)'
    BY <1>2, <1>4, <1>5, KnowsKept
  <1>7. TypeOK'
    BY <1>2, <1>4, <1>5, IdleFits DEF IInv, TypeOK, Done
  <1> QED
    BY <1>1, <1>2, <1>4, <1>6, <1>7, Answering

-----------------------------------------------------------------------------
(* The handlers of administrators' requests, and handlers that end.        *)

(* A handler that no agent waits for takes its request on, or takes one.   *)
LEMMA Handling ==
    ASSUME IInv, Later, NEW h \in Admin \cup Serve, NEW q \in Request,
           \A b \in Agent : on[b] # h,
           req' = [req EXCEPT ![h] = q], RequestOK(q)',
           q.op \in Verdict => h \in Admin,
           \A i \in (Admin \cup Serve) \ {h} : req[i].op \in Verdict =>
               /\ q.op \in Verdict /\ req[i].agent = q.agent /\ req[i].enr.gen = q.enr.gen =>
                      <<q.agent, q.enr.gen>> \in contested'
               /\ enr[req[i].agent].gen = req[i].enr.gen => Undecided(req[i].agent),
           enr' \in [Agent -> NodeEnrollment], node' \in [NodeId -> NodeRow], EnrollmentsOK',
           admins' \in Nat, contested' \subseteq Agent \X Nat,
           UNCHANGED <<world, sweep, agentVars>>
    PROVE  IInv' /\ Later
  <1>1. /\ req' \in [Admin \cup Serve -> Request]
        /\ (\A i \in Admin \cup Serve : RequestOK(req[i]))'
        /\ OneVerdict'
    BY HandlersKept
  <1>2. UNCHANGED <<pc, id, eid, named, on>>
    BY DEF agentVars
  <1>3. ASSUME NEW b \in Agent
        PROVE  WaitOK(b)' /\ KnowsOK(b)'
    <2>1. on[b] # None => req'[on[b]] = req[on[b]]
      <3>1. req \in [Admin \cup Serve -> Request]
        BY DEF IInv, TypeOK
      <3> QED
        BY <3>1 DEF IInv, WaitOK
    <2>2. WaitOK(b)'
      BY <1>2, <2>1, WaitKept DEF IInv
    <2>3. KnowsOK(b)'
      BY <1>2, KnowsKept
    <2> QED
      BY <2>2, <2>3
  <1>4. TypeOK'
    BY <1>1, <1>2 DEF IInv, TypeOK
  <1> QED
    BY <1>1, <1>3, <1>4 DEF IInv

(* A handler of an administrator is nobody an agent waits for.             *)
LEMMA NotAwaited ==
    ASSUME IInv, NEW h \in Admin \cup Serve,
           h \in Admin \/ req[h].op = "idle" \/ on[req[h].agent] # h
    PROVE  \A b \in Agent : on[b] # h
  <1> SUFFICES ASSUME NEW b \in Agent, on[b] = h
               PROVE  FALSE
    OBVIOUS
  <1>1. h # None
    BY NodeConstants
  <1>2. h \in Serve /\ h \notin Admin
    BY <1>1, NodeConstants DEF IInv, WaitOK
  <1>3. req[h].agent = b /\ req[h].op \in {"enroll", "claim", "heartbeat"}
    BY <1>2, Waiting
  <1> QED
    BY <1>2, <1>3

(* An administrator's request begins.                                      *)
LEMMA Beginning ==
    ASSUME IInv, NEW h \in Admin, NEW q \in Request, AdminMay(h),
           req' = [req EXCEPT ![h] = q], RequestOK(q), admins' = admins + 1,
           q.op \in Verdict => enr[q.agent].status = "pending" /\ q.enr = enr[q.agent]
                               /\ Contest(q.agent),
           q.op \notin Verdict => contested' = contested,
           UNCHANGED <<world, tables, sweep, agentVars>>
    PROVE  IInv' /\ Later
  <1>1. req[h].op = "idle"
    <2>1. {x \in Admin : req[x].op = "idle"} # {}
          /\ h = CHOOSE x \in {y \in Admin : req[y].op = "idle"} : TRUE
      BY DEF AdminMay, IsFree
    <2> QED
      BY <2>1
  <1>2. UNCHANGED <<enr, node>>
    BY DEF tables
  <1>3. q.op \in Verdict => q.agent \in Agent
    BY DEF RequestOK, VerdictOK
  <1>4. contested \subseteq contested' /\ contested' \subseteq Agent \X Nat
    <2>1. contested \subseteq Agent \X Nat /\ \A a \in Agent : enr[a].gen \in Nat
      BY DEF IInv, TypeOK, NodeEnrollment
    <2> QED
      BY <1>3, <2>1 DEF Contest
  <1>5. Later /\ \A a \in Agent : Undecided(a)
    BY <1>4, SameTables DEF IInv
  <1>6. RequestOK(q)'
    <2>1. q.op \in Verdict /\ enr[q.agent].gen = q.enr.gen => Undecided(q.agent)
      BY <1>3, <1>5
    <2> QED
      BY <1>5, <2>1, RequestKept
  <1>7. ASSUME NEW i \in (Admin \cup Serve) \ {h}, req[i].op \in Verdict
        PROVE  /\ q.op \in Verdict /\ req[i].agent = q.agent /\ req[i].enr.gen = q.enr.gen =>
                      <<q.agent, q.enr.gen>> \in contested'
               /\ enr[req[i].agent].gen = req[i].enr.gen => Undecided(req[i].agent)
    <2>1. i \in Admin /\ req[i].agent \in Agent
      BY <1>7 DEF IInv, OneVerdict, RequestOK, VerdictOK
    <2>2. ASSUME q.op \in Verdict, req[i].agent = q.agent
          PROVE  <<q.agent, q.enr.gen>> \in contested'
      BY <1>7, <2>1, <2>2 DEF Contest, Verdict
    <2> QED
      BY <1>5, <2>1, <2>2
  <1>8. /\ enr' \in [Agent -> NodeEnrollment] /\ node' \in [NodeId -> NodeRow] /\ EnrollmentsOK'
        /\ admins' \in Nat
    BY <1>2 DEF IInv, TypeOK, EnrollmentsOK
  <1>9. \A b \in Agent : on[b] # h
    BY <1>1, NotAwaited
  <1> QED
    BY <1>4, <1>5, <1>6, <1>7, <1>8, <1>9, Handling

(* A handler ends, whatever its last statement wrote.                      *)
LEMMA Ending ==
    ASSUME IInv, Later, NEW h \in Admin \cup Serve, Done(h),
           h \in Admin \/ on[req[h].agent] # h,
           \A i \in (Admin \cup Serve) \ {h} : req[i].op \in Verdict
               /\ enr[req[i].agent].gen = req[i].enr.gen => Undecided(req[i].agent),
           enr' \in [Agent -> NodeEnrollment], node' \in [NodeId -> NodeRow], EnrollmentsOK',
           UNCHANGED <<world, sweep, agentVars, admins, contested>>
    PROVE  IInv' /\ Later
  <1>1. Idle \in Request /\ Idle.op \notin Verdict /\ RequestOK(Idle)'
    BY IdleFits DEF Verdict
  <1>2. req' = [req EXCEPT ![h] = Idle]
    BY DEF Done
  <1>3. \A b \in Agent : on[b] # h
    BY NotAwaited
  <1>4. admins' \in Nat /\ contested' \subseteq Agent \X Nat
    BY DEF IInv, TypeOK
  <1>5. UNCHANGED <<world, sweep, agentVars>>
    OBVIOUS
  <1> QED
    BY <1>1, <1>2, <1>3, <1>4, <1>5, Handling

(* A handler whose caller is gone ends without another statement.          *)
LEMMA Aborting ==
    ASSUME IInv, NEW h \in Admin \cup Serve, Abort(h)
    PROVE  IInv' /\ Later
  <1>1. /\ h \in Admin \/ on[req[h].agent] # h
        /\ Done(h) /\ UNCHANGED <<world, tables, sweep, agentVars, admins, contested>>
    BY DEF Abort, Waits
  <1>2. Later /\ \A a \in Agent : Undecided(a)
    BY <1>1, SameTables DEF IInv
  <1>3. /\ enr' \in [Agent -> NodeEnrollment] /\ node' \in [NodeId -> NodeRow] /\ EnrollmentsOK'
    BY <1>1 DEF IInv, TypeOK, EnrollmentsOK, tables
  <1>4. \A i \in Admin \cup Serve : req[i].op \in Verdict => Undecided(req[i].agent)
    BY <1>2 DEF IInv, RequestOK, VerdictOK
  <1> QED
    BY <1>1, <1>2, <1>3, <1>4, Ending

(* An approval or a rejection is read.                                     *)
LEMMA Deciding ==
    ASSUME IInv, NEW h \in Admin, NEW a \in Agent,
           ApproveEnrollment(h, a) \/ RejectEnrollment(h, a)
    PROVE  IInv' /\ Later
  <1>1. PICK op \in {"approve", "reject"} :
            req' = [req EXCEPT ![h] = [Idle EXCEPT !.op = op, !.agent = a, !.enr = enr[a]]]
    BY DEF ApproveEnrollment, RejectEnrollment
  <1>2. /\ AdminMay(h) /\ enr[a].status = "pending" /\ admins' = admins + 1 /\ Contest(a)
        /\ UNCHANGED <<world, tables, sweep, agentVars>>
    BY DEF ApproveEnrollment, RejectEnrollment
  <1>3. PICK e \in NodeEnrollment : e = enr[a]
    BY DEF IInv, TypeOK
  <1> DEFINE q == [Idle EXCEPT !.op = op, !.agent = a, !.enr = e]
  <1>4. req' = [req EXCEPT ![h] = q]
    BY <1>1, <1>3
  <1>5. PICK z \in Request : z = Idle
    BY IdleFits
  <1>6. q = [z EXCEPT !.op = op, !.agent = a, !.enr = e]
    BY <1>5
  <1> HIDE DEF q
  <1>7. q \in Request /\ q.op = op /\ q.agent = a /\ q.enr = e
    <2>1. op \in AdminOp
      BY DEF AdminOp
    <2> QED
      BY <1>6, <2>1 DEF Request
  <1>8. RequestOK(q)
    <2>1. e.gen \in Nat /\ e.gen <= enr[a].gen
      BY <1>3 DEF NodeEnrollment
    <2>2. op \notin AgentOp /\ op \notin {"claim", "approving", "heartbeat", "patch", "delete"}
      BY DEF AgentOp
    <2>3. VerdictOK(q)
      BY <1>2, <1>3, <1>7, <2>1, <2>2 DEF VerdictOK
    <2> QED
      BY <1>7, <2>2, <2>3 DEF RequestOK, ClaimOK, WriteOK
  <1>9. q.op \in Verdict
    BY <1>7 DEF Verdict
  <1> QED
    BY <1>2, <1>3, <1>4, <1>7, <1>8, <1>9, Beginning

(* The other verdicts on an enrollment that handler h decides on.          *)
LEMMA OtherVerdicts ==
    ASSUME IInv, NEW h \in Admin, req[h].op \in Verdict,
           NEW i \in (Admin \cup Serve) \ {h}, req[i].op \in Verdict
    PROVE  /\ req[i].agent \in Agent
           /\ req[i].agent = req[h].agent /\ req[i].enr.gen = req[h].enr.gen =>
                  <<req[h].agent, req[h].enr.gen>> \in contested
  BY DEF IInv, OneVerdict, RequestOK, VerdictOK

(* The first write of an approval.                                         *)
LEMMA Creating ==
    ASSUME IInv, NEW h \in Admin, ApproveCreate(h)
    PROVE  IInv' /\ Later
  <1>1. PICK a \in Agent : a = req[h].agent
    BY DEF ApproveCreate, IInv, RequestOK, VerdictOK, Verdict
  <1>2. PICK n \in Fresh : /\ CreateNode(n, a, req[h].enr.gen)
                           /\ req' = [req EXCEPT ![h].op = "approving", ![h].node = n]
    BY <1>1 DEF ApproveCreate
  <1>3. /\ req \in [Admin \cup Serve -> Request] /\ req[h].op = "approve"
        /\ UNCHANGED <<world, enr, sweep, agentVars, admins, contested>>
        /\ n \in NodeId /\ node[n].status = "absent" /\ req[h].enr.gen \in Nat
    BY DEF ApproveCreate, IInv, TypeOK, Fresh, Request, NodeEnrollment
  <1>4. PICK row \in NodeRow : node' = [node EXCEPT ![n] = row] /\ row.status = "pending"
    <2>1. PICK c \in Credential : c = <<a, req[h].enr.gen>>
      BY <1>3 DEF Credential
    <2> DEFINE r == [status |-> "pending", enabled |-> TRUE, cred |-> c, hb |-> "never"]
    <2>2. node' = [node EXCEPT ![n] = r]
      BY <1>2, <2>1 DEF CreateNode, credentialFor
    <2>3. r \in NodeRow /\ r.status = "pending"
      BY DEF NodeRow, NodeStatus
    <2> QED
      BY <2>2, <2>3
  <1>5. /\ node' \in [NodeId -> NodeRow]
        /\ \A m \in NodeId : node'[m] = IF m = n THEN row ELSE node[m]
    BY <1>4 DEF IInv, TypeOK
  <1>6. Later /\ \A b \in Agent : Undecided(b)
    <2>1. NodeLater
      BY <1>3, <1>5 DEF NodeLater, Exists
    <2>2. EnrLater /\ \A b \in Agent : Undecided(b)
      <3>1. \A b \in Agent : enr[b].gen \in Nat
        BY DEF IInv, TypeOK, NodeEnrollment
      <3> QED
        BY <1>3, <3>1 DEF EnrLater, Undecided, Accepted
    <2> QED
      BY <1>3, <2>1, <2>2 DEF Later
  <1>7. PICK q \in Request : q = [req[h] EXCEPT !.op = "approving", !.node = n]
    BY <1>3 DEF Request, AdminOp
  <1>8. req' = [req EXCEPT ![h] = q]
    BY <1>2, <1>3, <1>7
  <1>9. q.op = "approving" /\ q.agent = a /\ q.node = n /\ q.enr = req[h].enr
    BY <1>1, <1>3, <1>7 DEF Request
  <1>10. RequestOK(q)'
    <2>1. VerdictOK(q)
      <3>1. VerdictOK(req[h])
        BY DEF IInv, RequestOK
      <3> QED
        BY <1>1, <1>3, <1>9, <3>1 DEF VerdictOK, Verdict
    <2>2. RequestOK(q)
      BY <1>9, <2>1 DEF RequestOK, ClaimOK, WriteOK, AgentOp
    <2> QED
      BY <1>6, <1>1, <1>9, <2>2, RequestKept
  <1>11. ASSUME NEW i \in (Admin \cup Serve) \ {h}, req[i].op \in Verdict
         PROVE  /\ q.op \in Verdict /\ req[i].agent = q.agent /\ req[i].enr.gen = q.enr.gen =>
                      <<q.agent, q.enr.gen>> \in contested'
                /\ enr[req[i].agent].gen = req[i].enr.gen => Undecided(req[i].agent)
    <2>1. req[h].op \in Verdict
      BY <1>3 DEF Verdict
    <2> QED
      BY <1>1, <1>3, <1>6, <1>9, <1>11, <2>1, OtherVerdicts
  <1>12. /\ enr' \in [Agent -> NodeEnrollment] /\ EnrollmentsOK'
         /\ admins' \in Nat /\ contested' \subseteq Agent \X Nat
    BY <1>3 DEF IInv, TypeOK, EnrollmentsOK
  <1>13. \A b \in Agent : on[b] # h
    BY NotAwaited
  <1> QED
    BY <1>3, <1>5, <1>6, <1>8, <1>10, <1>11, <1>12, <1>13, Handling

(* The last write of an approval or of a rejection.                        *)
LEMMA Judging ==
    ASSUME IInv, NEW h \in Admin, ApproveFinish(h) \/ RejectFinish(h)
    PROVE  IInv' /\ Later
  <1>1. PICK a \in Agent : a = req[h].agent
    BY DEF ApproveFinish, RejectFinish, IInv, RequestOK, VerdictOK, Verdict
  <1>2. /\ req[h].op \in Verdict /\ req[h] \in Request /\ Done(h)
        /\ UNCHANGED <<world, node, sweep, agentVars, admins, contested>>
    BY DEF ApproveFinish, RejectFinish, Verdict, IInv, TypeOK
  <1>3. PICK g \in Nat : g = req[h].enr.gen
    BY <1>2 DEF Request, NodeEnrollment
  <1>4. PICK e \in NodeEnrollment : /\ UpdateEnrollment(a, e) /\ e.gen = g
                                    /\ e.status \in {"approved", "rejected"}
                                    /\ e.status = "approved" => e.node \in NodeId
    <2>1. PICK f \in NodeEnrollment : f = req[h].enr
      BY <1>2 DEF Request
    <2>2. CASE ApproveFinish(h)
      <3>1. PICK n \in NodeId : n = req[h].node
        BY <2>2 DEF ApproveFinish, IInv, RequestOK, VerdictOK, Verdict
      <3> DEFINE d == [f EXCEPT !.status = "approved", !.token = TRUE, !.live = TRUE, !.node = n]
      <3>2. UpdateEnrollment(a, d)
        BY <1>1, <2>1, <2>2, <3>1 DEF ApproveFinish
      <3>3. d \in NodeEnrollment /\ d.gen = f.gen /\ d.status = "approved" /\ d.node = n
        BY DEF NodeEnrollment
      <3> QED
        BY <1>3, <2>1, <3>2, <3>3
    <2>3. CASE RejectFinish(h)
      <3> DEFINE d == [f EXCEPT !.status = "rejected"]
      <3>1. UpdateEnrollment(a, d)
        BY <1>1, <2>1, <2>3 DEF RejectFinish
      <3>2. d \in NodeEnrollment /\ d.gen = f.gen /\ d.status = "rejected"
        BY DEF NodeEnrollment
      <3> QED
        BY <1>3, <2>1, <3>1, <3>2
    <2> QED
      BY <2>2, <2>3
  <1>5. <<a, g>> \notin contested /\ enr[a].gen = g => enr[a].status \in {"pending", "absent"}
    BY <1>1, <1>2, <1>3 DEF IInv, RequestOK, VerdictOK
  <1>6. /\ enr' \in [Agent -> NodeEnrollment] /\ Later /\ EnrollmentsOK'
        /\ \A b \in Agent : b # a \/ enr[a].gen # e.gen \/ enr[a].status # "pending" =>
               Undecided(b)
    <2>1. /\ e.status # "absent" /\ UNCHANGED <<node, contested>>
          /\ e.status \in Accepted => e.node \in NodeId
      BY <1>2, <1>4 DEF Accepted
    <2>2. <<a, e.gen>> \notin contested /\ enr[a].gen = e.gen /\ enr[a].status \in Accepted =>
               e.status = "claimed" /\ e.node = enr[a].node
      BY <1>4, <1>5 DEF Accepted
    <2> QED
      BY <1>4, <2>1, <2>2, EnrWriting
  <1>7. ASSUME NEW i \in (Admin \cup Serve) \ {h}, req[i].op \in Verdict,
               enr[req[i].agent].gen = req[i].enr.gen
        PROVE  Undecided(req[i].agent)
    <2>1. req[i].agent \in Agent
      BY <1>2, <1>7, OtherVerdicts
    <2>2. CASE req[i].agent = a /\ enr[a].gen = g
      <3>1. <<a, enr[a].gen>> \in contested'
        BY <1>1, <1>2, <1>3, <1>7, <2>2, OtherVerdicts
      <3> QED
        BY <2>2, <3>1 DEF Undecided
    <2> QED
      BY <1>4, <1>6, <2>1, <2>2
  <1>8. node' \in [NodeId -> NodeRow] /\ UNCHANGED <<world, sweep, agentVars, admins, contested>>
    BY <1>2 DEF IInv, TypeOK
  <1> QED
    BY <1>2, <1>6, <1>7, <1>8, Ending

(* A patch keeps the credential.                                           *)
LEMMA PatchedRow ==
    ASSUME NEW r \in NodeRow, r.status \in NodeStatus, NEW p \in NodePatch
    PROVE  /\ Patched(r, p) \in NodeRow /\ Patched(r, p).cred = r.cred
           /\ Patched(r, p).status \in NodeStatus
  <1> DEFINE e == [r EXCEPT !.enabled = IF p.enabled = "keep" THEN @ ELSE p.enabled = "on",
                            !.status = IF p.enabled = "off" THEN "disabled" ELSE @]
             f == [e EXCEPT !.enabled = @ /\ p.status # "disabled", !.status = p.status]
  <1>1. Patched(r, p) = IF p.status = "keep" THEN e ELSE f
    BY DEF Patched
  <1>2. e \in NodeRow /\ e.status \in NodeStatus /\ e.cred = r.cred
    BY DEF NodeRow, NodeStatus
  <1>3. ASSUME p.status # "keep"
        PROVE  f \in NodeRow /\ f.status \in NodeStatus /\ f.cred = e.cred
    <2>1. p.status \in NodeStatus
      BY <1>3 DEF NodePatch, NodeStatus
    <2> HIDE DEF e
    <2> QED
      BY <1>2, <2>1 DEF NodeRow
  <1> HIDE DEF e, f
  <1> QED
    BY <1>1, <1>2, <1>3

(* A patch is read: the row it will write keeps the credential.            *)
LEMMA PatchReading ==
    ASSUME IInv, NEW h \in Admin, NEW n \in NodeId, NEW p \in Patches, PatchNode(h, n, p)
    PROVE  IInv' /\ Later
  <1>1. /\ AdminMay(h) /\ Exists(n) /\ admins' = admins + 1 /\ UNCHANGED contested
        /\ UNCHANGED <<world, tables, sweep, agentVars>>
    BY DEF PatchNode
  <1>2. PICK r \in NodeRow : r = node[n] /\ r.status \in NodeStatus
    BY <1>1 DEF IInv, TypeOK, NodeRow, Exists
  <1>3. p \in NodePatch
    BY NodeConstants
  <1>4. PICK row \in NodeRow : /\ row = Patched(node[n], p) /\ row.cred = node[n].cred
                               /\ row.status \in NodeStatus
    BY <1>2, <1>3, PatchedRow
  <1> DEFINE q == [Idle EXCEPT !.op = "patch", !.node = n, !.row = row]
  <1>5. req' = [req EXCEPT ![h] = q]
    BY <1>4 DEF PatchNode
  <1>6. PICK z \in Request : z = Idle
    BY IdleFits
  <1>7. q = [z EXCEPT !.op = "patch", !.node = n, !.row = row]
    BY <1>6
  <1> HIDE DEF q
  <1>8. q \in Request /\ q.op = "patch" /\ q.node = n /\ q.row = row
    BY <1>7 DEF Request, AdminOp
  <1>9. RequestOK(q)
    <2>1. WriteOK(q)
      BY <1>1, <1>4, <1>8 DEF WriteOK, Exists
    <2> QED
      BY <1>8, <2>1 DEF RequestOK, VerdictOK, ClaimOK, AgentOp, Verdict
  <1>10. q.op \notin Verdict
    BY <1>8 DEF Verdict
  <1> QED
    BY <1>1, <1>5, <1>8, <1>9, <1>10, Beginning

(* A deletion begins.                                                      *)
LEMMA Removing ==
    ASSUME IInv, NEW h \in Admin, NEW n \in NodeId, DeleteNode(h, n)
    PROVE  IInv' /\ Later
  <1>1. /\ AdminMay(h) /\ admins' = admins + 1 /\ UNCHANGED contested
        /\ UNCHANGED <<world, tables, sweep, agentVars>>
    BY DEF DeleteNode
  <1> DEFINE q == [Idle EXCEPT !.op = "delete", !.node = n]
  <1>2. req' = [req EXCEPT ![h] = q]
    BY DEF DeleteNode
  <1>3. PICK z \in Request : z = Idle
    BY IdleFits
  <1>4. q = [z EXCEPT !.op = "delete", !.node = n]
    BY <1>3
  <1> HIDE DEF q
  <1>5. q \in Request /\ q.op = "delete" /\ q.node = n
    BY <1>4 DEF Request, AdminOp
  <1>6. RequestOK(q) /\ q.op \notin Verdict
    BY <1>5 DEF RequestOK, VerdictOK, ClaimOK, WriteOK, AgentOp, Verdict
  <1> QED
    BY <1>1, <1>2, <1>5, <1>6, Beginning

(* The write of a patch.                                                   *)
LEMMA PatchWriting ==
    ASSUME IInv, NEW h \in Admin, PatchFinish(h)
    PROVE  IInv' /\ Later
  <1>1. /\ req[h] \in Request /\ Done(h) /\ req[h].op = "patch" /\ req[h].node # None
        /\ UNCHANGED <<world, enr, sweep, agentVars, admins, contested>>
    BY NodeConstants DEF PatchFinish, IInv, TypeOK, RequestOK, WriteOK
  <1>2. PICK n \in NodeId, row \in NodeRow :
            /\ UpdateNode(n, row) /\ row.status \in NodeStatus
            /\ Exists(n) => row.cred = node[n].cred
    BY <1>1 DEF PatchFinish, IInv, RequestOK, WriteOK, Request
  <1>3. /\ node' \in [NodeId -> NodeRow] /\ Later /\ EnrollmentsOK'
        /\ \A b \in Agent : Undecided(b)
    BY <1>1, <1>2, NodeWriting
  <1>4. \A i \in Admin \cup Serve : req[i].op \in Verdict => Undecided(req[i].agent)
    BY <1>3 DEF IInv, RequestOK, VerdictOK
  <1>5. enr' \in [Agent -> NodeEnrollment]
        /\ UNCHANGED <<world, sweep, agentVars, admins, contested>>
    BY <1>1 DEF IInv, TypeOK
  <1> QED
    BY <1>1, <1>3, <1>4, <1>5, Ending

(* The transaction that removes a node and its enrollment.                 *)
LEMMA Cascade ==
    ASSUME IInv, NEW n \in NodeId, Exists(n), DeleteNodeCascade(n), UNCHANGED contested
    PROVE  /\ enr' \in [Agent -> NodeEnrollment] /\ node' \in [NodeId -> NodeRow]
           /\ Later /\ EnrollmentsOK' /\ \A b \in Agent : Undecided(b)
  <1>1. PICK row \in NodeRow : node' = [node EXCEPT ![n] = row] /\ row.status = "deleted"
    <2>1. PICK z \in NodeRow : z = NoRow
      BY DEF NoRow, NodeRow, Credential
    <2>2. /\ [z EXCEPT !.status = "deleted"] \in NodeRow
          /\ [z EXCEPT !.status = "deleted"].status = "deleted"
      BY DEF NodeRow
    <2> QED
      BY <2>1, <2>2 DEF DeleteNodeCascade
  <1>2. /\ node' \in [NodeId -> NodeRow]
        /\ \A m \in NodeId : node'[m] = IF m = n THEN row ELSE node[m]
    BY <1>1 DEF IInv, TypeOK
  <1>3. ASSUME NEW b \in Agent
        PROVE  /\ enr'[b] \in NodeEnrollment /\ enr[b].gen \in Nat /\ enr'[b].gen = enr[b].gen
               /\ enr[b].node = n /\ enr[b].status # "absent" => enr'[b].status = "absent"
               /\ ~(enr[b].node = n /\ enr[b].status # "absent") => enr'[b] = enr[b]
    <2>1. PICK z \in NodeEnrollment : z = NoEnrollment /\ z.status = "absent"
      <3>1. NoEnrollment \in NodeEnrollment /\ NoEnrollment.status = "absent"
        BY DEF NoEnrollment, NodeEnrollment
      <3> QED
        BY <3>1
    <2>2. PICK e \in NodeEnrollment : e = enr[b]
      BY DEF IInv, TypeOK
    <2>3. PICK g \in Nat : g = e.gen
      BY DEF NodeEnrollment
    <2>4. enr'[b] = IF e.node = n /\ e.status # "absent" THEN [z EXCEPT !.gen = g] ELSE e
      BY <2>1, <2>2, <2>3 DEF DeleteNodeCascade
    <2>5. PICK d \in NodeEnrollment : d = [z EXCEPT !.gen = g] /\ d.gen = g /\ d.status = "absent"
      <3> DEFINE x == [z EXCEPT !.gen = g]
      <3>1. x \in NodeEnrollment /\ x.gen = g /\ x.status = "absent"
        BY <2>1 DEF NodeEnrollment
      <3> QED
        BY <3>1
    <2> QED
      BY <2>2, <2>3, <2>4, <2>5
  <1>4. enr' \in [Agent -> NodeEnrollment]
    BY <1>3 DEF DeleteNodeCascade
  <1>5. NodeLater
    BY <1>1, <1>2 DEF NodeLater, Exists
  <1>6. EnrLater
    BY <1>1, <1>2, <1>3 DEF EnrLater, Accepted, IInv, EnrollmentsOK
  <1>7. EnrollmentsOK' /\ \A b \in Agent : Undecided(b)
    BY <1>3 DEF IInv, EnrollmentsOK, Undecided, Accepted
  <1> QED
    BY <1>2, <1>4, <1>5, <1>6, <1>7 DEF Later

(* The deletion itself, if the node is still there.                        *)
LEMMA Deleting ==
    ASSUME IInv, NEW h \in Admin, DeleteFinish(h)
    PROVE  IInv' /\ Later
  <1>1. PICK n \in NodeId : n = req[h].node
    BY DEF DeleteFinish, IInv, RequestOK, WriteOK
  <1>2. Done(h) /\ UNCHANGED <<world, sweep, agentVars, admins, contested>>
    BY DEF DeleteFinish
  <1>3. /\ enr' \in [Agent -> NodeEnrollment] /\ node' \in [NodeId -> NodeRow]
        /\ Later /\ EnrollmentsOK' /\ \A b \in Agent : Undecided(b)
    <2>1. CASE Exists(n)
      BY <1>1, <1>2, <2>1, Cascade DEF DeleteFinish
    <2>2. CASE ~Exists(n)
      <3>1. UNCHANGED tables /\ UNCHANGED contested
        BY <1>1, <1>2, <2>2 DEF DeleteFinish
      <3> QED
        BY <3>1, SameTables DEF tables, IInv, TypeOK, EnrollmentsOK
    <2> QED
      BY <2>1, <2>2
  <1>4. \A i \in Admin \cup Serve : req[i].op \in Verdict => Undecided(req[i].agent)
    BY <1>3 DEF IInv, RequestOK, VerdictOK
  <1> QED
    BY <1>2, <1>3, <1>4, Ending

-----------------------------------------------------------------------------
(* The sweep and time.                                                     *)

(* A step that no handler and no agent takes.                              *)
LEMMA Aside ==
    ASSUME IInv, Later, \A b \in Agent : Undecided(b),
           enr' \in [Agent -> NodeEnrollment], node' \in [NodeId -> NodeRow], EnrollmentsOK',
           sweep' \subseteq NodeId, UNCHANGED <<world, req, agentVars, admins, contested>>
    PROVE  IInv' /\ Later
  <1>1. UNCHANGED <<pc, id, eid, named, on>>
    BY DEF agentVars
  <1>2. (\A i \in Admin \cup Serve : RequestOK(req[i]))' /\ OneVerdict'
    BY AllKept
  <1>3. ASSUME NEW b \in Agent
        PROVE  WaitOK(b)' /\ KnowsOK(b)'
    BY <1>1, WaitKept, KnowsKept DEF IInv
  <1>4. TypeOK'
    BY <1>1 DEF IInv, TypeOK
  <1> QED
    BY <1>2, <1>3, <1>4 DEF IInv

(* The sweep selects the nodes without a fresh heartbeat.                  *)
LEMMA Sweeping ==
    ASSUME IInv, MarkOfflineNodes
    PROVE  IInv' /\ Later
  <1>1. Later /\ \A b \in Agent : Undecided(b)
    BY SameTables DEF IInv, MarkOfflineNodes
  <1>2. sweep' \subseteq NodeId
    BY DEF MarkOfflineNodes, StaleNodes
  <1>3. enr' \in [Agent -> NodeEnrollment] /\ node' \in [NodeId -> NodeRow] /\ EnrollmentsOK'
    BY DEF MarkOfflineNodes, tables, IInv, TypeOK, EnrollmentsOK
  <1> QED
    BY <1>1, <1>2, <1>3, Aside DEF MarkOfflineNodes

(* ... and marks one of them, whatever its row is now.                     *)
LEMMA Marking ==
    ASSUME IInv, NEW n \in NodeId, MarkOffline(n)
    PROVE  IInv' /\ Later
  <1>1. PICK r \in NodeRow : r = node[n]
    BY DEF IInv, TypeOK
  <1> DEFINE d == [r EXCEPT !.status = "offline"]
  <1>2. UpdateNode(n, d)
    BY <1>1 DEF MarkOffline
  <1>3. d \in NodeRow /\ d.cred = r.cred /\ d.status \in NodeStatus
    BY DEF NodeRow, NodeStatus
  <1> HIDE DEF d
  <1>4. UNCHANGED <<enr, contested>> /\ UNCHANGED <<world, req, agentVars, admins, contested>>
    BY DEF MarkOffline
  <1>5. /\ node' \in [NodeId -> NodeRow] /\ Later /\ EnrollmentsOK'
        /\ \A b \in Agent : Undecided(b)
    BY <1>1, <1>2, <1>3, <1>4, NodeWriting
  <1>6. sweep' \subseteq NodeId /\ enr' \in [Agent -> NodeEnrollment]
    BY <1>4 DEF MarkOffline, IInv, TypeOK
  <1> QED
    BY <1>4, <1>5, <1>6, Aside

(* A row that is only older.                                               *)
LEMMA AgedRow ==
    ASSUME NEW r \in NodeRow
    PROVE  /\ Age(r) \in NodeRow /\ Age(r).status = r.status /\ Age(r).cred = r.cred
           /\ Age(r).enabled = r.enabled
           /\ r = NoRow => Age(r) = NoRow
  <1> DEFINE d == [r EXCEPT !.hb = IF @ = "fresh" THEN "stale" ELSE @]
  <1>1. d \in NodeRow /\ d.status = r.status /\ d.cred = r.cred /\ d.enabled = r.enabled
    BY DEF NodeRow
  <1>2. ASSUME r = NoRow
        PROVE  d = NoRow
    <2>1. r.hb = "never"
      BY <1>2 DEF NoRow
    <2>2. d = [r EXCEPT !.hb = r.hb]
      BY <2>1
    <2>3. d = r
      BY <2>2 DEF NodeRow
    <2> QED
      BY <1>2, <2>3
  <1> QED
    BY <1>1, <1>2 DEF Age

(* A heartbeat gets old, in the table and in the hands of a handler.       *)
LEMMA Aging ==
    ASSUME IInv, NEW n \in NodeId, HeartbeatAges(n)
    PROVE  IInv' /\ Later
  <1>1. PICK r \in NodeRow : r = node[n]
    BY DEF IInv, TypeOK
  <1>2. PICK d \in NodeRow : d = Age(r) /\ d.status = r.status /\ d.cred = r.cred
    BY AgedRow
  <1>3. /\ node' = [node EXCEPT ![n] = d]
        /\ UNCHANGED <<world, enr, sweep, pc, id, eid, named, on, admins, contested>>
    BY <1>1, <1>2 DEF HeartbeatAges, agentVars
  <1>4. /\ node' \in [NodeId -> NodeRow]
        /\ \A m \in NodeId : node'[m] = IF m = n THEN d ELSE node[m]
    BY <1>3 DEF IInv, TypeOK
  <1>5. Later /\ \A b \in Agent : Undecided(b)
    <2>1. NodeLater
      BY <1>1, <1>2, <1>4 DEF NodeLater, Exists
    <2>2. \A b \in Agent : enr[b].gen \in Nat
      BY DEF IInv, TypeOK, NodeEnrollment
    <2>3. EnrLater /\ \A b \in Agent : Undecided(b)
      BY <1>3, <2>2 DEF EnrLater, Undecided, Accepted
    <2> QED
      BY <1>3, <2>1, <2>3 DEF Later
  <1>6. ASSUME NEW i \in Admin \cup Serve
        PROVE  /\ req'[i] \in Request /\ req'[i].op = req[i].op /\ req'[i].agent = req[i].agent
               /\ req'[i].enr = req[i].enr /\ RequestOK(req[i])'
    <2>1. PICK q \in Request : q = req[i]
      BY DEF IInv, TypeOK
    <2>2. PICK s \in NodeRow : /\ s = Age(q.row) /\ s.status = q.row.status
                               /\ s.cred = q.row.cred /\ s.enabled = q.row.enabled
                               /\ q.row = NoRow => s = NoRow
      <3>1. q.row \in NodeRow
        BY DEF Request
      <3> QED
        BY <3>1, AgedRow
    <2>3. PICK p \in Request : /\ p = [q EXCEPT !.row = s] /\ p.op = q.op /\ p.agent = q.agent
                               /\ p.node = q.node /\ p.enr = q.enr /\ p.row = s
      <3> DEFINE x == [q EXCEPT !.row = s]
      <3>1. /\ x \in Request /\ x.op = q.op /\ x.agent = q.agent
            /\ x.node = q.node /\ x.enr = q.enr /\ x.row = s
        BY DEF Request
      <3> QED
        BY <3>1
    <2>4. req'[i] = IF q.node = n THEN p ELSE q
      <3>1. [req[i] EXCEPT !.row = Age(@)] = p
        BY <2>1, <2>2, <2>3
      <3> QED
        BY <2>1, <3>1 DEF HeartbeatAges
    <2>5. RequestOK(q)
      BY <2>1 DEF IInv
    <2>6. RequestOK(p)
      BY <2>2, <2>3, <2>5 DEF RequestOK, VerdictOK, ClaimOK, WriteOK
    <2>7. RequestOK(p)' /\ RequestOK(q)'
      <3>1. q.op \in Verdict => Undecided(q.agent)
        BY <1>5, <2>5 DEF RequestOK, VerdictOK
      <3> QED
        BY <1>5, <2>3, <2>5, <2>6, <3>1, RequestKept
    <2> QED
      BY <2>1, <2>3, <2>4, <2>7
  <1>7. req' \in [Admin \cup Serve -> Request]
    BY <1>6 DEF HeartbeatAges
  <1>8. OneVerdict'
    BY <1>3, <1>6 DEF IInv, OneVerdict
  <1>9. ASSUME NEW b \in Agent
        PROVE  WaitOK(b)' /\ KnowsOK(b)'
    <2>1. on[b] # None => /\ req'[on[b]].op = req[on[b]].op
                          /\ req'[on[b]].agent = req[on[b]].agent
                          /\ req'[on[b]].enr.gen = req[on[b]].enr.gen
      BY <1>6 DEF IInv, WaitOK
    <2> QED
      BY <1>3, <1>5, <2>1, WaitKept, KnowsKept DEF IInv
  <1>10. TypeOK' /\ EnrollmentsOK'
    BY <1>3, <1>4, <1>7 DEF IInv, TypeOK, EnrollmentsOK
  <1> QED
    BY <1>5, <1>6, <1>8, <1>9, <1>10 DEF IInv

(* A claim token expires.                                                  *)
LEMMA Expiring ==
    ASSUME IInv, NEW a \in Agent, ClaimExpires(a)
    PROVE  IInv' /\ Later
  <1>1. PICK e \in NodeEnrollment : e = enr[a]
    BY DEF IInv, TypeOK
  <1>2. PICK d \in NodeEnrollment : /\ d = [e EXCEPT !.live = FALSE] /\ d.status = e.status
                                    /\ d.gen = e.gen /\ d.node = e.node
    <2> DEFINE x == [e EXCEPT !.live = FALSE]
    <2>1. x \in NodeEnrollment /\ x.status = e.status /\ x.gen = e.gen /\ x.node = e.node
      BY DEF NodeEnrollment
    <2> QED
      BY <2>1
  <1>3. /\ enr' = [enr EXCEPT ![a] = d]
        /\ UNCHANGED <<world, node, req, sweep, agentVars, admins, contested>>
    BY <1>1, <1>2 DEF ClaimExpires, IInv, TypeOK
  <1>4. /\ enr' \in [Agent -> NodeEnrollment]
        /\ \A b \in Agent : enr'[b].status = enr[b].status /\ enr'[b].gen = enr[b].gen
                             /\ enr'[b].node = enr[b].node
    BY <1>1, <1>2, <1>3 DEF IInv, TypeOK
  <1>5. \A b \in Agent : enr[b].gen \in Nat
    BY DEF IInv, TypeOK, NodeEnrollment
  <1>6. EnrLater /\ \A b \in Agent : Undecided(b)
    BY <1>3, <1>4, <1>5 DEF EnrLater, Undecided, Accepted
  <1>7. Later
    BY <1>3, <1>6 DEF Later, NodeLater, Exists
  <1>8. node' \in [NodeId -> NodeRow] /\ EnrollmentsOK' /\ sweep' \subseteq NodeId
    BY <1>3, <1>4 DEF IInv, TypeOK, EnrollmentsOK
  <1> QED
    BY <1>3, <1>4, <1>6, <1>7, <1>8, Aside

-----------------------------------------------------------------------------
(* The agents.                                                             *)

(* A step of agent a that touches neither table nor handler.               *)
LEMMA AgentMoves ==
    ASSUME IInv, NEW a \in Agent, NEW p \in AgentPC, NEW i \in Identity,
           pc' = [pc EXCEPT ![a] = p], id' = [id EXCEPT ![a] = i],
           eid' \in [Agent -> Credential], named' \in [Agent -> NodeId \cup {None}],
           on' \in [Agent -> Serve \cup {None}],
           \A b \in Agent \ {a} : eid'[b] = eid[b] /\ named'[b] = named[b] /\ on'[b] = on[b],
           WaitOK(a)', KnowsOK(a)',
           UNCHANGED <<world, tables, req, sweep, admins, contested>>
    PROVE  IInv' /\ Later
  <1>1. Later /\ \A b \in Agent : Undecided(b)
    BY SameTables DEF IInv
  <1>2. (\A h \in Admin \cup Serve : RequestOK(req[h]))' /\ OneVerdict'
    BY <1>1, AllKept
  <1>3. ASSUME NEW b \in Agent
        PROVE  WaitOK(b)' /\ KnowsOK(b)'
    <2>1. CASE b = a
      BY <2>1
    <2>2. CASE b # a
      <3>1. /\ pc'[b] = pc[b] /\ id'[b] = id[b] /\ eid'[b] = eid[b] /\ named'[b] = named[b]
            /\ on'[b] = on[b]
        BY <2>2 DEF IInv, TypeOK
      <3>2. WaitOK(b)'
        BY <3>1, WaitKept DEF IInv
      <3>3. KnowsOK(b)'
        BY <1>1, <3>1, KnowsKept
      <3> QED
        BY <3>2, <3>3
    <2> QED
      BY <2>1, <2>2
  <1>4. TypeOK' /\ EnrollmentsOK'
    BY DEF IInv, TypeOK, EnrollmentsOK, tables
  <1> QED
    BY <1>1, <1>2, <1>3, <1>4 DEF IInv

(* A step that changes no more than where the agent is.                    *)
LEMMA AgentTurns ==
    ASSUME IInv, NEW a \in Agent, NEW p \in AgentPC,
           pc' = [pc EXCEPT ![a] = p],
           pc[a] \in {"start", "poll"},
           p = "claim" => pc[a] = "poll",
           p \in {"start", "run", "register", "claim"},
           id' \in [Agent -> Identity], \A b \in Agent \ {a} : id'[b] = id[b],
           id'[a] = "claimed" => id[a] = "claimed" /\ p \in {"start", "run"},
           p = "claim" => id'[a] = id[a],
           UNCHANGED <<world, tables, req, sweep, eid, named, on, admins, contested>>
    PROVE  IInv' /\ Later
  <1>1. Later
    BY SameTables DEF IInv
  <1>2. pc'[a] = p /\ on[a] = None
    BY DEF IInv, TypeOK, WaitOK
  <1>3. KnowsOK(a)'
    BY <1>1, <1>2, KnowsKept
  <1>4. WaitOK(a)'
    BY <1>2 DEF WaitOK
  <1>5. id' = [id EXCEPT ![a] = id'[a]] /\ id'[a] \in Identity
    BY DEF IInv, TypeOK
  <1> QED
    BY <1>3, <1>4, <1>5, AgentMoves DEF IInv, TypeOK

(* The agent looks at its identity file, or at its enrollment.             *)
LEMMA Turning ==
    ASSUME IInv, NEW a \in Agent, ensureIdentity(a) \/ PollEnrollment(a) \/ PollDeadline(a)
    PROVE  IInv' /\ Later
  <1>1. id \in [Agent -> Identity] /\ pc \in [Agent -> AgentPC]
    BY DEF IInv, TypeOK
  <1>2. CASE ensureIdentity(a)
    <2>1. PICK p \in AgentPC : p = IF id[a] = "claimed" THEN "run" ELSE "register"
      BY DEF AgentPC
    <2>2. /\ id' \in [Agent -> Identity] /\ \A b \in Agent \ {a} : id'[b] = id[b]
          /\ id'[a] = "claimed" => id[a] = "claimed"
      BY <1>1, <1>2 DEF ensureIdentity, Identity
    <2> QED
      BY <1>2, <2>1, <2>2, AgentTurns DEF ensureIdentity
  <1>3. CASE PollEnrollment(a) \/ PollDeadline(a)
    <2>1. PICK p \in {"claim", "start"} : pc' = [pc EXCEPT ![a] = p]
      BY <1>3 DEF PollEnrollment, PollDeadline
    <2>2. p \in AgentPC
      BY DEF AgentPC
    <2>3. /\ pc[a] = "poll"
          /\ UNCHANGED <<world, tables, req, sweep, id, eid, named, on, admins, contested>>
      BY <1>3 DEF PollEnrollment, PollDeadline
    <2>4. id[a] # "claimed"
      BY <2>3 DEF IInv, KnowsOK
    <2> QED
      BY <1>1, <2>1, <2>2, <2>3, <2>4, AgentTurns
  <1> QED
    BY <1>2, <1>3

(* The agent saves what its claim gave it.                                 *)
LEMMA Saving ==
    ASSUME IInv, NEW a \in Agent, SaveIdentity(a)
    PROVE  IInv' /\ Later
  <1>1. /\ id' = [id EXCEPT ![a] = "claimed"] /\ pc' = [pc EXCEPT ![a] = "run"] /\ pc[a] = "save"
        /\ UNCHANGED <<world, tables, req, sweep, eid, named, on, admins, contested>>
    BY DEF SaveIdentity
  <1>2. pc'[a] = "run" /\ on[a] = None
    BY <1>1 DEF IInv, TypeOK, WaitOK
  <1>3. Later
    BY <1>1, SameTables DEF IInv
  <1>4. KnowsOK(a)'
    BY <1>1, <1>2, <1>3, KnowsKept
  <1>5. WaitOK(a)'
    BY <1>1, <1>2 DEF WaitOK
  <1>6. "run" \in AgentPC /\ "claimed" \in Identity
    BY DEF AgentPC, Identity
  <1>7. /\ eid' \in [Agent -> Credential] /\ named' \in [Agent -> NodeId \cup {None}]
        /\ on' \in [Agent -> Serve \cup {None}]
    BY <1>1 DEF IInv, TypeOK
  <1> QED
    BY <1>1, <1>4, <1>5, <1>6, <1>7, AgentMoves

(* The agent dies: what it has not saved is gone.                          *)
LEMMA Crashing ==
    ASSUME IInv, NEW a \in Agent, Crash(a)
    PROVE  IInv' /\ Later
  <1>1. /\ pc' = [pc EXCEPT ![a] = "start"] /\ on' = [on EXCEPT ![a] = None]
        /\ eid' = IF id[a] = "claimed" THEN eid ELSE [eid EXCEPT ![a] = None]
        /\ named' = IF id[a] = "claimed" THEN named ELSE [named EXCEPT ![a] = None]
        /\ UNCHANGED <<world, tables, req, sweep, id, admins, contested>>
    BY DEF Crash
  <1>2. /\ pc'[a] = "start" /\ on'[a] = None /\ id'[a] = id[a]
        /\ id[a] = "claimed" => eid'[a] = eid[a] /\ named'[a] = named[a]
        /\ id[a] # "claimed" => eid'[a] = None
    BY <1>1 DEF IInv, TypeOK
  <1>3. Later
    BY <1>1, SameTables DEF IInv
  <1>4. KnowsOK(a)'
    <2>1. CASE id[a] = "claimed"
      BY <1>2, <1>3, <2>1, KnowsKept
    <2>2. CASE id[a] # "claimed"
      BY <1>2, <2>2 DEF KnowsOK
    <2> QED
      BY <2>1, <2>2
  <1>5. WaitOK(a)'
    BY <1>2 DEF WaitOK
  <1>6. "start" \in AgentPC /\ id[a] \in Identity /\ id' = [id EXCEPT ![a] = id[a]]
    BY <1>1 DEF AgentPC, IInv, TypeOK
  <1>7. /\ eid' \in [Agent -> Credential] /\ named' \in [Agent -> NodeId \cup {None}]
        /\ on' \in [Agent -> Serve \cup {None}]
        /\ \A b \in Agent \ {a} : eid'[b] = eid[b] /\ named'[b] = named[b] /\ on'[b] = on[b]
    BY <1>1 DEF IInv, TypeOK, Credential
  <1> QED
    BY <1>1, <1>4, <1>5, <1>6, <1>7, AgentMoves

(* The agent gives up on an answer.                                        *)
LEMMA GivingUp ==
    ASSUME IInv, NEW a \in Agent, GiveUp(a)
    PROVE  IInv' /\ Later
  <1>1. PICK p \in {"run", "start"} : /\ pc' = [pc EXCEPT ![a] = p] /\ pc'[a] = p
    BY DEF GiveUp, IInv, TypeOK
  <1>2. /\ on' = [on EXCEPT ![a] = None] /\ on'[a] = None
        /\ UNCHANGED <<world, tables, req, sweep, id, eid, named, admins, contested>>
    BY DEF GiveUp, IInv, TypeOK
  <1>3. Later
    BY <1>2, SameTables DEF IInv
  <1>4. KnowsOK(a)'
    BY <1>1, <1>2, <1>3, KnowsKept
  <1>5. WaitOK(a)'
    BY <1>2 DEF WaitOK
  <1>6. p \in AgentPC /\ id[a] \in Identity /\ id' = [id EXCEPT ![a] = id[a]]
    BY <1>2 DEF AgentPC, IInv, TypeOK
  <1>7. /\ eid' \in [Agent -> Credential] /\ named' \in [Agent -> NodeId \cup {None}]
        /\ on' \in [Agent -> Serve \cup {None}]
        /\ \A b \in Agent \ {a} : eid'[b] = eid[b] /\ named'[b] = named[b] /\ on'[b] = on[b]
    BY <1>2 DEF IInv, TypeOK
  <1> QED
    BY <1>1, <1>2, <1>4, <1>5, <1>6, <1>7, AgentMoves

(* A request is sent: a free handler takes it.                             *)
LEMMA Sending ==
    ASSUME IInv, NEW a \in Agent,
           registerAndClaim(a) \/ SendClaim(a) \/ sendHeartbeat(a)
    PROVE  IInv' /\ Later
  <1>1. PICK op \in AgentOp, next \in AgentPC :
            /\ Send(a, op, next)
            /\ <<next, op>> \in
                 {<<"enrolling", "enroll">>, <<"claiming", "claim">>, <<"beating", "heartbeat">>}
            /\ id[a] = "claimed" => next = "beating"
            /\ op = "claim" => pc[a] = "claim"
            /\ op # "claim" => next # "claiming"
    <2>1. CASE registerAndClaim(a)
      <3>1. "enroll" \in AgentOp /\ "enrolling" \in AgentPC /\ id[a] # "claimed"
        BY <2>1 DEF registerAndClaim, AgentOp, AgentPC, IInv, KnowsOK
      <3>2. Send(a, "enroll", "enrolling")
        BY <2>1 DEF registerAndClaim
      <3> QED
        BY <3>1, <3>2
    <2>2. CASE SendClaim(a)
      <3>1. "claim" \in AgentOp /\ "claiming" \in AgentPC /\ id[a] # "claimed"
        BY <2>2 DEF SendClaim, AgentOp, AgentPC, IInv, KnowsOK
      <3>2. Send(a, "claim", "claiming") /\ pc[a] = "claim"
        BY <2>2 DEF SendClaim
      <3> QED
        BY <3>1, <3>2
    <2>3. CASE sendHeartbeat(a)
      <3>1. "heartbeat" \in AgentOp /\ "beating" \in AgentPC
        BY DEF AgentOp, AgentPC
      <3>2. Send(a, "heartbeat", "beating")
        BY <2>3 DEF sendHeartbeat
      <3> QED
        BY <3>1, <3>2
    <2> QED
      BY <2>1, <2>2, <2>3
  <1>2. UNCHANGED <<world, tables, sweep, id, eid, named, admins, contested>>
    BY DEF registerAndClaim, SendClaim, sendHeartbeat
  <1>3. PICK h \in Serve :
            /\ IsFree(h, Serve)
            /\ req' = [req EXCEPT ![h] = [Idle EXCEPT !.op = op, !.agent = a,
                                       !.enr.gen = IF op = "claim" THEN eid[a][2] ELSE 0]]
            /\ on' = [on EXCEPT ![a] = h] /\ pc' = [pc EXCEPT ![a] = next]
    BY <1>1 DEF Send
  <1>4. req[h].op = "idle"
    BY <1>3 DEF IsFree
  <1>5. op = "claim" => /\ eid[a] = <<a, eid[a][2]>> /\ eid[a] # None
                        /\ eid[a][2] \in Nat /\ eid[a][2] <= enr[a].gen
    BY <1>1, NodeConstants DEF IInv, KnowsOK, TypeOK, Credential
  <1>6. PICK g \in Nat : /\ g = IF op = "claim" THEN eid[a][2] ELSE 0
                         /\ op = "claim" => g <= enr[a].gen
    BY <1>5
  <1>7. PICK e \in NodeEnrollment : e = [NoEnrollment EXCEPT !.gen = g] /\ e.gen = g
    <2>1. PICK z \in NodeEnrollment : z = NoEnrollment
      BY DEF NoEnrollment, NodeEnrollment
    <2> DEFINE x == [z EXCEPT !.gen = g]
    <2>2. x \in NodeEnrollment /\ x.gen = g
      BY DEF NodeEnrollment
    <2> QED
      BY <2>1, <2>2
  <1>8. PICK z \in Request : z = Idle /\ z.enr = NoEnrollment /\ z.row = NoRow /\ z.node = None
    BY IdleFits DEF Idle
  <1>9. PICK q \in Request : /\ q = [z EXCEPT !.op = op, !.agent = a, !.enr = e]
                             /\ q.op = op /\ q.agent = a /\ q.enr = e
                             /\ q.row = NoRow /\ q.node = None
    <2> DEFINE x == [z EXCEPT !.op = op, !.agent = a, !.enr = e]
    <2>1. /\ x \in Request /\ x.op = op /\ x.agent = a /\ x.enr = e
          /\ x.row = NoRow /\ x.node = None
      BY <1>8 DEF Request
    <2> QED
      BY <2>1
  <1>10. req' = [req EXCEPT ![h] = q]
    <2>1. [Idle EXCEPT !.op = op, !.agent = a,
                       !.enr.gen = IF op = "claim" THEN eid[a][2] ELSE 0] = q
      BY <1>6, <1>7, <1>8, <1>9
    <2> QED
      BY <1>3, <2>1
  <1>11. Later /\ \A b \in Agent : Undecided(b)
    BY <1>2, SameTables DEF IInv
  <1>12. /\ req' \in [Admin \cup Serve -> Request]
         /\ (\A i \in Admin \cup Serve : RequestOK(req[i]))'
         /\ OneVerdict'
    <2>1. RequestOK(q)
      BY <1>6, <1>7, <1>9 DEF RequestOK, VerdictOK, ClaimOK, WriteOK, AgentOp, Verdict
    <2>2. q.op \notin Verdict
      BY <1>9 DEF AgentOp, Verdict
    <2>3. RequestOK(q)'
      BY <1>11, <2>1, <2>2, RequestKept
    <2>4. \A i \in Admin \cup Serve : req[i].op \in Verdict => Undecided(req[i].agent)
      BY <1>11 DEF IInv, RequestOK, VerdictOK
    <2> QED
      BY <1>10, <1>11, <2>2, <2>3, <2>4, HandlersKept
  <1>13. req'[h] = q /\ on'[a] = h /\ pc'[a] = next
    BY <1>3, <1>10 DEF IInv, TypeOK
  <1>14. UNCHANGED <<id, eid, named>>
    BY <1>2
  <1>15. ASSUME NEW b \in Agent
         PROVE  WaitOK(b)' /\ KnowsOK(b)'
    <2>1. CASE b = a
      <3>1. WaitOK(a)'
        <4>1. next = "claiming" => eid'[a] = <<a, g>>
          BY <1>1, <1>5, <1>6, <1>14
        <4>2. req'[h].agent = a /\ req'[h].op = op /\ req'[h].enr.gen = g
          BY <1>7, <1>9, <1>13
        <4> QED
          BY <1>1, <1>13, <4>1, <4>2 DEF WaitOK
      <3>2. KnowsOK(a)'
        BY <1>1, <1>11, <1>13, <1>14, KnowsKept
      <3> QED
        BY <2>1, <3>1, <3>2
    <2>2. CASE b # a
      <3>1. /\ pc'[b] = pc[b] /\ on'[b] = on[b]
            /\ on[b] # h
        BY <1>3, <1>4, <2>2, NotAwaited DEF IInv, TypeOK
      <3>2. on[b] # None => req'[on[b]] = req[on[b]]
        BY <1>10, <3>1 DEF IInv, TypeOK, WaitOK
      <3>3. WaitOK(b)'
        BY <1>14, <3>1, <3>2, WaitKept DEF IInv
      <3>4. KnowsOK(b)'
        BY <1>11, <1>14, <3>1, KnowsKept
      <3> QED
        BY <3>3, <3>4
    <2> QED
      BY <2>1, <2>2
  <1>16. TypeOK' /\ EnrollmentsOK'
    BY <1>2, <1>3, <1>12 DEF IInv, TypeOK, EnrollmentsOK, tables
  <1> QED
    BY <1>11, <1>12, <1>15, <1>16 DEF IInv

-----------------------------------------------------------------------------
(* The theorems.                                                           *)

(* The invariant holds at the start.                                       *)
LEMMA Starting ==
    ASSUME Init
    PROVE  IInv
  <1>1. NoEnrollment \in NodeEnrollment /\ NoRow \in NodeRow
    BY DEF NoEnrollment, NoRow, NodeEnrollment, NodeRow, Credential
  <1>2. TypeOK
    BY <1>1, IdleFits DEF Init, TypeOK, AgentPC, Identity, Credential
  <1>3. EnrollmentsOK
    BY DEF Init, EnrollmentsOK, NoEnrollment, Accepted
  <1>4. (\A h \in Admin \cup Serve : RequestOK(req[h])) /\ OneVerdict
    BY IdleFits DEF Init, OneVerdict, Verdict
  <1>5. \A a \in Agent : WaitOK(a) /\ KnowsOK(a)
    BY DEF Init, WaitOK, KnowsOK
  <1> QED
    BY <1>2, <1>3, <1>4, <1>5 DEF IInv

(* Every step keeps the invariant and undoes nothing.                      *)
LEMMA Stepping ==
    ASSUME IInv, [Next]_vars
    PROVE  IInv' /\ Later
  <1>1. CASE UNCHANGED vars
    <2>1. UNCHANGED <<world, enr, node, tables, req, sweep, pc, id, eid, named, on, admins,
                      contested>>
      BY <1>1 DEF vars, tables, agentVars
    <2>2. Later
      BY <2>1, SameTables DEF IInv
    <2>3. IInv'
      <3>1. TypeOK' /\ EnrollmentsOK' /\ OneVerdict'
        BY <2>1 DEF IInv, TypeOK, EnrollmentsOK, OneVerdict
      <3>2. (\A h \in Admin \cup Serve : RequestOK(req[h]))'
        BY <2>1 DEF IInv, RequestOK, VerdictOK, ClaimOK, WriteOK, Tied, Exists
      <3>3. (\A a \in Agent : WaitOK(a) /\ KnowsOK(a))'
        BY <2>1 DEF IInv, WaitOK, KnowsOK, Tied, Exists
      <3> QED
        BY <3>1, <3>2, <3>3 DEF IInv
    <2> QED
      BY <2>2, <2>3
  <1>2. ASSUME NEW a \in Agent,
               AgentStep(a) \/ PollDeadline(a) \/ ClaimExpires(a) \/ Crash(a) \/ GiveUp(a)
        PROVE  IInv' /\ Later
    BY <1>2, Turning, Sending, Saving, Expiring, Crashing, GivingUp DEF AgentStep
  <1>3. ASSUME NEW h \in Serve, ServeStep(h)
        PROVE  IInv' /\ Later
    BY <1>3, Enrolling, Inserting, ClaimReading, Claiming, BeatReading, Beating DEF ServeStep
  <1>4. ASSUME NEW h \in Admin, AdminFinish(h)
        PROVE  IInv' /\ Later
    BY <1>4, Creating, Judging, PatchWriting, Deleting DEF AdminFinish
  <1>5. ASSUME NEW h \in Admin, NEW n \in NodeId,
               DeleteNode(h, n) \/ \E p \in Patches : PatchNode(h, n, p)
        PROVE  IInv' /\ Later
    BY <1>5, Removing, PatchReading
  <1>6. CASE SweepStep
    BY <1>6, Sweeping, Marking DEF SweepStep
  <1> QED
    BY <1>1, <1>2, <1>3, <1>4, <1>5, <1>6, Aborting, Deciding, Aging DEF Next

(* The inductive invariant holds in every reachable state.                 *)
THEOREM Invariance == Spec => []IInv
  <1>1. Init => IInv
    BY Starting
  <1>2. IInv /\ [Next]_vars => IInv'
    BY Stepping
  <1> QED
    BY <1>1, <1>2, PTL DEF Spec

(* Every variable stays within its type.                                   *)
THEOREM TypeCorrect == Spec => []TypeOK
  <1>1. IInv => TypeOK
    BY DEF IInv
  <1> QED
    BY <1>1, Invariance, PTL

(* A node whose agent has its identity keeps the enrollment from which the *)
(* key of its tasks is derived.                                            *)
THEOREM SignableHolds == Spec => []SignableNode
  <1>1. IInv => SignableNode
    <2> SUFFICES ASSUME IInv, NEW a \in Agent, id[a] = "claimed", Exists(named[a]),
                        eid[a] \notin contested
                 PROVE  /\ Enrollment(a).node = named[a]
                        /\ Enrollment(a).status = "claimed"
                        /\ node[named[a]].cred = eid[a]
      BY DEF SignableNode
    <2>1. /\ eid[a] = <<a, eid[a][2]>>
          /\ enr[a].gen = eid[a][2] /\ enr[a].node = named[a] /\ enr[a].status = "claimed"
          /\ node[named[a]].cred = <<a, eid[a][2]>>
      BY DEF IInv, KnowsOK, Tied
    <2> QED
      BY <2>1 DEF Enrollment
  <1> QED
    BY <1>1, Invariance, PTL

(* A disabled node that no request in progress shows enabled stays so.     *)
LEMMA Disabled ==
    ASSUME IInv, Next
    PROVE  DisableSticks
  <1> SUFFICES ASSUME NEW n \in NodeId, Exists(n), ~node[n].enabled,
                      \A h \in Admin \cup Serve : req[h].node = n => ~req[h].row.enabled,
                      ~\E h \in Admin : req[h].op = "patch" /\ req[h].node = n
               PROVE  /\ ~node'[n].enabled
                      /\ node'[n].status = "online" => node[n].status = "online"
    BY DEF DisableSticks
  <1>1. CASE UNCHANGED node
    BY <1>1
  <1>2. ASSUME NEW h \in Serve, FinishHeartbeat(h)
        PROVE  node'[n] = node[n]
    BY <1>2 DEF FinishHeartbeat, UpdateNode, IInv, TypeOK, RequestOK, WriteOK
  <1>3. ASSUME NEW h \in Admin, PatchFinish(h)
        PROVE  node'[n] = node[n]
    BY <1>3 DEF PatchFinish, UpdateNode, IInv, TypeOK
  <1>4. ASSUME NEW h \in Admin, ApproveCreate(h)
        PROVE  node'[n] = node[n]
    BY <1>4 DEF ApproveCreate, CreateNode, Fresh, Exists, IInv, TypeOK
  <1>5. ASSUME NEW h \in Admin, DeleteFinish(h)
        PROVE  /\ ~node'[n].enabled
               /\ node'[n].status = "online" => node[n].status = "online"
    <2>1. node' = node \/ node' = [node EXCEPT ![req[h].node] = [NoRow EXCEPT !.status = "deleted"]]
      BY <1>5 DEF DeleteFinish, DeleteNodeCascade, tables
    <2>2. PICK z \in NodeRow : z = NoRow /\ ~z.enabled
      <3>1. NoRow \in NodeRow /\ ~NoRow.enabled
        BY DEF NoRow, NodeRow, Credential
      <3> QED
        BY <3>1
    <2>3. node'[n] = node[n] \/ node'[n] = [z EXCEPT !.status = "deleted"]
      BY <2>1, <2>2 DEF IInv, TypeOK
    <2> QED
      BY <2>2, <2>3 DEF NodeRow
  <1>6. ASSUME NEW m \in NodeId, MarkOffline(m)
        PROVE  /\ ~node'[n].enabled
               /\ node'[n].status = "online" => node[n].status = "online"
    BY <1>6 DEF MarkOffline, UpdateNode, IInv, TypeOK, NodeRow
  <1>7. ASSUME NEW m \in NodeId, HeartbeatAges(m)
        PROVE  /\ ~node'[n].enabled
               /\ node'[n].status = "online" => node[n].status = "online"
    <2>1. PICK r \in NodeRow : r = node[m]
      BY DEF IInv, TypeOK
    <2>2. node' = [node EXCEPT ![m] = Age(r)]
      BY <1>7, <2>1 DEF HeartbeatAges
    <2> QED
      BY <2>1, <2>2, AgedRow DEF IInv, TypeOK
  <1>8. \/ UNCHANGED node
        \/ \E h \in Serve : FinishHeartbeat(h)
        \/ \E h \in Admin : PatchFinish(h) \/ ApproveCreate(h) \/ DeleteFinish(h)
        \/ \E m \in NodeId : MarkOffline(m) \/ HeartbeatAges(m)
    <2>1. ASSUME NEW a \in Agent,
                 AgentStep(a) \/ PollDeadline(a) \/ ClaimExpires(a) \/ Crash(a) \/ GiveUp(a)
          PROVE  UNCHANGED node
      BY <2>1 DEF AgentStep, ensureIdentity, registerAndClaim, PollEnrollment, SendClaim,
                  SaveIdentity, sendHeartbeat, PollDeadline, ClaimExpires, Crash, GiveUp, tables
    <2>2. ASSUME NEW h \in Serve, ServeStep(h)
          PROVE  UNCHANGED node \/ FinishHeartbeat(h)
      BY <2>2 DEF ServeStep, CreateEnrollment, InsertEnrollment, ClaimEnrollment, FinishClaim,
                  Heartbeat, tables
    <2>3. ASSUME NEW h \in Admin, AdminFinish(h)
          PROVE  UNCHANGED node \/ PatchFinish(h) \/ ApproveCreate(h) \/ DeleteFinish(h)
      BY <2>3 DEF AdminFinish, ApproveFinish, RejectFinish
    <2>4. ASSUME NEW h \in Admin \cup Serve, Abort(h)
          PROVE  UNCHANGED node
      BY <2>4 DEF Abort, tables
    <2>5. ASSUME NEW h \in Admin, NEW a \in Agent,
                 ApproveEnrollment(h, a) \/ RejectEnrollment(h, a)
          PROVE  UNCHANGED node
      BY <2>5 DEF ApproveEnrollment, RejectEnrollment, tables
    <2>6. ASSUME NEW h \in Admin, NEW m \in NodeId,
                 DeleteNode(h, m) \/ \E p \in Patches : PatchNode(h, m, p)
          PROVE  UNCHANGED node
      BY <2>6 DEF DeleteNode, PatchNode, tables
    <2>7. CASE MarkOfflineNodes
      BY <2>7 DEF MarkOfflineNodes, tables
    <2> QED
      BY <2>1, <2>2, <2>3, <2>4, <2>5, <2>6, <2>7 DEF Next, SweepStep
  <1> QED
    BY <1>1, <1>2, <1>3, <1>4, <1>5, <1>6, <1>7, <1>8

(* What an administrator decided about a node is not undone by a request   *)
(* that read the row before.                                               *)
THEOREM DecisionsHold == Spec => DecisionsStick
  <1>1. IInv /\ IInv' /\ Later => DeletedForGood
    <2> SUFFICES ASSUME IInv, IInv', Later
                 PROVE  DeletedForGood
      OBVIOUS
    <2>1. ASSUME NEW n \in NodeId, node[n].status = "deleted"
          PROVE  node'[n].status = "deleted"
      BY <2>1 DEF Later, NodeLater, Exists
    <2>2. ASSUME NEW a \in Agent
          PROVE  /\ enr'[a].gen >= enr[a].gen
                 /\ enr[a].status = "absent" /\ enr'[a].status # "absent" =>
                        enr'[a].gen > enr[a].gen
      <3>1. PICK i \in Nat, j \in Nat : i = enr[a].gen /\ j = enr'[a].gen /\ i <= j
        BY DEF Later, EnrLater
      <3>2. enr[a].status = "absent" /\ enr'[a].status # "absent" => i # j
        BY <3>1 DEF Later, EnrLater
      <3> QED
        BY <3>1, <3>2
    <2> QED
      BY <2>1, <2>2 DEF DeletedForGood
  <1>2. IInv /\ IInv' /\ [Next]_vars => [DeletedForGood /\ DisableSticks]_vars
    BY <1>1, Stepping, Disabled
  <1> QED
    BY <1>2, Invariance, PTL DEF Spec, DecisionsStick
=============================================================================
