--------------------------- MODULE MCTaskDispatch ---------------------------
(* TLC instances of TaskDispatch: one node, one or two tasks.              *)
EXTENDS TaskDispatch, TLC

CONSTANTS n1, k1, k2, t1, p1, MaxInFlight

OneNode == [t \in Task |-> n1]
TwoKeys == [t \in Task |-> IF t = t1 THEN k1 ELSE k2]

PollSymmetry == Permutations(Poll)

LateOrLost == {{"late", "crash"}, {"loss", "crash", "unsigned", "unverified", "unknown"}}
NoneOrServer == {{}, {"crash", "restart"}}
NoFaults == {{}}

(* At most MaxInFlight requests of the agents are under way at a time.     *)
InFlight == Cardinality(net) + Cardinality(handling)
DeliveryNext == Next /\ InFlight' <= MaxInFlight
DeliverySpec == Init /\ [][DeliveryNext /\ UNCHANGED faults]_<<vars, faults>>

(* Two tasks without faults, where no poll overlaps another one and one    *)
(* handler is enough; one task that nobody cancels with faults.            *)
LiveNext ==
    /\ Next
    /\ \/ faults = {} /\ \A p \in Poll \ {p1} : poll'[p] = NoPoll
       \/ /\ faults # {}
          /\ \A a \in Admin : admin'[a].task \in {t1, NoTask} /\ admin'[a].pc # "cancel"
LiveSpec == Init /\ [][LiveNext /\ UNCHANGED faults]_<<vars, faults>> /\ Fairness
=============================================================================
