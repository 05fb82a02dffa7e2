------------------------------- MODULE MCNode -------------------------------
(* TLC instances of Node: one child, or two agents that ask to be primary. *)
EXTENDS Node

CONSTANTS a1, a2

Disable == [enabled |-> "off", status |-> "keep"]
ShowOnline == [enabled |-> "keep", status |-> "online"]
ShowOther == [enabled |-> "keep", status |-> "other"]

Patching == {Disable, ShowOnline, ShowOther}

Calm == [agents |-> {a1}, role |-> "child", faults |-> {}, requests |-> 3]
Slow == [agents |-> {a1}, role |-> "child", faults |-> {"late"}, requests |-> 1]
Closing == [agents |-> {a1}, role |-> "child", faults |-> {"closed"}, requests |-> 2]
Crashing == [agents |-> {a1}, role |-> "child", faults |-> {"crash", "late"}, requests |-> 1]
Primaries == [agents |-> {a1, a2}, role |-> "primary", faults |-> {}, requests |-> 2]

Worlds == {Calm, Slow, Closing, Crashing, Primaries}
=============================================================================
