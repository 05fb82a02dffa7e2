---------------------------- MODULE MCDeployment ----------------------------
(* TLC instances of Deployment: two targets, each on a node of its own.    *)
EXTENDS Deployment

CONSTANTS f1, f2, n1, n2, t1, r1

OneFeature == [t \in Target |-> f1]
TwoFeatures == [t \in Target |-> IF t = t1 THEN f1 ELSE f2]
TwoNodes == [t \in Target |-> IF t = t1 THEN n1 ELSE n2]
Fresh == [t \in Target |-> None]
WithR1 == [t \in Target |-> r1]

BothOrOne == {Target, {t1}}
EachTarget == {{t} : t \in Target}
=============================================================================
