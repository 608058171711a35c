------------------------------ MODULE EngineMC ------------------------------
(* Small instances of Engine for TLC.                                      *)
EXTENDS Engine

\* Two generic scenarios, so that a worker rotates; one of each other group.
MCTwoGeneric == [g \in Groups |-> IF g = "generic" THEN 2 ELSE 1]

\* The error the probes expect, an error of the connection, and both joined.
MCFaults == {{"shared lock upgrade"}, {"infra"}}
MCNoFaults == {}

\* A duration is refused, zero, or positive; progress is off or on.
MCDurations == {-1, 1}
MCProgress == {0, 1}
MCNoProgress == {0}
=============================================================================
