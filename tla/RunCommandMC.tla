---------------------------- MODULE RunCommandMC ----------------------------
(* Small instances of RunCommand for TLC.                                  *)
EXTENDS RunCommand

MCOneEach == [g \in Groups |-> 1]
MCFaults == {{"infra"}}
MCNoFaults == {}
MCDurations == {-1, 1}
MCDuration == {1}
MCProgress == {0, 1}
MCNoProgress == {0}
MCStageFaults == Stages
MCNoStageFaults == {}
=============================================================================
