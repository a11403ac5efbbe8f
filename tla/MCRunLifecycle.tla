--------------------------- MODULE MCRunLifecycle ---------------------------
(* The request of the instances: a batch of two runs, the first of which   *)
(* is summarized by the AI service.                                        *)
EXTENDS RunLifecycle

BatchOfTwo == [e \in Execs |-> 2]
OneProcess == [e \in Execs |-> CHOOSE h \in Hosts : TRUE]
FirstRuns == {r \in RunIds : r[2] = 1}
=============================================================================
