-------------------------- MODULE MCBackendPipeline --------------------------
(* Small instances of BackendPipeline.                                     *)
EXTENDS BackendPipeline

CONSTANTS r1, r2, s1, s2

OneSession == [r \in Requests |-> s1]
TwoSessions == [r \in Requests |-> IF r = r1 THEN s1 ELSE s2]
MCHops == [r \in Requests |-> IF r = r1 THEN 2 ELSE 1]

Pipelined(pre, post) ==
    [custom |-> FALSE, pre |-> pre, post |-> post, bs |-> 2, sizes |-> {1, 2},
     cross |-> TRUE, transform |-> FALSE, skips |-> FALSE]
Transforming == [Pipelined(1, 1) EXCEPT !.cross = FALSE, !.transform = TRUE, !.skips = TRUE]
CustomModel == [Pipelined(1, 1) EXCEPT !.custom = TRUE]

MCCmodels == { <<Pipelined(2, 1)>>, <<Pipelined(1, 2), CustomModel>>, <<CustomModel, Transforming>> }
Single == { <<Pipelined(1, 1)>> }
=============================================================================
