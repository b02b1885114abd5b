--------------------------- MODULE MCControlPlane ---------------------------
(* A small instance of ControlPlane: a CPU backend, a pipeline of one      *)
(* model, and a session with or without demand.                            *)
EXTENDS ControlPlane

MCPipelineModels == [pa |-> <<"A">>]
MCModelFps == [m \in Models |-> 2]
MCModelMem == [m \in Models |-> 0]
MCBackendMem == [b \in Backends |-> 0]

OneDemand == { << >>, <<[key |-> <<"pa", "s1">>, fps |-> 1]>> }
=============================================================================
