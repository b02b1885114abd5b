CONSTANTS
    Pipelines = {"pa", "pb", "pab"}
    Sessions = {"s1", "s2", "s3"}
    Models = {"A", "B"}
    Backends = {"b1", "b2", "b3"}
    PipelineModels <- MCPipelineModels
    ModelFps <- MCModelFps
    ModelMem <- NoModelMem
    BackendMem <- NoBackendMem
    UsedKeys <- KeysSingle
    Demand = {0, 1, 3}
    RequestLists <- MCRequestLists
    BackendLists <- FewBackendLists
    MaxRounds = 3
SPECIFICATION Spec
INVARIANTS SessionsAnnounced DemandMet
PROPERTIES NoNeedlessStop StopsAnnounced
CHECK_DEADLOCK FALSE
