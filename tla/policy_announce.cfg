CONSTANTS
    Pipelines = {"pa", "pb", "pab"}
    Sessions = {"s1", "s2", "s3"}
    Models = {"A", "B"}
    Backends = {"b1", "b2"}
    PipelineModels <- MCPipelineModels
    ModelFps <- MCModelFps
    ModelMem <- NoModelMem
    BackendMem <- NoBackendMem
    UsedKeys <- KeysPair
    Demand = {0, 1}
    RequestLists <- MCRequestLists
    BackendLists <- MCBackendLists
    MaxRounds = 3
SPECIFICATION Spec
INVARIANT SessionsAnnounced
CHECK_DEADLOCK FALSE
