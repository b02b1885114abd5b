CONSTANTS
    Pipelines = {"pa", "pb", "pab"}
    Sessions = {"s1", "s2", "s3"}
    Models = {"A", "B"}
    Backends = {"b1", "b2"}
    PipelineModels <- MCPipelineModels
    ModelFps <- MCModelFps
    ModelMem <- MixedModelMem
    BackendMem <- MixedBackendMem
    UsedKeys <- KeysShared
    Demand = {0, 1, 2}
    RequestLists <- MCRequestLists
    BackendLists <- MCBackendLists
    MaxRounds = 4
SPECIFICATION Spec
INVARIANTS TypeOK PlansAreCurrent NoKeyError
CHECK_DEADLOCK FALSE
