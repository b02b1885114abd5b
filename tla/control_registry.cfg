CONSTANTS
    Pipelines = {"pa"}
    Sessions = {"s1"}
    Models = {"A"}
    Backends = {"b1"}
    PipelineModels <- MCPipelineModels
    ModelFps <- MCModelFps
    ModelMem <- MCModelMem
    BackendMem <- MCBackendMem
    RequestLists <- OneDemand
    MaxQueue = 2
    MaxDelays = 1
    MaxFaults = 1
SPECIFICATION FairSpec
INVARIANTS TypeOK RegistryRecoverable NoOrphanedModels
PROPERTIES EventuallyRegistered PlannedRuns
