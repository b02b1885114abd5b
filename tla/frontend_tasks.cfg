SPECIFICATION FairSpec
CONSTANTS
  batch = batch
  single = single
  t1 = t1
  t2 = t2
  t3 = t3
  Calls = {batch, single}
  Tasks = {t1, t2, t3}
  TasksOf <- MCTasksOf
  Endpoint <- MCEndpoint
  WaitForModels = FALSE
  Registries = {{t1, t2}, {t3}}
  MaxFaults = 1
INVARIANTS TypeOK ResultsStamped DemandRecorded StatusTrue
PROPERTIES CallsReturn ResultsGo
CHECK_DEADLOCK FALSE
