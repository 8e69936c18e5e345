SPECIFICATION PatientSpec
CONSTANTS
  Size = 3
  Job <- MC3Jobs
  NoJob <- MCNoJob
  Kinds <- PoolOnly
  Profiles <- AllProfiles
PROPERTY ParallelExecution
