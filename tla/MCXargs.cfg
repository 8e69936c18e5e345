SPECIFICATION XargsFairSpec
CONSTANTS
  Size = 3
  Job <- MCJobs
  NoJob <- MCNoJob
  Kinds <- AllKinds
  Profiles <- AllProfiles
  Texts <- MCTexts
  MaxArgs <- MCMaxArgs
  Options <- MCOptions
INVARIANTS JobsRunOneAtATime SuccessMeansAllRan IndInv
INVARIANTS ItemsPassedOnce OutputInOrder SuccessMeansAllPassed
PROPERTIES ImplementsService Termination PanicEndsProcess
