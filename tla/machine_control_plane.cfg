SPECIFICATION FairSpec
CONSTANTS
  Instance = {i1}
  None = None
  ControlPlane = TRUE
  ClassicLB = FALSE
  BlockVolume = TRUE
  LaunchVolumes = FALSE
  Vnics = FALSE
  AutoDelete = FALSE
  CloudEvents = {}
  FinalizerFirst = TRUE
  Budget = 3
INVARIANTS ReadyMeansServing NoOrphanBackend NoOrphanVolume
PROPERTIES DrainedBeforeTerminate BecomesReady DeletionCompletes
