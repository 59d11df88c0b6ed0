SPECIFICATION FairSpec
CONSTANTS
  Instance = {i1}
  None = None
  ControlPlane = TRUE
  ClassicLB = TRUE
  BlockVolume = FALSE
  LaunchVolumes = FALSE
  Vnics = FALSE
  AutoDelete = TRUE
  CloudEvents = {"terminate", "provfail", "stop", "image"}
  FinalizerFirst = TRUE
  Budget = 2
PROPERTIES TerminationDeletesMachine DeletionCompletes
