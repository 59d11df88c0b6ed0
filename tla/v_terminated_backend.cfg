SPECIFICATION Spec
CONSTANTS
  Instance = {i1}
  None = None
  ControlPlane = TRUE
  ClassicLB = FALSE
  BlockVolume = FALSE
  LaunchVolumes = FALSE
  Vnics = FALSE
  AutoDelete = FALSE
  CloudEvents = {"terminate"}
  FinalizerFirst = TRUE
  Budget = 1
INVARIANT NoOrphanBackend
