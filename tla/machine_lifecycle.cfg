SPECIFICATION Spec
CONSTANTS
  Instance = {i1, i2}
  None = None
  ControlPlane = FALSE
  ClassicLB = FALSE
  BlockVolume = TRUE
  LaunchVolumes = TRUE
  Vnics = TRUE
  AutoDelete = TRUE
  CloudEvents = {"terminate", "provfail", "stop", "image", "age"}
  FinalizerFirst = TRUE
  Budget = 3
SYMMETRY InstanceSymmetry
INVARIANTS TypeOK AtMostOneInstance NoOrphanInstance
PROPERTIES InstanceIdSticky OwnsInstance
