CONSTANTS
  np = np
  np2 = np2
  small = small
  large = large
  Obj = {np}
  Begins <- NoPrefix
  Cfg = {small, large}
  Size = {1, 2}
  Place = {0, 1}
  MaxEdits = 1
  Budget = 2
SPECIFICATION FairSpec
INVARIANTS TypeOK OnePool NoOrphan RecordedConfLives
PROPERTIES Converges DeleteCompletes
CHECK_DEADLOCK FALSE
