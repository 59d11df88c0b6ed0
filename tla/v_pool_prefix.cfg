CONSTANTS
  np = np
  np2 = np2
  small = small
  large = large
  Obj = {np, np2}
  Begins <- NamePrefix
  Cfg = {small, large}
  Size = {1, 2}
  Place = {0, 1}
  MaxEdits = 0
  Budget = 0
SPECIFICATION Spec
INVARIANTS RecordedConfLives
CHECK_DEADLOCK FALSE
