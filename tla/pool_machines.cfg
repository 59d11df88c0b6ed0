CONSTANTS
  a = a
  b = b
  Inst = {a, b}
  Budget = 1
SPECIFICATION FairSpec
INVARIANTS OneMirror OnlyOrphansDeleted
PROPERTIES Mirrored
