\* Three contents, one of them as long as the intended one; three attempts, two foreign writes.
SPECIFICATION FairSpec
CONSTANTS
  Content = {intended, twin, other}
  Intended = intended
  Absent = absent
  SameSize = {intended, twin}
  MaxAttempts = 3
  MaxForeign = 2
INVARIANTS
  AppliedOnce
PROPERTIES
  WriteKept
  TaskEnds
