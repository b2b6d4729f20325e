SPECIFICATION Spec
CONSTANTS
  Run = {u1, u2, u3}
  Version = {v1, v2, v3}
  Absent = Absent
  Mixed = Mixed
SYMMETRY Symmetry
INVARIANT InstallationsNeverLost
CHECK_DEADLOCK FALSE
