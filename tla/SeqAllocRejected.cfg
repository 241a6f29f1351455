CONSTANTS
  HostIds = {h1, h2, h3}
  RunnerIds = {r1, r2}
  NoOp = NoOp
  MaxSeq = 6
  MaxForks = 1
SYMMETRY Symmetry
SPECIFICATION Spec
INVARIANT NextOutputAccepted
CHECK_DEADLOCK FALSE
