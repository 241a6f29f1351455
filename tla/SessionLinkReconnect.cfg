CONSTANTS
  Conns = {c1, c2, c3}
  NoConn = NoConn
  Payloads = {good}
  Rejected = {}
  Retention = 1
  MaxUp = 0
  MaxDown = 1
  MaxFaults = 2
SYMMETRY Symmetry
SPECIFICATION Spec
INVARIANT ReconnectReplaysHead
CHECK_DEADLOCK FALSE
