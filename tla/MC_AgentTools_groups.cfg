CONSTANTS
  Targets = {t1, t2}
  NoTarget = NoTarget
  NoGroup = NoGroup
  MaxGroups = 2
  Agents = {a1, a2}
  Tools <- GroupTools
  MaxConns = 1
SPECIFICATION Spec
INVARIANTS TableInv ActsInOwnLane
PROPERTIES ImplementsLanes StolenOnlyInWindow
SYMMETRY Symmetry
CHECK_DEADLOCK FALSE
