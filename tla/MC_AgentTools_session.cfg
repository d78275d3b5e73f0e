CONSTANTS
  Targets = {t1, t2}
  NoTarget = NoTarget
  NoGroup = NoGroup
  MaxGroups = 1
  Agents = {a1, a2}
  Tools <- SessionTools
  MaxConns = 1
SPECIFICATION Spec
PROPERTIES ActiveTabsArePrivate LiveActiveLostOnlyInRace
SYMMETRY Symmetry
CHECK_DEADLOCK FALSE
