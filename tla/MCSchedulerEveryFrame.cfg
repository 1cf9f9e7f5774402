CONSTANTS
  g1 = g1
  g2 = g2
  g3 = g3
  k1 = k1
  k2 = k2
  Targets = {g1, g2}
  NoTarget = NoTarget
  Keys = {k1, k2}
  Uses <- DelayedUses
  Steps = {2}
  Ids = {1, 2, 3}
SPECIFICATION Spec
INVARIANTS UpdatedEveryFrame
