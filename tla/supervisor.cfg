SPECIFICATION Spec
CONSTANTS
  None = None
  Ports <- TwoPorts
  SidecarPort = 0
  MaxRestarts = 2
  MaxChildren = 5
INVARIANT TypeOK
INVARIANT LivingIsChild
PROPERTY KeepsAChild
PROPERTY PortBecomesKnown
CHECK_DEADLOCK FALSE
