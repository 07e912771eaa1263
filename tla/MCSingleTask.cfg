CONSTANTS
  MaxSlots = 1
  MaxChans = 2
  MaxPolls = 5
  MaxArms = 1
  Caps <- MCCaps
  Ops <- SingleOps
SPECIFICATION Spec
PROPERTIES DirectLoopAgrees
