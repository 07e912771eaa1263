CONSTANTS
  MaxSlots = 2
  MaxChans = 2
  MaxPolls = 4
  MaxArms = 2
  Caps <- CapOne
  Ops <- SelectOps
SPECIFICATION FairSpec
INVARIANTS NothingLostOrDuplicated QuiescentClose
PROPERTIES RunReturns
