CONSTANTS
  MaxSlots = 3
  MaxChans = 1
  MaxPolls = 4
  MaxArms = 1
  Caps <- MCCaps
  Ops <- CoreOps
SPECIFICATION FairSpec
INVARIANTS TypeOK LiveTablesAgree NothingLostOrDuplicated QuiescentClose
PROPERTIES CapacityHolds EndedForGood RunReturns
