CONSTANTS
  MaxSlots = 3
  MaxChans = 1
  MaxPolls = 4
  MaxArms = 1
  Caps <- CapOne
  Ops <- TypedFrameOps
SPECIFICATION Spec
INVARIANTS NoMissingRecipe NothingLostOrDuplicated PerSenderOrder TypedRingIsExclusive
PROPERTIES CapacityHolds MovesAreAccounted
