CONSTANTS
  m1 = m1
  m2 = m2
  Msg <- MCMsg
  Caps <- MCCaps
  MaxLen = 6
  Sentinel = Sentinel
SPECIFICATION Spec
INVARIANTS TypeOK LiveSlotsAreWritten CopyInvariant
PROPERTIES FifoSpec
