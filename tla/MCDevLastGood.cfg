CONSTANTS
  Codes = {"good", "hidden", "illtyped", "unparsable"}
  Unparsable = {"unparsable"}
  Ill = {"illtyped"}
  Places = {"web", "dist"}
  PlaceOf <- MCPlaceOf
  Skipped = {"dist"}
  Assets = {"plain", "missing"}
  Unpublishable = {"missing"}
  MaxEdits = 3
  MaxFaults = 1
  None = None
SPECIFICATION Spec
INVARIANT LastGoodKept
CHECK_DEADLOCK FALSE
