CONSTANTS
  Jobs = {"a", "b", "c"}
  a1 = a1
  a2 = a2
  b1 = b1
  c1 = c1
  Workers = {a1, a2, b1, c1}
  Processes = {"p", "q"}
  Keys = {"large", "bad"}
  JobOf <- MCJobOf
  ProcessOf <- MCProcessOf
  Module <- MCModule
  Admitted = {"large"}
  Sites <- MCSites
  Obligations <- MCObligations
  Large = {"large"}
  Proofs <- MCProofs
  MaxEntries = 1
  None = None
SPECIFICATION Spec
SYMMETRY Symmetry
INVARIANTS
  VerdictsSound
  OutcomeIsSequential
  SingleFlight
  PartialFileIsBeingWritten
CHECK_DEADLOCK FALSE
