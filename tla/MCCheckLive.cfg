CONSTANTS
  Jobs = {"a", "b", "c"}
  a1 = a1
  a2 = a2
  b1 = b1
  c1 = c1
  Workers = {a1, b1, c1}
  Processes = {"p", "q"}
  Keys = {"proof", "bad"}
  JobOf <- LiveJobOf
  ProcessOf <- MCProcessOf
  Module <- LiveModule
  Admitted = {"proof"}
  Sites <- MCSites
  Obligations <- LiveObligations
  Large = {"bad"}
  Proofs <- LiveProofs
  MaxEntries = 1
  None = None
SPECIFICATION Spec
PROPERTY EveryCheckReturns
CHECK_DEADLOCK FALSE
