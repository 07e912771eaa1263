CONSTANTS
  Executions = {1, 2, 3}
  InstallOrder <- MCInstallOrder
  Queues = {"a", "b"}
  Capacity <- MCCapacity
  Shape <- MCShape
  HostTokens = {h1}
  MaxEdges = 2
  MaxGeneration = 2
  MaxSlips = 1
SPECIFICATION Spec
INVARIANTS
  TypeOK
  QueuesSettled
  AtMostOnce
  NothingLostInOrder
  RunnableIsQueued
  WaitsAreRegistered
CHECK_DEADLOCK FALSE
