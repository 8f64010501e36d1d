CONSTANTS
  Undefined = Undefined
  Transport <- MCTransport
  Descriptor <- MCDescriptor
  Policy <- MCPolicy
  MaxProviders = 3
SPECIFICATION Spec
CHECK_DEADLOCK FALSE
INVARIANTS
  CompatibleIffServiceable
  CompatibleWorkerFindsAdapter
  WorkerHonoursPreference
  ReasonNamesFirstObstacle
