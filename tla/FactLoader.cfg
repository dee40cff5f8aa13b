SPECIFICATION Spec
CONSTANTS
  None = None
  Requests = {"q1", "q2"}
  Keys = {"a", "b", "c"}
  Callers = {1, 2, 3}
  Clients = {1, 2, 3}
  RequestOf <- Requesters
  Plans <- SharedOrNot
  Resources = {"workers", "bytes"}
  Weights <- LightAndHeavy
  ColdWeight <- ColdWeights
  Configs <- ThreeConfigs
  Parallelism <- LoadsAtOnce
  FactBytes <- DecodedBytes
  MaxBytes = 1
  MaxEntries = 1
  MaxFaults = 1
CHECK_DEADLOCK FALSE
INVARIANTS
  HeadDoesNotFit
  ChargesAreResident
  OneFlightPerKey
  NoLostWakeup
  NoSilentHole
PROPERTIES
  NoOvertaking
  RequestsEnd
