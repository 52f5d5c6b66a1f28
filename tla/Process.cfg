SPECIFICATION ProcessSpec
CONSTANTS
  probe = probe
  g1 = g1
  Request = {probe, g1}
  GRPC = {g1}
  Probe = probe
  Dependency = {"redis", "postgres"}
INVARIANTS ProcessTypeOK RequestsGetTheirTime NoRequestWithoutStores ReadyMeansAllUp EveryDependencyReported GuardsAreEnabled
PROPERTIES ShutdownEnds ProbeReturns GoroutinesEnd
CHECK_DEADLOCK FALSE
