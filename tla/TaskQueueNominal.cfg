SPECIFICATION FairSpec
CONSTANTS
  d1 = d1 c1 = c1 c2 = c2 h1 = h1 h2 = h2 h3 = h3 t1 = t1 t2 = t2
  None = None
  Tasks = {t1, t2}
  Deployments = {d1}
  Consumers = {c1, c2}
  Handlers = {h1, h2}
  DeploymentOf <- OneDeployment
  KindOf <- ListAndStop
  ConsumerOf <- TwoConsumers
  BatchSize = 2
  Lease = 1
  Delay = 1
  MaxAttempts = 2
  MaxInflightRetries = 1
  MaxFaults = 1
INVARIANTS SoleCarrier AttemptsWithinCap
PROPERTIES SerialSpec InFlightListKept EveryTaskSettles
CHECK_DEADLOCK FALSE
