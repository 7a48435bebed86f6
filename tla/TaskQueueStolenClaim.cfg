SPECIFICATION Spec
CONSTANTS
  d1 = d1 c1 = c1 c2 = c2 h1 = h1 h2 = h2 h3 = h3 t1 = t1 t2 = t2
  None = None
  Tasks = {t1}
  Deployments = {d1}
  Consumers = {c1, c2}
  Handlers = {h1, h2}
  DeploymentOf <- OneDeployment
  KindOf <- OneList
  ConsumerOf <- TwoConsumers
  BatchSize = 2
  Lease = 2
  Delay = 1
  MaxAttempts = 3
  MaxInflightRetries = 1
  MaxFaults = 0
PROPERTY LiveClaimNotTaken
CHECK_DEADLOCK FALSE
