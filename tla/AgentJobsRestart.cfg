SPECIFICATION FairJobsSpec
CONSTANTS
  b1 = b1
  b2 = b2
  j1 = j1
  j2 = j2
  j3 = j3
  Batches = {b1, b2}
  Jobs = {j1, j2, j3}
  DocumentsOf <- TwoAndOne
  Quota = 1
  AgentWorker = w
  Workers = {w}
  MaxRestarts = 3
  InitialTicks = 1
  MaxTicks = 32
  Triggers = {"Crash", "StartupTimeout", "HeartbeatTimeout"}
  StableTicks = 30
  OnExhausted = "Quarantined"
  Width = 16
  HealthyTicks = {1}
PROPERTY AgentWorkerComesBack
CHECK_DEADLOCK FALSE
