SPECIFICATION Spec
CONSTANTS
  Cpu = Cpu
  Net = Net
  Rate = Rate
  None = None
  Gauges = {Cpu, Net}
  Required = {Cpu}
  MaxSamples = 4
  WindowAge = 3
  MaxFrames = 2
  NarWindow = 2
  ColdSamples = 2
  ReadySamples = 3
  MinHistory = 3
  Interval = 1
  Steps <- MCSteps
  MaxLag = 2
  MaxTotal = 1
INVARIANTS
  TypeOK
  SampleCounts
PROPERTIES
  BecomesReady
