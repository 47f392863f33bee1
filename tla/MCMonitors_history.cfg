SPECIFICATION MonitorsSpec
CONSTANTS
  NaN = NaN
  FloatMax = 100
  OscWindow = 4
  Attachments <- OneAtATime
  HealthConfigs <- Watches
  MetricsConfigs <- Measures
  Samples <- SampleSet
  MaxSamples = 5
INVARIANTS StatusIsHistory MetricsAreHistory
PROPERTIES ConditionsLatch
