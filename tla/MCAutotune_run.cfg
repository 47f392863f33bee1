SPECIFICATION Spec
CONSTANTS
  NaN = NaN
  FloatMax = 10
  AtConfigs <- TunerConfigs
  PidConfigs <- ControllerConfigs
  Setpoints <- SomeSetpoints
  Measurements <- Samples
  Periods <- SamplePeriods
  GainSets <- OwnGains
INVARIANTS TypeOK TimeIsPartitioned
PROPERTIES DriveWithinRelay AbortRestoresOrigin GainsAreStaged RunEnds
