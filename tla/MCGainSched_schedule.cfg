SPECIFICATION Spec
CONSTANTS
  NaN = NaN
  FloatMax = 9
  Tables <- AnyTables
  Sigmas <- AnySigmas
  InitialConfigs <- Initial
  GainSets <- OwnGains
  Inputs <- StepInputs
  MaxBreakpoints = 8
INVARIANTS InForceIsScheduled
PROPERTIES IntegralKeptInSegment
