SPECIFICATION Spec
CONSTANTS
  NaN = NaN
  FloatMax = 6
  MaxStates = 2
  One = 2
  Configs <- ConfigSets
  GainPairs <- GainSet
  References <- ReferenceSet
  Measurements <- MeasurementSet
  Periods <- PeriodSet
INVARIANTS TypeOK EstimateMatchesDesign CovarianceNonNegative
PROPERTIES LimitsRecovered NoJumpAcrossFaults ImplementsFaultLatch
