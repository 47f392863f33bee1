SPECIFICATION Spec
CONSTANTS
  NaN = NaN
  FloatMax = 10
  MaxStates = 2
  One = 2
  Configs <- UnreachableSets
  GainPairs <- GainSet
  References <- ReferenceSet
  Measurements <- MeasurementSet
  Periods <- PeriodSet
INVARIANTS SolvedGainIsFinite
