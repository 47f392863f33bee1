SPECIFICATION Spec
CONSTANTS
  NaN = NaN
  FloatMax = 3000
  One = 4
  MaxWindow = 4
  MaxSections = 2
  Cycle = 1000
  SinCos <- PhaseTable
  FilterConfigs <- KindConfigs
  Cutoffs <- CutoffSet
  Retunes <- RetuneSet
  Inputs <- InputSet
  Periods <- PeriodSet
  MaxSamples = 4
INVARIANTS TypeOK OutputIsHistory
PROPERTIES ImplementsFaultLatch
