SPECIFICATION Spec
CONSTANTS
  NaN = NaN
  FloatMax = 3
  Lo <- RangeLo
  Hi <- RangeHi
  NewConfigs <- FaultConfigs
  GainSets <- NewGains
  LimitPairs <- NewLimits
  FilterCoeffs <- NewFilters
  AwSettings <- NewAw
  Feedforwards <- NewFf
  Configs <- FaultConfigs
  Inputs <- FaultInputs
  Periods <- FaultPeriods
INVARIANTS TypeOK OutputInActuatorRange ConfigInForceValid
PROPERTIES CallbackOncePerLatch LimitRecovery ImplementsFaultLatch RejectionIsAtomic NoActuatorJump
