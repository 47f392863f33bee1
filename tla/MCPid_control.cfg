SPECIFICATION Spec
CONSTANTS
  NaN = NaN
  FloatMax = 100
  Lo <- RangeLo
  Hi <- RangeHi
  NewConfigs = {}
  GainSets = {}
  LimitPairs = {}
  FilterCoeffs = {}
  AwSettings = {}
  Feedforwards = {}
  Configs <- ControlConfigs
  Inputs <- ControlInputs
  Periods <- ControlPeriods
INVARIANTS BumplessTransfer
PROPERTIES StatusExplainsOutput
