SPECIFICATION Spec
CONSTANTS
  NaN = NaN
  FloatMax = 400
  TrapConfigs <- TrapSet
  ScurveConfigs <- ScurveSet
  Positions <- PositionSet
  Targets <- TargetSet
  Period = 1
  Retargets = 2
INVARIANTS TypeOK WithinLimits ClockMatchesSegments
PROPERTIES Continuous MovesEnd
