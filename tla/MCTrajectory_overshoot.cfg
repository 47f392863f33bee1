SPECIFICATION Spec
CONSTANTS
  NaN = NaN
  FloatMax = 60
  TrapConfigs <- OvershootSet
  ScurveConfigs <- ScurveSet
  Positions <- PositionSet
  Targets <- OvershootTargets
  Period = 1
  Retargets = 1
PROPERTIES TargetEndsMove
