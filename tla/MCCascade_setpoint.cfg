SPECIFICATION Spec
CONSTANTS
  NaN = NaN
  FloatMax = 9
  OuterConfigs <- External
  InnerConfigs <- SlaveConfigs
  Setpoints <- QuietSetpoints
  Measurements <- QuietMeasurements
  Handoffs <- FaultHandoffs
  Periods <- OnePeriod
  OuterLimits = {}
  InnerLimits = {}
  Stack <- Unwritten
  SpLo <- RangeLo
  SpHi = 2
  Lo <- RangeLo
  Hi <- RangeHi
PROPERTIES SetpointIsClamped
