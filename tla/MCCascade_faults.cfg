SPECIFICATION Spec
CONSTANTS
  NaN = NaN
  FloatMax = 3
  OuterConfigs <- MasterConfigs
  InnerConfigs <- SlaveConfigs
  Setpoints <- FaultSetpoints
  Measurements <- FaultMeasurements
  Handoffs <- FaultHandoffs
  Periods <- OnePeriod
  OuterLimits <- NewOuterLimits
  InnerLimits <- NewInnerLimits
  Stack <- Unwritten
  SpLo <- RangeLo
  SpHi = 2
  Lo <- RangeLo
  Hi <- RangeHi
INVARIANTS TypeOK OuterIntegralBounded CascadeBumpless
PROPERTIES LoopsImplementLatch ManualFreezesBothLoops
