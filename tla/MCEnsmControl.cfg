\* Who has control after a calibration.
SPECIFICATION Spec
INVARIANT ControlReturns
