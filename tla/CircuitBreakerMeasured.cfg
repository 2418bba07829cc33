SPECIFICATION Spec
CONSTANTS
  Requests = {r1}
  Readings <- SampleReadings
  Drifts = {2}
  Threshold = 1
  Absent = Absent
  MaxRuns = 1
INVARIANT MeasuredBreachHalts
