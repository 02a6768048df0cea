SPECIFICATION FairSpec
CONSTANTS
  Fields = {"hourly", "daily"}
  MaxMeasurements = 2
  Initially = 0
  MaxFaults = 2
INVARIANT CountedOnce
INVARIANT NothingSkipped
PROPERTY EverythingCounted
