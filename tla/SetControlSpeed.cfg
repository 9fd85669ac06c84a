\* One undisturbed call for a shutter speed that the camera offers.
CONSTANTS
  Kind = "speed"
  Scale <- MCSpeeds
  Targets <- MCSpeedSet
  MaxCalls = 1
  MaxDials = 0
  MaxLates = 0
  MaxFaults = 0
SPECIFICATION Spec
INVARIANT GotValue
