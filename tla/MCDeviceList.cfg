\* Two devices.
SPECIFICATION Spec
CONSTANTS
  Devices = {d1, d2}
  First = First
  Wild = Wild
INVARIANT RegisteredAreListed
CHECK_DEADLOCK FALSE
