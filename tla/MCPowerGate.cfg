SPECIFICATION FairGate
CONSTANTS
  NumPins = 3
INVARIANT
  PowerTypeOK
PROPERTIES
  BlockedPinsDoNotRise
  CardIsServed
