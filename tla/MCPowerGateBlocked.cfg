SPECIFICATION FairGate
CONSTANTS
  NumPins = 2
PROPERTY
  BlockedGoesOff
