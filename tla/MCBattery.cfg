SPECIFICATION FairBattery
CONSTANTS
  Voltages = {0, 117, 120, 125, 128, 130, 135}
  Debounce = 3
INVARIANT
  BatteryTypeOK
PROPERTIES
  MovesAreSustained
  ImplementsServiceLevels
  ChargedIsNormal
