SPECIFICATION FairBattery
CONSTANTS
  Voltages = {117, 120, 130, 135}
  Debounce = 2
PROPERTY
  DrainedBlocksPorts
