SPECIFICATION NaptSpec
CONSTANTS
  Client = {c1, c2}
  Ender = {event}
PROPERTY CountingNeedsNapt
