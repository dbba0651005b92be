SPECIFICATION Spec
CONSTANTS
  MaxRaises = 3
  MaxRestarts = 1
  Samples <- MCSamples
  MaxTurns = 4
INVARIANTS
  NoStrayCall
  ReadyInMain
  OneWipePerTurn
PROPERTIES
  TrapEnds
