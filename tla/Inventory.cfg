SPECIFICATION InventorySpec
CONSTANTS
  song = song
  tune = tune
  noise = noise
  PathCount = 3
  Contents <- MCContents
  Undecodable <- MCUndecodable
  MaxEdits = 2
  MaxKills = 1
  MaxTimeouts = 1
  MaxFaults = 2
SYMMETRY MCSymmetry
INVARIANTS CacheIsTrue
PROPERTIES PathsAreCurrent StatusesAreTrue
