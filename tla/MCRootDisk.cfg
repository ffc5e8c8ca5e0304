SPECIFICATION Spec
CONSTANTS
  Sectors = 4
  SectorBytes = 2
  BlockSectors = 2
  CacheBlocks = 1
  MinSectors = 2
  MaxSectors = 9
  Val = {v0, v1}
  Tables <- MCTables
  MaxBytes = 2
INVARIANTS
  CopiesMirrorMedium
PROPERTIES
  OnlyTheVolume
  ImplementsStableStore
SYMMETRY Perms
VIEW View
