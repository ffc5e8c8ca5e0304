SPECIFICATION FairSpec
CONSTANTS
  Sectors = 3
  SectorBytes = 2
  BlockSectors = 1
  CacheBlocks = 1
  MinSectors = 1
  MaxSectors = 9
  Val = {0, 1}
  Tables <- MCTablesSmall
  MaxBytes = 2
PROPERTIES
  RequestsEnd
