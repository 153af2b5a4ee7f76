SPECIFICATION FilesSpec
CONSTANTS
  NDev = 2
  NInode = 4
  NZone = 6
  BLOCK_DENTRIES = 3
  NTask = 2
  NFd = 2
  NFile = 2
  MaxCount = 4
  f1 = f1
  d1 = d1
  Names = {f1, d1, "dev"}
  Programs <- MCPrograms
  Null = Null
INVARIANTS ZonesExact LinksExact InodesCounted FilesCounted AssertionsHold
CHECK_DEADLOCK FALSE
