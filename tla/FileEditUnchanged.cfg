SPECIFICATION ToolsSpec
CONSTANTS
  DriveOptions <- MCDriveOptions
  Formats <- MCFormats
  NoFormat = "none"
  MountOptions <- MCMountOptions
  NoOptions = "default"
  CHAR_MAX = 3
  UCHAR_MAX = 7
  SIZE_MAX = 15
  MaxOptions = 3
  Paths <- MCPaths
  Root = "/"
  StrLen <- MCStrLen
  Under <- MCUnder
  Tables <- MCTables
  Char <- MCChar
  Partitions <- MCPartitions
  LogicalVolumes <- MCLogicalVolumes
  PhysicalVolume <- MCPhysicalVolume
  Layouts <- MCLayouts
  All <- MCAll
  NoUuid <- MCNoUuid
  Passphrases = {"k1", "k2"}
  Clevis = "clevis"
  Selectors <- MCSelectors
  original = original
  same_size = same_size
  longer = longer
  partial = partial
  Contents <- MCContents
  Original = original
  Partial = partial
  Size <- MCSize
  MaxClock = 2
  Characters <- MCCharacters
  Flags <- MCFlags
  Binaries <- MCBinaries
  NoBinary = "nobinary"
  Values <- MCValues
  Unquoted <- MCUnquoted
  Raws <- MCRaws
  Elements <- MCElements
  NoId = "noid"
  PastTheEnd <- MCPastTheEnd
  MaxCalls = 4
  MaxFailures = 1
PROPERTY UnchangedMeansUnchanged
CHECK_DEADLOCK FALSE
