SPECIFICATION ProgramsSpec
\* A program ends.
CHECK_DEADLOCK FALSE
CONSTANTS
  Guests <- MCGuests
  Users = {"root", "user"}
  password_crypto = "none"
  NewHost <- MCNewHost
  Texts <- MCTexts
  PREAD_SIZE = 2
  NoText = NoText
  Sources <- MCSources
  block_driver_priority <- MCPriority
  Flags <- MCFlags
  Selectors <- MCSelectors
  Keys = {"k1"}
  MaxOps = 2
  MaxPrograms = 2
  NoDevice = NoDevice
  NoName = NoName
  NoLetter = NoLetter
  Unreadable = Unreadable
  NULL = NULL
  Null = Null
  Names = {"Users", "users", "a", "b"}
  Exceptions = {"Not_found", "Exit"}
  MaxRemovals = 1
  Types = {"windows", "linux", ""}
  DriveMappings <- MCDriveMappings
  Filesystems <- MCFilesystems
  Paths <- MCPaths
  Attributes <- MCAttributes
  SameName <- MCSameName
  Threads = {t1, t2}
  Regexps = {"re"}
  Subjects = {s1, s2}
  Groups = 2
  MaxMatches = 3
  MaxObjects = 4
INVARIANT NothingDangles
