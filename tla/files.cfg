CONSTANTS
  Cwd <- MCCwd
  Disk <- MCDisk
  Names <- MCNames
  DefaultPaths <- MCDefaultPaths
  UserPaths <- MCUserPaths
  MainFiles <- MCMainFiles
  AddsPaths = TRUE
  MaxDepth = 3
  MaxLoads = 5
SPECIFICATION Spec
INVARIANTS TypeOK ReportShowsFile UserPathsFirst
PROPERTIES LookupsStay
\* The program ends: all files are read, or one was not found.
CHECK_DEADLOCK FALSE
