SPECIFICATION MCSpec
CONSTANTS
  Limit       = 2
  MaxRequests = 5
  MaxTarget   = 6
  Disk        <- MCDisk
INVARIANTS
  TypeOK
  OneOfEach
  QueryIsIgnored
  RootIsIndex
PROPERTIES
  ImplementsChannel
  SessionEnds
