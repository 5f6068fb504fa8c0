\* Two uploads of one name, three failures.
SPECIFICATION FairHostSpec
CONSTANTS
  Names       = {a}
  Bytes       = {"-"}
  None        = None
  MaxLen      = 3
  MaxPid      = 5
  MaxRequests = 2
  MaxFaults   = 3
INVARIANTS
  HostTypeOK
  RowsAreSent
  OneRowPerUpload
  RowsAreComplete
  OneServes
  LeftWithinFaults
  AnsweredOnce
PROPERTIES
  HostBlobsLiveOnce
  UploadEnds
