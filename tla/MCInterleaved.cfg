\* All programs side by side, two users who ask anything, one fault.
SPECIFICATION Spec
CONSTANTS
  Users       = {u1, u2}
  Md5s        = {m1}
  Names       = {a}
  ShareTotal  = ShareTotal
  None        = None
  Served      = {"upload", "md5", "share", "del", "pv", "shared pv", "cancel", "count", "pvdesc"}
  MaxRequests = 4
  MaxFaults   = 1
  MaxBusy     = 2
  Serialized  = FALSE
  Careful     = FALSE
SYMMETRY UserSymmetry
INVARIANTS
  TypeOK
  StoredWhenListed
  CountsPositive
  OneShareRowPerFile
PROPERTIES
  BlobsLiveOnce
