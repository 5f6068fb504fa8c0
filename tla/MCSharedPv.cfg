\* One user who shares a file that is downloaded.
SPECIFICATION Spec
CONSTANTS
  Users       = {u1}
  Md5s        = {m1}
  Names       = {a}
  ShareTotal  = ShareTotal
  None        = None
  Served      = {"upload", "share", "shared pv"}
  MaxRequests = 3
  MaxFaults   = 0
  MaxBusy     = 1
  Serialized  = FALSE
  Careful     = TRUE
INVARIANTS
  SharedPvSucceeds
