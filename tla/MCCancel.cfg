\* One user who shares two files and cancels.
SPECIFICATION Spec
CONSTANTS
  Users       = {u1}
  Md5s        = {m1, m2}
  Names       = {a}
  ShareTotal  = ShareTotal
  None        = None
  Served      = {"upload", "share", "cancel"}
  MaxRequests = 5
  MaxFaults   = 0
  MaxBusy     = 1
  Serialized  = FALSE
  Careful     = TRUE
INVARIANTS
  CancelIsAnswered
