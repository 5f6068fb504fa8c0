\* One user with two requests at once.
SPECIFICATION Spec
CONSTANTS
  Users       = {u1}
  Md5s        = {m1, m2}
  Names       = {a, b}
  ShareTotal  = ShareTotal
  None        = None
  Served      = {"upload", "md5"}
  MaxRequests = 3
  MaxFaults   = 0
  MaxBusy     = 2
  Serialized  = FALSE
  Careful     = TRUE
INVARIANTS
  CountIsRows
