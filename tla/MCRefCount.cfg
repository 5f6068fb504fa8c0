\* Two users who have the same content.
SPECIFICATION Spec
CONSTANTS
  Users       = {u1, u2}
  Md5s        = {m1}
  Names       = {a}
  ShareTotal  = ShareTotal
  None        = None
  Served      = {"upload", "md5", "del"}
  MaxRequests = 4
  MaxFaults   = 0
  MaxBusy     = 1
  Serialized  = FALSE
  Careful     = TRUE
INVARIANTS
  RefCountIsOwners
