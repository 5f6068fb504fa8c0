\* Two users who have the same file, one of them shares it.
SPECIFICATION Spec
CONSTANTS
  Users       = {u1, u2}
  Md5s        = {m1}
  Names       = {a}
  ShareTotal  = ShareTotal
  None        = None
  Served      = {"upload", "md5", "share", "del"}
  MaxRequests = 4
  MaxFaults   = 0
  MaxBusy     = 1
  Serialized  = FALSE
  Careful     = TRUE
INVARIANTS
  ShareTotalIsRows
