\* Two users at work at the same time, each awaiting the answers, one fault.
SPECIFICATION Spec
CONSTANTS
  Users       = {u1, u2}
  Md5s        = {m1}
  Names       = {a, b}
  ShareTotal  = ShareTotal
  None        = None
  Served      = {"upload", "md5", "share", "del", "save"}
  MaxRequests = 5
  MaxFaults   = 1
  MaxBusy     = 2
  Serialized  = TRUE
  Careful     = TRUE
SYMMETRY UserSymmetry
INVARIANTS
  DriftWithinFaults
