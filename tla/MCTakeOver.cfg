\* One user deletes a content while another takes it over.
SPECIFICATION Spec
CONSTANTS
  Users       = {u1, u2}
  Md5s        = {m1}
  Names       = {a}
  ShareTotal  = ShareTotal
  None        = None
  Served      = {"upload", "md5", "del"}
  MaxRequests = 3
  MaxFaults   = 0
  MaxBusy     = 2
  Serialized  = TRUE
  Careful     = TRUE
INVARIANTS
  ListedIsStored
