\* Rankings beside shares, deletions and downloads, no fault.
SPECIFICATION FairSpec
CONSTANTS
  Users       = {u1}
  Md5s        = {m1, m2}
  Names       = {a}
  ShareTotal  = ShareTotal
  None        = None
  Served      = {"share", "del", "shared pv", "pvdesc"}
  MaxRequests = 4
  MaxFaults   = 0
  MaxBusy     = 2
  Serialized  = FALSE
  Careful     = FALSE
INVARIANTS
  SharedIsRanked
PROPERTIES
  EveryRequestIsAnswered
