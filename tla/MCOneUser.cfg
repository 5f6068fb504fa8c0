\* One user with two contents, one request after the other, no fault, the
\* pages that show the user the files, and a Redis that loses its keys once.
SPECIFICATION PagesSpec
CONSTANTS
  Users       = {u1}
  Md5s        = {m1, m2}
  Names       = {a}
  ShareTotal  = ShareTotal
  None        = None
  Served      = {"upload", "md5", "share", "del", "pv", "shared pv", "cancel", "count", "normal", "pvdesc"}
  MaxRequests = 9
  MaxFaults   = 0
  MaxBusy     = 1
  Serialized  = FALSE
  Careful     = TRUE
  PageSizes   = {1, 2}
  MaxForgets  = 1
SYMMETRY ContentSymmetry
INVARIANTS
  MyFilesTypeOK
  NoOrphans
  TotalCountsShares
  ScoreWithinPv
  RankingIsExact
  FilesAreShown
  NamesFollowMembers
  RankingFailsOnlyNameless
  SharedMarkIsRow
