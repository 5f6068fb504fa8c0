\* Two users, a password and the empty one, tokens that expire, one fault.
SPECIFICATION Spec
CONSTANTS
  Users       = {u1, u2}
  Nicks       = {n1, n2}
  Pwds        = {empty, p1}
  Empty       = empty
  None        = None
  Lifetime    = 2
  MaxTime     = 3
  MaxRequests = 5
  MaxFaults   = 1
SYMMETRY AccountSymmetry
INVARIANTS
  TypeOK
  AcceptedIsRegistered
  LastAnswerIsStored
PROPERTIES
  RegisteredIsAdmitted
