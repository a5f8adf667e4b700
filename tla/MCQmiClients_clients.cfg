SPECIFICATION Spec
CONSTANTS
  a1 = a1
  a2 = a2
  p1 = p1
  p2 = p2
  c1 = c1
  c2 = c2
  i1 = i1
  i2 = i2
  AdapterList <- One
  Physical <- Alone
  Client = {c1, c2}
  App = {p1, p2}
  Uses <- UsesA1
  Services <- OneService
  ClientService = 1
  MaxTid = 4
  MaxId = 3
  Irp = {i1, i2}
  QmiInitRetries = 2
  WdsAdmin = {}
  Scenarios <- Programs
INVARIANTS TypeOK AnswersMatch ItemsAreCurrent OneHolder NoIdLeaks FilesReachTheirClients OpensAreCounted FreedIsNotUsed
SYMMETRY Sym
CHECK_DEADLOCK FALSE
