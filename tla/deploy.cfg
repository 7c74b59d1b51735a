\* A migrate command, a worker and an API over one database.
SPECIFICATION DeploymentSpec
CONSTANTS
  m = m
  a = a
  w = w
  NULL = NULL
  Processes = {m, w, a}
  Files <- OldAndNew
  Role <- Roles
  Environ <- Environs
  Requests = {q1, q2}
  MaxUses = 2
  Environments <- Tried
  TimeoutLimit = 2000000
INVARIANTS
  OnRecord
  ServesUpToDate
  StopsGracefully
  AcceptedServes
PROPERTIES
  ImplementsHistory
  MigrateEnds
  RequestsEnd
  StopsWhenTold
CHECK_DEADLOCK FALSE
