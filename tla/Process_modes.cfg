\* Each kind of process, with what it does when the signal comes.
SPECIFICATION Spec
CHECK_DEADLOCK FALSE
CONSTANTS
  Nobody = "none"
  AllRows <- MCRows
  Late <- MCLate
  Removable <- MCRemovable
  Disabled = {3}
  CostType = 1
  Requests <- MCRequests
  Satellite = 2
  FixedLimit = 1
  Queries <- MCQueries
  GraphLimit = 3
  Apps = {a1, a2}
  Superkey = {a1}
  UserOwned = {a2}
  OptedIn = {a1, a2}
  Amazon = {a1}
  WithKey = {a1}
  Jobs = {j1, j2}
  RetryMax = 1
  MaxRollbacks = 1
  Here = j1
  MaxMessages = 2
  HealthCapacity = 2
INVARIANTS
  QueriesInv PagesComplete WorkerInv GracefulExit
PROPERTIES
  ShutdownEnds QueryAnswered
