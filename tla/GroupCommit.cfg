SPECIFICATION Spec
CONSTANTS
  Groups = {1, 2}
  Users = {u1}
  Killable = {2}
  MaxKills = 2
  ApplyErrors = {1}
  WriteErrors = {1, u1}
  SyncErrors = TRUE
  TempTables = {1}
  Scheduling = {TRUE, FALSE}
  NoThread = NoThread
  u1 = u1
INVARIANTS TypeOK SameOrder PriorFirst  WaiterIsKnown
PROPERTIES LeaderIsFirst
