SPECIFICATION Spec
CONSTANTS
  Groups = {1, 2, 3}
  Users = {}
  Killable = {2}
  MaxKills = 1
  ApplyErrors = {1}
  WriteErrors = {1}
  SyncErrors = FALSE
  TempTables = {1}
  Scheduling = {TRUE, FALSE}
  NoThread = NoThread
  u1 = u1
INVARIANTS PriorFirst WaiterIsKnown
PROPERTIES EveryoneEnds
