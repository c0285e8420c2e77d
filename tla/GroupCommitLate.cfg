SPECIFICATION Spec
CONSTANTS
  Groups = {1, 2}
  Users = {}
  Killable = {2}
  MaxKills = 1
  ApplyErrors = {}
  WriteErrors = {}
  SyncErrors = FALSE
  TempTables = {}
  Scheduling = {TRUE}
  NoThread = NoThread
  u1 = u1
INVARIANT NoErrorAfterLogging
