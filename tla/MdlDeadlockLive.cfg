SPECIFICATION FairSpec
CONSTANTS
  a = a
  b = b
  c = c
  Contexts = {a, b}
  Locks = {1, 2}
  Strategy <- TwoTables
  TicketNumbers = {1, 2}
  NoTicket = NoTicket
  NoContext = NoContext
  NoLock = NoLock
  Durations = {"TRANSACTION"}
  Calls <- CrossCalls
  UpgradeFrom = {"SU", "SW"}
  UpgradeTo = {"X"}
  DowngradeTo = {"SU"}
  Aborts = {}
  Disconnecting = {}
  MaxWriteLockCount = 1
  MaxSearchDepth = 4
  MaxHog = 1
  MaxOverweight = 0
PROPERTIES
  EveryCallReturns
