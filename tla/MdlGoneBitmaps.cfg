SPECIFICATION Spec
CONSTANTS
  a = a
  b = b
  c = c
  Contexts = {a, b}
  Locks = {1}
  Strategy <- OneTable
  TicketNumbers = {1}
  NoTicket = NoTicket
  NoContext = NoContext
  NoLock = NoLock
  Durations = {"TRANSACTION"}
  Calls <- DropCalls
  UpgradeFrom = {}
  UpgradeTo = {"X"}
  DowngradeTo = {}
  Aborts = {}
  Disconnecting = {a}
  MaxWriteLockCount = 10
  MaxSearchDepth = 4
  MaxHog = 0
  MaxOverweight = 0
INVARIANTS
  BitmapsTell
