SPECIFICATION Spec
CONSTANTS
  a = a
  b = b
  c = c
  Contexts = {a, b, c}
  Locks = {1, 2, 3}
  Strategy <- ThreeTables
  TicketNumbers = {1, 2}
  NoTicket = NoTicket
  NoContext = NoContext
  NoLock = NoLock
  Durations = {"TRANSACTION"}
  Calls <- RingCalls
  UpgradeFrom = {}
  UpgradeTo = {"X"}
  DowngradeTo = {}
  Aborts = {}
  Disconnecting = {}
  MaxWriteLockCount = 10
  MaxSearchDepth = 4
  MaxHog = 0
  MaxOverweight = 0
SYMMETRY Symmetry
INVARIANTS
  NoUndetectedDeadlock
