SPECIFICATION Spec
CONSTANTS
  a = a
  b = b
  c = c
  Contexts = {a, b, c}
  Locks = {1}
  Strategy <- OneTable
  TicketNumbers = {1, 2}
  NoTicket = NoTicket
  NoContext = NoContext
  NoLock = NoLock
  Durations = {"TRANSACTION"}
  Calls <- AlterCalls
  UpgradeFrom = {"SU", "SNW"}
  UpgradeTo = {"SNW", "X"}
  DowngradeTo = {"SU"}
  Aborts = {"TIMEOUT"}
  Disconnecting = {}
  MaxWriteLockCount = 1
  MaxSearchDepth = 4
  MaxHog = 1
  MaxOverweight = 0
INVARIANTS
  MdlTypeOK
  GrantedCompatible
  BitmapsTell
  NoWeakMissed
PROPERTIES
  NoFalseDeadlock
