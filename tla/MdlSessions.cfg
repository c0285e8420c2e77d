SPECIFICATION Spec
CONSTANTS
  a = a
  b = b
  c = c
  Contexts = {a, b}
  Locks = {1, 2}
  Strategy <- SchemaAndTable
  TicketNumbers = {1, 2}
  NoTicket = NoTicket
  NoContext = NoContext
  NoLock = NoLock
  Durations = {"STATEMENT", "TRANSACTION", "EXPLICIT"}
  Calls <- SessionCalls
  UpgradeFrom = {"SU"}
  UpgradeTo = {"X"}
  DowngradeTo = {}
  Aborts = {"KILLED"}
  Disconnecting = {a}
  MaxWriteLockCount = 1
  MaxSearchDepth = 4
  MaxHog = 1
  MaxOverweight = 0
INVARIANTS
  GrantedCompatible
  TicketsAccounted
  VictimIsWaiting
PROPERTIES
  AllOrNothing
