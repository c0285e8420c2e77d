SPECIFICATION Spec
CONSTANTS
  Threads = {t1, t2, t3}
  Locks = {"write", "flush"}
  Callbacks = {c1, c2}
  NoCallback = NoCallback
  Dummy = Dummy
  NoThread = NoThread
  CallbackSlots = 1
  MaxLsn = 2
  MaxCalls = 1
SYMMETRY Symmetry
INVARIANTS
  TypeOK
  SingleOwner
  PublishedIsDone
  NothingAckedEarly
  NoneLeftBehind
  NoOrphanCallback
  OnePlace
PROPERTIES
  NeverBackwards
  ImplementsDurableLog
