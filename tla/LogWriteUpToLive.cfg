SPECIFICATION Spec
CONSTANTS
  Threads = {t1, t2}
  Locks = {"write", "flush"}
  Callbacks = {c1}
  NoCallback = NoCallback
  Dummy = Dummy
  NoThread = NoThread
  CallbackSlots = 1
  MaxLsn = 2
  MaxCalls = 1
PROPERTIES
  CallsReturn
  CallbacksRun
