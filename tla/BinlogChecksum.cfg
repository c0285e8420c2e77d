SPECIFICATION Spec
CONSTANTS
  t1 = t1
  t2 = t2
  r1 = r1
  Trx = {t1}
  NeedUnlog = {}
  Rotators = {r1}
  ChecksumSetters = {r1}
  Engines <- InnodbOnly
  Flusher = Flusher
  Background = Background
  NoThread = NoThread
  MaxFile = 3
  MaxCrashes = 1
INVARIANTS
  CheckpointFinds
