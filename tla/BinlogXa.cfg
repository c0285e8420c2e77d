SPECIFICATION FairSpec
CONSTANTS
  t1 = t1
  t2 = t2
  r1 = r1
  Trx = {t1, t2}
  NeedUnlog = {t2}
  Rotators = {r1}
  ChecksumSetters = {}
  Engines <- InnodbOnly
  Flusher = Flusher
  Background = Background
  NoThread = NoThread
  MaxFile = 3
  MaxCrashes = 1
INVARIANTS
  TypeOK
  CheckpointFinds
  CheckpointRenewed
  EngineMatchesBinlog
  CountExact
PROPERTIES
  CheckpointsInOrder
  OldFilesReleased
