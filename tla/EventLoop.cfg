SPECIFICATION Spec
CONSTANTS
  Owner = owner
  Others = {t1, t2}
  Functors = {f1, f2, f3}
  WakeupChannel = wakeupChannel
  IoChannels = {c1}
INVARIANTS
  LoopInv
  NoLostWakeup
PROPERTIES
  ImplementsTaskQueue
  QueuedFunctorRuns
  QuitEndsLoop
