SPECIFICATION Spec
CONSTANTS
  Owner = owner
  Others = {t1}
  Functors = {f1, f2}
  WakeupChannel = wakeupChannel
  IoChannels = {c1}
PROPERTY
  QuitAlwaysEndsLoop
