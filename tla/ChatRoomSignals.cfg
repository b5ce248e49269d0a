CONSTANTS
  t1 = t1
  t2 = t2
  t3 = t3
  m1 = m1
  m2 = m2
  x1 = x1
  x2 = x2
  x3 = x3
  x4 = x4
  x5 = x5
  Threads <- MCThreads3
  levelDeep = 1
  ExIds <- MCExIds3
  Msgs <- MCMsgs1
  RefcountKind = "saturates"
  Signals = TRUE
  Faults = FALSE
  WakeUpAll = WakeUpAll
  ERESTART = ERESTART
  NoMes = NoMes
  NoEx = NoEx
  NoThread = NoThread
CHECK_DEADLOCK FALSE
SPECIFICATION Spec
SYMMETRY Symmetry
INVARIANTS
  IInv
  NoUseAfterFree
  NoLostWakeUp
