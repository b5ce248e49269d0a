CONSTANTS
  t1 = t1
  t2 = t2
  r1 = r1
  r2 = r2
  k1 = k1
  Threads <- MCThreads
  RoomIds <- MCRooms
  Keys <- MCKeys
  Private = Private
  MaxTag = 2
  min_sys_ROOM = 1
  Limits <- MCLimits
  RefcountKind = "saturates"
  NoRoom = NoRoom
  NoValue = NoValue
SPECIFICATION WalkSpec
INVARIANT StatusReadsLive
