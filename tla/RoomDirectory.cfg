CONSTANTS
  t1 = t1
  t2 = t2
  t3 = t3
  r1 = r1
  r2 = r2
  r3 = r3
  r4 = r4
  k1 = k1
  k2 = k2
  Threads <- MCThreads3
  RoomIds <- MCRooms3
  Keys <- MCKeys1
  Private = Private
  MaxTag = 3
  min_sys_ROOM = 1
  Limits <- MCLimits
  RefcountKind = "saturates"
  NoRoom = NoRoom
  NoValue = NoValue
SPECIFICATION Spec
SYMMETRY Symmetry
INVARIANTS
  TypeOK
  TreesAgree
  RefsExact
  IInv
  LimitOvershoot
PROPERTY ImplementsDirectory
