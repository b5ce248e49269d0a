CONSTANTS
  MaxKey = 8
  Keys <- MCKeys
  Addresses <- MCAddresses
  NULL = NULL
SPECIFICATION Spec
VIEW Shape
INVARIANTS
  TypeOK
  WellLinked
  Balanced
  IInv
PROPERTIES
  ImplementsSet
  LoopsAdvance
