SPECIFICATION Spec
CONSTANTS
  Unset = Unset
  Blank = Blank
  InvalidHeader = InvalidHeader
  Environments <- MCEnvironments
  Names <- MCNames
  Uris <- MCUris
  HeaderLists <- MCHeaderLists
  PrefixLists <- MCPrefixLists
  AttributeLists <- MCAttributeLists
  KnobValues <- MCKnobValues
  MaxCalls = 2
INVARIANTS
  TypeOK
  ActiveIffUsable
  LastSetterWins
  AttributesOverlaid
  OffMeansOff
CHECK_DEADLOCK FALSE
