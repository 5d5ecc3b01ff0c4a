SPECIFICATION Spec
CONSTANTS
  MaxPacketSize = 70
  Stamps <- SomeStamps
  Configs <- SomeConfigs
  PayloadTypes <- SomeTypes
  WordLists <- SomeWords
  Paddings <- SomePaddings
  Contents <- SomeContents
  Times <- SomeTimes
  Junk <- SomeJunk
  MaxSent = 2
  MaxEffort = 3
INVARIANTS
  SizeIsWritten
  NumbersFollow
  NothingLeft
PROPERTIES
  DeliversInOrder
CHECK_DEADLOCK FALSE
