SPECIFICATION Spec
CONSTANTS
  BytesInMebibyte = 2
  MaxLimit = 200
  Word = 1024
  ProcessNames <- MCProcessNames
  Worlds <- MCWorlds
CHECK_DEADLOCK FALSE
INVARIANTS TypeOK ConfigErrorsComeFirst NothingIgnored CInv HeapFitsContainer OptionsKept OwnEnvironment
