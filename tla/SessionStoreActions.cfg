\* Two actions of the store at a time.
CONSTANTS
  f1 = f1
  f2 = f2
  s1 = s1
  s2 = s2
  m1 = m1
  a = a
  b = b
  Folders <- MCFolders
  Sessions <- MCSessions
  Macros <- MCMacros
  Names <- MCNames
  Label <- MCLabel
  Bookmarks <- MCBookmarks
  Slots <- MCSlots
  MaxDepth = 2
  MaxActions = 4
  MaxFaults = 1
SPECIFICATION Spec
INVARIANTS StoreIsTrue InStep NoSilentLoss
CHECK_DEADLOCK FALSE
