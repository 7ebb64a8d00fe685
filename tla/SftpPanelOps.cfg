\* Two operations of the panel at a time, over two links.
CONSTANTS
  l1 = l1
  l2 = l2
  Links <- MCLinks
  Dirs <- MCDirs
  Root = "/"
  Names <- MCNames
  Typed <- MCTyped
  Batches <- MCBatches
  Slots <- MCSlots
  MaxActs = 2
  MaxFaults = 1
SPECIFICATION Spec
INVARIANTS OldFilesKept PanelIsTrue HalfIsTold
PROPERTY PanelSettles
CHECK_DEADLOCK FALSE
