\* One tab and its session, in up to three runs of any kind.
CONSTANTS
  t1 = t1
  s1 = s1
  Tabs <- MCTabs
  Sessions <- MCSessions
  Slots <- MCSlots
  MaxRuns = 3
  EditKinds <- MCEditKinds
  MaxActs = 3
SPECIFICATION Spec
INVARIANTS TabsAndRunsMatch EndIsShown
PROPERTY ImplementsLifecycle
CHECK_DEADLOCK FALSE
