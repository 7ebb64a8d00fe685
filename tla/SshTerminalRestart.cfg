\* One tab, started again and resized while threads of its earlier run are
\* alive.
SPECIFICATION Spec
CONSTANTS
  t1 = t1 r1 = r1 r2 = r2
  NoRun = NoRun NoTab = NoTab NoProfile = NoProfile
  Tabs <- MCOneTab
  Runs <- MCTwoRuns
  Profiles <- MCTwoProfiles
  Widths <- MCWidths
  DefaultWidth = 3
SYMMETRY RunSymmetry
INVARIANTS SingleDriver RegistryIsTrue RegisteredRunHasLatestSize
PROPERTY ImplementsLifecycle
