\* Liveness under fair threads, restarts included.
SPECIFICATION FairSpec
CONSTANTS
  t1 = t1 r1 = r1 r2 = r2
  NoRun = NoRun NoTab = NoTab NoProfile = NoProfile
  Tabs <- MCOneTab
  Runs <- MCTwoRuns
  Profiles <- MCPrompted
  Widths <- MCNoWidths
  DefaultWidth = 2
PROPERTIES EndedRunQuiesces ConnectingIsLeft
