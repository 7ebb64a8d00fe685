\* Two instances, killed and cut off at any step, with a retention of three.
SPECIFICATION Spec
CONSTANTS
  p1 = p1
  p2 = p2
  noProc = noProc
  noFile = noFile
  noState = noState
  NoState = noState
  Procs <- MCProcs
  NoProc = noProc
  States <- MCStates
  SeedState <- MCSeedState
  Changes <- MCChanges
  Effect <- MCEffect
  NoFile = noFile
  FirstFiles <- MCFirstFiles
  FirstBackups <- MCFirstBackups
  KeepCount = 3
  MaxCommands = 2
  MaxFaults = 1
SYMMETRY Instances
INVARIANTS
  StateIsWhole
PROPERTIES
  UnsupportedIsKept
  MigrationKeepsOriginal
  NewestAreKept
  ImplementsStateFile
