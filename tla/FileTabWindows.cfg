\* A file tab and a properties window.
SPECIFICATION Spec
CONSTANTS
  Servers <- MCServers
  Sftp <- MCSftp
  Linked <- MCLinked
  Dirs <- MCDirs
  Root = "root"
  Names <- MCNames
  Hidden <- MCHidden
  Typed <- MCTyped
  Modes <- MCModes
  Windows <- MCWindows
  Slots <- MCSlots
  MaxActs = 4
  MaxFaults = 1
CHECK_DEADLOCK FALSE
INVARIANTS ListingIsTrue DeletedWasChosen ReportsAreTrue
