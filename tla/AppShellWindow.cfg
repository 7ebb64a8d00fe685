\* The frame of the window around two terminals.
SPECIFICATION Spec
CONSTANTS
  Tabs <- MCTabs
  Widths <- MCWidths
  Options <- MCOptions
  Dialogs <- MCDialogs
  Items <- MCItems
  MaxChunks = 3
  MaxActs = 3
  MaxEdits = 1
  MaxFaults = 1
CHECK_DEADLOCK FALSE
INVARIANTS TerminalIsOfTab PreferencesAreTrue LateAnswersAreHarmless
PROPERTIES SidebarSettles
