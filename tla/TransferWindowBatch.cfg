\* A batch of two children, the main window and one transfer window.
CONSTANTS
  Main = Main
  sub = sub
  Subs <- MCSubs
  N = 2
  MaxRetries = 1
  MaxLag = 1
SPECIFICATION Spec
INVARIANTS RowsAreTrue
PROPERTIES OnlyRetryGoesBack CompletionArrives
CHECK_DEADLOCK FALSE
