\* One window, and two updates, of the window or of the main process.  To one window
\* the updates of another are the main process's: they meet in the queue only.
SPECIFICATION Spec
CONSTANTS
  Windows = {w1}
  App = app
  MaxUpdates = 2
  RetryCap = 1
INVARIANTS
  TypeOK
  ReadIsCurrent
  QuietWindowShowsLast
  AnswerNamesWrite
PROPERTIES
  CommitIsShown
