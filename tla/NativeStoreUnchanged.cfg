\* One update, which changes nothing.
SPECIFICATION Spec
CONSTANTS
  Windows = {w1}
  App = app
  MaxUpdates = 1
  RetryCap = 1
INVARIANTS
  UnchangedPublishesNothing
