CONSTANTS
  Builds = {"b1", "b2"}
  Registerers = {"nil", "default", "own"}
  Foreign <- MCForeign
  MaxEvents = 2
SPECIFICATION Spec
CHECK_DEADLOCK FALSE
INVARIANTS
  EventsExposed
  NewFailsOnlyForForeign
