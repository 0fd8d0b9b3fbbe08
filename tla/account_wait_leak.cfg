CONSTANTS
  Invocations = {h1, h2}
  Builts <- MCWaitModule
  Overlays <- MCOverlays
  NoOverlay = NoOverlay
  NoWait = NoWait
  Absent = Absent
  Null = Null
SPECIFICATION Spec

INVARIANTS
  OverlayIsolated
