CONSTANTS
  Invocations = {h1, h2}
  Builts <- MCSyncModule
  Overlays <- MCOverlays
  NoOverlay = NoOverlay
  NoWait = NoWait
  Absent = Absent
  Null = Null
SPECIFICATION Spec
SYMMETRY Symmetry
INVARIANTS
  OverlayIsolated
  
