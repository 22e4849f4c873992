CONSTANTS
  Packs = 1
  Events = 1
  Speech = {said}
SPECIFICATION Spec
PROPERTIES
  ObservationEnds
  LauncherEnds
CHECK_DEADLOCK FALSE
