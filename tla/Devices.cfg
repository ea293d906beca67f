\* Three monitors, one gamepad and four keys, and five things that happen to them.
SPECIFICATION Spec
CONSTANTS
  Monitor = {m1, m2, m3}
  MaxEvents = 5
SYMMETRY MonitorSymmetry
INVARIANTS TransitionsAreExact StuckOnlyAfterModifier MonitorsAreListed
PROPERTY WindowKeepsItsMonitor
\* The program may abort.
CHECK_DEADLOCK FALSE
