SPECIFICATION Spec
CONSTANTS
  Name = {flt, ro, dbl}
  Sized = {flt, ro}
  Writable = {flt, dbl}
  Value = {v0, v1}
  Placeholder = v0
  None = None
  MaxDisturbance = 7
\* Nothing happens from outside after MaxDisturbance.
CHECK_DEADLOCK FALSE
INVARIANTS
  HeldOnce
  LatestIsCurrent
PROPERTIES
  Settles
