SPECIFICATION Spec
CONSTANTS
  Client = {c1, c2, c3}
  Name = {airspeed, gforce}
  FgNames = {airspeed}
  CondorNames = {airspeed, gforce}
SYMMETRY Symmetry
\* A transformer that used a deleted source has stopped.
CHECK_DEADLOCK FALSE
INVARIANTS
  SourceOutlivesClients
  AskedForEachRef
