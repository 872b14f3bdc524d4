SPECIFICATION Spec
CONSTANTS
  Calls = {c1, c2, c3}
  Slugs = {s1, s2}
  Emails = {e1, e2}
  NoForm = NoForm
  NoCall = NoCall
  Faults = {"lost", "unknown"}
  Crashes = TRUE
SYMMETRY Symmetry
INVARIANTS TypeOK SlugsAreUnique RegisteredIsComplete
PROPERTY ImplementsDirectory
\* Every request is answered in the end, or its process has died.
CHECK_DEADLOCK FALSE
