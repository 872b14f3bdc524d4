SPECIFICATION Spec
CONSTANTS
  Calls = {c1, c2}
  Slugs = {s1, s2}
  Emails = {e1}
  NoForm = NoForm
  NoCall = NoCall
  Faults = {}
  Crashes = FALSE
INVARIANT EmailsAreUnique
CHECK_DEADLOCK FALSE
