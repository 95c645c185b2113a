SPECIFICATION FairSpec
CONSTANTS
  Servers = {s1, s2}
  Hydrated = {s2}
  DbMayFail = TRUE
CHECK_DEADLOCK FALSE
INVARIANTS TypeOK OnlyCrashesAreUnexpected
PROPERTY AllReaped
