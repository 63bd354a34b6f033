SPECIFICATION CookieSpec
CONSTANTS
  Requests = {r1, r2}
  Keys = {k1}
  Messages = {m1}
  Overlap = FALSE
  Stores = {"server", "cookie", "noop"}
  Background = {"server"}
  MaxRevision <- MCMaxRevision
  Instances = {i1, i2}
  Reencrypts = {i1}
  MaxAge = 1
  MaxPayloadSize = 1
  MaxClock = 2
  NoCookie = NoCookie
INVARIANTS
  CleanIsSaved
  OneShot
PROPERTIES
  RotationKeepsSession
SYMMETRY SessionSymmetry
CHECK_DEADLOCK FALSE
