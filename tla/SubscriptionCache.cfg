SPECIFICATION Spec
CONSTANTS
  a = a
  b = b
  x = x
  y = y
  NOBODY = NOBODY
  Users = {a, b}
  Aliases = {x, y}
  Local <- LocalParts
  Pairs <- SomePairs
  Requests = {"subscribe", "subscribed", "unsubscribe", "unsubscribed", "add", "remove"}
  MAX_ROSTER_ITEMS = 1
  CrashIn = {"subscribed", "unsubscribe", "unsubscribed"}
INVARIANTS
  TypeOK
  CacheCoherent
