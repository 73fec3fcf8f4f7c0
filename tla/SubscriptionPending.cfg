SPECIFICATION Spec
CONSTANTS
  a = a
  b = b
  x = x
  y = y
  NOBODY = NOBODY
  Users = {a, b}
  Aliases = {}
  Local <- LocalParts
  Pairs <- OtherPairs
  Requests = {"subscribe", "subscribed", "unsubscribe", "unsubscribed"}
  MAX_ROSTER_ITEMS = 4
  CrashIn = {}
INVARIANTS
  PendingDelivered
