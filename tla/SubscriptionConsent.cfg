SPECIFICATION Spec
CONSTANTS
  a = a
  b = b
  x = x
  y = y
  NOBODY = NOBODY
  Users = {a, b}
  Aliases = {x}
  Local <- LocalParts
  Pairs <- AliasPairs
  Requests = {"subscribe", "subscribed", "unsubscribed", "add"}
  MAX_ROSTER_ITEMS = 4
  CrashIn = {"subscribed"}
INVARIANTS
  ToHasFrom
  ShownOnlyAuthorised
  SubscriberSees
