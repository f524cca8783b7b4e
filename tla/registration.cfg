CONSTANTS
  Tools = {"a", "b"}
  MaxRequests = 2
  Outcomes = {"result", "unserializable", "generic", "NotFound", "Argument", "Details", "Failed", "Unavailable", "RetryAfter", "Denied"}
  Swallows = FALSE
SPECIFICATION Spec
INVARIANTS
  HandlerThere
  CatalogAllowed
CHECK_DEADLOCK FALSE
