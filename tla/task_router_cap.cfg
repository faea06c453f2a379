SPECIFICATION Spec
CONSTANTS
  Text <- MCText
  Question <- MCQuestion
  Suggestions <- MCSuggestions
  Settings <- MCSettings
  Known = {"none", "strong"}
  Asked = {"research", "code", "advice"}
  Cap = {0, 1}
INVARIANTS
  CapHolds
CHECK_DEADLOCK FALSE
