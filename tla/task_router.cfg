SPECIFICATION Spec
CONSTANTS
  Text <- MCText
  Question <- MCQuestion
  Suggestions <- MCSuggestions
  Settings <- MCSettings
  Known = {"none", "strong"}
  Asked = {"research", "code", "advice"}
  Cap = {0, 1}
INVARIANTS
  TypeOK
  DocsForTechnicalTask
  NonTechnicalStaysOnWeb
  CapTrimsInOrder
  SuggestionsAccountedFor
  SwitchesHonoured
  DocsSearchIsPlanned
CHECK_DEADLOCK FALSE
