SPECIFICATION Spec
CONSTANTS
  BagTopics <- MCBagTopics
  Selections <- MCSelections
  GraphTopics <- MCGraphTopics
  FilterOptions <- MCFilterOptions
  KnownTypes <- MCKnownTypes
  Endpoints <- MCEndpoints
  MaxPublishers = 2
  QosOptions <- MCQosOptions
  Versions = {8, 9}
INVARIANTS
  PlayedTopicsAgree
  QuietTopicsAreRecorded
  PlayerServesTheSame
PROPERTY
  AnswersAreFresh
\* Questions about a selection have no next step.
CHECK_DEADLOCK FALSE
