SPECIFICATION Spec
CONSTANTS
  Configured <- Timings
  OperationLists <- Lists
  MaxChanges = 4
INVARIANTS
  GreensInBand
  ExtensionNeedsRoomOnly
  RulesBrokenOnlyByRepeats
PROPERTIES
  EmsPriorityLostOnlyByRollback
