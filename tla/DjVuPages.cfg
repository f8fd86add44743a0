SPECIFICATION Spec
CONSTANTS
  MaxTasks = 2
  Kinds = {"bundled", "indirect", "single"}
  Needs <- MCNeeds
  Directory <- MCDirectory
  Pages <- MCPages
  Large = {1}
  MemoryLimits = {3}
  UseLists <- MCUseLists
  Limit = 2
  MaxFaults = 1
INVARIANTS AnswersAreTheirOwn OneAtATime MemoryIsCounted
PROPERTIES EveryPromiseIsSettled
CHECK_DEADLOCK FALSE
