SPECIFICATION Spec
CONSTANTS
  Scripts <- MCScripts
  MaxPayload = 120
  LongRun = 12
INVARIANTS HandledInOrder FieldsSurvive
PROPERTIES EverythingHandled UnacceptableCloses
CHECK_DEADLOCK FALSE
