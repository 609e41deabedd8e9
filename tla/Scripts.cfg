SPECIFICATION FairSpec
CONSTANTS
  Programs <- MCPrograms
  Scripts <- MCScriptNumbers
  Banks <- Compiled
  Meaning <- FieldsAfter
  SFields <- MCSFields
  MFields <- MCMFields
  Routed <- MCRouted
  Notes <- CodeNotes
  RouteValues = {0, 1, 3}
  MaxChanges = 2
  REGISTERS_BANK = 16
  INT_BITS = 16
  WIDTH = 16
  MAX_REGISTERS = 256
  MAX_LABELS = 256
  MAX_REFS = 30
  MAX_INTS = 128
INVARIANTS
  TypeOK
  CodeIsSound
  FramesInRegisters
  ReadsOwnWrites
  RunsAsWritten
PROPERTIES
  CallsReturn
CHECK_DEADLOCK FALSE
