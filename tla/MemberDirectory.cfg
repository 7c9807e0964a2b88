\* Three programs write one or two members in any order, on a PDS and a PDSE with
\* any of the members there before, with or without extended attributes.
SPECIFICATION Spec
CONSTANTS
  ispf = ispf
  readwriterec = readwriterec
  f2m = f2m
  a = a
  b = b
  None = None
  Programs <- MCPrograms
  Editors <- MCEditors
  Members <- MCMembers
  Todo <- MCTodo
INVARIANTS TypeOK HeldWhileUpdating TimestampIsFresh AnswerIsTrue
PROPERTIES NothingOverwrittenUnseen EveryProgramEnds
