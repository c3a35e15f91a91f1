\* Two lines, two commands, one garbled byte.
CONSTANTS
  BufferSize = 2
  LineLengths <- MCLineLengths
  Quits = {1}
  LineEnds <- MCLineEnds
  Payloads <- MCPayloads
  MaxCommands = 2
  MaxErrors = 1
SPECIFICATION Spec
INVARIANTS TypeOK AnsweredByItsOwn RunsWholeLines
PROPERTIES ImplementsCommands CommandReturns
