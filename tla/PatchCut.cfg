\* A patch that is applied to a file somebody edited after the diff was made.
SPECIFICATION Spec
CONSTANTS
  Files = 1
  Texts = {a, d}
  Dashed = {d}
  Crossed = {}
  MaxLines = 3
  MaxHunks = 2
  MaxSize = 2
INVARIANT AppliedAsWritten
CHECK_DEADLOCK FALSE
