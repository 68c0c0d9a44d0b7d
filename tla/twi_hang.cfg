\* Violated: after a refused transfer the next one never returns.
SPECIFICATION Spec
CONSTANTS
  Lengths = {0, 1, 2}
  SendStop = {TRUE}
PROPERTY AnyTransferReturns
CHECK_DEADLOCK FALSE
