\* Transfers of 0 to 2 bytes, with and without STOP; two masters.
SPECIFICATION Spec
CONSTANTS
  Lengths = {0, 1, 2}
  SendStop = {TRUE, FALSE}
INVARIANTS HandlerExcluded ReturnMeans
PROPERTY EveryTransferReturns
CHECK_DEADLOCK FALSE
