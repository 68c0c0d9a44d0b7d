\* Violated: a wrong-path instruction stalled in ID survives the taken branch.
SPECIFICATION Spec
CONSTANTS
  Insns = {"alu", "load", "brTaken"}
  Ids = {0}
  SlowData = TRUE
  DbgWrites <- NoDebugger
INVARIANT OnlyRightPathExecutes
